--------------------------- MODULE SettlementWatch ---------------------------
(***************************************************************************)
(* How one contract's result reaches the journal: monitor_settlement of    *)
(* execution/executor.py over the contract stream of deriv/client.py.      *)
(* Each process of the bot that knows the contract has one such monitor    *)
(* (two of them run while a deployment replaces one process by the next).  *)
(* The stream is a bounded queue the pump fills; a reconnect loses it.     *)
(* A poll asks Deriv directly.  An update shows the contract as it was     *)
(* when Deriv sent it: live, expired (over but not sold) or sold.          *)
(***************************************************************************)
EXTENDS Integers, Sequences, FiniteSets

CONSTANTS
  Monitors,    \* processes with a settlement task for the contract
  QueueSize,   \* maxsize of a contract queue (50 in the code)
  \* bounds on the environment, not in the code:
  MaxUpdates,  \* stream updates Deriv sends
  MaxFaults    \* requests that fail and lost streams

ASSUME WatchAssumption ==
  IsFiniteSet(Monitors) /\ QueueSize \in Nat \ {0} /\ {MaxUpdates, MaxFaults} \subseteq Nat

State == {"live", "expired", "sold"}

VARIABLES
  contract,  \* the contract at Deriv
  settled,   \* its journal row has a result
  counted,   \* how often each process has moved its counters for it
  pc,        \* the await of each monitor
  answer,    \* its pending request
  poc,       \* the last state it has seen
  queue,     \* the contract queue of its client
  listed,    \* the queue is registered with the pump
  stream,    \* Deriv pushes updates to it
  told,      \* a sold update has been put into that queue
  updates, faults

taskVars == <<pc, answer, poc>>
streamVars == <<queue, listed, stream, told>>
vars == <<contract, settled, counted, taskVars, streamVars, updates, faults>>

TypeOK ==
  /\ contract \in State /\ settled \in BOOLEAN
  /\ counted \in [Monitors -> Nat]
  /\ pc \in [Monitors -> {"subscribing", "waiting", "forgetting", "polling", "sleeping",
                          "done"}]
  /\ answer \in [Monitors -> State \cup {"pending", "failed"}]
  /\ poc \in [Monitors -> State \cup {"unknown"}]
  /\ queue \in [Monitors -> Seq(State)]
  /\ \A m \in Monitors : Len(queue[m]) <= QueueSize
  /\ {listed, stream, told} \subseteq [Monitors -> BOOLEAN]
  /\ updates \in 0..MaxUpdates /\ faults \in 0..MaxFaults

(* Every monitor has registered its queue and sent its subscription.       *)
Init ==
  /\ contract = "live" /\ settled = FALSE
  /\ counted = [m \in Monitors |-> 0]
  /\ pc = [m \in Monitors |-> "subscribing"]
  /\ answer = [m \in Monitors |-> "pending"]
  /\ poc = [m \in Monitors |-> "unknown"]
  /\ queue = [m \in Monitors |-> <<>>]
  /\ listed = [m \in Monitors |-> TRUE]
  /\ stream = [m \in Monitors |-> FALSE]
  /\ told = [m \in Monitors |-> FALSE]
  /\ updates = 0 /\ faults = 0

Fault == faults < MaxFaults /\ faults' = faults + 1

-----------------------------------------------------------------------------
(* The client's pump                                                       *)

MutantPushedAll(q, update) == Append(q, update)

MutantPushed(q, update) == IF Len(q) < QueueSize THEN Append(q, update) ELSE q

(* _route_contract_update: a full queue loses its oldest update.           *)
Pushed(q, update) == Append(IF Len(q) < QueueSize THEN q ELSE Tail(q), update)

Route(m, update) ==
  IF listed[m]
  THEN /\ queue' = [queue EXCEPT ![m] = Pushed(@, update)]
       /\ told' = [told EXCEPT ![m] = @ \/ update = "sold"]
  ELSE UNCHANGED <<queue, told>>

(* The answer to the subscription carries the first update, which the pump *)
(* routes as well.                                                         *)
SubscriptionAnswered(m) ==
  /\ pc[m] = "subscribing" /\ answer[m] = "pending"
  /\ answer' = [answer EXCEPT ![m] = contract]
  /\ Route(m, contract)
  /\ stream' = [stream EXCEPT ![m] = TRUE]
  /\ UNCHANGED <<contract, settled, counted, pc, poc, listed, updates, faults>>

StreamUpdate(m) ==
  /\ stream[m] /\ updates < MaxUpdates
  /\ updates' = updates + 1
  /\ Route(m, contract)
  /\ UNCHANGED <<contract, settled, counted, taskVars, listed, stream, faults>>

(* A reconnect: contract streams are not subscribed again.                 *)
StreamLost(m) ==
  /\ stream[m] /\ Fault
  /\ stream' = [stream EXCEPT ![m] = FALSE]
  /\ UNCHANGED <<contract, settled, counted, taskVars, queue, listed, told, updates>>

PollAnswered(m) ==
  /\ pc[m] = "polling" /\ answer[m] = "pending"
  /\ answer' = [answer EXCEPT ![m] = contract]
  /\ UNCHANGED <<contract, settled, counted, pc, poc, streamVars, updates, faults>>

(* The request times out, the socket dies or Deriv answers with an error;  *)
(* Deriv may have set up the stream all the same.                          *)
RequestFails(m) ==
  /\ pc[m] \in {"subscribing", "polling"} /\ answer[m] = "pending" /\ Fault
  /\ answer' = [answer EXCEPT ![m] = "failed"]
  /\ \/ UNCHANGED stream
     \/ pc[m] = "subscribing" /\ stream' = [stream EXCEPT ![m] = TRUE]
  /\ UNCHANGED <<contract, settled, counted, pc, poc, queue, listed, told, updates>>

-----------------------------------------------------------------------------
(* wait_for_settlement                                                     *)

(* The defensive second push of the first update gives way to a full queue.*)
FirstPushed(q, update) == IF Len(q) < QueueSize THEN Append(q, update) ELSE q

Subscribed(m) ==
  /\ pc[m] = "subscribing" /\ answer[m] \in State
  /\ pc' = [pc EXCEPT ![m] = "waiting"]
  /\ queue' = [queue EXCEPT ![m] = FirstPushed(@, answer[m])]
  /\ UNCHANGED <<contract, settled, counted, answer, poc, listed, stream, told, updates,
                 faults>>

(* Subscribing is outside the try block: the queue stays registered.       *)
SubscribeRaises(m) ==
  /\ pc[m] = "subscribing" /\ answer[m] = "failed"
  /\ pc' = [pc EXCEPT ![m] = "polling"]
  /\ answer' = [answer EXCEPT ![m] = "pending"]
  /\ UNCHANGED <<contract, settled, counted, poc, streamVars, updates, faults>>

(* The queue is dropped before the forget request is awaited.              *)
Forget(m) ==
  /\ pc' = [pc EXCEPT ![m] = "forgetting"]
  /\ listed' = [listed EXCEPT ![m] = FALSE]
  /\ UNCHANGED <<contract, settled, counted, answer, stream, told, updates, faults>>

TakeUpdate(m) ==
  /\ pc[m] = "waiting" /\ queue[m] # <<>> /\ Head(queue[m]) = "live"
  /\ poc' = [poc EXCEPT ![m] = "live"]
  /\ queue' = [queue EXCEPT ![m] = Tail(@)]
  /\ UNCHANGED <<contract, settled, counted, pc, answer, listed, stream, told, updates,
                 faults>>

TakeLastUpdate(m) ==
  /\ pc[m] = "waiting" /\ queue[m] # <<>> /\ Head(queue[m]) \in {"sold", "expired"}
  /\ poc' = [poc EXCEPT ![m] = Head(queue[m])]
  /\ queue' = [queue EXCEPT ![m] = <<>>]
  /\ Forget(m)

(* The contract's length plus the grace period are over, at whatever state *)
(* the queue is in.                                                        *)
Deadline(m) ==
  /\ pc[m] = "waiting"
  /\ queue' = [queue EXCEPT ![m] = <<>>]
  /\ Forget(m)
  /\ UNCHANGED poc

-----------------------------------------------------------------------------
(* monitor_settlement                                                      *)

IsSold(update) == update = "sold"

MutantBook(m) ==
  /\ settled' = TRUE
  /\ counted' = [counted EXCEPT ![m] = @ + 1]
  /\ pc' = [pc EXCEPT ![m] = "done"]

(* record_trade_result is idempotent and says whether it stored anything;  *)
(* only then do the counters of this process move.                         *)
Book(m) ==
  /\ settled' = TRUE
  /\ counted' = IF settled THEN counted ELSE [counted EXCEPT ![m] = @ + 1]
  /\ pc' = [pc EXCEPT ![m] = "done"]

(* The forget request is answered, or fails with an error of Deriv, which  *)
(* is ignored.                                                             *)
Forgotten(m) ==
  /\ pc[m] = "forgetting"
  /\ stream' = [stream EXCEPT ![m] = FALSE]
  /\ IF IsSold(poc[m])
     THEN Book(m) /\ UNCHANGED answer
     ELSE /\ pc' = [pc EXCEPT ![m] = "polling"]
          /\ answer' = [answer EXCEPT ![m] = "pending"]
          /\ UNCHANGED <<settled, counted>>
  /\ UNCHANGED <<contract, poc, queue, listed, told, updates, faults>>

(* Any other exception of the forget request replaces the result.          *)
ForgetRaises(m) ==
  /\ pc[m] = "forgetting" /\ Fault
  /\ poc' = [poc EXCEPT ![m] = "unknown"]
  /\ pc' = [pc EXCEPT ![m] = "polling"]
  /\ answer' = [answer EXCEPT ![m] = "pending"]
  /\ UNCHANGED <<contract, settled, counted, streamVars, updates>>

PollEnds(m) ==
  /\ pc[m] = "polling" /\ answer[m] # "pending"
  /\ poc' = [poc EXCEPT ![m] = IF answer[m] = "failed" THEN "unknown" ELSE answer[m]]
  /\ IF IsSold(answer[m])
     THEN Book(m)
     ELSE pc' = [pc EXCEPT ![m] = "sleeping"] /\ UNCHANGED <<settled, counted>>
  /\ UNCHANGED <<contract, answer, streamVars, updates, faults>>

MutantPollAgain(m) ==
  /\ pc[m] = "sleeping" /\ poc[m] # "unknown"
  /\ pc' = [pc EXCEPT ![m] = "polling"]
  /\ answer' = [answer EXCEPT ![m] = "pending"]
  /\ UNCHANGED <<contract, settled, counted, poc, streamVars, updates, faults>>

PollAgain(m) ==
  /\ pc[m] = "sleeping"
  /\ pc' = [pc EXCEPT ![m] = "polling"]
  /\ answer' = [answer EXCEPT ![m] = "pending"]
  /\ UNCHANGED <<contract, settled, counted, poc, streamVars, updates, faults>>

(* Deriv                                                                   *)
Expire ==
  /\ contract = "live" /\ contract' = "expired"
  /\ UNCHANGED <<settled, counted, taskVars, streamVars, updates, faults>>

Sell ==
  /\ contract # "sold" /\ contract' = "sold"
  /\ UNCHANGED <<settled, counted, taskVars, streamVars, updates, faults>>

Waiting(m) ==
  \/ SubscriptionAnswered(m) \/ RequestFails(m) \/ Subscribed(m) \/ SubscribeRaises(m)
  \/ StreamUpdate(m) \/ StreamLost(m) \/ TakeUpdate(m) \/ TakeLastUpdate(m) \/ Deadline(m)

Polling(m) ==
  Forgotten(m) \/ ForgetRaises(m) \/ PollAnswered(m) \/ PollEnds(m) \/ PollAgain(m)

Next == (\E m \in Monitors : Waiting(m) \/ Polling(m)) \/ Expire \/ Sell

Spec == Init /\ [][Next]_vars

(* Requests are answered, timers run out, Deriv sells every contract.  No  *)
(* stream update ever has to come.                                         *)
FairSpec ==
  /\ Spec /\ WF_vars(Sell)
  /\ \A m \in Monitors :
       /\ WF_vars(SubscriptionAnswered(m) \/ Subscribed(m) \/ SubscribeRaises(m))
       /\ WF_vars(Deadline(m)) /\ WF_vars(Forgotten(m))
       /\ WF_vars(PollAnswered(m) \/ PollEnds(m) \/ PollAgain(m))

-----------------------------------------------------------------------------
(* The update that ends the contract is never pushed out of a full queue   *)
(* nor shadowed: a monitor that still waits has it ahead of it.            *)
SoldUpdateIsKept ==
  \A m \in Monitors : pc[m] = "waiting" /\ told[m] =>
                        \E i \in DOMAIN queue[m] : queue[m][i] = "sold"

(* The counters move exactly once for a contract, whichever process books  *)
(* it and however many monitors saw it sold.                               *)
CountedOnce ==
  Cardinality({m \in Monitors : counted[m] > 0}) = (IF settled THEN 1 ELSE 0)
    /\ \A m \in Monitors : counted[m] <= 1

(* What TradeLifecycle takes for granted of a settlement task: it books    *)
(* what Deriv has sold, and it always does in the end.                     *)
Promise == INSTANCE SettlementPromise WITH deal <- contract = "sold", booked <- settled

ImplementsFairPromise == Promise!FairSpec
=============================================================================

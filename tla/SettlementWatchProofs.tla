----------------------- MODULE SettlementWatchProofs -------------------------
(***************************************************************************)
(* Proofs about SettlementWatch for every finite set of monitoring         *)
(* processes, every queue size and every bound on updates and faults.      *)
(***************************************************************************)
EXTENDS SettlementWatch, FiniteSetTheorems, SequenceTheorems, TLAPS

-----------------------------------------------------------------------------
(* A contract queue                                                        *)

HasSold(q) == \E i \in DOMAIN q : q[i] = "sold"

(* All that a queue says of the contract is in a set of states.            *)
Says(q, S) == \A i \in DOMAIN q : q[i] \in S

LEMMA AppendedTo ==
  ASSUME NEW q \in Seq(State), NEW u \in State
  PROVE  /\ Append(q, u) \in Seq(State)
         /\ Len(Append(q, u)) = Len(q) + 1
         /\ u = "sold" \/ HasSold(q) => HasSold(Append(q, u))
         /\ \A S : Says(q, S) /\ u \in S => Says(Append(q, u), S)
<1>1. /\ Append(q, u) \in Seq(State)
      /\ Len(Append(q, u)) = Len(q) + 1
      /\ \A i \in 1..Len(q) : Append(q, u)[i] = q[i]
      /\ Append(q, u)[Len(q) + 1] = u
  BY AppendProperties
<1>2. /\ Len(q) \in Nat /\ DOMAIN q = 1..Len(q)
      /\ DOMAIN Append(q, u) = 1..Len(q) + 1
  BY <1>1, LenProperties
<1>3. u = "sold" \/ HasSold(q) => HasSold(Append(q, u))
  <2>1. CASE u = "sold"
    <3>1. Len(q) + 1 \in DOMAIN Append(q, u)
      BY <1>2
    <3> QED
      BY <1>1, <2>1, <3>1 DEF HasSold
  <2>2. CASE HasSold(q)
    <3>1. PICK i \in 1..Len(q) : q[i] = "sold"
      BY <1>2, <2>2 DEF HasSold
    <3>2. i \in DOMAIN Append(q, u) /\ Append(q, u)[i] = "sold"
      BY <1>1, <1>2, <3>1
    <3> QED
      BY <3>2 DEF HasSold
  <2> QED
    BY <2>1, <2>2
<1>4. ASSUME NEW S, Says(q, S), u \in S PROVE Says(Append(q, u), S)
  <2>1. ASSUME NEW i \in 1..Len(q) + 1 PROVE Append(q, u)[i] \in S
    <3>1. CASE i \in 1..Len(q)
      BY <1>1, <1>2, <1>4, <3>1 DEF Says
    <3>2. CASE i = Len(q) + 1
      BY <1>1, <1>4, <3>2
    <3> QED
      BY <1>2, <3>1, <3>2
  <2> QED
    BY <1>2, <2>1 DEF Says
<1> QED
  BY <1>1, <1>3, <1>4

LEMMA TailOf ==
  ASSUME NEW q \in Seq(State), q # <<>>
  PROVE  /\ Tail(q) \in Seq(State)
         /\ Len(Tail(q)) = Len(q) - 1 /\ Len(q) \in Nat \ {0}
         /\ Head(q) \in State /\ Head(q) = q[1] /\ 1 \in DOMAIN q
         /\ Head(q) # "sold" /\ HasSold(q) => HasSold(Tail(q))
         /\ \A S : Says(q, S) => Says(Tail(q), S)
<1>1. /\ Tail(q) \in Seq(State) /\ Head(q) \in State /\ Head(q) = q[1]
      /\ Len(Tail(q)) = Len(q) - 1
      /\ \A i \in 1..Len(Tail(q)) : Tail(q)[i] = q[i + 1]
  BY HeadTailProperties
<1>2. /\ Len(q) \in Nat \ {0} /\ DOMAIN q = 1..Len(q)
      /\ DOMAIN Tail(q) = 1..Len(q) - 1
  BY <1>1, LenProperties, EmptySeq
<1>3. ASSUME Head(q) # "sold", HasSold(q) PROVE HasSold(Tail(q))
  <2>1. PICK i \in 1..Len(q) : q[i] = "sold"
    BY <1>2, <1>3 DEF HasSold
  <2>2. i # 1
    BY <1>1, <1>3, <2>1
  <2>3. i - 1 \in 1..Len(q) - 1 /\ (i - 1) + 1 = i
    BY <1>2, <2>2
  <2>4. Tail(q)[i - 1] = "sold"
    BY <1>1, <2>1, <2>3
  <2> QED
    BY <1>2, <2>3, <2>4 DEF HasSold
<1>4. ASSUME NEW S, Says(q, S) PROVE Says(Tail(q), S)
  <2>1. ASSUME NEW i \in 1..Len(q) - 1 PROVE Tail(q)[i] \in S
    <3>1. i + 1 \in 1..Len(q)
      BY <1>2
    <3> QED
      BY <1>1, <1>2, <1>4, <3>1 DEF Says
  <2> QED
    BY <1>2, <2>1 DEF Says
<1>5. 1 \in DOMAIN q
  BY <1>2
<1> QED
  BY <1>1, <1>2, <1>3, <1>4, <1>5

(* What the pump puts into a queue: the bound is kept, a sold update is in *)
(* the queue afterwards, and nothing is in it that was not there or put.   *)
LEMMA PushedInto ==
  ASSUME NEW q \in Seq(State), Len(q) <= QueueSize, NEW u \in State
  PROVE  /\ Pushed(q, u) \in Seq(State) /\ Len(Pushed(q, u)) <= QueueSize
         /\ u = "sold" => HasSold(Pushed(q, u))
         /\ \A S : Says(q, S) /\ u \in S => Says(Pushed(q, u), S)
<1>1. QueueSize \in Nat \ {0} /\ Len(q) \in Nat
  BY WatchAssumption, LenProperties
<1>2. CASE Len(q) < QueueSize
  BY <1>1, <1>2, AppendedTo DEF Pushed
<1>3. CASE ~ (Len(q) < QueueSize)
  <2>1. q # <<>> /\ Len(q) = QueueSize
    BY <1>1, <1>3, EmptySeq
  <2>2. /\ Tail(q) \in Seq(State) /\ Len(Tail(q)) = Len(q) - 1
        /\ \A S : Says(q, S) => Says(Tail(q), S)
    BY <2>1, TailOf
  <2>3. Pushed(q, u) = Append(Tail(q), u)
    BY <1>3 DEF Pushed
  <2>4. /\ Append(Tail(q), u) \in Seq(State)
        /\ Len(Append(Tail(q), u)) = Len(Tail(q)) + 1
        /\ u = "sold" => HasSold(Append(Tail(q), u))
        /\ \A S : Says(Tail(q), S) /\ u \in S => Says(Append(Tail(q), u), S)
    BY <2>2, AppendedTo
  <2>5. Len(Append(Tail(q), u)) <= QueueSize
    BY <1>1, <2>1, <2>2, <2>4
  <2> QED
    BY <2>2, <2>3, <2>4, <2>5
<1> QED
  BY <1>2, <1>3

LEMMA FirstPushedInto ==
  ASSUME NEW q \in Seq(State), Len(q) <= QueueSize, NEW u \in State
  PROVE  /\ FirstPushed(q, u) \in Seq(State) /\ Len(FirstPushed(q, u)) <= QueueSize
         /\ HasSold(q) => HasSold(FirstPushed(q, u))
         /\ \A S : Says(q, S) /\ u \in S => Says(FirstPushed(q, u), S)
<1>1. QueueSize \in Nat \ {0} /\ Len(q) \in Nat
  BY WatchAssumption, LenProperties
<1> QED
  BY <1>1, AppendedTo DEF FirstPushed

-----------------------------------------------------------------------------
(* Types                                                                   *)

(* The types of the variables one at a time, as the cases need them.       *)
LEMMA EmptyQueue == <<>> \in Seq(State) /\ Len(<<>>) = 0 /\ Len(<<>>) <= QueueSize
<1>1. QueueSize \in Nat \ {0}
  BY WatchAssumption
<1> QED
  BY <1>1

LEMMA RouteType ==
  ASSUME TypeOK, NEW m \in Monitors, NEW u \in State, Route(m, u)
  PROVE  /\ queue' \in [Monitors -> Seq(State)]
         /\ \A n \in Monitors : Len(queue'[n]) <= QueueSize
         /\ told' \in [Monitors -> BOOLEAN]
<1>1. CASE listed[m]
  <2>1. /\ queue' = [queue EXCEPT ![m] = Pushed(queue[m], u)]
        /\ told' = [told EXCEPT ![m] = told[m] \/ u = "sold"]
    BY <1>1 DEF Route
  <2>2. Pushed(queue[m], u) \in Seq(State) /\ Len(Pushed(queue[m], u)) <= QueueSize
    BY PushedInto DEF TypeOK
  <2> QED
    BY <2>1, <2>2 DEF TypeOK
<1>2. CASE ~ listed[m]
  BY <1>2 DEF Route, TypeOK
<1> QED
  BY <1>1, <1>2

LEMMA BookType ==
  ASSUME TypeOK, NEW m \in Monitors, Book(m)
  PROVE  /\ settled' \in BOOLEAN /\ counted' \in [Monitors -> Nat]
         /\ pc' \in [Monitors -> {"subscribing", "waiting", "forgetting", "polling",
                                 "sleeping", "done"}]
<1>1. counted[m] + 1 \in Nat
  BY DEF TypeOK
<1> QED
  BY <1>1 DEF Book, TypeOK

(* Every variable of the settlement monitors keeps its type and every      *)
(* contract queue its bound: _route_contract_update never exceeds maxsize. *)
THEOREM TypeCorrect == Spec => []TypeOK
<1>1. ASSUME Init PROVE TypeOK
  <2>1. /\ queue \in [Monitors -> Seq(State)]
        /\ \A m \in Monitors : Len(queue[m]) <= QueueSize
    BY <1>1, EmptyQueue DEF Init
  <2>2. updates \in 0..MaxUpdates /\ faults \in 0..MaxFaults
    BY <1>1, WatchAssumption DEF Init
  <2> QED
    BY <1>1, <2>1, <2>2 DEF Init, TypeOK, State
<1>2. TypeOK /\ [Next]_vars => TypeOK'
  <2> SUFFICES ASSUME TypeOK, [Next]_vars PROVE TypeOK'
    OBVIOUS
  <2> USE DEF TypeOK
  <2>1. ASSUME NEW m \in Monitors, SubscriptionAnswered(m) PROVE TypeOK'
    BY <2>1, RouteType DEF SubscriptionAnswered
  <2>2. ASSUME NEW m \in Monitors, RequestFails(m) PROVE TypeOK'
    <3>1. faults' \in 0..MaxFaults
      BY <2>2, WatchAssumption DEF RequestFails, Fault
    <3>2. /\ stream' \in [Monitors -> BOOLEAN]
          /\ answer' \in [Monitors -> State \cup {"pending", "failed"}]
      BY <2>2 DEF RequestFails
    <3> QED
      BY <2>2, <3>1, <3>2 DEF RequestFails
  <2>3. ASSUME NEW m \in Monitors, Subscribed(m) PROVE TypeOK'
    <3>1. queue' = [queue EXCEPT ![m] = FirstPushed(queue[m], answer[m])]
      BY <2>3 DEF Subscribed
    <3>2. /\ FirstPushed(queue[m], answer[m]) \in Seq(State)
          /\ Len(FirstPushed(queue[m], answer[m])) <= QueueSize
      BY <2>3, FirstPushedInto DEF Subscribed
    <3>3. /\ queue' \in [Monitors -> Seq(State)]
          /\ \A n \in Monitors : Len(queue'[n]) <= QueueSize
      BY <3>1, <3>2
    <3> QED
      BY <2>3, <3>3 DEF Subscribed
  <2>4. ASSUME NEW m \in Monitors, SubscribeRaises(m) PROVE TypeOK'
    BY <2>4 DEF SubscribeRaises, streamVars
  <2>5. ASSUME NEW m \in Monitors, StreamUpdate(m) PROVE TypeOK'
    <3>1. updates' \in 0..MaxUpdates
      BY <2>5, WatchAssumption DEF StreamUpdate
    <3> QED
      BY <2>5, <3>1, RouteType DEF StreamUpdate, taskVars
  <2>6. ASSUME NEW m \in Monitors, StreamLost(m) PROVE TypeOK'
    <3>1. faults' \in 0..MaxFaults
      BY <2>6, WatchAssumption DEF StreamLost, Fault
    <3> QED
      BY <2>6, <3>1 DEF StreamLost, taskVars
  <2>7. ASSUME NEW m \in Monitors, TakeUpdate(m) PROVE TypeOK'
    <3>1. /\ Tail(queue[m]) \in Seq(State) /\ Len(Tail(queue[m])) <= QueueSize
      <4>1. /\ Tail(queue[m]) \in Seq(State) /\ Len(queue[m]) \in Nat
            /\ Len(Tail(queue[m])) = Len(queue[m]) - 1
        BY <2>7, TailOf DEF TakeUpdate
      <4> QED
        BY <4>1, WatchAssumption
    <3>2. queue' = [queue EXCEPT ![m] = Tail(queue[m])]
      BY <2>7 DEF TakeUpdate
    <3>3. /\ queue' \in [Monitors -> Seq(State)]
          /\ \A n \in Monitors : Len(queue'[n]) <= QueueSize
      BY <3>1, <3>2
    <3> QED
      BY <2>7, <3>3 DEF TakeUpdate, State
  <2>8. ASSUME NEW m \in Monitors, TakeLastUpdate(m) PROVE TypeOK'
    <3>1. /\ queue' \in [Monitors -> Seq(State)]
          /\ \A n \in Monitors : Len(queue'[n]) <= QueueSize
      BY <2>8, EmptyQueue DEF TakeLastUpdate
    <3> QED
      BY <2>8, <3>1 DEF TakeLastUpdate, Forget, State
  <2>9. ASSUME NEW m \in Monitors, Deadline(m) PROVE TypeOK'
    <3>1. /\ queue' \in [Monitors -> Seq(State)]
          /\ \A n \in Monitors : Len(queue'[n]) <= QueueSize
      BY <2>9, EmptyQueue DEF Deadline
    <3> QED
      BY <2>9, <3>1 DEF Deadline, Forget
  <2>10. ASSUME NEW m \in Monitors, Forgotten(m) PROVE TypeOK'
    <3>1. CASE IsSold(poc[m])
      BY <2>10, <3>1, BookType DEF Forgotten
    <3>2. CASE ~ IsSold(poc[m])
      BY <2>10, <3>2 DEF Forgotten
    <3> QED
      BY <3>1, <3>2
  <2>11. ASSUME NEW m \in Monitors, ForgetRaises(m) PROVE TypeOK'
    <3>1. faults' \in 0..MaxFaults
      BY <2>11, WatchAssumption DEF ForgetRaises, Fault
    <3> QED
      BY <2>11, <3>1 DEF ForgetRaises, streamVars
  <2>12. ASSUME NEW m \in Monitors, PollAnswered(m) PROVE TypeOK'
    BY <2>12 DEF PollAnswered, streamVars
  <2>13. ASSUME NEW m \in Monitors, PollEnds(m) PROVE TypeOK'
    <3>1. poc' \in [Monitors -> State \cup {"unknown"}]
      BY <2>13 DEF PollEnds
    <3>2. CASE IsSold(answer[m])
      BY <2>13, <3>1, <3>2, BookType DEF PollEnds, streamVars
    <3>3. CASE ~ IsSold(answer[m])
      BY <2>13, <3>1, <3>3 DEF PollEnds, streamVars
    <3> QED
      BY <3>2, <3>3
  <2>14. ASSUME NEW m \in Monitors, PollAgain(m) PROVE TypeOK'
    BY <2>14 DEF PollAgain, streamVars
  <2>15. CASE Expire \/ Sell
    BY <2>15 DEF Expire, Sell, State, taskVars, streamVars
  <2>16. CASE UNCHANGED vars
    BY <2>16 DEF vars, taskVars, streamVars
  <2> QED
    BY <2>1, <2>2, <2>3, <2>4, <2>5, <2>6, <2>7, <2>8, <2>9, <2>10, <2>11, <2>12, <2>13,
       <2>14, <2>15, <2>16 DEF Next, Waiting, Polling
<1> QED
  BY <1>1, <1>2, PTL DEF Spec

-----------------------------------------------------------------------------
(* What is said of the contract is true                                    *)

(* Nothing says "sold" before Deriv has sold the contract: not an answer,  *)
(* not an update on its way, not the state a monitor goes by.              *)
NowSaid == IF contract = "sold" THEN State ELSE State \ {"sold"}

SaidIsTrue ==
  /\ \A m \in Monitors :
       /\ answer[m] \in NowSaid \cup {"pending", "failed"}
       /\ poc[m] \in NowSaid \cup {"unknown"}
       /\ Says(queue[m], NowSaid)
       /\ told[m] => contract = "sold"
  /\ settled => contract = "sold"

(* A monitor that subscribes or waits, and has been told, has a sold update*)
(* ahead of it.                                                            *)
ToldHasIt ==
  \A m \in Monitors : pc[m] \in {"subscribing", "waiting"} /\ told[m] => HasSold(queue[m])

(* The counters are those of no booking or of one.                         *)
OneBooking ==
  IF settled
  THEN \E b \in Monitors : counted = [m \in Monitors |-> IF m = b THEN 1 ELSE 0]
  ELSE counted = [m \in Monitors |-> 0]

WatchInv == SaidIsTrue /\ ToldHasIt /\ OneBooking

LEMMA RouteKeeps ==
  ASSUME TypeOK, SaidIsTrue, ToldHasIt, NEW m \in Monitors, Route(m, contract),
         UNCHANGED <<contract, pc>>
  PROVE  /\ \A n \in Monitors : Says(queue'[n], NowSaid) /\ (told'[n] => contract = "sold")
         /\ ToldHasIt'
<1>1. contract \in NowSaid /\ contract \in State
  BY DEF TypeOK, NowSaid
<1>2. CASE ~ listed[m]
  BY <1>2 DEF Route, SaidIsTrue, ToldHasIt
<1>3. CASE listed[m]
  <2>1. /\ queue' = [queue EXCEPT ![m] = Pushed(queue[m], contract)]
        /\ told' = [told EXCEPT ![m] = told[m] \/ contract = "sold"]
    BY <1>3 DEF Route
  <2>2. /\ Says(Pushed(queue[m], contract), NowSaid)
        /\ contract = "sold" => HasSold(Pushed(queue[m], contract))
    BY <1>1, PushedInto DEF TypeOK, SaidIsTrue
  <2>3. told[m] => contract = "sold"
    BY DEF SaidIsTrue
  <2>4. ASSUME NEW n \in Monitors
        PROVE  /\ Says(queue'[n], NowSaid) /\ (told'[n] => contract = "sold")
               /\ pc[n] \in {"subscribing", "waiting"} /\ told'[n] => HasSold(queue'[n])
    <3>1. CASE n = m
      BY <2>1, <2>2, <2>3, <3>1 DEF TypeOK
    <3>2. CASE n # m
      BY <2>1, <3>2 DEF TypeOK, SaidIsTrue, ToldHasIt
    <3> QED
      BY <3>1, <3>2
  <2> QED
    BY <2>4 DEF ToldHasIt
<1> QED
  BY <1>2, <1>3

(* A booking is by a monitor that goes by a sold state.                    *)
LEMMA BookKeeps ==
  ASSUME TypeOK, OneBooking, NEW m \in Monitors, Book(m)
  PROVE  OneBooking' /\ settled'
<1>1. CASE settled
  BY <1>1 DEF Book, OneBooking
<1>2. CASE ~ settled
  <2>1. counted = [n \in Monitors |-> 0] /\ counted' = [counted EXCEPT ![m] = counted[m] + 1]
    BY <1>2 DEF Book, OneBooking
  <2>2. counted' = [n \in Monitors |-> IF n = m THEN 1 ELSE 0]
    BY <2>1
  <2> QED
    BY <2>2 DEF Book, OneBooking
<1> QED
  BY <1>1, <1>2

LEMMA StepKeepsWatchInv ==
  ASSUME TypeOK, TypeOK', WatchInv, [Next]_vars
  PROVE  WatchInv'
<1> USE DEF WatchInv
<1>1. ASSUME NEW m \in Monitors, SubscriptionAnswered(m) PROVE WatchInv'
  <2>1. UNCHANGED <<contract, settled, counted, pc, poc>> /\ Route(m, contract)
        /\ answer' = [answer EXCEPT ![m] = contract]
    BY <1>1 DEF SubscriptionAnswered
  <2>2. NowSaid' = NowSaid /\ contract \in NowSaid
    BY <2>1 DEF NowSaid, TypeOK
  <2>3. /\ \A n \in Monitors : Says(queue'[n], NowSaid) /\ (told'[n] => contract = "sold")
        /\ ToldHasIt'
    BY <2>1, RouteKeeps
  <2>4. \A n \in Monitors : answer'[n] \in NowSaid \cup {"pending", "failed"}
    BY <2>1, <2>2 DEF SaidIsTrue, TypeOK
  <2>5. SaidIsTrue'
    BY <2>1, <2>2, <2>3, <2>4 DEF SaidIsTrue
  <2> QED
    BY <2>1, <2>3, <2>5 DEF OneBooking
<1>2. ASSUME NEW m \in Monitors, StreamUpdate(m) PROVE WatchInv'
  <2>1. UNCHANGED <<contract, settled, counted, pc, poc, answer>> /\ Route(m, contract)
    BY <1>2 DEF StreamUpdate, taskVars
  <2>2. NowSaid' = NowSaid
    BY <2>1 DEF NowSaid
  <2>3. /\ \A n \in Monitors : Says(queue'[n], NowSaid) /\ (told'[n] => contract = "sold")
        /\ ToldHasIt'
    BY <2>1, RouteKeeps
  <2>4. SaidIsTrue'
    BY <2>1, <2>2, <2>3 DEF SaidIsTrue
  <2> QED
    BY <2>1, <2>3, <2>4 DEF OneBooking
<1>3. ASSUME NEW m \in Monitors, Subscribed(m) PROVE WatchInv'
  <2>1. /\ UNCHANGED <<contract, settled, counted, poc, answer, told>>
        /\ pc[m] = "subscribing" /\ answer[m] \in State
        /\ pc' = [pc EXCEPT ![m] = "waiting"]
        /\ queue' = [queue EXCEPT ![m] = FirstPushed(queue[m], answer[m])]
    BY <1>3 DEF Subscribed
  <2>2. NowSaid' = NowSaid
    BY <2>1 DEF NowSaid
  <2>3. answer[m] \in NowSaid
    BY <2>1 DEF SaidIsTrue, State
  <2>4. /\ Says(FirstPushed(queue[m], answer[m]), NowSaid)
        /\ HasSold(queue[m]) => HasSold(FirstPushed(queue[m], answer[m]))
    BY <2>1, <2>3, FirstPushedInto DEF TypeOK, SaidIsTrue
  <2>5. ASSUME NEW n \in Monitors
        PROVE  /\ Says(queue'[n], NowSaid)
               /\ pc'[n] \in {"subscribing", "waiting"} /\ told[n] => HasSold(queue'[n])
    <3>1. CASE n = m
      BY <2>1, <2>4, <3>1 DEF TypeOK, ToldHasIt
    <3>2. CASE n # m
      BY <2>1, <3>2 DEF TypeOK, SaidIsTrue, ToldHasIt
    <3> QED
      BY <3>1, <3>2
  <2>6. SaidIsTrue'
    BY <2>1, <2>2, <2>5 DEF SaidIsTrue
  <2>7. ToldHasIt'
    BY <2>1, <2>5 DEF ToldHasIt
  <2> QED
    BY <2>1, <2>6, <2>7 DEF OneBooking
<1>4. ASSUME NEW m \in Monitors, TakeUpdate(m) PROVE WatchInv'
  <2>1. /\ UNCHANGED <<contract, settled, counted, pc, answer, told>>
        /\ queue[m] # <<>> /\ Head(queue[m]) = "live"
        /\ poc' = [poc EXCEPT ![m] = "live"]
        /\ queue' = [queue EXCEPT ![m] = Tail(queue[m])]
    BY <1>4 DEF TakeUpdate
  <2>2. NowSaid' = NowSaid /\ "live" \in NowSaid
    BY <2>1 DEF NowSaid, State
  <2>3. /\ Says(Tail(queue[m]), NowSaid)
        /\ HasSold(queue[m]) => HasSold(Tail(queue[m]))
    BY <2>1, TailOf DEF TypeOK, SaidIsTrue
  <2>4. ASSUME NEW n \in Monitors
        PROVE  /\ Says(queue'[n], NowSaid) /\ poc'[n] \in NowSaid \cup {"unknown"}
               /\ pc[n] \in {"subscribing", "waiting"} /\ told[n] => HasSold(queue'[n])
    <3>1. CASE n = m
      BY <2>1, <2>2, <2>3, <3>1 DEF TypeOK, ToldHasIt
    <3>2. CASE n # m
      BY <2>1, <3>2 DEF TypeOK, SaidIsTrue, ToldHasIt
    <3> QED
      BY <3>1, <3>2
  <2>5. SaidIsTrue'
    BY <2>1, <2>2, <2>4 DEF SaidIsTrue
  <2>6. ToldHasIt'
    BY <2>1, <2>4 DEF ToldHasIt
  <2> QED
    BY <2>1, <2>5, <2>6 DEF OneBooking
<1>5. ASSUME NEW m \in Monitors, TakeLastUpdate(m) \/ Deadline(m) PROVE WatchInv'
  <2>1. /\ UNCHANGED <<contract, settled, counted, answer, told>>
        /\ pc' = [pc EXCEPT ![m] = "forgetting"]
        /\ queue' = [queue EXCEPT ![m] = <<>>]
    BY <1>5 DEF TakeLastUpdate, Deadline, Forget
  <2>2. NowSaid' = NowSaid
    BY <2>1 DEF NowSaid
  <2>3. \A n \in Monitors : poc'[n] \in NowSaid \cup {"unknown"}
    <3>1. CASE TakeLastUpdate(m)
      <4>1. queue[m] # <<>> /\ poc' = [poc EXCEPT ![m] = Head(queue[m])]
        BY <3>1 DEF TakeLastUpdate
      <4>2. Head(queue[m]) = queue[m][1] /\ 1 \in DOMAIN queue[m]
        BY <4>1, TailOf DEF TypeOK
      <4>3. Head(queue[m]) \in NowSaid
        BY <4>2 DEF SaidIsTrue, Says
      <4> QED
        BY <4>1, <4>3 DEF SaidIsTrue, TypeOK
    <3>2. CASE Deadline(m)
      BY <3>2 DEF Deadline, SaidIsTrue
    <3> QED
      BY <1>5, <3>1, <3>2
  <2>4. Says(<<>>, NowSaid)
    BY DEF Says
  <2>5. ASSUME NEW n \in Monitors
        PROVE  /\ Says(queue'[n], NowSaid)
               /\ pc'[n] \in {"subscribing", "waiting"} /\ told[n] => HasSold(queue'[n])
    <3>1. CASE n = m
      BY <2>1, <2>4, <3>1 DEF TypeOK
    <3>2. CASE n # m
      BY <2>1, <3>2 DEF TypeOK, SaidIsTrue, ToldHasIt
    <3> QED
      BY <3>1, <3>2
  <2>6. SaidIsTrue'
    BY <2>1, <2>2, <2>3, <2>5 DEF SaidIsTrue
  <2>7. ToldHasIt'
    BY <2>1, <2>5 DEF ToldHasIt
  <2> QED
    BY <2>1, <2>6, <2>7 DEF OneBooking
<1>6. ASSUME NEW m \in Monitors, RequestFails(m) \/ StreamLost(m) PROVE WatchInv'
  <2>1. /\ UNCHANGED <<contract, settled, counted, pc, poc, queue, told>>
        /\ UNCHANGED answer \/ answer' = [answer EXCEPT ![m] = "failed"]
    BY <1>6 DEF RequestFails, StreamLost, taskVars
  <2>2. NowSaid' = NowSaid
    BY <2>1 DEF NowSaid
  <2>3. \A n \in Monitors : answer'[n] \in NowSaid \cup {"pending", "failed"}
    BY <2>1 DEF SaidIsTrue, TypeOK
  <2>4. SaidIsTrue'
    BY <2>1, <2>2, <2>3 DEF SaidIsTrue
  <2> QED
    BY <2>1, <2>4 DEF ToldHasIt, OneBooking
<1>7. ASSUME NEW m \in Monitors,
             SubscribeRaises(m) \/ ForgetRaises(m) \/ PollAnswered(m) \/ PollAgain(m)
      PROVE WatchInv'
  <2>1. /\ UNCHANGED <<contract, settled, counted, queue, told>>
        /\ UNCHANGED pc \/ pc' = [pc EXCEPT ![m] = "polling"]
        /\ \/ answer' = [answer EXCEPT ![m] = "pending"]
           \/ answer' = [answer EXCEPT ![m] = contract]
        /\ UNCHANGED poc \/ poc' = [poc EXCEPT ![m] = "unknown"]
    <3>1. CASE SubscribeRaises(m)
      BY <3>1 DEF SubscribeRaises, streamVars
    <3>2. CASE ForgetRaises(m)
      BY <3>2 DEF ForgetRaises, streamVars
    <3>3. CASE PollAnswered(m)
      BY <3>3 DEF PollAnswered, streamVars
    <3>4. CASE PollAgain(m)
      BY <3>4 DEF PollAgain, streamVars
    <3> QED
      BY <1>7, <3>1, <3>2, <3>3, <3>4
  <2>2. NowSaid' = NowSaid /\ contract \in NowSaid
    BY <2>1 DEF NowSaid, TypeOK
  <2>3. \A n \in Monitors : /\ answer'[n] \in NowSaid \cup {"pending", "failed"}
                            /\ poc'[n] \in NowSaid \cup {"unknown"}
    <3>1. /\ answer \in [Monitors -> State \cup {"pending", "failed"}]
          /\ poc \in [Monitors -> State \cup {"unknown"}]
      BY DEF TypeOK
    <3>2. \A n \in Monitors : /\ answer[n] \in NowSaid \cup {"pending", "failed"}
                              /\ poc[n] \in NowSaid \cup {"unknown"}
      BY DEF SaidIsTrue
    <3> QED
      BY <2>1, <2>2, <3>1, <3>2
  <2>4. SaidIsTrue'
    BY <2>1, <2>2, <2>3 DEF SaidIsTrue
  <2>5. ToldHasIt'
    BY <2>1 DEF ToldHasIt, TypeOK
  <2> QED
    BY <2>1, <2>4, <2>5 DEF OneBooking
<1>8. ASSUME NEW m \in Monitors, Forgotten(m) \/ PollEnds(m) PROVE WatchInv'
  <2>1. /\ UNCHANGED <<contract, queue, told>>
        /\ \E w \in {"polling", "sleeping", "done"} : pc' = [pc EXCEPT ![m] = w]
        /\ UNCHANGED answer \/ answer' = [answer EXCEPT ![m] = "pending"]
        /\ UNCHANGED poc \/ poc' = [poc EXCEPT ![m] = IF answer[m] = "failed" THEN "unknown"
                                                       ELSE answer[m]]
    BY <1>8 DEF Forgotten, PollEnds, Book, streamVars
  <2>2. answer[m] # "pending" \/ UNCHANGED poc
    BY <1>8 DEF Forgotten, PollEnds
  <2>3. NowSaid' = NowSaid
    BY <2>1 DEF NowSaid
  <2>4. \A n \in Monitors : /\ answer'[n] \in NowSaid \cup {"pending", "failed"}
                            /\ poc'[n] \in NowSaid \cup {"unknown"}
    BY <2>1, <2>2 DEF SaidIsTrue, TypeOK
  <2>5. \/ UNCHANGED <<settled, counted>>
        \/ Book(m) /\ contract = "sold"
    <3>1. poc[m] = "sold" \/ answer[m] = "sold" => contract = "sold"
      BY DEF SaidIsTrue, NowSaid
    <3> QED
      BY <1>8, <3>1 DEF Forgotten, PollEnds, IsSold
  <2>6. OneBooking' /\ (settled' => contract = "sold")
    BY <2>5, BookKeeps DEF OneBooking, SaidIsTrue
  <2>7. SaidIsTrue'
    BY <2>1, <2>3, <2>4, <2>6 DEF SaidIsTrue
  <2>8. ToldHasIt'
    BY <2>1 DEF ToldHasIt, TypeOK
  <2> QED
    BY <2>6, <2>7, <2>8
<1>9. CASE Expire \/ Sell
  <2>1. /\ UNCHANGED <<settled, counted, pc, answer, poc, queue, told>>
        /\ contract # "sold"
    BY <1>9 DEF Expire, Sell, taskVars, streamVars
  <2>2. NowSaid \subseteq NowSaid'
    BY <2>1 DEF NowSaid
  <2>3. \A n \in Monitors : Says(queue[n], NowSaid')
    BY <2>2 DEF SaidIsTrue, Says
  <2>4. SaidIsTrue'
    BY <2>1, <2>2, <2>3 DEF SaidIsTrue
  <2> QED
    BY <2>1, <2>4 DEF ToldHasIt, OneBooking
<1>10. CASE UNCHANGED vars
  BY <1>10 DEF vars, taskVars, streamVars, SaidIsTrue, NowSaid, ToldHasIt, OneBooking
<1> QED
  BY <1>1, <1>2, <1>3, <1>4, <1>5, <1>6, <1>7, <1>8, <1>9, <1>10 DEF Next, Waiting, Polling

(* What the monitors, the queues and the journal say of a contract is true *)
(* of it, a monitor that was told keeps the sold update ahead of it, and   *)
(* at most one process has moved its counters, once.                       *)
THEOREM WatchCorrect == Spec => []WatchInv
<1>1. ASSUME Init PROVE WatchInv
  <2>1. \A m \in Monitors : Says(queue[m], NowSaid)
    BY <1>1 DEF Init, Says
  <2>2. SaidIsTrue
    BY <1>1, <2>1 DEF Init, SaidIsTrue
  <2> QED
    BY <1>1, <2>2 DEF Init, WatchInv, ToldHasIt, OneBooking
<1>2. TypeOK /\ TypeOK' /\ WatchInv /\ [Next]_vars => WatchInv'
  BY StepKeepsWatchInv
<1> QED
  BY <1>1, <1>2, TypeCorrect, PTL DEF Spec

(* A monitor that still waits and has been told that the contract is sold  *)
(* has that update ahead of it: neither a full queue nor the second push of*)
(* wait_for_settlement loses it, for any queue size.                       *)
THEOREM SoldUpdateStays == Spec => []SoldUpdateIsKept
<1>1. WatchInv => SoldUpdateIsKept
  BY DEF WatchInv, ToldHasIt, HasSold, SoldUpdateIsKept
<1> QED
  BY <1>1, WatchCorrect, PTL

(* The counters of at most one process move for a contract, and they move  *)
(* once, exactly when its journal row has a result: record_trade_result is *)
(* what decides among any number of monitors of any number of processes.   *)
THEOREM ContractCountedOnce == Spec => []CountedOnce
<1>1. ASSUME WatchInv PROVE CountedOnce
  <2> DEFINE Booked == {m \in Monitors : counted[m] > 0}
  <2>1. CASE settled
    <3>1. PICK b \in Monitors : counted = [m \in Monitors |-> IF m = b THEN 1 ELSE 0]
      BY <1>1, <2>1 DEF WatchInv, OneBooking
    <3>2. Booked = {b} /\ \A m \in Monitors : counted[m] <= 1
      BY <3>1
    <3>3. Cardinality({b}) = 1
      BY FS_Singleton
    <3> QED
      BY <2>1, <3>2, <3>3 DEF CountedOnce
  <2>2. CASE ~ settled
    <3>1. counted = [m \in Monitors |-> 0]
      BY <1>1, <2>2 DEF WatchInv, OneBooking
    <3>2. Booked = {} /\ \A m \in Monitors : counted[m] <= 1
      BY <3>1
    <3>3. Cardinality({}) = 0
      BY FS_EmptySet
    <3> QED
      BY <2>2, <3>2, <3>3 DEF CountedOnce
  <2> QED
    BY <2>1, <2>2
<1> QED
  BY <1>1, WatchCorrect, PTL

(* The settlement monitors implement the promise TradeLifecycle builds on, *)
(* its safety: nothing is booked before Deriv has sold the contract, and a *)
(* booking is final.                                                       *)
THEOREM ImplementsPromise == Spec => Promise!Spec
<1>1. Init => Promise!Init
  BY DEF Init, Promise!Init
<1>2. ASSUME TypeOK, WatchInv, [Next]_vars
      PROVE  [Promise!Next]_<<contract = "sold", settled>>
  <2> USE DEF Promise!Next, Promise!Sell, Promise!Book
  <2>1. ASSUME NEW m \in Monitors, Waiting(m)
        PROVE  UNCHANGED <<contract = "sold", settled>>
    BY <2>1 DEF Waiting, SubscriptionAnswered, RequestFails, Subscribed, SubscribeRaises,
       StreamUpdate, StreamLost, TakeUpdate, TakeLastUpdate, Deadline, Forget
  <2>2. ASSUME NEW m \in Monitors, Forgotten(m) \/ PollEnds(m)
        PROVE  [Promise!Next]_<<contract = "sold", settled>>
    <3>1. UNCHANGED contract
      BY <2>2 DEF Forgotten, PollEnds
    <3>2. settled' = settled \/ (settled' = TRUE /\ contract = "sold")
      <4>1. poc[m] = "sold" \/ answer[m] = "sold" => contract = "sold"
        BY <1>2 DEF WatchInv, SaidIsTrue, NowSaid
      <4>2. CASE Forgotten(m)
        BY <4>1, <4>2 DEF Forgotten, Book, IsSold
      <4>3. CASE PollEnds(m)
        BY <4>1, <4>3 DEF PollEnds, Book, IsSold
      <4> QED
        BY <2>2, <4>2, <4>3
    <3>3. settled \in BOOLEAN
      BY <1>2 DEF TypeOK
    <3> QED
      BY <3>1, <3>2, <3>3
  <2>3. ASSUME NEW m \in Monitors, ForgetRaises(m) \/ PollAnswered(m) \/ PollAgain(m)
        PROVE  UNCHANGED <<contract = "sold", settled>>
    BY <2>3 DEF ForgetRaises, PollAnswered, PollAgain
  <2>4. CASE Expire
    BY <2>4 DEF Expire
  <2>5. CASE Sell
    BY <2>5 DEF Sell
  <2>6. CASE UNCHANGED vars
    BY <2>6 DEF vars
  <2> QED
    BY <1>2, <2>1, <2>2, <2>3, <2>4, <2>5, <2>6 DEF Next, Polling
<1>3. TypeOK /\ WatchInv /\ [Next]_vars => [Promise!Next]_<<contract = "sold", settled>>
  BY <1>2
<1> QED
  BY <1>1, <1>3, TypeCorrect, WatchCorrect, PTL DEF Spec, Promise!Spec
=============================================================================

------------------------ MODULE DerivConnectionProofs ------------------------
(***************************************************************************)
(* Proofs about DerivConnection for every set of symbols and callers, both *)
(* authorization modes and any number of sockets and faults.               *)
(***************************************************************************)
EXTENDS DerivConnection, TLAPS

Awaits == {"idle", "locking", "opening", "restoring", "awaiting", "watching", "backoff"}
Replies == {"none", "pending", "ok", "failed"}

(* Who is in the lock's queue awaits the lock, so nobody is in it twice;   *)
(* and only the holder opens a socket or restores subscriptions.           *)
LockInv ==
  /\ \A i \in DOMAIN waiting : pc[waiting[i]] = "locking"
  /\ \A t \in Tasks : pc[t] \in {"opening", "restoring"} => holder = t

LEMMA Basics ==
  /\ Supervisor \in Tasks /\ Watchdog \in Tasks /\ Callers \subseteq Tasks
  /\ NoTask \notin Tasks
  /\ Symbols \subseteq Item /\ Authorize \in Item /\ NoItem \in Item
  /\ \A t \in Tasks : t # Supervisor => t \in Callers
BY ConnectionAssumption DEF Tasks, Item

LEMMA SendType ==
  ASSUME TypeOK, NEW t \in Tasks, NEW i \in Item, NEW k \in Sockets, NEW a \in Awaits,
         Send(t, i, k, a)
  PROVE  /\ pc' \in [Tasks -> Awaits] /\ item' \in [Tasks -> Item]
         /\ reply' \in [Tasks -> Replies] /\ via' \in [Tasks -> Sockets]
BY DEF TypeOK, Send, Awaits, Replies

LEMMA LockQueueType ==
  ASSUME TypeOK, LockInv, NEW t \in Tasks, pc[t] # "locking", LockQueue(t)
  PROVE  /\ waiting' \in Seq(Tasks)
         /\ \A i, j \in DOMAIN waiting' : waiting'[i] = waiting'[j] => i = j
         /\ \A i \in DOMAIN waiting' : pc'[waiting'[i]] = "locking"
         /\ pc' \in [Tasks -> Awaits]
<1>1. /\ waiting \in Seq(Tasks) /\ waiting' = Append(waiting, t)
      /\ pc \in [Tasks -> Awaits] /\ pc' = [pc EXCEPT ![t] = "locking"]
      /\ \A i, j \in DOMAIN waiting : waiting[i] = waiting[j] => i = j
  BY DEF TypeOK, LockQueue, Awaits
<1>2. \A i \in DOMAIN waiting : waiting[i] # t /\ waiting[i] \in Tasks
  BY <1>1 DEF LockInv
<1>3. /\ DOMAIN waiting' = 1..Len(waiting) + 1 /\ DOMAIN waiting = 1..Len(waiting)
      /\ waiting'[Len(waiting) + 1] = t
      /\ \A i \in 1..Len(waiting) : waiting'[i] = waiting[i]
  BY <1>1
<1>4. waiting' \in Seq(Tasks) /\ pc' \in [Tasks -> Awaits]
  BY <1>1 DEF Awaits
<1>5. \A i, j \in DOMAIN waiting' : waiting'[i] = waiting'[j] => i = j
  BY <1>1, <1>2, <1>3
<1>6. \A i \in DOMAIN waiting' : pc'[waiting'[i]] = "locking"
  BY <1>1, <1>2, <1>3 DEF LockInv
<1> QED
  BY <1>4, <1>5, <1>6

LEMMA ReconnectedType ==
  ASSUME TypeOK, NEW t \in Tasks, Reconnected(t)
  PROVE  /\ holder' = NoTask /\ watched' \in Sockets
         /\ pc' \in [Tasks -> Awaits] /\ item' \in [Tasks -> Item]
         /\ reply' \in [Tasks -> Replies] /\ via' \in [Tasks -> Sockets]
         /\ pc'[t] \in {"watching", "awaiting", "idle"}
         /\ \A u \in Tasks \ {t} : /\ pc'[u] = pc[u] /\ item'[u] = item[u]
                                   /\ reply'[u] = reply[u] /\ via'[u] = via[u]
<1>1. CASE t = Supervisor
  BY <1>1, Basics DEF Reconnected, TypeOK, Awaits, Replies
<1>2. CASE t # Supervisor /\ Open
  <2>1. Send(t, request[t], ws, "awaiting") /\ watched' = watched /\ holder' = NoTask
    BY <1>2 DEF Reconnected
  <2>2. request[t] \in Item /\ ws \in Sockets /\ watched \in Sockets
    BY <1>2, Basics DEF TypeOK
  <2>3. /\ pc' \in [Tasks -> Awaits] /\ item' \in [Tasks -> Item]
        /\ reply' \in [Tasks -> Replies] /\ via' \in [Tasks -> Sockets]
    BY <2>1, <2>2, SendType DEF Awaits
  <2>4. /\ pc'[t] = "awaiting"
        /\ \A u \in Tasks \ {t} : /\ pc'[u] = pc[u] /\ item'[u] = item[u]
                                  /\ reply'[u] = reply[u] /\ via'[u] = via[u]
    BY <2>1 DEF Send, TypeOK
  <2> QED
    BY <2>1, <2>2, <2>3, <2>4
<1>3. CASE t # Supervisor /\ ~ Open
  BY <1>3, Basics DEF Reconnected, TypeOK, Awaits, Replies
<1> QED
  BY <1>1, <1>2, <1>3

LEMMA ReconnectRaisesType ==
  ASSUME TypeOK, NEW t \in Tasks, ReconnectRaises(t)
  PROVE  /\ holder' = NoTask /\ watched' = watched /\ via' = via
         /\ pc' \in [Tasks -> Awaits] /\ item' \in [Tasks -> Item]
         /\ reply' \in [Tasks -> Replies]
         /\ pc'[t] \in {"backoff", "idle"}
         /\ \A u \in Tasks \ {t} : /\ pc'[u] = pc[u] /\ item'[u] = item[u]
                                   /\ reply'[u] = reply[u]
BY Basics DEF ReconnectRaises, TypeOK, Awaits, Replies

(* The sockets before the newest are dying or dead, the last one the bound *)
(* allows stays open, and a task that is opening a socket found the newest *)
(* one dead: it holds the lock, so no other task has replaced it since.    *)
SocketInv ==
  /\ \A k \in Sockets : k > ws => sock[k] = "none"
  /\ \A k \in Sockets : k < ws => sock[k] \in {"closing", "closed"}
  /\ sock[ws] # "none"
  /\ sock[MaxSockets] \in {"none", "open"}
  /\ \A t \in Tasks : pc[t] = "opening" => ~ Open

ConnInv == TypeOK /\ LockInv /\ SocketInv

LEMMA LockKept ==
  ASSUME TypeOK, LockInv, NEW t \in Tasks, pc[t] # "locking",
         waiting' = waiting,
         \A u \in Tasks \ {t} : pc'[u] = pc[u],
         pc'[t] \in {"opening", "restoring"} => holder' = t,
         holder' = holder \/ holder = t
  PROVE  LockInv'
<1>1. \A i \in DOMAIN waiting : waiting[i] \in Tasks \ {t}
  BY DEF TypeOK, LockInv
<1>2. \A i \in DOMAIN waiting' : pc'[waiting'[i]] = "locking"
  BY <1>1 DEF LockInv
<1>3. \A u \in Tasks : pc'[u] \in {"opening", "restoring"} => holder' = u
  BY DEF LockInv
<1> QED
  BY <1>2, <1>3 DEF LockInv

LEMMA InitConn == Init => ConnInv
<1> SUFFICES ASSUME Init PROVE ConnInv
  OBVIOUS
<1>1. 1 \in Sockets /\ MaxSockets \in Sockets
  BY ConnectionAssumption DEF Sockets
<1>2. TypeOK
  BY <1>1, Basics, ConnectionAssumption DEF Init, TypeOK
<1>3. LockInv
  BY DEF Init, LockInv
<1>4. SocketInv
  BY <1>1, ConnectionAssumption DEF Init, SocketInv, Sockets
<1> QED
  BY <1>2, <1>3, <1>4 DEF ConnInv

(* A task asks: it sends at once, or finds the socket dead and queues up.  *)
LEMMA AskStep ==
  ASSUME ConnInv, NEW t \in Callers, NEW i \in Item, Ask(t, i)
  PROVE  TypeOK' /\ LockInv' /\ SocketInv'
<1>0. /\ TypeOK /\ LockInv /\ SocketInv /\ t \in Tasks
      /\ pc[t] = "idle" /\ request' = [request EXCEPT ![t] = i]
      /\ UNCHANGED <<socketVars, holder, todo, watched, streams, faults>>
  BY Basics DEF Ask, ConnInv
<1>1. CASE Open
  <2>1. Send(t, i, ws, "awaiting") /\ waiting' = waiting
    BY <1>1 DEF Ask, SendOrReconnect
  <2>2. ws \in Sockets
    BY <1>0 DEF TypeOK
  <2>3. /\ pc' \in [Tasks -> Awaits] /\ item' \in [Tasks -> Item]
        /\ reply' \in [Tasks -> Replies] /\ via' \in [Tasks -> Sockets]
    BY <1>0, <2>1, <2>2, SendType DEF Awaits
  <2>4. TypeOK'
    BY <1>0, <2>1, <2>3 DEF TypeOK, socketVars, Awaits, Replies
  <2>5. pc'[t] = "awaiting" /\ \A u \in Tasks \ {t} : pc'[u] = pc[u]
    BY <1>0, <2>1 DEF Send, TypeOK
  <2>6. LockInv'
    BY <1>0, <2>1, <2>5, LockKept
  <2>7. SocketInv'
    BY <1>0, <2>5 DEF SocketInv, Open, socketVars
  <2> QED
    BY <2>4, <2>6, <2>7
<1>2. CASE ~ Open
  <2>1. LockQueue(t) /\ item' = item /\ reply' = reply /\ via' = via
    BY <1>2 DEF Ask, SendOrReconnect
  <2>2. /\ waiting' \in Seq(Tasks) /\ pc' \in [Tasks -> Awaits]
        /\ \A j, k \in DOMAIN waiting' : waiting'[j] = waiting'[k] => j = k
        /\ \A j \in DOMAIN waiting' : pc'[waiting'[j]] = "locking"
    BY <1>0, <2>1, LockQueueType
  <2>3. TypeOK'
    BY <1>0, <2>1, <2>2 DEF TypeOK, socketVars, Awaits
  <2>4. pc'[t] = "locking" /\ \A u \in Tasks \ {t} : pc'[u] = pc[u]
    BY <1>0, <2>1 DEF LockQueue, TypeOK
  <2>5. LockInv'
    BY <1>0, <2>2, <2>4 DEF LockInv
  <2>6. SocketInv'
    BY <1>0, <2>4 DEF SocketInv, Open, socketVars
  <2> QED
    BY <2>3, <2>5, <2>6
<1> QED
  BY <1>1, <1>2

(* The lock is granted: the task goes back with a socket that is open, or  *)
(* holds the lock with one that is not.                                    *)
LEMMA LockGrantedStep ==
  ASSUME ConnInv, NEW t \in Tasks, LockGranted(t)
  PROVE  TypeOK' /\ LockInv' /\ SocketInv'
<1>0. /\ TypeOK /\ LockInv /\ SocketInv
      /\ holder = NoTask /\ waiting # <<>> /\ t = Head(waiting) /\ waiting' = Tail(waiting)
      /\ UNCHANGED <<socketVars, todo, request, streams, faults>>
  BY DEF LockGranted, ConnInv
<1>1. /\ waiting \in Seq(Tasks) /\ Len(waiting) > 0
      /\ DOMAIN waiting' = 1..Len(waiting) - 1
      /\ \A i \in DOMAIN waiting' : i + 1 \in DOMAIN waiting /\ waiting'[i] = waiting[i + 1]
      /\ waiting[1] = t /\ 1 \in DOMAIN waiting
  BY <1>0 DEF TypeOK
<1>2. /\ waiting' \in Seq(Tasks)
      /\ \A i, j \in DOMAIN waiting' : waiting'[i] = waiting'[j] => i = j
  <2>1. waiting' \in Seq(Tasks)
    BY <1>0, <1>1
  <2>2. \A i, j \in DOMAIN waiting : waiting[i] = waiting[j] => i = j
    BY <1>0 DEF TypeOK
  <2> QED
    BY <1>1, <2>1, <2>2
<1>3. \A i \in DOMAIN waiting' : waiting'[i] \in Tasks \ {t} /\ pc[waiting'[i]] = "locking"
  <2>1. \A i, j \in DOMAIN waiting : waiting[i] = waiting[j] => i = j
    BY <1>0 DEF TypeOK
  <2> QED
    BY <1>0, <1>1, <2>1 DEF LockInv
<1>4. \A u \in Tasks : pc[u] \notin {"opening", "restoring"}
  BY <1>0, Basics DEF LockInv
<1>5. CASE Open
  <2>1. Reconnected(t)
    BY <1>5 DEF LockGranted
  <2>2. /\ holder' = NoTask /\ watched' \in Sockets
        /\ pc' \in [Tasks -> Awaits] /\ item' \in [Tasks -> Item]
        /\ reply' \in [Tasks -> Replies] /\ via' \in [Tasks -> Sockets]
        /\ pc'[t] \in {"watching", "awaiting", "idle"}
        /\ \A u \in Tasks \ {t} : pc'[u] = pc[u]
    BY <1>0, <2>1, ReconnectedType
  <2>3. TypeOK'
    BY <1>0, <1>2, <2>2 DEF TypeOK, socketVars, Awaits, Replies
  <2>4. LockInv'
    BY <1>3, <1>4, <2>2 DEF LockInv
  <2>5. SocketInv'
    BY <1>0, <1>4, <2>2 DEF SocketInv, Open, socketVars
  <2> QED
    BY <2>3, <2>4, <2>5
<1>6. CASE ~ Open
  <2>1. /\ holder' = t /\ pc' = [pc EXCEPT ![t] = "opening"]
        /\ UNCHANGED <<watched, requestVars>>
    BY <1>6 DEF LockGranted
  <2>2. TypeOK'
    BY <1>0, <1>2, <2>1 DEF TypeOK, socketVars, requestVars
  <2>3. pc'[t] = "opening" /\ \A u \in Tasks \ {t} : pc'[u] = pc[u]
    BY <1>0, <2>1 DEF TypeOK
  <2>4. LockInv'
    BY <1>3, <1>4, <2>1, <2>3 DEF LockInv
  <2>5. SocketInv'
    BY <1>0, <1>6 DEF SocketInv, Open, socketVars
  <2> QED
    BY <2>2, <2>4, <2>5
<1> QED
  BY <1>5, <1>6

(* A new socket is opened only over one that is not open, and there is a   *)
(* next one: the last never leaves the state open.                         *)
LEMMA NextSocket ==
  ASSUME ConnInv, NEW t \in Tasks, pc[t] = "opening"
  PROVE  ws + 1 \in Sockets /\ ~ Open /\ holder = t
<1>1. ws \in 1..MaxSockets /\ ~ Open /\ holder = t
  BY DEF ConnInv, TypeOK, SocketInv, LockInv, Sockets
<1>2. ws # MaxSockets
  BY <1>1 DEF ConnInv, SocketInv, Open
<1> QED
  BY <1>1, <1>2, ConnectionAssumption DEF Sockets

LEMMA RestoredType == Restored \in SUBSET Item /\ NextRestored(Restored) \subseteq Restored
BY Basics DEF Restored, NextRestored

LEMMA SocketOpensStep ==
  ASSUME ConnInv, NEW t \in Tasks, SocketOpens(t)
  PROVE  TypeOK' /\ LockInv' /\ SocketInv'
<1>0. /\ TypeOK /\ LockInv /\ SocketInv /\ pc[t] = "opening" /\ holder = t
      /\ ws' = ws + 1 /\ sock' = [sock EXCEPT ![ws + 1] = "open"]
      /\ reading' = reading \cup {ws + 1}
      /\ authorized' = (auth_mode = "otp") /\ streams' = {}
      /\ UNCHANGED <<auth_mode, holder, waiting, watched, request, faults>>
  BY DEF SocketOpens, ConnInv, Pumps
<1>1. ws + 1 \in Sockets /\ ~ Open
  BY <1>0, NextSocket
<1>2. PICK i \in NextRestored(Restored) :
        todo' = Restored \ {i} /\ Send(t, i, ws + 1, "restoring")
  BY DEF SocketOpens
<1>3. i \in Item /\ todo' \in SUBSET Item
  BY <1>2, RestoredType
<1>4. /\ pc' \in [Tasks -> Awaits] /\ item' \in [Tasks -> Item]
      /\ reply' \in [Tasks -> Replies] /\ via' \in [Tasks -> Sockets]
  BY <1>0, <1>1, <1>2, <1>3, SendType DEF Awaits
<1>5. pc'[t] = "restoring" /\ \A u \in Tasks \ {t} : pc'[u] = pc[u]
  BY <1>0, <1>2 DEF Send, TypeOK
<1>6. /\ sock' \in [Sockets -> {"none", "open", "closing", "closed"}]
      /\ sock'[ws + 1] = "open" /\ \A k \in Sockets \ {ws + 1} : sock'[k] = sock[k]
  BY <1>0, <1>1 DEF TypeOK
<1>7. TypeOK'
  BY <1>0, <1>1, <1>3, <1>4, <1>6 DEF TypeOK, Awaits, Replies
<1>8. LockInv'
  BY <1>0, <1>5, LockKept
<1>9. SocketInv'
  <2>1. ws \in Nat /\ MaxSockets \in Nat /\ MaxSockets \in Sockets /\ Sockets \subseteq Nat
    BY <1>0, ConnectionAssumption DEF TypeOK, Sockets
  <2>2. sock[ws] \in {"closing", "closed"}
    BY <1>0, <1>1 DEF TypeOK, SocketInv, Open
  <2>3. \A k \in Sockets : k > ws' => sock'[k] = "none"
    BY <1>0, <1>6, <2>1 DEF SocketInv
  <2>4. \A k \in Sockets : k < ws' => sock'[k] \in {"closing", "closed"}
    BY <1>0, <1>6, <2>1, <2>2 DEF SocketInv
  <2>5. \A u \in Tasks : pc'[u] # "opening"
    BY <1>0, <1>5 DEF LockInv
  <2>6. sock'[ws'] # "none" /\ sock'[MaxSockets] \in {"none", "open"}
    BY <1>0, <1>6, <2>1 DEF SocketInv
  <2> QED
    BY <2>3, <2>4, <2>5, <2>6 DEF SocketInv
<1> QED
  BY <1>7, <1>8, <1>9

(* _reconnect raises, at the opening or at the authorization.              *)
LEMMA RaiseStep ==
  ASSUME ConnInv, NEW t \in Tasks, OpenFails(t) \/ AuthorizeFails(t)
  PROVE  TypeOK' /\ LockInv' /\ SocketInv'
<1>0. /\ TypeOK /\ LockInv /\ SocketInv /\ holder = t /\ ReconnectRaises(t)
      /\ pc[t] \in {"opening", "restoring"}
      /\ UNCHANGED <<socketVars, waiting, request, streams>>
      /\ todo' = todo \/ todo' = {}
      /\ faults' = faults \/ (faults < MaxFaults /\ faults' = faults + 1)
  BY DEF OpenFails, AuthorizeFails, Fault, ConnInv, LockInv
<1>1. /\ holder' = NoTask /\ watched' = watched /\ via' = via
      /\ pc' \in [Tasks -> Awaits] /\ item' \in [Tasks -> Item]
      /\ reply' \in [Tasks -> Replies]
      /\ pc'[t] \in {"backoff", "idle"}
      /\ \A u \in Tasks \ {t} : pc'[u] = pc[u]
  BY <1>0, ReconnectRaisesType
<1>2. todo' \subseteq Item /\ faults' \in 0..MaxFaults
  BY <1>0, ConnectionAssumption DEF TypeOK
<1>3. TypeOK'
  BY <1>0, <1>1, <1>2 DEF TypeOK, socketVars, Awaits, Replies
<1>4. LockInv'
  BY <1>0, <1>1, LockKept
<1>5. SocketInv'
  BY <1>0, <1>1 DEF SocketInv, Open, socketVars
<1> QED
  BY <1>3, <1>4, <1>5

(* The next resubscription is sent, or queues up behind the task itself,   *)
(* or was the last one.                                                    *)
LEMMA RestoreNextStep ==
  ASSUME ConnInv, NEW t \in Tasks, RestoreNext(t)
  PROVE  TypeOK' /\ LockInv' /\ SocketInv'
<1>0. /\ TypeOK /\ LockInv /\ SocketInv /\ pc[t] = "restoring" /\ holder = t
      /\ authorized' = (authorized \/ item[t] = Authorize)
      /\ UNCHANGED <<auth_mode, sock, reading, ws, request, streams, faults>>
  BY DEF RestoreNext, ConnInv, LockInv
<1>1. authorized' \in BOOLEAN
  BY <1>0
<1>2. CASE todo = {}
  <2>1. Reconnected(t) /\ todo' = todo /\ waiting' = waiting
    BY <1>2 DEF RestoreNext
  <2>2. /\ holder' = NoTask /\ watched' \in Sockets
        /\ pc' \in [Tasks -> Awaits] /\ item' \in [Tasks -> Item]
        /\ reply' \in [Tasks -> Replies] /\ via' \in [Tasks -> Sockets]
        /\ pc'[t] \in {"watching", "awaiting", "idle"}
        /\ \A u \in Tasks \ {t} : pc'[u] = pc[u]
    BY <1>0, <2>1, ReconnectedType
  <2>3. TypeOK'
    BY <1>0, <1>1, <2>1, <2>2 DEF TypeOK, Awaits, Replies
  <2>4. LockInv'
    BY <1>0, <2>1, <2>2, LockKept
  <2>5. SocketInv'
    BY <1>0, <2>2 DEF SocketInv, Open
  <2> QED
    BY <2>3, <2>4, <2>5
<1>3. CASE todo # {}
  <2>1. /\ holder' = holder /\ watched' = watched
        /\ \E i \in todo : todo' = todo \ {i} /\ SendOrReconnect(t, i, "restoring")
    BY <1>3 DEF RestoreNext
  <2>2. PICK i \in todo : todo' = todo \ {i} /\ SendOrReconnect(t, i, "restoring")
    BY <2>1
  <2>3. i \in Item /\ todo' \subseteq Item
    BY <1>0, <2>2 DEF TypeOK
  <2>4. CASE Open
    <3>1. Send(t, i, ws, "restoring") /\ waiting' = waiting
      BY <2>2, <2>4 DEF SendOrReconnect
    <3>2. ws \in Sockets
      BY <1>0 DEF TypeOK
    <3>3. /\ pc' \in [Tasks -> Awaits] /\ item' \in [Tasks -> Item]
          /\ reply' \in [Tasks -> Replies] /\ via' \in [Tasks -> Sockets]
      BY <1>0, <2>3, <3>1, <3>2, SendType DEF Awaits
    <3>4. TypeOK'
      BY <1>0, <1>1, <2>1, <2>3, <3>1, <3>3 DEF TypeOK, Awaits, Replies
    <3>5. pc'[t] = "restoring" /\ \A u \in Tasks \ {t} : pc'[u] = pc[u]
      BY <1>0, <3>1 DEF Send, TypeOK
    <3>6. LockInv'
      BY <1>0, <2>1, <3>1, <3>5, LockKept
    <3>7. SocketInv'
      BY <1>0, <3>5 DEF SocketInv, Open
    <3> QED
      BY <3>4, <3>6, <3>7
  <2>5. CASE ~ Open
    <3>1. LockQueue(t) /\ item' = item /\ reply' = reply /\ via' = via
      BY <2>2, <2>5 DEF SendOrReconnect
    <3>2. /\ waiting' \in Seq(Tasks) /\ pc' \in [Tasks -> Awaits]
          /\ \A j, k \in DOMAIN waiting' : waiting'[j] = waiting'[k] => j = k
          /\ \A j \in DOMAIN waiting' : pc'[waiting'[j]] = "locking"
      BY <1>0, <3>1, LockQueueType
    <3>3. TypeOK'
      BY <1>0, <1>1, <2>1, <2>3, <3>1, <3>2 DEF TypeOK, Awaits
    <3>4. pc'[t] = "locking" /\ \A u \in Tasks \ {t} : pc'[u] = pc[u]
      BY <1>0, <3>1 DEF LockQueue, TypeOK
    <3>5. LockInv'
      BY <1>0, <2>1, <3>2, <3>4 DEF LockInv
    <3>6. SocketInv'
      BY <1>0, <3>4 DEF SocketInv, Open
    <3> QED
      BY <3>3, <3>5, <3>6
  <2> QED
    BY <2>4, <2>5
<1> QED
  BY <1>2, <1>3

(* Answers, timeouts and the end of a request.                             *)
LEMMA RequestStep ==
  ASSUME ConnInv, NEW t \in Tasks,
         Answer(t) \/ RequestTimesOut(t) \/ (t \in Callers /\ RequestEnds(t))
  PROVE  TypeOK' /\ LockInv' /\ SocketInv'
<1>0. /\ TypeOK /\ LockInv /\ SocketInv
  BY DEF ConnInv
<1>1. CASE Answer(t)
  <2>1. TypeOK'
    BY <1>0, <1>1 DEF Answer, TypeOK, socketVars, lockVars
  <2> QED
    BY <1>0, <1>1, <2>1 DEF Answer, LockInv, SocketInv, Open, socketVars, lockVars
<1>2. CASE RequestTimesOut(t)
  <2>1. faults' \in 0..MaxFaults
    BY <1>0, <1>2, ConnectionAssumption DEF RequestTimesOut, Fault, TypeOK
  <2>2. TypeOK'
    BY <1>0, <1>2, <2>1 DEF RequestTimesOut, TypeOK, socketVars, lockVars
  <2> QED
    BY <1>0, <1>2, <2>2 DEF RequestTimesOut, LockInv, SocketInv, Open, socketVars, lockVars
<1>3. CASE t \in Callers /\ RequestEnds(t)
  <2>1. /\ pc[t] = "awaiting" /\ pc' = [pc EXCEPT ![t] = "idle"]
        /\ UNCHANGED <<socketVars, lockVars>>
    BY <1>3 DEF RequestEnds
  <2>2. TypeOK'
    BY <1>0, <1>3, Basics DEF RequestEnds, TypeOK, socketVars, lockVars
  <2>3. pc'[t] = "idle" /\ \A u \in Tasks \ {t} : pc'[u] = pc[u]
    BY <1>0, <2>1 DEF TypeOK
  <2>4. LockInv'
    BY <1>0, <2>1, <2>3, LockKept DEF lockVars
  <2>5. SocketInv'
    BY <1>0, <2>1, <2>3 DEF SocketInv, Open, socketVars
  <2> QED
    BY <2>2, <2>4, <2>5
<1> QED
  BY <1>1, <1>2, <1>3

(* The supervisor notices the dead pump, and queues up for the lock.       *)
LEMMA SupervisorStep ==
  ASSUME ConnInv, PumpSeenDead \/ BackoffEnds
  PROVE  TypeOK' /\ LockInv' /\ SocketInv'
<1>0. TypeOK /\ LockInv /\ SocketInv /\ Supervisor \in Tasks
  BY Basics DEF ConnInv
<1>1. CASE PumpSeenDead
  <2>1. /\ pc[Supervisor] = "watching" /\ pc' = [pc EXCEPT ![Supervisor] = "backoff"]
        /\ UNCHANGED <<socketVars, lockVars>>
    BY <1>1 DEF PumpSeenDead
  <2>2. TypeOK'
    BY <1>0, <1>1 DEF PumpSeenDead, TypeOK, socketVars, lockVars, requestVars
  <2>3. pc'[Supervisor] = "backoff" /\ \A u \in Tasks \ {Supervisor} : pc'[u] = pc[u]
    BY <1>0, <2>1 DEF TypeOK
  <2>4. LockInv'
    BY <1>0, <2>1, <2>3, LockKept DEF lockVars
  <2>5. SocketInv'
    BY <1>0, <2>1, <2>3 DEF SocketInv, Open, socketVars
  <2> QED
    BY <2>2, <2>4, <2>5
<1>2. CASE BackoffEnds
  <2>1. /\ pc[Supervisor] = "backoff" /\ LockQueue(Supervisor)
        /\ UNCHANGED <<socketVars, holder, todo, watched, request, requestVars, streams, faults>>
    BY <1>2 DEF BackoffEnds
  <2>2. /\ waiting' \in Seq(Tasks) /\ pc' \in [Tasks -> Awaits]
        /\ \A j, k \in DOMAIN waiting' : waiting'[j] = waiting'[k] => j = k
        /\ \A j \in DOMAIN waiting' : pc'[waiting'[j]] = "locking"
    BY <1>0, <2>1, LockQueueType
  <2>3. TypeOK'
    BY <1>0, <2>1, <2>2 DEF TypeOK, socketVars, requestVars, Awaits
  <2>4. pc'[Supervisor] = "locking" /\ \A u \in Tasks \ {Supervisor} : pc'[u] = pc[u]
    BY <1>0, <2>1 DEF LockQueue, TypeOK
  <2>5. LockInv'
    BY <1>0, <2>1, <2>2, <2>4 DEF LockInv
  <2>6. SocketInv'
    BY <1>0, <2>1, <2>4 DEF SocketInv, Open, socketVars
  <2> QED
    BY <2>3, <2>5, <2>6
<1> QED
  BY <1>1, <1>2

(* The network only takes sockets away.                                    *)
LEMMA NetworkStep ==
  ASSUME ConnInv, NEW k \in Sockets, SocketFails(k) \/ PumpEnds(k)
  PROVE  TypeOK' /\ LockInv' /\ SocketInv'
<1>0. TypeOK /\ LockInv /\ SocketInv
  BY DEF ConnInv
<1>1. TypeOK'
  <2>1. CASE SocketFails(k)
    BY <1>0, <2>1 DEF SocketFails, TypeOK, lockVars, requestVars
  <2>2. CASE PumpEnds(k)
    BY <1>0, <2>2 DEF PumpEnds, TypeOK, lockVars
  <2> QED
    BY <2>1, <2>2
<1>2. /\ sock[k] \in {"open", "closing"}
      /\ sock[k] = "open" => k < MaxSockets
      /\ sock'[k] \in {"closing", "closed"} /\ \A j \in Sockets \ {k} : sock'[j] = sock[j]
      /\ ws' = ws /\ pc' = pc /\ waiting' = waiting /\ holder' = holder
  BY <1>0 DEF SocketFails, PumpEnds, TypeOK, lockVars
<1>3. MaxSockets \in Sockets /\ k \in Nat /\ ws \in Sockets /\ Sockets \subseteq Nat
  BY <1>0, ConnectionAssumption DEF Sockets, TypeOK
<1>4. k # MaxSockets
  BY <1>0, <1>2, <1>3 DEF SocketInv
<1>5. SocketInv'
  BY <1>0, <1>2, <1>3, <1>4 DEF SocketInv, Open
<1> QED
  BY <1>0, <1>1, <1>2, <1>5 DEF LockInv

LEMMA ConnStep == ConnInv /\ [Next]_vars => ConnInv'
<1> SUFFICES ASSUME ConnInv, [Next]_vars PROVE ConnInv'
  OBVIOUS
<1>1. ASSUME NEW t \in Callers, CallerAsks(t)
      PROVE  ConnInv'
  BY <1>1, AskStep, Basics DEF CallerAsks, ConnInv
<1>2. ASSUME NEW s \in Symbols, WatchdogAsks(s)
      PROVE  ConnInv'
  BY <1>2, AskStep, Basics, ConnectionAssumption DEF WatchdogAsks, ConnInv
<1>3. ASSUME NEW s \in Symbols, StreamStops(s)
      PROVE  ConnInv'
  <2>1. faults' \in 0..MaxFaults
    BY <1>3, ConnectionAssumption DEF StreamStops, Fault, ConnInv, TypeOK
  <2>2. TypeOK'
    BY <1>3, <2>1 DEF StreamStops, ConnInv, TypeOK, socketVars, lockVars, requestVars
  <2> QED
    BY <1>3, <2>2 DEF StreamStops, ConnInv, LockInv, SocketInv, Open, socketVars, lockVars
<1>4. ASSUME NEW t \in Tasks, ReconnectStep(t)
      PROVE  ConnInv'
  BY <1>4, LockGrantedStep, SocketOpensStep, RaiseStep, RestoreNextStep
     DEF ReconnectStep, ConnInv
<1>5. ASSUME NEW t \in Tasks,
             Answer(t) \/ RequestTimesOut(t) \/ (t \in Callers /\ RequestEnds(t))
      PROVE  ConnInv'
  BY <1>5, RequestStep DEF ConnInv
<1>6. CASE PumpSeenDead \/ BackoffEnds
  BY <1>6, SupervisorStep DEF ConnInv
<1>7. ASSUME NEW k \in Sockets, SocketFails(k) \/ PumpEnds(k)
      PROVE  ConnInv'
  BY <1>7, NetworkStep DEF ConnInv
<1>8. CASE UNCHANGED vars
  BY <1>8 DEF vars, socketVars, lockVars, requestVars, ConnInv, TypeOK, LockInv, SocketInv, Open
<1> QED
  BY <1>1, <1>2, <1>3, <1>4, <1>5, <1>6, <1>7, <1>8, Basics DEF Next

LEMMA Connected == Spec => []ConnInv
BY InitConn, ConnStep, PTL DEF Spec

(* DerivConnection!TypeOK: the client's state stays well formed, whatever  *)
(* tasks, sockets and faults there are.                                    *)
THEOREM ConnectionTyped == Spec => []TypeOK
BY Connected, PTL DEF ConnInv

(* However many tasks find the socket dead at once, there are never two    *)
(* open sockets: the lock, and a second look at the socket under it, see   *)
(* to that.                                                                *)
THEOREM NeverTwoSockets == Spec => []OneOpenSocket
<1>1. ConnInv => OneOpenSocket
  <2> SUFFICES ASSUME ConnInv, NEW j \in Sockets, NEW k \in Sockets,
                      sock[j] = "open", sock[k] = "open"
               PROVE  j = k
    BY DEF OneOpenSocket
  <2>1. ws \in Nat /\ j \in Nat /\ k \in Nat
    BY DEF ConnInv, TypeOK, Sockets
  <2> QED
    BY <2>1 DEF ConnInv, SocketInv
<1> QED
  BY <1>1, Connected, PTL

(* What is known of a subscription on its way: the watchdog subscribes     *)
(* only where the client is connected, so it never queues for the lock;    *)
(* the other callers subscribe nothing; and a reconnect that has sent more *)
(* than the authorize message has had it answered.                         *)
SubscriberInv ==
  /\ pc[Watchdog] \in {"idle", "awaiting"}
  /\ \A t \in Callers : t # Watchdog => request[t] = NoItem
  /\ \A t \in Tasks : pc[t] = "restoring" /\ item[t] # Authorize => authorized

(* A subscription awaited on the newest socket was sent there authorized.  *)
AskedAuthorized ==
  \A t \in Tasks :
    /\ via[t] <= ws
    /\ reply[t] = "pending" /\ item[t] \in Symbols /\ via[t] = ws => authorized

AuthInv == SubscriberInv /\ AskedAuthorized /\ StreamsAreAuthorized

LEMMA InitAuth == Init => AuthInv
<1> SUFFICES ASSUME Init PROVE AuthInv
  OBVIOUS
<1>1. /\ Watchdog \in Tasks /\ Watchdog # Supervisor /\ Callers \subseteq Tasks
      /\ 1 \in Sockets
  BY Basics, ConnectionAssumption DEF Sockets
<1>2. authorized /\ Open
  BY <1>1 DEF Init, Open
<1>3. SubscriberInv
  BY <1>1, <1>2 DEF Init, SubscriberInv
<1>4. AskedAuthorized
  BY <1>2 DEF Init, AskedAuthorized
<1> QED
  BY <1>2, <1>3, <1>4 DEF AuthInv, StreamsAreAuthorized, IsConnected

(* A request sent on the newest socket by t, the sockets left alone.       *)
LEMMA SentAuthorized ==
  ASSUME ConnInv, AskedAuthorized, NEW t \in Tasks, NEW i \in Item, NEW a,
         Send(t, i, ws, a), ws' = ws, authorized => authorized',
         i \in Symbols => authorized'
  PROVE  AskedAuthorized'
<1>1. /\ reply'[t] = "pending" /\ item'[t] = i /\ via'[t] = ws
      /\ \A u \in Tasks \ {t} : reply'[u] = reply[u] /\ item'[u] = item[u] /\ via'[u] = via[u]
  BY DEF Send, ConnInv, TypeOK
<1>2. ws \in Nat
  BY DEF ConnInv, TypeOK, Sockets
<1> QED
  BY <1>1, <1>2 DEF AskedAuthorized

(* Requests that end leave what is known of the others.                    *)
LEMMA EndedAuthorized ==
  ASSUME AskedAuthorized, ws' = ws, authorized => authorized', via' = via,
         \A u \in Tasks : reply'[u] = "pending" => reply[u] = "pending" /\ item'[u] = item[u]
  PROVE  AskedAuthorized'
BY DEF AskedAuthorized

LEMMA ReconnectedAuthorized ==
  ASSUME ConnInv, AskedAuthorized, SubscriberInv, NEW t \in Tasks, t # Watchdog,
         Reconnected(t), ws' = ws, authorized => authorized'
  PROVE  AskedAuthorized'
<1>1. TypeOK
  BY DEF ConnInv
<1>2. CASE t # Supervisor /\ Open
  <2>1. Send(t, request[t], ws, "awaiting")
    BY <1>2 DEF Reconnected
  <2>2. request[t] = NoItem /\ NoItem \notin Symbols /\ NoItem \in Item
    BY <1>2, Basics, ConnectionAssumption DEF SubscriberInv
  <2> QED
    BY <2>1, <2>2, SentAuthorized
<1>3. CASE ~ (t # Supervisor /\ Open)
  <2>1. via' = via /\ reply' = [reply EXCEPT ![t] = "none"]
        /\ item' = [item EXCEPT ![t] = NoItem]
    BY <1>3 DEF Reconnected
  <2>2. \A u \in Tasks : reply'[u] = "pending" => reply[u] = "pending" /\ item'[u] = item[u]
    BY <1>1, <2>1 DEF TypeOK
  <2> QED
    BY <2>1, <2>2, EndedAuthorized
<1> QED
  BY <1>2, <1>3

LEMMA AuthAskStep ==
  ASSUME ConnInv, AuthInv, NEW t \in Callers, NEW i \in Item, Ask(t, i),
         t = Watchdog => IsConnected,
         t # Watchdog => i = NoItem
  PROVE  AuthInv'
<1>0. /\ TypeOK /\ t \in Tasks /\ request' = [request EXCEPT ![t] = i]
      /\ UNCHANGED <<socketVars, streams>>
  BY Basics DEF Ask, ConnInv
<1>1. StreamsAreAuthorized'
  BY <1>0 DEF AuthInv, StreamsAreAuthorized, IsConnected, Open, socketVars
<1>2. \A u \in Callers : u # Watchdog => request'[u] = NoItem
  BY <1>0 DEF AuthInv, SubscriberInv, TypeOK
<1>3. CASE Open
  <2>1. Send(t, i, ws, "awaiting")
    BY <1>3 DEF Ask, SendOrReconnect
  <2>2. i \in Symbols => authorized
    BY ConnectionAssumption DEF IsConnected
  <2>3. AskedAuthorized'
    BY <1>0, <2>1, <2>2, SentAuthorized DEF AuthInv, socketVars
  <2>4. pc' = [pc EXCEPT ![t] = "awaiting"] /\ item' = [item EXCEPT ![t] = i]
    BY <2>1 DEF Send
  <2>5. SubscriberInv'
    BY <1>0, <1>2, <2>4, Basics DEF AuthInv, SubscriberInv, TypeOK, socketVars
  <2> QED
    BY <1>1, <2>3, <2>5 DEF AuthInv
<1>4. CASE ~ Open
  <2>1. /\ pc' = [pc EXCEPT ![t] = "locking"] /\ item' = item /\ reply' = reply /\ via' = via
        /\ t # Watchdog
    BY <1>4 DEF Ask, SendOrReconnect, LockQueue, IsConnected
  <2>2. AskedAuthorized'
    BY <1>0, <2>1 DEF AuthInv, AskedAuthorized, socketVars
  <2>3. SubscriberInv'
    BY <1>0, <1>2, <2>1, Basics DEF AuthInv, SubscriberInv, TypeOK, socketVars
  <2> QED
    BY <1>1, <2>2, <2>3 DEF AuthInv
<1> QED
  BY <1>3, <1>4

LEMMA AuthLockStep ==
  ASSUME ConnInv, AuthInv, NEW t \in Tasks, LockGranted(t)
  PROVE  AuthInv'
<1>0. /\ TypeOK /\ waiting # <<>> /\ t = Head(waiting)
      /\ UNCHANGED <<socketVars, todo, request, streams, faults>>
  BY DEF LockGranted, ConnInv
<1>1. pc[t] = "locking"
  <2>1. waiting \in Seq(Tasks) /\ 1 \in DOMAIN waiting /\ waiting[1] = t
    BY <1>0 DEF TypeOK
  <2> QED
    BY <2>1 DEF ConnInv, LockInv
<1>2. t # Watchdog /\ Watchdog \in Tasks
  BY <1>1, Basics DEF AuthInv, SubscriberInv
<1>3. StreamsAreAuthorized'
  BY <1>0 DEF AuthInv, StreamsAreAuthorized, IsConnected, Open, socketVars
<1>4. CASE Open
  <2>1. Reconnected(t)
    BY <1>4 DEF LockGranted
  <2>2. AskedAuthorized'
    BY <1>0, <1>2, <2>1, ReconnectedAuthorized DEF AuthInv, socketVars
  <2>3. /\ pc'[t] \in {"watching", "awaiting", "idle"}
        /\ \A u \in Tasks \ {t} : pc'[u] = pc[u] /\ item'[u] = item[u]
    BY <1>0, <2>1, ReconnectedType
  <2>4. SubscriberInv'
    BY <1>0, <1>2, <2>3 DEF AuthInv, SubscriberInv, socketVars
  <2> QED
    BY <1>3, <2>2, <2>4 DEF AuthInv
<1>5. CASE ~ Open
  <2>1. pc' = [pc EXCEPT ![t] = "opening"] /\ UNCHANGED requestVars
    BY <1>5 DEF LockGranted
  <2>2. AskedAuthorized'
    BY <1>0, <2>1 DEF AuthInv, AskedAuthorized, socketVars, requestVars
  <2>3. SubscriberInv'
    BY <1>0, <1>2, <2>1 DEF AuthInv, SubscriberInv, TypeOK, socketVars, requestVars
  <2> QED
    BY <1>3, <2>2, <2>3 DEF AuthInv
<1> QED
  BY <1>4, <1>5

(* On a new socket nothing is awaited yet but the first message, which is  *)
(* the authorize message where the socket has to be authorized.            *)
LEMMA AuthOpenStep ==
  ASSUME ConnInv, AuthInv, NEW t \in Tasks, SocketOpens(t)
  PROVE  AuthInv'
<1>0. /\ TypeOK /\ pc[t] = "opening" /\ holder = t
      /\ ws' = ws + 1 /\ authorized' = (auth_mode = "otp") /\ streams' = {}
      /\ request' = request
  BY DEF SocketOpens, ConnInv
<1>1. PICK i \in NextRestored(Restored) : Send(t, i, ws + 1, "restoring")
  BY DEF SocketOpens
<1>2. /\ pc'[t] = "restoring" /\ item'[t] = i /\ via'[t] = ws + 1
      /\ \A u \in Tasks \ {t} : pc'[u] = pc[u] /\ via'[u] = via[u]
  BY <1>0, <1>1 DEF Send, TypeOK
<1>3. i = Authorize \/ authorized'
  BY <1>0, <1>1, ConnectionAssumption DEF TypeOK, Restored, NextRestored
<1>4. ws \in Nat /\ \A u \in Tasks : via[u] <= ws /\ via[u] \in Nat
  BY <1>0 DEF AuthInv, AskedAuthorized, TypeOK, Sockets
<1>5. AskedAuthorized'
  BY <1>0, <1>2, <1>3, <1>4, ConnectionAssumption DEF AskedAuthorized
<1>6. t # Watchdog /\ Watchdog \in Tasks
  BY <1>0, Basics DEF AuthInv, SubscriberInv
<1>7. \A u \in Tasks \ {t} : pc[u] # "restoring"
  BY <1>0 DEF ConnInv, LockInv
<1>8. SubscriberInv'
  BY <1>0, <1>2, <1>3, <1>6, <1>7 DEF AuthInv, SubscriberInv
<1> QED
  BY <1>0, <1>5, <1>8 DEF AuthInv, StreamsAreAuthorized

LEMMA AuthRaiseStep ==
  ASSUME ConnInv, AuthInv, NEW t \in Tasks, OpenFails(t) \/ AuthorizeFails(t)
  PROVE  AuthInv'
<1>0. /\ TypeOK /\ ReconnectRaises(t) /\ pc[t] \in {"opening", "restoring"}
      /\ UNCHANGED <<socketVars, request, streams>>
  BY DEF OpenFails, AuthorizeFails, ConnInv
<1>1. /\ via' = via /\ pc'[t] \in {"backoff", "idle"}
      /\ \A u \in Tasks \ {t} : /\ pc'[u] = pc[u] /\ item'[u] = item[u]
                                /\ reply'[u] = reply[u]
  BY <1>0, ReconnectRaisesType
<1>2. reply'[t] = "none"
  BY <1>0 DEF ReconnectRaises, TypeOK
<1>3. t # Watchdog /\ Watchdog \in Tasks
  BY <1>0, Basics DEF AuthInv, SubscriberInv
<1>4. AskedAuthorized'
  BY <1>0, <1>1, <1>2, EndedAuthorized DEF AuthInv, socketVars
<1>5. SubscriberInv'
  BY <1>0, <1>1, <1>3 DEF AuthInv, SubscriberInv, socketVars
<1> QED
  BY <1>0, <1>4, <1>5 DEF AuthInv, StreamsAreAuthorized, IsConnected, Open, socketVars

LEMMA AuthRestoreStep ==
  ASSUME ConnInv, AuthInv, NEW t \in Tasks, RestoreNext(t)
  PROVE  AuthInv'
<1>0. /\ TypeOK /\ pc[t] = "restoring"
      /\ authorized' = (authorized \/ item[t] = Authorize)
      /\ UNCHANGED <<auth_mode, sock, reading, ws, request, streams, faults>>
  BY DEF RestoreNext, ConnInv
<1>1. authorized'
  BY <1>0 DEF AuthInv, SubscriberInv
<1>2. t # Watchdog /\ Watchdog \in Tasks
  BY <1>0, Basics DEF AuthInv, SubscriberInv
<1>3. StreamsAreAuthorized'
  BY <1>0, <1>1 DEF AuthInv, StreamsAreAuthorized, IsConnected, Open
<1>4. CASE todo = {}
  <2>1. Reconnected(t)
    BY <1>4 DEF RestoreNext
  <2>2. AskedAuthorized'
    BY <1>0, <1>1, <1>2, <2>1, ReconnectedAuthorized DEF AuthInv
  <2>3. \A u \in Tasks \ {t} : pc'[u] = pc[u]
    BY <1>0, <2>1, ReconnectedType
  <2>4. SubscriberInv'
    BY <1>0, <1>1, <1>2, <2>3 DEF AuthInv, SubscriberInv
  <2> QED
    BY <1>3, <2>2, <2>4 DEF AuthInv
<1>5. CASE todo # {}
  <2>1. PICK i \in todo : SendOrReconnect(t, i, "restoring")
    BY <1>5 DEF RestoreNext
  <2>2. i \in Item
    BY <1>0, <2>1 DEF TypeOK
  <2>3. \A u \in Tasks \ {t} : pc'[u] = pc[u]
    BY <1>0, <2>1 DEF SendOrReconnect, Send, LockQueue, TypeOK
  <2>4. SubscriberInv'
    BY <1>0, <1>1, <1>2, <2>3 DEF AuthInv, SubscriberInv
  <2>5. CASE Open
    <3>1. Send(t, i, ws, "restoring")
      BY <2>1, <2>5 DEF SendOrReconnect
    <3>2. AskedAuthorized'
      BY <1>0, <1>1, <2>2, <3>1, SentAuthorized DEF AuthInv
    <3> QED
      BY <1>3, <2>4, <3>2 DEF AuthInv
  <2>6. CASE ~ Open
    <3>1. item' = item /\ reply' = reply /\ via' = via
      BY <2>1, <2>6 DEF SendOrReconnect
    <3>2. AskedAuthorized'
      BY <1>0, <1>1, <3>1 DEF AuthInv, AskedAuthorized
    <3> QED
      BY <1>3, <2>4, <3>2 DEF AuthInv
  <2> QED
    BY <2>5, <2>6
<1> QED
  BY <1>4, <1>5

(* Ticks flow only once a subscription was answered on the newest socket.  *)
LEMMA AuthAnswerStep ==
  ASSUME ConnInv, AuthInv, NEW t \in Tasks, Answer(t)
  PROVE  AuthInv'
<1>0. /\ TypeOK /\ reply[t] = "pending" /\ via[t] \in Sockets /\ sock[via[t]] = "open"
      /\ reply' = [reply EXCEPT ![t] = "ok"]
      /\ streams' = (IF item[t] \in Symbols THEN streams \cup {item[t]} ELSE streams)
      /\ UNCHANGED <<socketVars, pc, request, item, via>>
  BY DEF Answer, ConnInv, TypeOK
<1>1. via[t] = ws
  <2>1. via[t] \in Nat /\ ws \in Nat /\ via[t] <= ws
    BY <1>0 DEF TypeOK, Sockets, AuthInv, AskedAuthorized
  <2> QED
    BY <1>0, <2>1 DEF ConnInv, SocketInv
<1>2. StreamsAreAuthorized'
  BY <1>0, <1>1 DEF AuthInv, AskedAuthorized, StreamsAreAuthorized, IsConnected, Open, socketVars
<1>3. AskedAuthorized'
  <2>1. \A u \in Tasks : reply'[u] = "pending" => reply[u] = "pending" /\ item'[u] = item[u]
    BY <1>0 DEF TypeOK
  <2> QED
    BY <1>0, <2>1, EndedAuthorized DEF AuthInv, socketVars
<1>4. SubscriberInv'
  BY <1>0 DEF AuthInv, SubscriberInv, socketVars
<1> QED
  BY <1>2, <1>3, <1>4 DEF AuthInv

(* The steps that neither send nor open anything.                          *)
LEMMA AuthQuietStep ==
  ASSUME ConnInv, AuthInv, ws' = ws, authorized' = authorized, via' = via,
         request' = request, streams' \subseteq streams,
         streams' # {} => (Open' <=> Open),
         \A u \in Tasks : /\ reply'[u] = "pending" => reply[u] = "pending" /\ item'[u] = item[u]
                          /\ pc'[u] = "restoring" => pc[u] = "restoring" /\ item'[u] = item[u],
         pc'[Watchdog] \in {"idle", "awaiting"}
  PROVE  AuthInv'
<1>1. AskedAuthorized'
  BY EndedAuthorized DEF AuthInv
<1>2. SubscriberInv'
  BY DEF AuthInv, SubscriberInv
<1>3. StreamsAreAuthorized'
  BY DEF AuthInv, StreamsAreAuthorized, IsConnected
<1> QED
  BY <1>1, <1>2, <1>3 DEF AuthInv

LEMMA AuthStep == ConnInv /\ AuthInv /\ [Next]_vars => AuthInv'
<1> SUFFICES ASSUME ConnInv, AuthInv, [Next]_vars PROVE AuthInv'
  OBVIOUS
<1>0. /\ TypeOK /\ Watchdog \in Tasks /\ Supervisor \in Tasks /\ Watchdog # Supervisor
      /\ pc[Watchdog] \in {"idle", "awaiting"}
  BY Basics, ConnectionAssumption DEF ConnInv, AuthInv, SubscriberInv
<1>1. ASSUME NEW t \in Callers, CallerAsks(t)
      PROVE  AuthInv'
  BY <1>1, AuthAskStep, Basics DEF CallerAsks
<1>2. ASSUME NEW s \in Symbols, WatchdogAsks(s)
      PROVE  AuthInv'
  BY <1>2, AuthAskStep, Basics, ConnectionAssumption DEF WatchdogAsks
<1>3. ASSUME NEW s \in Symbols, StreamStops(s)
      PROVE  AuthInv'
  BY <1>0, <1>3, AuthQuietStep DEF StreamStops, socketVars, requestVars, Open
<1>4. ASSUME NEW t \in Tasks, ReconnectStep(t)
      PROVE  AuthInv'
  BY <1>4, AuthLockStep, AuthOpenStep, AuthRaiseStep, AuthRestoreStep DEF ReconnectStep
<1>5. ASSUME NEW t \in Tasks, Answer(t)
      PROVE  AuthInv'
  BY <1>5, AuthAnswerStep
<1>6. ASSUME NEW t \in Tasks, RequestTimesOut(t)
      PROVE  AuthInv'
  <2>1. /\ reply' = [reply EXCEPT ![t] = "failed"]
        /\ UNCHANGED <<socketVars, pc, request, item, via, streams>>
    BY <1>6 DEF RequestTimesOut
  <2> QED
    BY <1>0, <2>1, AuthQuietStep DEF TypeOK, socketVars, Open
<1>7. ASSUME NEW t \in Callers, RequestEnds(t)
      PROVE  AuthInv'
  <2>1. /\ pc' = [pc EXCEPT ![t] = "idle"] /\ reply' = [reply EXCEPT ![t] = "none"]
        /\ item' = [item EXCEPT ![t] = NoItem]
        /\ UNCHANGED <<socketVars, request, via, streams>>
    BY <1>7 DEF RequestEnds
  <2>2. \A u \in Tasks :
          /\ reply'[u] = "pending" => reply[u] = "pending" /\ item'[u] = item[u]
          /\ pc'[u] = "restoring" => pc[u] = "restoring" /\ item'[u] = item[u]
    BY <1>0, <2>1 DEF TypeOK
  <2>3. pc'[Watchdog] \in {"idle", "awaiting"}
    BY <1>0, <2>1 DEF TypeOK
  <2> QED
    BY <2>1, <2>2, <2>3, AuthQuietStep DEF socketVars, Open
<1>8. CASE PumpSeenDead \/ BackoffEnds
  <2>1. /\ \E a \in {"backoff", "locking"} : pc' = [pc EXCEPT ![Supervisor] = a]
        /\ UNCHANGED <<socketVars, request, item, reply, via, streams>>
    BY <1>8 DEF PumpSeenDead, BackoffEnds, LockQueue, requestVars
  <2>2. \A u \in Tasks : pc'[u] = "restoring" => pc[u] = "restoring"
    BY <1>0, <2>1 DEF TypeOK
  <2>3. pc'[Watchdog] \in {"idle", "awaiting"}
    BY <1>0, <2>1 DEF TypeOK
  <2> QED
    BY <2>1, <2>2, <2>3, AuthQuietStep DEF socketVars, Open
<1>9. ASSUME NEW k \in Sockets, SocketFails(k)
      PROVE  AuthInv'
  BY <1>0, <1>9, AuthQuietStep DEF SocketFails, lockVars, requestVars
<1>10. ASSUME NEW k \in Sockets, PumpEnds(k)
       PROVE  AuthInv'
  <2>1. /\ sock[k] = "closing" /\ sock' = [sock EXCEPT ![k] = "closed"]
        /\ reply' = [t \in Tasks |-> IF reply[t] = "pending" THEN "failed" ELSE reply[t]]
        /\ UNCHANGED <<ws, authorized, pc, request, item, via, streams>>
    BY <1>10 DEF PumpEnds, lockVars
  <2>2. Open' <=> Open
    BY <1>0, <2>1 DEF TypeOK, Open
  <2>3. \A u \in Tasks : reply'[u] = "pending" => reply[u] = "pending"
    BY <2>1
  <2> QED
    BY <1>0, <2>1, <2>2, <2>3, AuthQuietStep
<1>11. CASE UNCHANGED vars
  BY <1>0, <1>11, AuthQuietStep DEF vars, socketVars, lockVars, requestVars, Open
<1> QED
  BY <1>1, <1>2, <1>3, <1>4, <1>5, <1>6, <1>7, <1>8, <1>9, <1>10, <1>11 DEF Next

(* In both authorization modes, through any number of reconnects: ticks    *)
(* flow only on an open and authorized socket, and only because the bot    *)
(* subscribed there.                                                       *)
THEOREM NothingStreamsUnauthorized == Spec => []StreamsAreAuthorized
<1>1. Init => ConnInv /\ AuthInv
  BY InitConn, InitAuth
<1>2. ConnInv /\ AuthInv /\ [Next]_vars => (ConnInv /\ AuthInv)'
  BY ConnStep, AuthStep
<1>3. ConnInv /\ AuthInv => StreamsAreAuthorized
  BY DEF AuthInv
<1> QED
  BY <1>1, <1>2, <1>3, PTL DEF Spec
=============================================================================

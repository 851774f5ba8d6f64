--------------------------- MODULE DerivConnection ---------------------------
(***************************************************************************)
(* deriv/client.py: one WebSocket shared by every task of the bot, a pump  *)
(* that alone reads it, a supervisor that reconnects when the pump ends,   *)
(* and the request path, which reconnects too when it finds the socket     *)
(* dead.  A reconnect runs under _connect_lock and subscribes every symbol *)
(* again through the request path itself.  What runs between two awaits of *)
(* a task is one action.  The rate limiter only delays and is left out.    *)
(***************************************************************************)
EXTENDS Integers, Sequences, FiniteSets

CONSTANTS
  Symbols,      \* the symbols run() has subscribed (keys of _tick_queues)
  Callers,      \* tasks that send requests
  Watchdog,     \* the caller that subscribes silent symbols again
  Supervisor,   \* _supervise_pump
  NoTask,
  Authorize,    \* the legacy authorize message
  NoItem,       \* no subscription: a request like balance or portfolio
  AuthModes,    \* values auth_mode may have
  \* bounds on the environment, not in the code:
  MaxSockets,   \* sockets ever opened
  MaxFaults     \* failed opens, unanswered requests and stopped streams

ASSUME ConnectionAssumption ==
  /\ IsFiniteSet(Symbols) /\ IsFiniteSet(Callers)
  /\ Watchdog \in Callers /\ Supervisor \notin Callers
  /\ NoTask \notin Callers \cup {Supervisor}
  /\ Authorize \notin Symbols /\ NoItem \notin Symbols \cup {Authorize}
  /\ AuthModes \subseteq {"otp", "legacy"} /\ AuthModes # {}
  /\ MaxSockets \in Nat \ {0} /\ MaxFaults \in Nat

Tasks == Callers \cup {Supervisor}
Sockets == 1..MaxSockets
Item == Symbols \cup {Authorize, NoItem}

VARIABLES
  auth_mode,   \* given to the client when it is constructed
  sock,        \* state of every socket; "closed" once its pump has ended
  reading,     \* sockets that have a pump
  ws,          \* _ws, the newest socket
  authorized,  \* _authorized
  holder,      \* who holds _connect_lock
  waiting,     \* its queue
  todo,        \* what the holder's _reconnect still has to send
  pc,          \* the await a task is in
  watched,     \* the socket of the pump the supervisor awaits
  request,     \* what a caller asks for
  item,        \* what the request in flight asks for
  reply,       \* the pending future of a task
  via,         \* the socket its request went out on
  streams,     \* symbols Deriv sends ticks for on the newest socket
  faults

socketVars == <<auth_mode, sock, reading, ws, authorized>>
lockVars == <<holder, waiting, todo>>
requestVars == <<item, reply, via>>
vars == <<socketVars, lockVars, pc, watched, request, requestVars, streams, faults>>

TypeOK ==
  /\ auth_mode \in AuthModes
  /\ sock \in [Sockets -> {"none", "open", "closing", "closed"}]
  /\ reading \subseteq Sockets /\ ws \in Sockets /\ watched \in Sockets
  /\ authorized \in BOOLEAN
  /\ holder \in Tasks \cup {NoTask} /\ waiting \in Seq(Tasks)
  /\ \A i, j \in DOMAIN waiting : waiting[i] = waiting[j] => i = j
  /\ todo \subseteq Item
  /\ pc \in [Tasks -> {"idle", "locking", "opening", "restoring", "awaiting",
                       "watching", "backoff"}]
  /\ request \in [Callers -> Item]
  /\ item \in [Tasks -> Item]
  /\ reply \in [Tasks -> {"none", "pending", "ok", "failed"}]
  /\ via \in [Tasks -> Sockets]
  /\ streams \subseteq Symbols
  /\ faults \in 0..MaxFaults

(* connect() has opened the first socket, run() has subscribed.            *)
Init ==
  /\ auth_mode \in AuthModes
  /\ sock = [k \in Sockets |-> IF k = 1 THEN "open" ELSE "none"]
  /\ reading = {1} /\ ws = 1 /\ watched = 1
  /\ authorized = TRUE
  /\ holder = NoTask /\ waiting = <<>> /\ todo = {}
  /\ pc = [t \in Tasks |-> IF t = Supervisor THEN "watching" ELSE "idle"]
  /\ request = [t \in Callers |-> NoItem]
  /\ item = [t \in Tasks |-> NoItem]
  /\ reply = [t \in Tasks |-> "none"]
  /\ via = [t \in Tasks |-> 1]
  /\ streams = Symbols
  /\ faults = 0

Open == sock[ws] = "open"

IsConnected == Open /\ authorized

Fault == faults < MaxFaults /\ faults' = faults + 1

-----------------------------------------------------------------------------
(* _send and ensure_connected                                              *)

Send(t, i, k, await) ==
  /\ pc' = [pc EXCEPT ![t] = await]
  /\ item' = [item EXCEPT ![t] = i]
  /\ reply' = [reply EXCEPT ![t] = "pending"]
  /\ via' = [via EXCEPT ![t] = k]

LockQueue(t) ==
  /\ waiting' = Append(waiting, t)
  /\ pc' = [pc EXCEPT ![t] = "locking"]

(* The socket is looked at outside the lock; a dead one sends the task to  *)
(* _reconnect, and so to the lock.                                         *)
SendOrReconnect(t, i, await) ==
  IF Open THEN Send(t, i, ws, await) /\ UNCHANGED waiting
  ELSE LockQueue(t) /\ UNCHANGED <<item, reply, via>>

Ask(t, i) ==
  /\ pc[t] = "idle"
  /\ request' = [request EXCEPT ![t] = i]
  /\ SendOrReconnect(t, i, "awaiting")
  /\ UNCHANGED <<socketVars, holder, todo, watched, streams, faults>>

CallerAsks(t) == t # Watchdog /\ Ask(t, NoItem)

(* watchdog(): a silent symbol is subscribed again, whether its stream has *)
(* ended or has nothing to say, but only while the client says it is       *)
(* connected.                                                              *)
WatchdogAsks(s) == IsConnected /\ Ask(Watchdog, s)

(* The pump resolves the future; the answer to a subscription starts it.   *)
Answer(t) ==
  /\ reply[t] = "pending" /\ via[t] \in reading /\ sock[via[t]] = "open"
  /\ reply' = [reply EXCEPT ![t] = "ok"]
  /\ streams' = IF item[t] \in Symbols THEN streams \cup {item[t]} ELSE streams
  /\ UNCHANGED <<socketVars, lockVars, pc, watched, request, item,
                 via, faults>>

(* request_timeout, or an error answer.  On a socket that is gone it is    *)
(* certain, on one that is open it is a fault.                             *)
RequestTimesOut(t) ==
  /\ reply[t] = "pending"
  /\ IF sock[via[t]] = "open" THEN Fault ELSE UNCHANGED faults
  /\ reply' = [reply EXCEPT ![t] = "failed"]
  /\ UNCHANGED <<socketVars, lockVars, pc, watched, request, item,
                 via, streams>>

(* The answer of a caller's own request, or the exception instead of it.   *)
RequestEnds(t) ==
  /\ pc[t] = "awaiting" /\ reply[t] \in {"ok", "failed"}
  /\ pc' = [pc EXCEPT ![t] = "idle"]
  /\ reply' = [reply EXCEPT ![t] = "none"]
  /\ item' = [item EXCEPT ![t] = NoItem]
  /\ UNCHANGED <<socketVars, lockVars, watched, request, via,
                 streams, faults>>

-----------------------------------------------------------------------------
(* _reconnect                                                              *)

MutantReconnected(t) ==
  /\ holder' = t
  /\ pc' = [pc EXCEPT ![t] = IF t = Supervisor THEN "watching" ELSE "idle"]
  /\ watched' = ws
  /\ UNCHANGED requestVars

(* _reconnect returns to whoever called it with the lock released: the     *)
(* supervisor awaits the newest pump, a caller sends its request or, when  *)
(* the socket has died meanwhile, gets an exception.                       *)
Reconnected(t) ==
  /\ holder' = NoTask
  /\ IF t = Supervisor
     THEN /\ pc' = [pc EXCEPT ![t] = "watching"] /\ watched' = ws
          /\ reply' = [reply EXCEPT ![t] = "none"]
          /\ item' = [item EXCEPT ![t] = NoItem]
          /\ UNCHANGED via
     ELSE /\ UNCHANGED watched
          /\ IF Open THEN Send(t, request[t], ws, "awaiting")
             ELSE /\ pc' = [pc EXCEPT ![t] = "idle"]
                  /\ reply' = [reply EXCEPT ![t] = "none"]
                  /\ item' = [item EXCEPT ![t] = NoItem]
                  /\ UNCHANGED via

(* _reconnect raises: the supervisor waits and tries again, a caller gives *)
(* up.                                                                     *)
ReconnectRaises(t) ==
  /\ holder' = NoTask
  /\ pc' = [pc EXCEPT ![t] = IF t = Supervisor THEN "backoff" ELSE "idle"]
  /\ reply' = [reply EXCEPT ![t] = "none"]
  /\ item' = [item EXCEPT ![t] = NoItem]
  /\ UNCHANGED <<watched, via>>

MutantLockGranted(t) ==
  /\ holder = NoTask /\ waiting # <<>> /\ t = Head(waiting)
  /\ waiting' = Tail(waiting)
  /\ holder' = t /\ pc' = [pc EXCEPT ![t] = "opening"]
  /\ UNCHANGED <<watched, requestVars>>
  /\ UNCHANGED <<socketVars, todo, request, streams, faults>>

(* The lock is handed over in the order of arrival, and the socket is      *)
(* looked at again: someone else may have reconnected.                     *)
LockGranted(t) ==
  /\ holder = NoTask /\ waiting # <<>> /\ t = Head(waiting)
  /\ waiting' = Tail(waiting)
  /\ IF Open THEN Reconnected(t)
     ELSE /\ holder' = t /\ pc' = [pc EXCEPT ![t] = "opening"]
          /\ UNCHANGED <<watched, requestVars>>
  /\ UNCHANGED <<socketVars, todo, request, streams, faults>>

(* create_task(_recv_pump()) on the new socket, before anything is sent.   *)
Pumps == reading \cup {ws + 1}

(* Everything _reconnect sends again: the authorize message first.         *)
Restored == IF auth_mode = "legacy" THEN Symbols \cup {Authorize} ELSE Symbols

MutantNextRestored(left) == left

NextRestored(left) == IF Authorize \in left THEN {Authorize} ELSE left

(* A new socket (and, in OTP mode, a new one-time password) replaces _ws,  *)
(* its pump is started and the first message is sent, all without an await *)
(* in between.  What the dead socket was subscribed to is gone.            *)
SocketOpens(t) ==
  /\ holder = t /\ pc[t] = "opening"
  /\ sock' = [sock EXCEPT ![ws + 1] = "open"]
  /\ reading' = Pumps
  /\ ws' = ws + 1
  /\ authorized' = (auth_mode = "otp")
  /\ streams' = {}
  /\ \E i \in NextRestored(Restored) :
       /\ todo' = Restored \ {i}
       /\ Send(t, i, ws + 1, "restoring")
  /\ UNCHANGED <<auth_mode, holder, waiting, watched, request, faults>>

OpenFails(t) ==
  /\ holder = t /\ pc[t] = "opening" /\ Fault
  /\ ReconnectRaises(t)
  /\ UNCHANGED <<socketVars, waiting, todo, request, streams>>

(* A resubscription has ended, well or not; the next goes through _send    *)
(* like any request, the lock still held.                                  *)
RestoreNext(t) ==
  /\ pc[t] = "restoring"
  /\ reply[t] = "ok" \/ (reply[t] = "failed" /\ item[t] # Authorize)
  /\ authorized' = (authorized \/ item[t] = Authorize)
  /\ IF todo = {}
     THEN Reconnected(t) /\ UNCHANGED <<todo, waiting>>
     ELSE /\ \E i \in todo :
               /\ todo' = todo \ {i}
               /\ SendOrReconnect(t, i, "restoring")
          /\ UNCHANGED <<holder, watched>>
  /\ UNCHANGED <<auth_mode, sock, reading, ws, request, streams, faults>>

(* A failed authorize leaves _reconnect, the socket stays open.            *)
AuthorizeFails(t) ==
  /\ pc[t] = "restoring" /\ item[t] = Authorize /\ reply[t] = "failed"
  /\ ReconnectRaises(t)
  /\ todo' = {}
  /\ UNCHANGED <<socketVars, waiting, request, streams, faults>>

-----------------------------------------------------------------------------
(* _supervise_pump                                                         *)

MutantPumpSeenDead ==
  /\ pc[Supervisor] = "watching" /\ sock[watched] = "closed"
  /\ pc' = [pc EXCEPT ![Supervisor] = IF watched = 1 THEN "backoff" ELSE "idle"]
  /\ UNCHANGED <<socketVars, lockVars, watched, request, requestVars,
                 streams, faults>>

PumpSeenDead ==
  /\ pc[Supervisor] = "watching" /\ sock[watched] = "closed"
  /\ pc' = [pc EXCEPT ![Supervisor] = "backoff"]
  /\ UNCHANGED <<socketVars, lockVars, watched, request, requestVars,
                 streams, faults>>

MutantBackoffEnds ==
  /\ pc[Supervisor] = "backoff"
  /\ waiting' = Append(waiting, Supervisor)
  /\ UNCHANGED <<socketVars, holder, todo, pc, watched, request,
                 requestVars, streams, faults>>

BackoffEnds ==
  /\ pc[Supervisor] = "backoff"
  /\ LockQueue(Supervisor)
  /\ UNCHANGED <<socketVars, holder, todo, watched, request,
                 requestVars, streams, faults>>

-----------------------------------------------------------------------------
(* The network                                                             *)

(* Keep-alive failure or a close frame: the state leaves OPEN at once.     *)
SocketFails(k) ==
  /\ sock[k] = "open" /\ k < MaxSockets
  /\ sock' = [sock EXCEPT ![k] = "closing"]
  /\ streams' = {}
  /\ UNCHANGED <<auth_mode, reading, ws, authorized, lockVars, pc, watched, request,
                 requestVars, faults>>

(* The pump's loop ends when the close is complete (close_timeout seconds  *)
(* later at most).  Its "finally" fails every request in the table, those  *)
(* of a newer socket too.                                                  *)
PumpEnds(k) ==
  /\ sock[k] = "closing"
  /\ sock' = [sock EXCEPT ![k] = "closed"]
  /\ reading' = reading \ {k}
  /\ reply' = [t \in Tasks |-> IF reply[t] = "pending" THEN "failed" ELSE reply[t]]
  /\ UNCHANGED <<auth_mode, ws, authorized, lockVars, pc, watched, request, item, via,
                 streams, faults>>

(* Deriv stops a tick stream without a word.                               *)
StreamStops(s) ==
  /\ s \in streams /\ Fault
  /\ streams' = streams \ {s}
  /\ UNCHANGED <<socketVars, lockVars, pc, watched, request,
                 requestVars>>

ReconnectStep(t) ==
  LockGranted(t) \/ SocketOpens(t) \/ OpenFails(t) \/ RestoreNext(t) \/ AuthorizeFails(t)

Next ==
  \/ \E t \in Callers : CallerAsks(t) \/ RequestEnds(t)
  \/ \E s \in Symbols : WatchdogAsks(s) \/ StreamStops(s)
  \/ \E t \in Tasks : ReconnectStep(t) \/ Answer(t) \/ RequestTimesOut(t)
  \/ PumpSeenDead \/ BackoffEnds
  \/ \E k \in Sockets : SocketFails(k) \/ PumpEnds(k)

Spec == Init /\ [][Next]_vars

(* Tasks that can run are run, Deriv answers on an open socket, a dying    *)
(* socket is closed, the watchdog looks again every few seconds (a symbol  *)
(* without a stream is silent, and asked for whenever the watchdog is free *)
(* again and again: strong fairness).  No caller ever has to ask, nothing ever has to fail. *)
FairSpec ==
  /\ Spec
  /\ \A t \in Tasks :
       /\ WF_vars(LockGranted(t)) /\ WF_vars(SocketOpens(t))
       /\ WF_vars(RestoreNext(t) \/ AuthorizeFails(t))
       /\ WF_vars(Answer(t))
       /\ WF_vars(RequestTimesOut(t) /\ sock[via[t]] # "open")
  /\ \A t \in Callers : WF_vars(RequestEnds(t))
  /\ WF_vars(PumpSeenDead) /\ WF_vars(BackoffEnds)
  /\ \A k \in Sockets : WF_vars(PumpEnds(k))
  /\ \A s \in Symbols : SF_vars(s \notin streams /\ WatchdogAsks(s))

-----------------------------------------------------------------------------
(* Safety                                                                  *)

(* Rules 1 and 2: several tasks may find the socket dead at once, and yet  *)
(* never are two sockets open, which would have two readers and every tick *)
(* twice.                                                                  *)
OneOpenSocket == \A j, k \in Sockets : sock[j] = "open" /\ sock[k] = "open" => j = k

(* A symbol whose ticks flow on a socket that is authorized is one the     *)
(* bot itself subscribed there: a subscription never outlives its socket,  *)
(* and none is sent before the authorize message was answered.             *)
StreamsAreAuthorized == streams # {} => IsConnected

-----------------------------------------------------------------------------
(* Liveness                                                                *)

(* A task that resubscribes finds the new socket dead and queues up for    *)
(* the lock it holds: nobody gets the lock again.                          *)
WaitsForItself == \E i \in DOMAIN waiting : waiting[i] = holder

(* A legacy socket whose authorize message failed is open, so nobody       *)
(* reconnects, and unauthorized, so nobody subscribes.                     *)
LeftUnauthorized == Open /\ ~ authorized /\ holder = NoTask

(* Rule 2: recv-pump death must never be a silent permanent outage.  Once  *)
(* the network stops failing, every symbol gets its ticks again, for good; *)
(* the code has two ways out of that, and only two: a reconnect that waits *)
(* for itself and a failed authorize.                                      *)
FeedRecovers == <>[](streams = Symbols \/ WaitsForItself \/ LeftUnauthorized)

(* A request is answered or raises: it is never left hanging, not even by  *)
(* a socket that dies under it or by a reconnect it waits for, unless that *)
(* reconnect waits for itself.                                             *)
EveryRequestEnds ==
  \A t \in Callers : pc[t] # "idle" ~> (pc[t] = "idle" \/ WaitsForItself)

(* client.py: a dead socket is never a permanent outage, whatever happens  *)
(* during the reconnect.                                                   *)
FeedAlwaysRecovers == <>[](streams = Symbols)
=============================================================================

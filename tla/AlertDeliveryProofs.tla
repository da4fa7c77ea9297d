------------------------- MODULE AlertDeliveryProofs -------------------------
(***************************************************************************)
(* Proofs about AlertDelivery for every set of channels, any number of     *)
(* retry chains, alerts, notifications, failed writes and crashes.         *)
(*                                                                         *)
(*   Ranges     what the handler and the retries know at each point; with  *)
(*              TypeOK inductive by itself                                 *)
(*   Knowledge  every copy of FiringNotified, every notification of a      *)
(*              resolution and every record of one is about an alert whose *)
(*              firing was received                                        *)
(*   Alive      the copies that are saved over a firing alert say firing,  *)
(*              but for the handler's of a resolved device                 *)
(*   OrderInv   each notification on a channel has one holder, which knows *)
(*              the number after the last one in the log                   *)
(***************************************************************************)
EXTENDS AlertDelivery, FiniteSetTheorems, WellFoundedInduction, TLAPS

\* Where the handler is, and what it works on there.
Ranges ==
    /\ handler.pc \in {"find", "cancel", "save"} => sent < MaxDelivery
    /\ handler.pc = "find" =>
          /\ handler.kind \in {"opened", "changed", "resolved"} /\ handler.event = "firing"
          /\ handler.kind # "resolved" => opened < MaxAlert
    /\ handler.pc \in {"cancel", "save", "deliver", "record", "mark"} =>
          handler.kind \in {"opened", "changed", "resolved"}
    /\ handler.pc = "register" => handler.kind \in {"opened", "changed", "resolved", "recover"}
    /\ handler.pc \in {"cancel", "save", "deliver", "record", "register", "mark"}
          /\ handler.kind # "recover" =>
          /\ handler.alert \in AlertID
          /\ handler.kind = "resolved" <=> handler.event = "resolved"
    /\ handler.pc \in {"deliver", "record", "register"} /\ handler.kind # "recover" =>
          handler.delivery \in 1 .. MaxDelivery
    /\ handler.pc = "cancel" => handler.kind = "resolved"
    /\ handler.pc = "mark" => handler.event = "firing"
    /\ handler.pc = "recover" => handler.kind = "recover"
    /\ handler.kind = "recover" => handler.event = "firing"
    /\ \A w \in Worker : workers[w].pc = "register" => workers[w].attempt.number < MaxAttempt
    /\ \A w \in Worker : workers[w].pc = "mark" => workers[w].attempt.event = "firing"
    /\ \A e \in pending : e.attempt.number < MaxAttempt

TypeInv == TypeOK /\ Ranges

Reached(a) == <<a, "firing">> \in received

\* What the handler holds.
HandlerKnows ==
    /\ handler.copy.notified => Reached(handler.alert)
    /\ handler.pc \in {"find", "cancel", "save"} => ~handler.any
    /\ handler.any /\ handler.event = "firing" => Reached(handler.alert)
    /\ handler.pc \in {"deliver", "record", "register"} /\ handler.event = "resolved"
          => Reached(handler.alert)
    /\ handler.pc = "mark" => Reached(handler.alert)
    /\ handler.pc \in {"record", "register"} /\ handler.attempt.event = "resolved"
          => Reached(handler.attempt.alert)

\* What a retry chain x holds.
Knows(x) ==
    x.pc # "free" =>
        /\ x.attempt.event = "resolved" => Reached(x.attempt.alert)
        /\ x.copy.notified => Reached(x.attempt.alert)
        /\ x.pc = "mark" => Reached(x.attempt.alert)
        /\ x.pc = "record" /\ x.outcome = "delivered" /\ x.attempt.event = "firing"
              => Reached(x.attempt.alert)

WorkersKnow == \A w \in Worker : Knows(workers[w])

\* What the log and its file hold, and what startup takes from them.
LogKnows == \A e \in log \cup logFile \cup pending :
                e.attempt.event = "resolved" => Reached(e.attempt.alert)

Knowledge == NotifiedWasReceived /\ NoOrphanResolved /\ HandlerKnows /\ WorkersKnow /\ LogKnows

SomeFiring == \E a \in AlertID : alerts[a].state = "firing"

\* The copy that a retry chain x saves once its firing is delivered.
Firm(x) == x.pc \in {"deliver", "record", "mark"} /\ x.attempt.event = "firing"
              => x.copy.state = "firing"

Alive ==
    /\ ~lost /\ health.mem = "firing" /\ handler.pc \notin {"find", "cancel", "save"}
          => SomeFiring
    /\ handler.pc \in {"find", "cancel", "save"} /\ handler.kind = "resolved"
          => health.mem = "ok"
    /\ handler.pc \in {"save", "deliver", "record", "register", "mark"}
          /\ handler.kind \in {"opened", "changed"} => handler.copy.state = "firing"
    /\ \A w \in Worker : Firm(workers[w])

\* Cancelling retries changes nothing but their contexts.
LEMMA CancelledKeeps ==
  ASSUME TypeOK, NEW K
  PROVE  /\ Cancelled(K) \in [Worker -> WorkerType]
         /\ \A w \in Worker : /\ Cancelled(K)[w].pc = workers[w].pc
                              /\ Cancelled(K)[w].attempt = workers[w].attempt
                              /\ Cancelled(K)[w].copy = workers[w].copy
                              /\ Cancelled(K)[w].outcome = workers[w].outcome
         /\ Forgotten(K) \in [Key -> Worker \cup {NoWorker}]
<1>1. ASSUME NEW w \in Worker
      PROVE  /\ Cancelled(K)[w] \in WorkerType
             /\ Cancelled(K)[w].pc = workers[w].pc
             /\ Cancelled(K)[w].attempt = workers[w].attempt
             /\ Cancelled(K)[w].copy = workers[w].copy
             /\ Cancelled(K)[w].outcome = workers[w].outcome
  <2>1. workers[w] \in WorkerType
    BY DEF TypeOK
  <2> QED
    BY <2>1 DEF Cancelled, WorkerType
<1>2. Cancelled(K) = [w \in Worker |-> Cancelled(K)[w]]
  BY DEF Cancelled
<1>3. Forgotten(K) \in [Key -> Worker \cup {NoWorker}]
  BY DEF Forgotten, TypeOK
<1> QED
  BY <1>1, <1>2, <1>3

\* The handler at rest.
LEMMA IdleTyped ==
  /\ IdleHandler \in HandlerType /\ IdleHandler.pc = "idle" /\ IdleHandler.kind = "none"
  /\ IdleHandler.event = "firing" /\ ~IdleHandler.any /\ ~IdleHandler.copy.notified
  BY AlertAssumption DEF IdleHandler, HandlerType, Alert, NoAlert, Event, Outcome

\* A worker that has nothing to deliver.
LEMMA FreeTyped ==
  FreeWorker \in WorkerType /\ FreeWorker.pc = "free" /\ ~FreeWorker.copy.notified
  BY AlertAssumption DEF FreeWorker, WorkerType, Alert, NoAlert, Event, Outcome

\* The handler may hold any alert, or none.
LEMMA IDRange == AlertID \subseteq 0 .. MaxAlert
  BY AlertAssumption DEF AlertID

\* A handler that goes on to the next channel, marks the alert or is done.
LEMMA DispatchedTyped ==
  ASSUME TypeInv, handler.pc \in {"record", "register"}, handler.kind # "recover"
  PROVE  /\ Dispatched(handler) \in HandlerType
         /\ Dispatched(handler).pc \in {"idle", "deliver", "mark"}
         /\ Dispatched(handler).pc = "idle" => Dispatched(handler) = IdleHandler
         /\ Dispatched(handler).pc # "idle" =>
               /\ Dispatched(handler).kind = handler.kind
               /\ Dispatched(handler).event = handler.event
               /\ Dispatched(handler).alert = handler.alert
               /\ Dispatched(handler).delivery = handler.delivery
               /\ Dispatched(handler).copy = handler.copy
               /\ Dispatched(handler).any = handler.any
         /\ Dispatched(handler).pc = "mark" => handler.event = "firing" /\ handler.any
<1>1. handler \in HandlerType
  BY DEF TypeInv, TypeOK
<1>2. CASE handler.todo # {}
  BY <1>1, <1>2 DEF Dispatched, HandlerType
<1>3. CASE handler.todo = {} /\ handler.any /\ handler.event = "firing"
  BY <1>1, <1>3 DEF Dispatched, HandlerType
<1>4. CASE handler.todo = {} /\ ~(handler.any /\ handler.event = "firing")
  <2>1. Dispatched(handler) = IdleHandler
    BY <1>4 DEF Dispatched
  <2> QED
    BY <2>1, IdleTyped
<1> QED
  BY <1>2, <1>3, <1>4

\* A recorded attempt is an entry of the log.
LEMMA RecordTyped ==
  ASSUME TypeInv, NEW t \in Attempt, NEW o, NEW next \in BOOLEAN, NEW ok \in BOOLEAN,
         RecordDeliveryAttempt(t, o, next, ok)
  PROVE  log' \subseteq Entry /\ logFile' \subseteq Entry /\ faults' \in 0 .. MaxFault
<1> DEFINE d == o = "delivered"
<1>1. d \in BOOLEAN
  OBVIOUS
<1>2. [attempt |-> t, delivered |-> d, next |-> next] \in Entry
  <2> HIDE DEF d
  <2> QED
    BY <1>1 DEF Entry
<1>3. log' \subseteq Entry /\ logFile' \subseteq Entry
  BY <1>2 DEF RecordDeliveryAttempt, TypeInv, TypeOK
<1>4. faults' \in 0 .. MaxFault
  BY AlertAssumption DEF RecordDeliveryAttempt, Write, TypeInv, TypeOK
<1> QED
  BY <1>3, <1>4

\* The program starts with the types.
LEMMA InitTypes == Init => TypeInv
<1> SUFFICES ASSUME Init PROVE TypeInv
  OBVIOUS
<1>1. TypeOK
  <2>1. NoAlert \in Alert
    BY DEF NoAlert, Alert
  <2>2. workers \in [Worker -> WorkerType] /\ \A w \in Worker : workers[w].pc = "free"
    BY FreeTyped DEF Init
  <2>3. handler \in HandlerType /\ handler.pc = "idle"
    BY IdleTyped DEF Init
  <2>4. health \in [mem : Reason, disk : Reason] /\ lost \in BOOLEAN
    BY DEF Init, Reason
  <2>5. /\ alerts \in [AlertID -> Alert] /\ alertsFile \in [AlertID -> Alert]
        /\ active \in [Key -> Worker \cup {NoWorker}]
    BY <2>1 DEF Init
  <2> QED
    BY <2>2, <2>3, <2>4, <2>5, AlertAssumption DEF Init, TypeOK
<1>2. Ranges
  BY IdleTyped, FreeTyped DEF Init, Ranges
<1> QED
  BY <1>1, <1>2 DEF TypeInv

\* The handler's steps keep the types.
LEMMA HandlerTypes == TypeInv /\ HandlerStep => TypeInv'
<1> SUFFICES ASSUME TypeInv, HandlerStep PROVE TypeInv'
  OBVIOUS
<1> USE AlertAssumption
<1>h. handler \in HandlerType /\ alerts \in [AlertID -> Alert] /\ opened \in Nat /\ sent \in Nat
      /\ faults \in Nat
  BY DEF TypeInv, TypeOK
<1>1. CASE HandleOpened
  <2>f. opened < MaxAlert /\ handler.event = "firing" /\ sent < MaxDelivery
        /\ handler.kind \in {"opened", "changed"}
    BY <1>1 DEF HandleOpened, TypeInv, Ranges
  <2>1. handler' \in HandlerType /\ opened' \in 0 .. MaxAlert /\ handler'.pc = "save"
        /\ handler'.kind = handler.kind /\ handler'.event = "firing" /\ handler'.alert \in AlertID
    <3>1. ASSUME NEW a \in FindActive, opened' = opened,
                 handler' = [handler EXCEPT !.pc = "save", !.alert = a, !.copy = alerts[a]]
          PROVE  <2>1!:
      <4>1. a \in AlertID /\ a \in 0 .. MaxAlert /\ alerts[a] \in Alert
        BY <1>h, <3>1, IDRange DEF FindActive
      <4> QED
        BY <1>h, <2>f, <3>1, <4>1 DEF TypeInv, TypeOK, HandlerType
    <3>2. ASSUME opened' = opened + 1,
                 handler' = [handler EXCEPT !.pc = "save", !.alert = opened + 1,
                                !.copy = [state |-> "firing", notified |-> FALSE]]
          PROVE  <2>1!:
      <4>1. opened + 1 \in AlertID /\ opened + 1 \in 0 .. MaxAlert
        BY <1>h, <2>f DEF AlertID
      <4>2. [state |-> "firing", notified |-> FALSE] \in Alert
        BY DEF Alert
      <4> QED
        BY <1>h, <2>f, <3>2, <4>1, <4>2 DEF HandlerType
    <3> QED
      BY <1>1, <3>1, <3>2 DEF HandleOpened
  <2>2. Ranges'
    BY <1>1, <2>f, <2>1 DEF HandleOpened, TypeInv, Ranges
  <2> QED
    BY <1>1, <2>1, <2>2 DEF HandleOpened, TypeInv, TypeOK
<1>2. CASE HandleResolved
  <2>1. CASE handler' = IdleHandler
    BY <1>2, <2>1, IdleTyped DEF HandleResolved, TypeInv, TypeOK, Ranges
  <2>2. CASE \E a \in FindActive :
            handler' = [handler EXCEPT !.pc = "cancel", !.alert = a, !.event = "resolved",
                          !.copy = [state |-> "resolved", notified |-> alerts[a].notified]]
    <3>1. /\ handler' \in HandlerType /\ handler'.pc = "cancel" /\ handler'.event = "resolved"
          /\ handler'.kind = handler.kind /\ handler'.alert \in AlertID
      <4> PICK a \in FindActive :
            handler' = [handler EXCEPT !.pc = "cancel", !.alert = a, !.event = "resolved",
                          !.copy = [state |-> "resolved", notified |-> alerts[a].notified]]
        BY <2>2
      <4>1. a \in AlertID /\ a \in 0 .. MaxAlert /\ alerts[a] \in Alert
        BY <1>h, IDRange DEF FindActive
      <4>2. [state |-> "resolved", notified |-> alerts[a].notified] \in Alert
        BY <4>1 DEF Alert
      <4> QED
        BY <1>h, <4>1, <4>2 DEF HandlerType, Event
    <3>2. Ranges'
      BY <1>2, <3>1 DEF HandleResolved, TypeInv, Ranges
    <3> QED
      BY <1>2, <3>1, <3>2 DEF HandleResolved, TypeInv, TypeOK
  <2> QED
    BY <1>2, <2>1, <2>2 DEF HandleResolved
<1>3. CASE CancelFiringRetriesForAlert
  <2>1. /\ handler' \in HandlerType /\ handler'.pc = "save" /\ handler'.kind = handler.kind
        /\ handler'.event = handler.event /\ handler'.alert = handler.alert
    BY <1>3, <1>h DEF CancelFiringRetriesForAlert, HandlerType
  <2>2. /\ workers' \in [Worker -> WorkerType] /\ active' \in [Key -> Worker \cup {NoWorker}]
        /\ \A w \in Worker : workers'[w].pc = workers[w].pc /\ workers'[w].attempt = workers[w].attempt
    BY <1>3, CancelledKeeps DEF CancelFiringRetriesForAlert, TypeInv, TypeOK
  <2>3. Ranges'
    BY <1>3, <2>1, <2>2 DEF CancelFiringRetriesForAlert, TypeInv, Ranges
  <2> QED
    BY <1>3, <2>1, <2>2, <2>3 DEF CancelFiringRetriesForAlert, TypeInv, TypeOK
<1>4. CASE \E ok, silenced \in BOOLEAN : SaveThenNotify(ok, silenced)
  <2>2. alerts' \in [AlertID -> Alert] /\ alertsFile' \in [AlertID -> Alert]
        /\ faults' \in 0 .. MaxFault
    BY <1>4, <1>h DEF SaveThenNotify, SaveAlert, Write, TypeInv, TypeOK, Ranges, HandlerType
  <2>3. CASE handler' = IdleHandler /\ sent' = sent
    BY <1>4, <2>2, <2>3, IdleTyped DEF SaveThenNotify, TypeInv, TypeOK, Ranges
  <2>4. CASE handler' = [handler EXCEPT !.pc = "deliver", !.delivery = sent + 1, !.todo = channels]
             /\ sent' = sent + 1
    <3>1. handler.pc = "save" /\ sent < MaxDelivery /\ channels \subseteq Channel
      BY <1>4 DEF SaveThenNotify, TypeInv, TypeOK, Ranges
    <3>2. /\ handler' \in HandlerType /\ handler'.pc = "deliver" /\ sent' \in 0 .. MaxDelivery
          /\ handler'.kind = handler.kind /\ handler'.event = handler.event
          /\ handler'.alert = handler.alert /\ handler'.delivery \in 1 .. MaxDelivery
      <4>1. sent + 1 \in 1 .. MaxDelivery /\ sent + 1 \in 0 .. MaxDelivery
        BY <1>h, <3>1
      <4> QED
        BY <1>h, <2>4, <3>1, <4>1 DEF HandlerType
    <3>3. Ranges'
      BY <1>4, <3>1, <3>2 DEF SaveThenNotify, TypeInv, Ranges
    <3> QED
      BY <1>4, <2>2, <3>2, <3>3 DEF SaveThenNotify, TypeInv, TypeOK
  <2> QED
    BY <1>4, <2>3, <2>4 DEF SaveThenNotify
<1>5. CASE \E ok \in BOOLEAN : HandlerRecord(ok)
  <2>p. PICK ok \in BOOLEAN : HandlerRecord(ok)
    BY <1>5
  <2>1. /\ handler.pc = "record" /\ handler.attempt \in Attempt
        /\ handler.kind # "recover"
    BY <2>p DEF HandlerRecord, TypeInv, TypeOK, Ranges
  <2>2. log' \subseteq Entry /\ logFile' \subseteq Entry /\ faults' \in 0 .. MaxFault
    BY <2>p, <2>1, RecordTyped DEF HandlerRecord
  <2>3. /\ workers' \in [Worker -> WorkerType] /\ active' \in [Key -> Worker \cup {NoWorker}]
        /\ \A w \in Worker : workers'[w].pc = workers[w].pc /\ workers'[w].attempt = workers[w].attempt
    BY <2>p, CancelledKeeps DEF HandlerRecord, TypeInv, TypeOK
  <2>4. CASE handler.outcome = "retry"
    <3>1. [handler.attempt EXCEPT !.number = 2] \in Attempt
      BY <2>1 DEF Attempt
    <3>2. handler' \in HandlerType /\ handler'.pc = "register" /\ handler'.attempt \in Attempt
          /\ handler'.kind = handler.kind /\ handler'.event = handler.event
          /\ handler'.alert = handler.alert /\ handler'.delivery = handler.delivery
      BY <2>p, <2>4, <3>1, <1>h DEF HandlerRecord, HandlerType
    <3>3. Ranges'
      BY <2>p, <2>1, <2>3, <3>2 DEF HandlerRecord, TypeInv, Ranges
    <3> QED
      BY <2>p, <2>2, <2>3, <3>2, <3>3 DEF HandlerRecord, TypeInv, TypeOK
  <2>5. CASE handler.outcome # "retry"
    <3>1. handler' = Dispatched(handler)
      BY <2>p, <2>5 DEF HandlerRecord
    <3>2. UNCHANGED <<pending, sent, opened>>
      BY <2>p DEF HandlerRecord
    <3>3. /\ handler'.pc \in {"idle", "deliver", "mark"}
          /\ handler'.pc = "idle" => handler'.kind = "none"
          /\ handler'.pc # "idle" =>
                /\ handler'.kind = handler.kind /\ handler'.event = handler.event
                /\ handler'.alert = handler.alert /\ handler'.delivery = handler.delivery
          /\ handler'.pc = "mark" => handler'.event = "firing"
      BY <2>1, <3>1, DispatchedTyped, IdleTyped
    <3>4. Ranges'
      BY <2>1, <2>3, <3>2, <3>3 DEF TypeInv, Ranges
    <3> QED
      BY <2>p, <2>1, <2>2, <2>3, <3>1, <3>4, DispatchedTyped DEF HandlerRecord, TypeInv, TypeOK
  <2> QED
    BY <2>4, <2>5
<1>6. CASE \E ok \in BOOLEAN : HandlerMark(ok)
  <2>2. alerts' \in [AlertID -> Alert] /\ alertsFile' \in [AlertID -> Alert]
        /\ faults' \in 0 .. MaxFault
    <3>1. handler.alert \in AlertID /\ [handler.copy EXCEPT !.notified = TRUE] \in Alert
      BY <1>6, <1>h DEF HandlerMark, TypeInv, Ranges, HandlerType, Alert
    <3> QED
      BY <1>6, <1>h, <3>1 DEF HandlerMark, SaveAlert, Write, TypeInv, TypeOK
  <2> QED
    BY <1>6, <2>2, IdleTyped DEF HandlerMark, TypeInv, TypeOK, Ranges
<1>7. CASE HandlerDeliver
  <2> PICK c \in handler.todo, o \in Outcome :
        /\ Deliver(handler.alert, handler.event, FALSE, o)
        /\ handler' = [handler EXCEPT !.pc = "record", !.todo = handler.todo \ {c},
                          !.attempt = [alert |-> handler.alert, event |-> handler.event,
                                       delivery |-> handler.delivery, channel |-> c,
                                       number |-> 1],
                          !.outcome = o, !.any = (handler.any \/ o = "delivered")]
    BY <1>7 DEF HandlerDeliver
  <2>1. handler.alert \in AlertID /\ handler.delivery \in 1 .. MaxDelivery /\ handler.pc = "deliver"
        /\ c \in Channel /\ handler.event \in Event
    BY <1>7, <1>h DEF HandlerDeliver, TypeInv, Ranges, HandlerType
  <2>2. [alert |-> handler.alert, event |-> handler.event, delivery |-> handler.delivery,
         channel |-> c, number |-> 1] \in Attempt
    BY <2>1 DEF Attempt
  <2>3. handler' \in HandlerType /\ handler'.attempt \in Attempt
    BY <1>h, <2>2 DEF HandlerType
  <2>4. Ranges'
    BY <1>7, <1>h, <2>1 DEF HandlerDeliver, TypeInv, Ranges, HandlerType
  <2>5. received' \subseteq AlertID \X Event
    BY <2>1 DEF Deliver, TypeInv, TypeOK
  <2> QED
    BY <1>7, <2>3, <2>4, <2>5 DEF HandlerDeliver, TypeInv, TypeOK
<1>8. CASE HandlerRegister
  <2> PICK x \in Worker :
        /\ workers' = [workers EXCEPT ![x] =
                         [pc |-> "waiting", attempt |-> handler.attempt, copy |-> NoAlert,
                          outcome |-> "retry", cancelled |-> FALSE]]
        /\ active' = [active EXCEPT ![KeyOf(handler.attempt)] = x]
    BY <1>8 DEF HandlerRegister
  <2>1. handler.attempt \in Attempt /\ handler.pc = "register"
    BY <1>8 DEF HandlerRegister, TypeInv, TypeOK
  <2>2. workers' \in [Worker -> WorkerType] /\ active' \in [Key -> Worker \cup {NoWorker}]
        /\ \A w \in Worker : workers'[w].pc # "free" => workers'[w].attempt \in Attempt
    BY <2>1 DEF TypeInv, TypeOK, WorkerType, Alert, NoAlert, Outcome
  <2>3. CASE handler.kind = "recover"
    <3>1. handler' \in HandlerType /\ Ranges' /\ handler'.pc = "recover"
      BY <1>8, <1>h, <2>1, <2>3 DEF HandlerRegister, TypeInv, TypeOK, Ranges, HandlerType
    <3> QED
      BY <1>8, <2>2, <3>1 DEF HandlerRegister, TypeInv, TypeOK
  <2>4. CASE handler.kind # "recover"
    <3>1. handler' = Dispatched(handler)
      BY <1>8, <2>4 DEF HandlerRegister
    <3>2. \A w \in Worker :
            /\ workers'[w].pc = "register" => workers'[w].attempt.number < MaxAttempt
            /\ workers'[w].pc = "mark" => workers'[w].attempt.event = "firing"
      BY DEF TypeInv, TypeOK, Ranges
    <3>3. Ranges'
      BY <1>8, <2>1, <2>4, <3>1, <3>2, DispatchedTyped, IdleTyped DEF HandlerRegister, TypeInv, Ranges
    <3> QED
      BY <1>8, <2>1, <2>2, <2>4, <3>1, <3>3, DispatchedTyped DEF HandlerRegister, TypeInv, TypeOK
  <2> QED
    BY <2>3, <2>4
<1>9. CASE RecoverOne
  <2>p. PICK en \in pending :
        LET t == en.attempt
            due == StillDue(t.event, alerts[t.alert]) IN
        /\ pending' = pending \ {en}
        /\ workers' = IF due THEN Cancelled({KeyOf(t)}) ELSE workers
        /\ active' = IF due THEN Forgotten({KeyOf(t)}) ELSE active
        /\ handler' = IF due
                      THEN [handler EXCEPT !.pc = "register", !.attempt = NextAttempt(t)]
                      ELSE handler
    BY <1>9 DEF RecoverOne
  <2>1. en.attempt \in Attempt /\ en.attempt.number < MaxAttempt
    BY <2>p DEF TypeInv, TypeOK, Ranges, Entry
  <2>2. NextAttempt(en.attempt) \in Attempt
    BY <2>1 DEF NextAttempt, Attempt
  <2>3. /\ workers' \in [Worker -> WorkerType] /\ active' \in [Key -> Worker \cup {NoWorker}]
        /\ \A w \in Worker : workers'[w].pc = workers[w].pc /\ workers'[w].attempt = workers[w].attempt
    BY <2>p, CancelledKeeps DEF TypeInv, TypeOK
  <2>4. /\ handler' \in HandlerType
        /\ handler'.pc \in {"register", "recover"}
        /\ handler'.pc = "register" => handler'.attempt \in Attempt
        /\ handler'.kind = handler.kind /\ handler'.event = handler.event
    BY <1>9, <1>h, <2>p, <2>2 DEF RecoverOne, HandlerType
  <2>5. handler.kind = "recover"
    BY <1>9 DEF RecoverOne, TypeInv, Ranges
  <2>6. /\ pending' \subseteq pending
        /\ health' = health /\ alerts' = alerts /\ alertsFile' = alertsFile /\ log' = log
        /\ logFile' = logFile /\ channels' = channels /\ received' = received /\ lost' = lost
        /\ opened' = opened /\ sent' = sent /\ faults' = faults /\ crashes' = crashes
    BY <1>9, <2>p DEF RecoverOne
  <2>7. Ranges'
    BY <2>3, <2>4, <2>5, <2>6 DEF TypeInv, Ranges
  <2> QED
    BY <2>3, <2>4, <2>6, <2>7 DEF TypeInv, TypeOK
<1>10. CASE RecoverDone
  BY <1>10, IdleTyped DEF RecoverDone, TypeInv, TypeOK, Ranges
<1> QED
  BY <1>1, <1>2, <1>3, <1>4, <1>5, <1>6, <1>7, <1>8, <1>9, <1>10 DEF HandlerStep

\* The retries' steps keep the types.
LEMMA WorkerTypes ==
  ASSUME TypeInv, NEW w \in Worker, WorkerStep(w)
  PROVE  TypeInv'
<1> DEFINE t == workers[w].attempt
<1> USE AlertAssumption
<1>w. workers \in [Worker -> WorkerType] /\ workers[w] \in WorkerType
  BY DEF TypeInv, TypeOK
<1>1. ASSUME NEW x \in WorkerType, workers' = [workers EXCEPT ![w] = x],
             x.pc # "free" => x.attempt \in Attempt,
             x.pc = "register" => x.attempt.number < MaxAttempt,
             x.pc = "mark" => x.attempt.event = "firing"
      PROVE  /\ workers' \in [Worker -> WorkerType]
             /\ \A v \in Worker :
                  /\ workers'[v].pc # "free" => workers'[v].attempt \in Attempt
                  /\ workers'[v].pc = "register" => workers'[v].attempt.number < MaxAttempt
                  /\ workers'[v].pc = "mark" => workers'[v].attempt.event = "firing"
  BY <1>1, <1>w DEF TypeInv, TypeOK, Ranges
<1>2. CASE RetryCheck(w)
  <2>1. t \in Attempt /\ alerts[t.alert] \in Alert
    BY <1>2 DEF RetryCheck, TypeInv, TypeOK, Attempt
  <2>2. PICK x \in WorkerType : workers' = [workers EXCEPT ![w] = x] /\ x.attempt = t
                               /\ x.pc \in {"deliver", "end"}
    <3>1. CASE t.channel \in channels /\ StillDue(t.event, alerts[t.alert])
      <4> DEFINE x == [workers[w] EXCEPT !.pc = "deliver", !.copy = alerts[t.alert]]
      <4>1. x \in WorkerType /\ x.attempt = t /\ x.pc = "deliver"
        BY <1>w, <2>1 DEF WorkerType
      <4> QED
        BY <1>2, <3>1, <4>1 DEF RetryCheck
    <3>2. CASE ~(t.channel \in channels /\ StillDue(t.event, alerts[t.alert]))
      <4> DEFINE x == [workers[w] EXCEPT !.pc = "end"]
      <4>1. x \in WorkerType /\ x.attempt = t /\ x.pc = "end"
        BY <1>w DEF WorkerType
      <4> QED
        BY <1>2, <3>2, <4>1 DEF RetryCheck
    <3> QED
      BY <3>1, <3>2
  <2> QED
    BY <1>1, <1>2, <2>1, <2>2 DEF RetryCheck, TypeInv, TypeOK, Ranges
<1>3. CASE RetryCancelled(w)
  BY <1>1, <1>3, FreeTyped DEF RetryCancelled, TypeInv, TypeOK, Ranges
<1>4. CASE RetryDeliver(w)
  <2>p. PICK o \in Outcome :
          /\ Deliver(t.alert, t.event, workers[w].cancelled, o)
          /\ workers' = [workers EXCEPT ![w] = [workers[w] EXCEPT !.pc = "record", !.outcome = o]]
    BY <1>4 DEF RetryDeliver
  <2> DEFINE x == [workers[w] EXCEPT !.pc = "record", !.outcome = o]
  <2>1. t \in Attempt
    BY <1>4 DEF RetryDeliver, TypeInv, TypeOK
  <2>2. x \in WorkerType /\ x.attempt = t /\ x.pc = "record"
    BY <1>w, <2>p DEF WorkerType
  <2>3. received' \subseteq AlertID \X Event
    BY <2>1, <2>p DEF Deliver, TypeInv, TypeOK, Attempt
  <2>4. workers' = [workers EXCEPT ![w] = x]
    BY <2>p
  <2>5. /\ workers' \in [Worker -> WorkerType]
        /\ \A v \in Worker :
             /\ workers'[v].pc # "free" => workers'[v].attempt \in Attempt
             /\ workers'[v].pc = "register" => workers'[v].attempt.number < MaxAttempt
             /\ workers'[v].pc = "mark" => workers'[v].attempt.event = "firing"
    <3> HIDE DEF x
    <3> QED
      BY <1>1, <2>1, <2>2, <2>4
  <2> QED
    BY <1>4, <2>3, <2>5 DEF RetryDeliver, TypeInv, TypeOK, Ranges
<1>5. CASE \E ok \in BOOLEAN : RetryRecord(w, ok)
  <2>p. PICK ok \in BOOLEAN : RetryRecord(w, ok)
    BY <1>5
  <2> DEFINE o == workers[w].outcome
             again == TryAgain(t, o)
             rest == IF again THEN Cancelled({KeyOf(t)}) ELSE workers
             pc == CASE again -> "register"
                     [] o = "delivered" /\ t.event = "firing" -> "mark"
                     [] OTHER -> "end"
             x == [pc |-> pc, attempt |-> t, copy |-> workers[w].copy, outcome |-> o,
                   cancelled |-> workers[w].cancelled]
  <2>1. t \in Attempt /\ again \in BOOLEAN
    BY <2>p DEF RetryRecord, TypeInv, TypeOK, TryAgain
  <2>2. log' \subseteq Entry /\ logFile' \subseteq Entry /\ faults' \in 0 .. MaxFault
    BY <2>1, <2>p, RecordTyped DEF RetryRecord
  <2>3. workers' = [rest EXCEPT ![w] = x]
    BY <2>p DEF RetryRecord
  <2>4. /\ rest \in [Worker -> WorkerType]
        /\ \A v \in Worker : rest[v].pc = workers[v].pc /\ rest[v].attempt = workers[v].attempt
        /\ active' \in [Key -> Worker \cup {NoWorker}]
    BY <2>p, CancelledKeeps DEF RetryRecord, TypeInv, TypeOK
  <2>5. /\ pc \in {"register", "mark", "end"}
        /\ pc = "register" => t.number < MaxAttempt
        /\ pc = "mark" => t.event = "firing"
    BY DEF TryAgain
  <2>6. x \in WorkerType /\ x.pc = pc /\ x.attempt = t
    <3> HIDE DEF pc, o
    <3>1. o \in Outcome
      BY <1>w DEF WorkerType, o
    <3> QED
      BY <1>w, <2>1, <2>5, <3>1 DEF WorkerType
  <2>7. /\ workers' \in [Worker -> WorkerType]
        /\ \A v \in Worker :
             /\ workers'[v].pc # "free" => workers'[v].attempt \in Attempt
             /\ workers'[v].pc = "register" => workers'[v].attempt.number < MaxAttempt
             /\ workers'[v].pc = "mark" => workers'[v].attempt.event = "firing"
    <3> HIDE DEF x, rest, pc
    <3> QED
      BY <2>1, <2>3, <2>4, <2>5, <2>6 DEF TypeInv, TypeOK, Ranges
  <2>8. /\ health' = health /\ alerts' = alerts /\ alertsFile' = alertsFile
        /\ handler' = handler /\ pending' = pending /\ channels' = channels
        /\ received' = received /\ lost' = lost /\ opened' = opened /\ sent' = sent
        /\ crashes' = crashes
    BY <2>p DEF RetryRecord
  <2> QED
    BY <2>2, <2>4, <2>7, <2>8 DEF TypeInv, TypeOK, Ranges
<1>6. CASE \E ok \in BOOLEAN : RetryMark(w, ok)
  <2>p. PICK ok \in BOOLEAN : RetryMark(w, ok)
    BY <1>6
  <2> DEFINE x == [workers[w] EXCEPT !.pc = "end"]
             alert == [workers[w].copy EXCEPT !.notified = TRUE]
  <2>1. t \in Attempt /\ t.alert \in AlertID
    BY <2>p DEF RetryMark, TypeInv, TypeOK, Attempt
  <2>2. x \in WorkerType /\ x.attempt = t /\ x.pc = "end"
    BY <1>w DEF WorkerType
  <2>3. alert \in Alert
    BY <1>w DEF WorkerType, Alert
  <2>4. /\ alerts' \in [AlertID -> Alert] /\ alertsFile' \in [AlertID -> Alert]
        /\ faults' \in 0 .. MaxFault
    <3>1. SaveAlert(t.alert, alert, ok)
      BY <2>p DEF RetryMark
    <3> HIDE DEF alert
    <3> QED
      BY <2>1, <2>3, <3>1 DEF SaveAlert, Write, TypeInv, TypeOK
  <2>5. /\ workers' \in [Worker -> WorkerType]
        /\ \A v \in Worker :
             /\ workers'[v].pc # "free" => workers'[v].attempt \in Attempt
             /\ workers'[v].pc = "register" => workers'[v].attempt.number < MaxAttempt
             /\ workers'[v].pc = "mark" => workers'[v].attempt.event = "firing"
    <3>1. workers' = [workers EXCEPT ![w] = x]
      BY <2>p DEF RetryMark
    <3> HIDE DEF x
    <3> QED
      BY <1>1, <2>1, <2>2, <3>1
  <2> QED
    BY <2>p, <2>4, <2>5 DEF RetryMark, TypeInv, TypeOK, Ranges
<1>7. CASE RetryRegister(w)
  <2> DEFINE x == [pc |-> "waiting", attempt |-> NextAttempt(t), copy |-> NoAlert,
                   outcome |-> "retry", cancelled |-> FALSE]
  <2>1. t \in Attempt /\ t.number < MaxAttempt
    BY <1>7 DEF RetryRegister, TypeInv, TypeOK, Ranges
  <2>2. NextAttempt(t) \in Attempt
    <3> HIDE DEF t
    <3> QED
      BY <2>1 DEF NextAttempt, Attempt
  <2>3. x \in WorkerType /\ x.attempt = NextAttempt(t) /\ x.pc = "waiting"
    BY <2>2 DEF WorkerType, NoAlert, Alert, Outcome
  <2>4. active' \in [Key -> Worker \cup {NoWorker}]
    BY <1>7 DEF RetryRegister, TypeInv, TypeOK
  <2>5. /\ workers' \in [Worker -> WorkerType]
        /\ \A v \in Worker :
             /\ workers'[v].pc # "free" => workers'[v].attempt \in Attempt
             /\ workers'[v].pc = "register" => workers'[v].attempt.number < MaxAttempt
             /\ workers'[v].pc = "mark" => workers'[v].attempt.event = "firing"
    <3>1. workers' = [workers EXCEPT ![w] = x]
      BY <1>7 DEF RetryRegister
    <3> HIDE DEF x
    <3> QED
      BY <1>1, <2>2, <2>3, <3>1
  <2> QED
    BY <1>7, <2>4, <2>5 DEF RetryRegister, TypeInv, TypeOK, Ranges
<1>8. CASE RetryEnd(w)
  <2> DEFINE K == {KeyOf(t)}
  <2>1. workers' = [Cancelled(K) EXCEPT ![w] = FreeWorker] /\ active' = Forgotten(K)
    BY <1>8 DEF RetryEnd
  <2>2. /\ Cancelled(K) \in [Worker -> WorkerType]
        /\ \A v \in Worker : /\ Cancelled(K)[v].pc = workers[v].pc
                             /\ Cancelled(K)[v].attempt = workers[v].attempt
        /\ active' \in [Key -> Worker \cup {NoWorker}]
    BY <2>1, CancelledKeeps DEF TypeInv
  <2>3. /\ workers' \in [Worker -> WorkerType]
        /\ \A v \in Worker :
             /\ workers'[v].pc # "free" => workers'[v].attempt \in Attempt
             /\ workers'[v].pc = "register" => workers'[v].attempt.number < MaxAttempt
             /\ workers'[v].pc = "mark" => workers'[v].attempt.event = "firing"
    <3> HIDE DEF K
    <3> QED
      BY <2>1, <2>2, FreeTyped DEF TypeInv, TypeOK, Ranges
  <2> QED
    BY <1>8, <2>2, <2>3 DEF RetryEnd, TypeInv, TypeOK, Ranges
<1> QED
  BY <1>2, <1>3, <1>4, <1>5, <1>6, <1>7, <1>8 DEF WorkerStep

\* An evaluation keeps the types.
LEMMA EvaluateTypes ==
  ASSUME TypeInv, NEW s \in Reason, NEW saved \in BOOLEAN, NEW appended \in BOOLEAN,
         EvaluateDevice(s, saved, appended)
  PROVE  TypeInv'
<1> USE AlertAssumption
<1>1. health' \in [mem : Reason, disk : Reason] /\ lost' \in BOOLEAN /\ faults' \in 0 .. MaxFault
  <2>1. health' \in [mem : Reason, disk : Reason]
    BY DEF EvaluateDevice, TypeInv, TypeOK
  <2>2. lost' \in BOOLEAN
    BY DEF EvaluateDevice
  <2>3. faults' \in 0 .. MaxFault
    BY DEF EvaluateDevice, Write, TypeInv, TypeOK
  <2> QED
    BY <2>1, <2>2, <2>3
<1>2. CASE saved /\ appended
  <2>1. Kind(s) \in {"opened", "changed", "resolved"}
    BY DEF Kind
  <2>2. /\ handler' \in HandlerType /\ handler'.pc = "find" /\ handler'.kind = Kind(s)
        /\ handler'.event = "firing"
    <3> DEFINE k == Kind(s)
    <3>1. handler' = [IdleHandler EXCEPT !.pc = "find", !.kind = k]
      BY <1>2 DEF EvaluateDevice
    <3> HIDE DEF k
    <3>2. k \in {"opened", "changed", "resolved"}
      BY <2>1 DEF k
    <3>3. handler' \in HandlerType /\ handler'.pc = "find" /\ handler'.kind = k
          /\ handler'.event = "firing"
      BY <3>1, <3>2, IdleTyped DEF HandlerType
    <3> QED
      BY <3>3 DEF k
  <2>3. sent' < MaxDelivery /\ (Kind(s) # "resolved" => opened' < MaxAlert)
    BY DEF EvaluateDevice
  <2>4. workers' = workers /\ pending' = pending
    BY DEF EvaluateDevice
  <2>5. Ranges'
    BY <2>1, <2>2, <2>3, <2>4 DEF TypeInv, Ranges
  <2> QED
    BY <1>1, <2>2, <2>5 DEF EvaluateDevice, TypeInv, TypeOK
<1>3. CASE ~(saved /\ appended)
  <2>1. handler' = handler
    BY <1>3 DEF EvaluateDevice
  <2>2. sent' = sent /\ opened' = opened /\ workers' = workers /\ pending' = pending
    BY DEF EvaluateDevice
  <2>3. Ranges'
    BY <2>1, <2>2 DEF TypeInv, Ranges
  <2> QED
    BY <1>1, <2>1, <2>3 DEF EvaluateDevice, TypeInv, TypeOK
<1> QED
  BY <1>2, <1>3

\* An evaluation that finds nothing new keeps the types.
LEMMA UnchangedTypes ==
  ASSUME TypeInv, NEW saved \in BOOLEAN, EvaluateUnchanged(saved)
  PROVE  TypeInv'
<1>1. health' \in [mem : Reason, disk : Reason]
  BY DEF EvaluateUnchanged, TypeInv, TypeOK
<1>2. faults' \in 0 .. MaxFault
  BY AlertAssumption DEF EvaluateUnchanged, Write, TypeInv, TypeOK
<1> QED
  BY <1>1, <1>2 DEF EvaluateUnchanged, TypeInv, TypeOK, Ranges

\* A restart keeps the types.
LEMMA RestartTypes == TypeInv /\ Restart => TypeInv'
<1> SUFFICES ASSUME TypeInv, Restart PROVE TypeInv'
  OBVIOUS
<1>1. handler' \in HandlerType /\ handler'.pc = "recover" /\ handler'.kind = "recover"
      /\ handler'.event = "firing"
  BY IdleTyped DEF Restart, HandlerType
<1>2. workers' \in [Worker -> WorkerType] /\ \A w \in Worker : workers'[w].pc = "free"
  BY FreeTyped DEF Restart
<1>3. pending' \subseteq Entry /\ \A e \in pending' : e.attempt.number < MaxAttempt
  BY DEF Restart, ListPendingRetries, TypeInv, TypeOK
<1>4. health' \in [mem : Reason, disk : Reason] /\ lost' \in BOOLEAN
  BY DEF Restart, TypeInv, TypeOK
<1>5. active' \in [Key -> Worker \cup {NoWorker}] /\ crashes' \in 0 .. MaxCrash
  BY AlertAssumption DEF Restart, TypeInv, TypeOK
<1>6. Ranges'
  BY <1>1, <1>2, <1>3 DEF Ranges
<1> QED
  BY <1>1, <1>2, <1>3, <1>4, <1>5, <1>6 DEF Restart, TypeInv, TypeOK

\* Every step keeps the types.
LEMMA NextTypes == TypeInv /\ [Next]_vars => TypeInv'
<1> SUFFICES ASSUME TypeInv, [Next]_vars PROVE TypeInv'
  OBVIOUS
<1>1. CASE UNCHANGED vars
  BY <1>1 DEF vars, TypeInv, TypeOK, Ranges
<1> QED
  BY <1>1, HandlerTypes, WorkerTypes, EvaluateTypes, UnchangedTypes, RestartTypes DEF Next

\* The handler, the retries and the files only ever hold what their types allow: no
\* attempt is numbered above the limit, no thread works on an attempt it does not have.
THEOREM AlertTypes == Spec => []TypeOK
<1>1. Spec => []TypeInv
  BY InitTypes, NextTypes, PTL DEF Spec
<1> QED
  BY <1>1, PTL DEF TypeInv

----------------------------------------------------------------------------
(* Knowledge.                                                              *)

\* A delivery adds to what was received, and no orphan, if the notification of a
\* resolution is only sent for an alert whose firing was received.
LEMMA DeliverKnows ==
  ASSUME NoOrphanResolved, NEW a \in AlertID, NEW event \in Event, NEW cancelled, NEW o,
         event = "resolved" => Reached(a), Deliver(a, event, cancelled, o)
  PROVE  /\ received \subseteq received'
         /\ NoOrphanResolved'
         /\ o = "delivered" /\ event = "firing" => Reached(a)'
  BY DEF Deliver, NoOrphanResolved, Reached, Event

\* Knowledge does not age.
LEMMA KnowsStays ==
  ASSUME NEW x, Knows(x), received \subseteq received'
  PROVE  \A y : y.pc = x.pc /\ y.attempt = x.attempt /\ y.copy = x.copy /\ y.outcome = x.outcome
               => Knows(y)'
  BY DEF Knows, Reached

\* Nothing is known at first, and nothing is claimed.
LEMMA InitKnows == Init => Knowledge
<1> SUFFICES ASSUME Init PROVE Knowledge
  OBVIOUS
<1>1. NotifiedWasReceived /\ NoOrphanResolved
  BY DEF Init, NotifiedWasReceived, NoOrphanResolved, NoAlert
<1>2. HandlerKnows
  BY IdleTyped DEF Init, HandlerKnows
<1>3. WorkersKnow
  BY FreeTyped DEF Init, WorkersKnow, Knows
<1>4. LogKnows
  BY DEF Init, LogKnows
<1> QED
  BY <1>1, <1>2, <1>3, <1>4 DEF Knowledge

\* A saved alert that is marked only if its firing was received.
LEMMA SaveKnows ==
  ASSUME TypeInv, NotifiedWasReceived, NEW a \in AlertID, NEW alert, NEW ok \in BOOLEAN,
         alert.notified => Reached(a), SaveAlert(a, alert, ok), received' = received
  PROVE  NotifiedWasReceived'
  BY DEF SaveAlert, NotifiedWasReceived, TypeInv, TypeOK, Reached

\* Cancelling retries takes nothing from what they know.
LEMMA CancelKnows ==
  ASSUME TypeInv, WorkersKnow, received' = received, NEW K,
         workers' = Cancelled(K) \/ workers' = workers
  PROVE  WorkersKnow'
<1> SUFFICES ASSUME NEW w \in Worker PROVE Knows(workers[w])'
  BY DEF WorkersKnow
<1>1. /\ workers'[w].pc = workers[w].pc /\ workers'[w].attempt = workers[w].attempt
      /\ workers'[w].copy = workers[w].copy /\ workers'[w].outcome = workers[w].outcome
  BY CancelledKeeps DEF TypeInv
<1>2. Knows(workers[w])
  BY DEF WorkersKnow
<1> QED
  BY <1>1, <1>2 DEF Knows, Reached

\* The handler's steps keep what is known.
LEMMA HandlerKeepsKnowledge ==
  ASSUME TypeInv, Knowledge, HandlerStep
  PROVE  Knowledge'
<1>h. handler \in HandlerType /\ alerts \in [AlertID -> Alert]
  BY DEF TypeInv, TypeOK
<1>i. ASSUME handler' = IdleHandler PROVE HandlerKnows'
  BY <1>i, IdleTyped DEF HandlerKnows
<1>1. CASE HandleOpened
  <2>1. /\ handler'.pc = "save" /\ handler'.any = handler.any /\ handler.pc = "find"
        /\ handler'.copy.notified => Reached(handler'.alert)
    <3>1. ASSUME NEW a \in FindActive,
                 handler' = [handler EXCEPT !.pc = "save", !.alert = a, !.copy = alerts[a]]
          PROVE  <2>1!:
      <4>1. handler'.alert = a /\ handler'.copy = alerts[a] /\ handler'.pc = "save"
            /\ handler'.any = handler.any
        BY <1>h, <3>1 DEF HandlerType
      <4> QED
        BY <1>1, <3>1, <4>1 DEF HandleOpened, FindActive, Knowledge, NotifiedWasReceived, Reached
    <3>2. ASSUME handler' = [handler EXCEPT !.pc = "save", !.alert = opened + 1,
                                !.copy = [state |-> "firing", notified |-> FALSE]]
          PROVE  <2>1!:
      BY <1>1, <1>h, <3>2 DEF HandlerType, HandleOpened
    <3> QED
      BY <1>1, <3>1, <3>2 DEF HandleOpened
  <2>2. received' = received
    BY <1>1 DEF HandleOpened
  <2>3. HandlerKnows'
    BY <2>1, <2>2 DEF Knowledge, HandlerKnows, Reached
  <2> QED
    BY <1>1, <2>3 DEF HandleOpened, Knowledge, NotifiedWasReceived, NoOrphanResolved, WorkersKnow,
                      Knows, LogKnows, Reached
<1>2. CASE HandleResolved
  <2>1. HandlerKnows'
    <3>1. ASSUME NEW a \in FindActive,
                 handler' = [handler EXCEPT !.pc = "cancel", !.alert = a, !.event = "resolved",
                          !.copy = [state |-> "resolved", notified |-> alerts[a].notified]]
          PROVE  HandlerKnows'
      <4>1. /\ handler'.alert = a /\ handler'.copy.notified = alerts[a].notified
            /\ handler'.pc = "cancel" /\ handler'.any = handler.any
        BY <1>h, <3>1 DEF HandlerType
      <4>2. ~handler.any /\ received' = received
        BY <1>2 DEF HandleResolved, Knowledge, HandlerKnows
      <4>3. alerts[a].notified => Reached(a)
        BY <3>1 DEF FindActive, Knowledge, NotifiedWasReceived, Reached
      <4> QED
        BY <4>1, <4>2, <4>3 DEF HandlerKnows, Reached
    <3> QED
      BY <1>2, <1>i, <3>1 DEF HandleResolved
  <2> QED
    BY <1>2, <2>1 DEF HandleResolved, Knowledge, NotifiedWasReceived, NoOrphanResolved, WorkersKnow,
                      Knows, LogKnows, Reached
<1>3. CASE CancelFiringRetriesForAlert
  <2>1. /\ handler'.alert = handler.alert /\ handler'.copy = handler.copy
        /\ handler'.pc = "save" /\ handler'.any = handler.any /\ handler.pc = "cancel"
    BY <1>3, <1>h DEF CancelFiringRetriesForAlert, HandlerType
  <2>2. received' = received /\ workers' = Cancelled(FiringKeys(handler.alert))
    BY <1>3 DEF CancelFiringRetriesForAlert
  <2>3. HandlerKnows'
    BY <2>1, <2>2 DEF Knowledge, HandlerKnows, Reached
  <2>4. WorkersKnow'
    BY <2>2, CancelKnows DEF Knowledge
  <2> QED
    BY <1>3, <2>3, <2>4 DEF CancelFiringRetriesForAlert, Knowledge, NotifiedWasReceived,
                            NoOrphanResolved, LogKnows, Reached
<1>4. CASE \E ok, silenced \in BOOLEAN : SaveThenNotify(ok, silenced)
  <2>p. PICK ok \in BOOLEAN, silenced \in BOOLEAN : SaveThenNotify(ok, silenced)
    BY <1>4
  <2>1. /\ handler.pc = "save" /\ received' = received /\ handler.alert \in AlertID /\ ~handler.any
        /\ handler.copy.notified => Reached(handler.alert)
        /\ handler.event = "resolved" => handler.kind = "resolved"
    BY <2>p DEF SaveThenNotify, TypeInv, Ranges, Knowledge, HandlerKnows
  <2>2. NotifiedWasReceived'
    BY <2>p, <2>1, SaveKnows DEF SaveThenNotify, Knowledge
  <2>3. HandlerKnows'
    <3>1. ASSUME handler' = [handler EXCEPT !.pc = "deliver", !.delivery = sent + 1,
                                            !.todo = channels],
                 ShouldNotify(handler.kind, handler.copy)
          PROVE  HandlerKnows'
      <4>1. /\ handler'.alert = handler.alert /\ handler'.copy = handler.copy
            /\ handler'.pc = "deliver" /\ handler'.any = handler.any
            /\ handler'.event = handler.event
        BY <1>h, <3>1 DEF HandlerType
      <4>2. handler.event = "resolved" => Reached(handler.alert)
        BY <2>1, <3>1 DEF ShouldNotify
      <4> QED
        BY <2>1, <4>1, <4>2 DEF HandlerKnows, Reached
    <3> QED
      BY <2>p, <1>i, <3>1 DEF SaveThenNotify
  <2> QED
    BY <2>p, <2>2, <2>3 DEF SaveThenNotify, Knowledge, NoOrphanResolved, WorkersKnow, Knows,
                            LogKnows, Reached
<1>5. CASE \E ok \in BOOLEAN : HandlerRecord(ok)
  <2>p. PICK ok \in BOOLEAN : HandlerRecord(ok)
    BY <1>5
  <2>1. /\ handler.pc = "record" /\ received' = received /\ handler.attempt \in Attempt
        /\ handler.kind # "recover"
        /\ handler.attempt.event = "resolved" => Reached(handler.attempt.alert)
    BY <2>p DEF HandlerRecord, TypeInv, TypeOK, Ranges, Knowledge, HandlerKnows
  <2>2. /\ \A e \in log' : e \in log \/ e.attempt = handler.attempt
        /\ logFile' = log' \/ logFile' = logFile
    BY <2>p DEF HandlerRecord, RecordDeliveryAttempt
  <2>3. LogKnows'
    <3>1. pending' = pending
      BY <2>p DEF HandlerRecord
    <3> QED
      BY <2>1, <2>2, <3>1 DEF Knowledge, LogKnows, Reached
  <2>4. WorkersKnow'
    <3>1. workers' = Cancelled({KeyOf(handler.attempt)}) \/ workers' = workers
      BY <2>p DEF HandlerRecord
    <3> QED
      BY <2>1, <3>1, CancelKnows DEF Knowledge
  <2>5. HandlerKnows'
    <3>1. CASE handler.outcome = "retry"
      <4>1. [handler.attempt EXCEPT !.number = 2].event = handler.attempt.event
            /\ [handler.attempt EXCEPT !.number = 2].alert = handler.attempt.alert
        BY <2>1 DEF Attempt
      <4>2. /\ handler'.pc = "register" /\ handler'.copy = handler.copy
            /\ handler'.alert = handler.alert /\ handler'.any = handler.any
            /\ handler'.event = handler.event
            /\ handler'.attempt = [handler.attempt EXCEPT !.number = 2]
        BY <2>p, <3>1, <1>h DEF HandlerRecord, HandlerType
      <4> QED
        BY <2>1, <4>1, <4>2 DEF Knowledge, HandlerKnows, Reached
    <3>2. CASE handler.outcome # "retry"
      <4>1. handler' = Dispatched(handler)
        BY <2>p, <3>2 DEF HandlerRecord
      <4> QED
        BY <2>1, <4>1, <1>i, DispatchedTyped DEF Knowledge, HandlerKnows, Reached
    <3> QED
      BY <3>1, <3>2
  <2>6. alerts' = alerts /\ alertsFile' = alertsFile
    BY <2>p DEF HandlerRecord
  <2> QED
    BY <2>1, <2>3, <2>4, <2>5, <2>6 DEF Knowledge, NotifiedWasReceived, NoOrphanResolved, Reached
<1>6. CASE \E ok \in BOOLEAN : HandlerMark(ok)
  <2>p. PICK ok \in BOOLEAN : HandlerMark(ok)
    BY <1>6
  <2>1. Reached(handler.alert) /\ received' = received /\ handler.alert \in AlertID
    BY <2>p DEF HandlerMark, TypeInv, Ranges, Knowledge, HandlerKnows
  <2>2. NotifiedWasReceived'
    BY <2>p, <2>1, SaveKnows DEF HandlerMark, Knowledge
  <2> QED
    BY <2>p, <2>2, <1>i DEF HandlerMark, Knowledge, NoOrphanResolved, WorkersKnow, Knows, LogKnows,
                            Reached
<1>7. CASE HandlerDeliver
  <2>p. PICK c \in handler.todo, o \in Outcome :
          /\ Deliver(handler.alert, handler.event, FALSE, o)
          /\ handler' = [handler EXCEPT !.pc = "record", !.todo = handler.todo \ {c},
                            !.attempt = [alert |-> handler.alert, event |-> handler.event,
                                         delivery |-> handler.delivery, channel |-> c,
                                         number |-> 1],
                            !.outcome = o, !.any = (handler.any \/ o = "delivered")]
    BY <1>7 DEF HandlerDeliver
  <2>1. /\ handler.pc = "deliver" /\ handler.alert \in AlertID /\ handler.event \in Event
        /\ handler.event = "resolved" => Reached(handler.alert)
    BY <1>7, <1>h DEF HandlerDeliver, TypeInv, Ranges, Knowledge, HandlerKnows, HandlerType
  <2>2. /\ received \subseteq received' /\ NoOrphanResolved'
        /\ o = "delivered" /\ handler.event = "firing" => <<handler.alert, "firing">> \in received'
    BY <2>p, <2>1, DeliverKnows DEF Knowledge, Reached
  <2>3. HandlerKnows'
    <3>1. /\ handler'.pc = "record" /\ handler'.copy = handler.copy
          /\ handler'.alert = handler.alert /\ handler'.event = handler.event
          /\ handler'.attempt.event = handler.event /\ handler'.attempt.alert = handler.alert
      BY <2>p, <1>h DEF HandlerType
    <3>2. handler'.any => handler.any \/ o = "delivered"
      BY <2>p, <1>h DEF HandlerType
    <3> QED
      BY <2>1, <2>2, <3>1, <3>2 DEF Knowledge, HandlerKnows, Reached
  <2>4. /\ alerts' = alerts /\ alertsFile' = alertsFile /\ workers' = workers /\ log' = log
        /\ logFile' = logFile /\ pending' = pending
    BY <1>7 DEF HandlerDeliver
  <2> QED
    BY <2>2, <2>3, <2>4 DEF Knowledge, NotifiedWasReceived, WorkersKnow, Knows, LogKnows, Reached
<1>8. CASE HandlerRegister
  <2>p. PICK x \in Worker :
          workers' = [workers EXCEPT ![x] =
                        [pc |-> "waiting", attempt |-> handler.attempt, copy |-> NoAlert,
                         outcome |-> "retry", cancelled |-> FALSE]]
    BY <1>8 DEF HandlerRegister
  <2>1. handler.pc = "register" /\ received' = received
    BY <1>8 DEF HandlerRegister
  <2>2. WorkersKnow'
    <3>1. Knows([pc |-> "waiting", attempt |-> handler.attempt, copy |-> NoAlert,
                 outcome |-> "retry", cancelled |-> FALSE])
      BY <2>1 DEF Knows, Knowledge, HandlerKnows, NoAlert
    <3> QED
      BY <2>p, <2>1, <3>1 DEF Knowledge, WorkersKnow, Knows, Reached, TypeInv, TypeOK
  <2>3. HandlerKnows'
    <3>1. CASE handler.kind = "recover"
      <4>1. /\ handler'.pc = "recover" /\ handler'.copy = handler.copy
            /\ handler'.alert = handler.alert /\ handler'.any = handler.any
            /\ handler'.event = handler.event
        BY <1>8, <3>1, <1>h DEF HandlerRegister, HandlerType
      <4> QED
        BY <2>1, <4>1 DEF Knowledge, HandlerKnows, Reached
    <3>2. CASE handler.kind # "recover"
      <4>1. handler' = Dispatched(handler)
        BY <1>8, <3>2 DEF HandlerRegister
      <4> QED
        BY <2>1, <3>2, <4>1, <1>i, DispatchedTyped DEF Knowledge, HandlerKnows, Reached
    <3> QED
      BY <3>1, <3>2
  <2>4. /\ alerts' = alerts /\ alertsFile' = alertsFile /\ log' = log
        /\ logFile' = logFile /\ pending' = pending
    BY <1>8 DEF HandlerRegister
  <2> QED
    BY <2>1, <2>2, <2>3, <2>4 DEF Knowledge, NotifiedWasReceived, NoOrphanResolved, LogKnows, Reached
<1>9. CASE RecoverOne
  <2>p. PICK en \in pending :
          LET due == StillDue(en.attempt.event, alerts[en.attempt.alert]) IN
          /\ pending' = pending \ {en}
          /\ workers' = IF due THEN Cancelled({KeyOf(en.attempt)}) ELSE workers
          /\ handler' = IF due
                        THEN [handler EXCEPT !.pc = "register",
                                             !.attempt = NextAttempt(en.attempt)]
                        ELSE handler
    BY <1>9 DEF RecoverOne
  <2>1. /\ handler.pc = "recover" /\ received' = received /\ alerts' = alerts
        /\ alertsFile' = alertsFile /\ log' = log /\ logFile' = logFile
        /\ handler.event = "firing"
    BY <1>9 DEF RecoverOne, TypeInv, Ranges
  <2>2. LogKnows' /\ WorkersKnow'
    <3>1. pending' \subseteq pending
          /\ (workers' = Cancelled({KeyOf(en.attempt)}) \/ workers' = workers)
      BY <2>p
    <3> QED
      BY <2>1, <3>1, CancelKnows DEF Knowledge, LogKnows, Reached
  <2>3. HandlerKnows'
    <3>1. en.attempt \in Attempt /\ (en.attempt.event = "resolved" => Reached(en.attempt.alert))
      BY <2>p DEF TypeInv, TypeOK, Entry, Knowledge, LogKnows
    <3>2. NextAttempt(en.attempt).event = en.attempt.event
          /\ NextAttempt(en.attempt).alert = en.attempt.alert
      BY <3>1 DEF NextAttempt, Attempt
    <3>3. CASE handler' = handler
      BY <2>1, <3>3 DEF Knowledge, HandlerKnows, Reached
    <3>4. CASE handler' = [handler EXCEPT !.pc = "register", !.attempt = NextAttempt(en.attempt)]
      <4>1. /\ handler'.pc = "register" /\ handler'.copy = handler.copy
            /\ handler'.alert = handler.alert /\ handler'.any = handler.any
            /\ handler'.event = handler.event /\ handler'.attempt = NextAttempt(en.attempt)
        BY <3>4, <1>h DEF HandlerType
      <4> QED
        BY <2>1, <3>1, <3>2, <4>1 DEF Knowledge, HandlerKnows, Reached
    <3> QED
      BY <2>p, <3>3, <3>4
  <2> QED
    BY <2>1, <2>2, <2>3 DEF Knowledge, NotifiedWasReceived, NoOrphanResolved, Reached
<1>10. CASE RecoverDone
  BY <1>10, <1>i DEF RecoverDone, Knowledge, NotifiedWasReceived, NoOrphanResolved, WorkersKnow,
                     Knows, LogKnows, Reached
<1> QED
  BY <1>1, <1>2, <1>3, <1>4, <1>5, <1>6, <1>7, <1>8, <1>9, <1>10 DEF HandlerStep

\* A retry chain x that takes the place of w's knows what it holds.
LEMMA ReplaceKnows ==
  ASSUME TypeInv, WorkersKnow, received \subseteq received', NEW w \in Worker, NEW x, NEW K,
         \/ workers' = [workers EXCEPT ![w] = x]
         \/ workers' = [Cancelled(K) EXCEPT ![w] = x],
         Knows(x)'
  PROVE  WorkersKnow'
<1> SUFFICES ASSUME NEW v \in Worker PROVE Knows(workers[v])'
  BY DEF WorkersKnow
<1>1. workers \in [Worker -> WorkerType] /\ Cancelled(K) \in [Worker -> WorkerType]
  BY CancelledKeeps DEF TypeInv, TypeOK
<1>2. CASE v = w
  <2>1. workers'[v] = x
    BY <1>1, <1>2
  <2> QED
    BY <2>1 DEF Knows, Reached
<1>3. CASE v # w
  <2>1. workers'[v] = workers[v] \/ workers'[v] = Cancelled(K)[v]
    BY <1>1, <1>3
  <2>2. /\ workers'[v].pc = workers[v].pc /\ workers'[v].attempt = workers[v].attempt
        /\ workers'[v].copy = workers[v].copy /\ workers'[v].outcome = workers[v].outcome
    BY <2>1, CancelledKeeps DEF TypeInv
  <2>3. Knows(workers[v])
    BY DEF WorkersKnow
  <2> QED
    BY <2>2, <2>3 DEF Knows, Reached
<1> QED
  BY <1>2, <1>3

\* More may be received; what the handler, the alerts and the log know stays known.
LEMMA OthersKnow ==
  ASSUME TypeInv, Knowledge, received \subseteq received', UNCHANGED handler
  PROVE  /\ HandlerKnows'
         /\ UNCHANGED <<alerts, alertsFile>> => NotifiedWasReceived'
         /\ received' = received => NoOrphanResolved'
         /\ UNCHANGED <<log, logFile, pending>> => LogKnows'
<1>1. HandlerKnows'
  BY DEF Knowledge, HandlerKnows, Reached
<1>2. UNCHANGED <<alerts, alertsFile>> => NotifiedWasReceived'
  BY DEF Knowledge, NotifiedWasReceived
<1>3. received' = received => NoOrphanResolved'
  BY DEF Knowledge, NoOrphanResolved
<1>4. UNCHANGED <<log, logFile, pending>> => LogKnows'
  BY DEF Knowledge, LogKnows, Reached
<1> QED
  BY <1>1, <1>2, <1>3, <1>4

\* The steps of a retry chain keep what is known.
LEMMA WorkerKeepsKnowledge ==
  ASSUME TypeInv, Knowledge, NEW w \in Worker, WorkerStep(w)
  PROVE  Knowledge'
<1> DEFINE t == workers[w].attempt
<1>w. workers[w] \in WorkerType /\ Knows(workers[w])
  BY DEF TypeInv, TypeOK, Knowledge, WorkersKnow
<1>t. workers[w].pc # "free" => t \in Attempt /\ t.alert \in AlertID /\ t.event \in Event
  BY DEF TypeInv, TypeOK, Attempt
<1>k. WorkersKnow
  BY DEF Knowledge
<1>2. CASE RetryCheck(w)
  <2>1. PICK x : /\ workers' = [workers EXCEPT ![w] = x] /\ x.attempt = t
                 /\ x.pc \in {"deliver", "end"}
                 /\ x.copy = alerts[t.alert] \/ x.copy = workers[w].copy
    <3>1. CASE t.channel \in channels /\ StillDue(t.event, alerts[t.alert])
      <4> DEFINE x == [workers[w] EXCEPT !.pc = "deliver", !.copy = alerts[t.alert]]
      <4>1. x.attempt = t /\ x.pc = "deliver" /\ x.copy = alerts[t.alert]
        BY <1>w DEF WorkerType
      <4> QED
        BY <1>2, <3>1, <4>1 DEF RetryCheck
    <3>2. CASE ~(t.channel \in channels /\ StillDue(t.event, alerts[t.alert]))
      <4> DEFINE x == [workers[w] EXCEPT !.pc = "end"]
      <4>1. x.attempt = t /\ x.pc = "end" /\ x.copy = workers[w].copy
        BY <1>w DEF WorkerType
      <4> QED
        BY <1>2, <3>2, <4>1 DEF RetryCheck
    <3> QED
      BY <3>1, <3>2
  <2>2. received' = received /\ workers[w].pc = "waiting"
    BY <1>2 DEF RetryCheck
  <2>3. x.copy.notified => Reached(t.alert)
    BY <1>w, <1>t, <2>1, <2>2 DEF Knows, Knowledge, NotifiedWasReceived, Reached
  <2>4. Knows(x)'
    BY <1>w, <2>1, <2>2, <2>3 DEF Knows, Reached
  <2>5. WorkersKnow'
    BY <1>k, <2>1, <2>2, <2>4, ReplaceKnows
  <2> QED
    BY <1>2, <2>5, OthersKnow DEF RetryCheck, Knowledge
<1>3. CASE RetryCancelled(w)
  <2>1. Knows(FreeWorker)'
    BY FreeTyped DEF Knows
  <2>2. WorkersKnow'
    BY <1>3, <1>k, <2>1, ReplaceKnows DEF RetryCancelled
  <2> QED
    BY <1>3, <2>2, OthersKnow DEF RetryCancelled, Knowledge
<1>4. CASE RetryDeliver(w)
  <2>p. PICK o \in Outcome :
          /\ Deliver(t.alert, t.event, workers[w].cancelled, o)
          /\ workers' = [workers EXCEPT ![w] = [workers[w] EXCEPT !.pc = "record", !.outcome = o]]
    BY <1>4 DEF RetryDeliver
  <2>1. PICK x : /\ workers' = [workers EXCEPT ![w] = x] /\ x.attempt = t /\ x.pc = "record"
                 /\ x.outcome = o /\ x.copy = workers[w].copy
    <3> DEFINE x == [workers[w] EXCEPT !.pc = "record", !.outcome = o]
    <3>1. x.attempt = t /\ x.pc = "record" /\ x.outcome = o /\ x.copy = workers[w].copy
      BY <1>w, <2>p DEF WorkerType
    <3> QED
      BY <2>p, <3>1
  <2>2. workers[w].pc = "deliver"
    BY <1>4 DEF RetryDeliver
  <2>3. t.event = "resolved" => Reached(t.alert)
    BY <1>w, <2>2 DEF Knows
  <2>4. /\ received \subseteq received' /\ NoOrphanResolved'
        /\ o = "delivered" /\ t.event = "firing" => <<t.alert, "firing">> \in received'
    <3>1. PICK a \in AlertID, e \in Event : a = t.alert /\ e = t.event
      BY <1>t, <2>2
    <3>2. Deliver(a, e, workers[w].cancelled, o) /\ NoOrphanResolved
          /\ (e = "resolved" => Reached(a))
      BY <2>p, <2>3, <3>1 DEF Knowledge
    <3>3. /\ received \subseteq received' /\ NoOrphanResolved'
          /\ o = "delivered" /\ e = "firing" => Reached(a)'
      BY <3>2, DeliverKnows
    <3> QED
      BY <3>1, <3>3 DEF Reached
  <2>6. Knows(x)'
    BY <1>w, <2>1, <2>2, <2>4 DEF Knows, Reached
  <2>7. WorkersKnow'
    BY <1>k, <2>1, <2>4, <2>6, ReplaceKnows
  <2> QED
    BY <1>4, <2>4, <2>7, OthersKnow DEF RetryDeliver, Knowledge
<1>5. CASE \E ok \in BOOLEAN : RetryRecord(w, ok)
  <2>p. PICK ok \in BOOLEAN : RetryRecord(w, ok)
    BY <1>5
  <2> DEFINE o == workers[w].outcome
             again == TryAgain(t, o)
             K == {KeyOf(t)}
             pc == CASE again -> "register"
                     [] o = "delivered" /\ t.event = "firing" -> "mark"
                     [] OTHER -> "end"
  <2>1. received' = received /\ workers[w].pc = "record"
    BY <2>p DEF RetryRecord
  <2>2. PICK x : /\ \/ workers' = [workers EXCEPT ![w] = x]
                    \/ workers' = [Cancelled(K) EXCEPT ![w] = x]
                 /\ x.attempt = t /\ x.pc = pc /\ x.outcome = o /\ x.copy = workers[w].copy
    <3> DEFINE x == [pc |-> pc, attempt |-> t, copy |-> workers[w].copy, outcome |-> o,
                     cancelled |-> workers[w].cancelled]
    <3>1. \/ workers' = [workers EXCEPT ![w] = x]
          \/ workers' = [Cancelled(K) EXCEPT ![w] = x]
      BY <2>p DEF RetryRecord
    <3>2. x.attempt = t /\ x.pc = pc /\ x.outcome = o /\ x.copy = workers[w].copy
      OBVIOUS
    <3> HIDE DEF x, pc, K
    <3> QED
      BY <3>1, <3>2
  <2>3. pc \in {"register", "mark", "end"} /\ (pc = "mark" => o = "delivered" /\ t.event = "firing")
    OBVIOUS
  <2>4. Knows(x)'
    <3> HIDE DEF pc
    <3> QED
      BY <1>w, <2>1, <2>2, <2>3 DEF Knows, Reached
  <2>5. WorkersKnow'
    <3> HIDE DEF K
    <3> QED
      BY <1>k, <2>1, <2>2, <2>4, ReplaceKnows
  <2>6. LogKnows'
    <3>1. t.event = "resolved" => Reached(t.alert)
      BY <1>w, <2>1 DEF Knows
    <3>2. RecordDeliveryAttempt(t, o, again, ok) /\ pending' = pending
      BY <2>p DEF RetryRecord
    <3> HIDE DEF t, o, again
    <3> QED
      BY <2>1, <3>1, <3>2 DEF RecordDeliveryAttempt, Knowledge, LogKnows, Reached
  <2>7. UNCHANGED <<alerts, alertsFile, handler>>
    BY <2>p DEF RetryRecord
  <2> QED
    BY <2>1, <2>5, <2>6, <2>7, OthersKnow DEF Knowledge
<1>6. CASE \E ok \in BOOLEAN : RetryMark(w, ok)
  <2>p. PICK ok \in BOOLEAN : RetryMark(w, ok)
    BY <1>6
  <2> DEFINE alert == [workers[w].copy EXCEPT !.notified = TRUE]
  <2>1. received' = received /\ workers[w].pc = "mark"
    BY <2>p DEF RetryMark
  <2>2. PICK x : /\ workers' = [workers EXCEPT ![w] = x] /\ x.attempt = t /\ x.pc = "end"
                 /\ x.copy = workers[w].copy
    <3> DEFINE x == [workers[w] EXCEPT !.pc = "end"]
    <3>1. x.attempt = t /\ x.pc = "end" /\ x.copy = workers[w].copy
      BY <1>w DEF WorkerType
    <3> QED
      BY <2>p, <3>1 DEF RetryMark
  <2>3. Knows(x)'
    BY <1>w, <2>1, <2>2 DEF Knows, Reached
  <2>4. WorkersKnow'
    BY <1>k, <2>1, <2>2, <2>3, ReplaceKnows
  <2>5. NotifiedWasReceived'
    <3>1. Reached(t.alert) /\ t.alert \in AlertID /\ NotifiedWasReceived
      BY <1>w, <1>t, <2>1 DEF Knows, Knowledge
    <3>2. SaveAlert(t.alert, alert, ok)
      BY <2>p DEF RetryMark
    <3> HIDE DEF alert, t
    <3> QED
      BY <2>1, <3>1, <3>2, SaveKnows
  <2>6. UNCHANGED <<log, logFile, pending, handler>>
    BY <2>p DEF RetryMark
  <2> QED
    BY <2>1, <2>4, <2>5, <2>6, OthersKnow DEF Knowledge
<1>7. CASE RetryRegister(w)
  <2>1. received' = received /\ workers[w].pc = "register"
    BY <1>7 DEF RetryRegister
  <2>2. NextAttempt(t).alert = t.alert /\ NextAttempt(t).event = t.event
    <3>1. t \in Attempt
      BY <1>t, <2>1
    <3> HIDE DEF t
    <3> QED
      BY <3>1 DEF NextAttempt, Attempt
  <2>3. PICK x : /\ workers' = [workers EXCEPT ![w] = x] /\ x.attempt = NextAttempt(t)
                 /\ x.pc = "waiting" /\ ~x.copy.notified
    <3> DEFINE x == [pc |-> "waiting", attempt |-> NextAttempt(t), copy |-> NoAlert,
                     outcome |-> "retry", cancelled |-> FALSE]
    <3>1. x.attempt = NextAttempt(t) /\ x.pc = "waiting" /\ ~x.copy.notified
      BY DEF NoAlert
    <3> QED
      BY <1>7, <3>1 DEF RetryRegister
  <2>4. Knows(x)'
    BY <1>w, <2>1, <2>2, <2>3 DEF Knows, Reached
  <2>5. WorkersKnow'
    BY <1>k, <2>1, <2>3, <2>4, ReplaceKnows
  <2> QED
    BY <1>7, <2>5, OthersKnow DEF RetryRegister, Knowledge
<1>8. CASE RetryEnd(w)
  <2> DEFINE K == {KeyOf(t)}
  <2>1. workers' = [Cancelled(K) EXCEPT ![w] = FreeWorker] /\ received' = received
    BY <1>8 DEF RetryEnd
  <2>2. Knows(FreeWorker)'
    BY FreeTyped DEF Knows
  <2>3. WorkersKnow'
    <3> HIDE DEF K
    <3> QED
      BY <1>k, <2>1, <2>2, ReplaceKnows
  <2> QED
    BY <1>8, <2>3, OthersKnow DEF RetryEnd, Knowledge
<1> QED
  BY <1>2, <1>3, <1>4, <1>5, <1>6, <1>7, <1>8 DEF WorkerStep

\* An evaluation keeps what is known: its handler knows nothing yet.
LEMMA EvaluateKnows ==
  ASSUME TypeInv, Knowledge, NEW s \in Reason, NEW saved \in BOOLEAN, NEW appended \in BOOLEAN,
         EvaluateDevice(s, saved, appended)
  PROVE  Knowledge'
<1>1. HandlerKnows'
  <2>1. CASE saved /\ appended
    <3> DEFINE k == Kind(s)
    <3>1. handler' = [IdleHandler EXCEPT !.pc = "find", !.kind = k]
      BY <2>1 DEF EvaluateDevice
    <3> HIDE DEF k
    <3>2. handler'.pc = "find" /\ ~handler'.any /\ ~handler'.copy.notified
      BY <3>1, IdleTyped DEF HandlerType
    <3> QED
      BY <3>2 DEF HandlerKnows
  <2>2. CASE ~(saved /\ appended)
    <3>1. handler' = handler /\ received' = received
      BY <2>2 DEF EvaluateDevice
    <3> QED
      BY <3>1 DEF Knowledge, HandlerKnows, Reached
  <2> QED
    BY <2>1, <2>2
<1>2. UNCHANGED <<alerts, alertsFile, log, logFile, pending, workers, received>>
  BY DEF EvaluateDevice
<1> QED
  BY <1>1, <1>2 DEF Knowledge, NotifiedWasReceived, NoOrphanResolved, WorkersKnow, Knows,
                    LogKnows, Reached

\* A restart keeps what is known: the files know it too.
LEMMA RestartKnows == Knowledge /\ Restart => Knowledge'
<1> SUFFICES ASSUME Knowledge, Restart PROVE Knowledge'
  OBVIOUS
<1>1. HandlerKnows'
  <2>1. handler'.pc = "recover" /\ ~handler'.any /\ ~handler'.copy.notified
    BY IdleTyped DEF Restart, HandlerType
  <2> QED
    BY <2>1 DEF HandlerKnows
<1>2. NotifiedWasReceived' /\ NoOrphanResolved'
  BY DEF Restart, Knowledge, NotifiedWasReceived, NoOrphanResolved
<1>3. WorkersKnow'
  BY FreeTyped DEF Restart, WorkersKnow, Knows
<1>4. LogKnows'
  BY DEF Restart, ListPendingRetries, Knowledge, LogKnows, Reached
<1> QED
  BY <1>1, <1>2, <1>3, <1>4 DEF Knowledge

\* Every step keeps what is known.
LEMMA NextKnows == TypeInv /\ Knowledge /\ [Next]_vars => Knowledge'
<1> SUFFICES ASSUME TypeInv, Knowledge, [Next]_vars PROVE Knowledge'
  OBVIOUS
<1>1. CASE UNCHANGED vars
  BY <1>1 DEF vars, Knowledge, NotifiedWasReceived, NoOrphanResolved, HandlerKnows, WorkersKnow,
              Knows, LogKnows, Reached
<1>2. CASE \E saved \in BOOLEAN : EvaluateUnchanged(saved)
  BY <1>2 DEF EvaluateUnchanged, Knowledge, NotifiedWasReceived, NoOrphanResolved, HandlerKnows,
              WorkersKnow, Knows, LogKnows, Reached
<1> QED
  BY <1>1, <1>2, HandlerKeepsKnowledge, WorkerKeepsKnowledge, EvaluateKnows, RestartKnows DEF Next

\* The invariant of the two theorems below.
LEMMA AlwaysKnown == Spec => [](TypeInv /\ Knowledge)
  BY InitTypes, NextTypes, InitKnows, NextKnows, PTL DEF Spec

\* FiringNotified is never set for an alert whose firing nobody received, neither in
\* memory nor in alerts.json, whatever fails and whichever copies are saved.
THEOREM NotifiedIsReceived == Spec => []NotifiedWasReceived
  BY AlwaysKnown, PTL DEF Knowledge

\* No receiver hears of the resolution of an alert whose firing nobody received, be
\* it from the handler, from a retry or from a retry recovered after a crash.
THEOREM NoOrphans == Spec => []NoOrphanResolved
  BY AlwaysKnown, PTL DEF Knowledge

----------------------------------------------------------------------------
(* A device that fires has an alert.                                       *)

\* The retry chains after a step that cancels some of them or replaces one.
LEMMA FirmStays ==
  ASSUME TypeInv, \A v \in Worker : Firm(workers[v]), NEW K
  PROVE  /\ workers' = workers \/ workers' = Cancelled(K)
               => \A v \in Worker : Firm(workers[v])'
         /\ \A w \in Worker : \A x :
               /\ Firm(x)
               /\ workers' = [workers EXCEPT ![w] = x] \/ workers' = [Cancelled(K) EXCEPT ![w] = x]
               => \A v \in Worker : Firm(workers[v])'
<1>1. workers \in [Worker -> WorkerType] /\ Cancelled(K) \in [Worker -> WorkerType]
  BY CancelledKeeps DEF TypeInv, TypeOK
<1>2. \A v \in Worker : Firm(Cancelled(K)[v])
  BY CancelledKeeps DEF TypeInv, Firm
<1>3. workers' = workers \/ workers' = Cancelled(K) => \A v \in Worker : Firm(workers[v])'
  BY <1>2
<1>4. ASSUME NEW w \in Worker, NEW x, Firm(x), NEW v \in Worker,
             workers' = [workers EXCEPT ![w] = x] \/ workers' = [Cancelled(K) EXCEPT ![w] = x]
      PROVE  Firm(workers[v])'
  <2>1. workers'[v] = x \/ workers'[v] = workers[v] \/ workers'[v] = Cancelled(K)[v]
    BY <1>1, <1>4
  <2> QED
    BY <1>2, <1>4, <2>1
<1> QED
  BY <1>3, <1>4

\* Initially the device is well.
LEMMA InitAlive == Init => Alive
  BY IdleTyped, FreeTyped DEF Init, Alive, Firm

\* A firing alert that is saved is one.
LEMMA SaveFires ==
  ASSUME TypeInv, NEW a \in AlertID, NEW alert, NEW ok \in BOOLEAN, alert.state = "firing",
         SaveAlert(a, alert, ok)
  PROVE  SomeFiring'
  BY DEF SaveAlert, SomeFiring, TypeInv, TypeOK

\* A handler at rest after a step that changes neither the device nor the alerts.
LEMMA IdleAlive ==
  ASSUME TypeInv, Alive, handler' = IdleHandler, UNCHANGED <<health, lost, alerts>>,
         handler.pc \notin {"find", "cancel", "save"} \/ health.mem = "ok",
         \A v \in Worker : Firm(workers[v])'
  PROVE  Alive'
  BY IdleTyped DEF Alive, SomeFiring

\* A handler that goes on with the copy it has.
LEMMA GoesOnAlive ==
  ASSUME TypeInv, Alive, UNCHANGED <<health, lost, alerts>>,
         handler.pc \in {"deliver", "record", "register"},
         handler'.pc \in {"deliver", "record", "register", "mark", "recover"},
         handler'.kind = handler.kind, handler'.copy = handler.copy,
         \A v \in Worker : Firm(workers[v])'
  PROVE  Alive'
  BY DEF Alive, SomeFiring

\* The handler's steps: it opens an alert before it rests, and saves over it only
\* copies that fire.
LEMMA HandlerKeepsAlive ==
  ASSUME TypeInv, Alive, HandlerStep
  PROVE  Alive'
<1>h. handler \in HandlerType /\ alerts \in [AlertID -> Alert]
  BY DEF TypeInv, TypeOK
<1>f. \A v \in Worker : Firm(workers[v])
  BY DEF Alive
<1>1. CASE HandleOpened
  <2>1. handler'.pc = "save" /\ handler'.kind = handler.kind /\ handler'.copy.state = "firing"
    <3>1. ASSUME NEW a \in FindActive,
                 handler' = [handler EXCEPT !.pc = "save", !.alert = a, !.copy = alerts[a]]
          PROVE  <2>1!:
      <4>1. handler'.copy = alerts[a] /\ handler'.pc = "save" /\ handler'.kind = handler.kind
        BY <1>h, <3>1 DEF HandlerType
      <4> QED
        BY <4>1 DEF FindActive
    <3>2. ASSUME handler' = [handler EXCEPT !.pc = "save", !.alert = opened + 1,
                                !.copy = [state |-> "firing", notified |-> FALSE]]
          PROVE  <2>1!:
      BY <1>h, <3>2 DEF HandlerType
    <3> QED
      BY <1>1, <3>1, <3>2 DEF HandleOpened
  <2>2. handler.kind # "resolved" /\ workers' = workers
    BY <1>1 DEF HandleOpened
  <2> QED
    BY <1>f, <2>1, <2>2 DEF Alive
<1>2. CASE HandleResolved
  <2>1. /\ handler.pc = "find" /\ handler.kind = "resolved" /\ health.mem = "ok"
        /\ UNCHANGED <<health, lost, alerts, workers>>
    BY <1>2 DEF HandleResolved, Alive
  <2>2. CASE handler' = IdleHandler
    BY <1>f, <2>1, <2>2, IdleAlive
  <2>3. ASSUME NEW a \in FindActive,
               handler' = [handler EXCEPT !.pc = "cancel", !.alert = a, !.event = "resolved",
                          !.copy = [state |-> "resolved", notified |-> alerts[a].notified]]
        PROVE  Alive'
    <3>1. handler'.pc = "cancel" /\ handler'.kind = "resolved"
      BY <1>h, <2>1, <2>3 DEF HandlerType
    <3> QED
      BY <1>f, <2>1, <3>1 DEF Alive
  <2> QED
    BY <1>2, <2>2, <2>3 DEF HandleResolved
<1>3. CASE CancelFiringRetriesForAlert
  <2>1. /\ handler'.pc = "save" /\ handler'.kind = handler.kind /\ handler.kind = "resolved"
        /\ handler.pc = "cancel"
    BY <1>3, <1>h DEF CancelFiringRetriesForAlert, HandlerType, TypeInv, Ranges
  <2>2. \A v \in Worker : Firm(workers[v])'
    BY <1>3, <1>f, FirmStays DEF CancelFiringRetriesForAlert
  <2>3. health' = health
    BY <1>3 DEF CancelFiringRetriesForAlert
  <2> QED
    BY <2>1, <2>2, <2>3 DEF Alive
<1>4. CASE \E ok, silenced \in BOOLEAN : SaveThenNotify(ok, silenced)
  <2>p. PICK ok, silenced \in BOOLEAN : SaveThenNotify(ok, silenced)
    BY <1>4
  <2>1. /\ handler.pc = "save" /\ SaveAlert(handler.alert, handler.copy, ok)
        /\ UNCHANGED <<health, lost, workers>>
    BY <2>p DEF SaveThenNotify
  <2>2. handler.alert \in AlertID /\ handler.kind \in {"opened", "changed", "resolved"}
    BY <2>1 DEF TypeInv, Ranges
  <2>3. handler.kind # "resolved" => SomeFiring' /\ handler.copy.state = "firing"
    BY <2>1, <2>2, SaveFires DEF Alive
  <2>4. handler.kind = "resolved" => health.mem = "ok"
    BY <2>1 DEF Alive
  <2>5. \/ handler'.pc = "deliver" /\ handler'.kind = handler.kind /\ handler'.copy = handler.copy
        \/ handler' = IdleHandler
    BY <2>p, <1>h DEF SaveThenNotify, HandlerType
  <2> QED
    BY <1>f, <2>1, <2>2, <2>3, <2>4, <2>5, IdleTyped DEF Alive
<1>5. CASE HandlerDeliver
  <2>p. PICK c \in handler.todo, o \in Outcome :
          handler' = [handler EXCEPT !.pc = "record", !.todo = handler.todo \ {c},
                            !.attempt = [alert |-> handler.alert, event |-> handler.event,
                                         delivery |-> handler.delivery, channel |-> c,
                                         number |-> 1],
                            !.outcome = o, !.any = (handler.any \/ o = "delivered")]
    BY <1>5 DEF HandlerDeliver
  <2>1. handler'.pc = "record" /\ handler'.kind = handler.kind /\ handler'.copy = handler.copy
    BY <1>h, <2>p DEF HandlerType
  <2>2. handler.pc = "deliver" /\ UNCHANGED <<health, lost, alerts, workers>>
    BY <1>5 DEF HandlerDeliver
  <2> QED
    BY <1>f, <2>1, <2>2, GoesOnAlive
<1>6. CASE \E ok \in BOOLEAN : HandlerRecord(ok)
  <2>p. PICK ok \in BOOLEAN : HandlerRecord(ok)
    BY <1>6
  <2> DEFINE t == handler.attempt
             K == {KeyOf(t)}
  <2>1. handler.pc = "record" /\ handler.kind # "recover" /\ UNCHANGED <<health, lost, alerts>>
    BY <2>p DEF HandlerRecord, TypeInv, Ranges
  <2>2. \A v \in Worker : Firm(workers[v])'
    <3>1. workers' = workers \/ workers' = Cancelled(K)
      BY <2>p DEF HandlerRecord
    <3> HIDE DEF K
    <3> QED
      BY <1>f, <3>1, FirmStays
  <2>3. CASE handler.outcome = "retry"
    <3>1. handler' = [handler EXCEPT !.pc = "register", !.attempt = [t EXCEPT !.number = 2]]
      BY <2>p, <2>3 DEF HandlerRecord
    <3>2. handler'.pc = "register" /\ handler'.kind = handler.kind /\ handler'.copy = handler.copy
      BY <1>h, <3>1 DEF HandlerType
    <3> QED
      BY <2>1, <2>2, <3>2, GoesOnAlive
  <2>4. CASE handler.outcome # "retry"
    <3>1. handler' = Dispatched(handler)
      BY <2>p, <2>4 DEF HandlerRecord
    <3> QED
      BY <2>1, <2>2, <3>1, DispatchedTyped, GoesOnAlive, IdleAlive
  <2> QED
    BY <2>3, <2>4
<1>7. CASE \E ok \in BOOLEAN : HandlerMark(ok)
  <2>p. PICK ok \in BOOLEAN : HandlerMark(ok)
    BY <1>7
  <2> DEFINE alert == [handler.copy EXCEPT !.notified = TRUE]
  <2>1. /\ handler.pc = "mark" /\ handler' = IdleHandler /\ workers' = workers
        /\ SaveAlert(handler.alert, alert, ok)
    BY <2>p DEF HandlerMark
  <2>2. handler.alert \in AlertID /\ handler.kind \in {"opened", "changed"}
    BY <2>1 DEF TypeInv, Ranges
  <2>3. alert.state = "firing"
    <3>1. handler.copy.state = "firing" /\ handler.copy \in Alert
      BY <1>h, <2>1, <2>2 DEF Alive, HandlerType
    <3> QED
      BY <3>1 DEF Alert
  <2>4. SomeFiring'
    <3> HIDE DEF alert
    <3> QED
      BY <2>1, <2>2, <2>3, SaveFires
  <2> QED
    BY <1>f, <2>1, <2>4, IdleTyped DEF Alive
<1>8. CASE HandlerRegister
  <2>1. handler.pc = "register" /\ UNCHANGED <<health, lost, alerts>>
    BY <1>8 DEF HandlerRegister
  <2>2. \A v \in Worker : Firm(workers[v])'
    <3>1. PICK w \in Worker : \E x : x.pc = "waiting" /\ workers' = [workers EXCEPT ![w] = x]
      <4>1. PICK w \in Worker : workers' = [workers EXCEPT ![w] =
                            [pc |-> "waiting", attempt |-> handler.attempt, copy |-> NoAlert,
                             outcome |-> "retry", cancelled |-> FALSE]]
        BY <1>8 DEF HandlerRegister
      <4> QED
        BY <4>1
    <3>2. PICK x : x.pc = "waiting" /\ workers' = [workers EXCEPT ![w] = x]
      BY <3>1
    <3>3. Firm(x)
      BY <3>2 DEF Firm
    <3> QED
      BY <1>f, <3>2, <3>3, FirmStays
  <2>3. CASE handler.kind = "recover"
    <3>1. handler' = [handler EXCEPT !.pc = "recover"]
      BY <1>8, <2>3 DEF HandlerRegister
    <3>2. handler'.pc = "recover" /\ handler'.kind = handler.kind /\ handler'.copy = handler.copy
      BY <1>h, <3>1 DEF HandlerType
    <3> QED
      BY <2>1, <2>2, <3>2, GoesOnAlive
  <2>4. CASE handler.kind # "recover"
    <3>1. handler' = Dispatched(handler)
      BY <1>8, <2>4 DEF HandlerRegister
    <3> QED
      BY <2>1, <2>2, <2>4, <3>1, DispatchedTyped, GoesOnAlive, IdleAlive
  <2> QED
    BY <2>3, <2>4
<1>9. CASE RecoverOne
  <2>p. PICK e \in pending :
          LET t == e.attempt
              due == StillDue(t.event, alerts[t.alert]) IN
          /\ pending' = pending \ {e}
          /\ workers' = IF due THEN Cancelled({KeyOf(t)}) ELSE workers
          /\ active' = IF due THEN Forgotten({KeyOf(t)}) ELSE active
          /\ handler' = IF due
                        THEN [handler EXCEPT !.pc = "register",
                                 !.attempt = NextAttempt(t)]
                        ELSE handler
    BY <1>9 DEF RecoverOne
  <2>1. handler.pc = "recover" /\ handler.kind = "recover" /\ UNCHANGED <<health, lost, alerts>>
    BY <1>9 DEF RecoverOne, TypeInv, Ranges
  <2>2. handler'.pc \in {"register", "recover"} /\ handler'.kind = "recover"
    BY <1>h, <2>p, <2>1 DEF HandlerType
  <2>3. \A v \in Worker : Firm(workers[v])'
    <3>1. workers' = workers \/ workers' = Cancelled({KeyOf(e.attempt)})
      BY <2>p
    <3> QED
      BY <1>f, <3>1, FirmStays
  <2> QED
    BY <2>1, <2>2, <2>3 DEF Alive, SomeFiring
<1>10. CASE RecoverDone
  BY <1>10, <1>f, IdleAlive DEF RecoverDone
<1> QED
  BY <1>1, <1>2, <1>3, <1>4, <1>5, <1>6, <1>7, <1>8, <1>9, <1>10 DEF HandlerStep

\* A step that leaves the device, the handler and the alerts alone.
LEMMA OthersAlive ==
  ASSUME TypeInv, Alive, UNCHANGED <<health, lost, handler, alerts>>,
         \A v \in Worker : Firm(workers[v])'
  PROVE  Alive'
  BY DEF Alive, SomeFiring

\* The steps of a retry chain: the copy it saves was read while the alert fired.
LEMMA WorkerKeepsAlive ==
  ASSUME TypeInv, Alive, NEW w \in Worker, WorkerStep(w)
  PROVE  Alive'
<1> DEFINE t == workers[w].attempt
<1>w. workers[w] \in WorkerType /\ Firm(workers[w])
  BY DEF TypeInv, TypeOK, Alive
<1>f. \A v \in Worker : Firm(workers[v])
  BY DEF Alive
<1>2. CASE RetryCheck(w)
  <2>1. PICK x : Firm(x) /\ workers' = [workers EXCEPT ![w] = x]
    <3>1. CASE t.channel \in channels /\ StillDue(t.event, alerts[t.alert])
      <4> DEFINE x == [workers[w] EXCEPT !.pc = "deliver", !.copy = alerts[t.alert]]
      <4>1. x.attempt = t /\ x.pc = "deliver" /\ x.copy = alerts[t.alert]
        BY <1>w DEF WorkerType
      <4>2. Firm(x)
        <5> HIDE DEF x
        <5> QED
          BY <3>1, <4>1 DEF Firm, StillDue
      <4> QED
        BY <1>2, <3>1, <4>2 DEF RetryCheck
    <3>2. CASE ~(t.channel \in channels /\ StillDue(t.event, alerts[t.alert]))
      <4> DEFINE x == [workers[w] EXCEPT !.pc = "end"]
      <4>1. x.pc = "end"
        BY <1>w DEF WorkerType
      <4>2. Firm(x)
        <5> HIDE DEF x
        <5> QED
          BY <4>1 DEF Firm
      <4> QED
        BY <1>2, <3>2, <4>2 DEF RetryCheck
    <3> QED
      BY <3>1, <3>2
  <2>2. \A v \in Worker : Firm(workers[v])'
    BY <1>f, <2>1, FirmStays
  <2> QED
    BY <1>2, <2>2, OthersAlive DEF RetryCheck
<1>3. CASE RetryCancelled(w)
  <2>1. Firm(FreeWorker)
    BY FreeTyped DEF Firm
  <2>2. \A v \in Worker : Firm(workers[v])'
    BY <1>3, <1>f, <2>1, FirmStays DEF RetryCancelled
  <2> QED
    BY <1>3, <2>2, OthersAlive DEF RetryCancelled
<1>4. CASE RetryDeliver(w)
  <2>p. PICK o \in Outcome :
          workers' = [workers EXCEPT ![w] = [workers[w] EXCEPT !.pc = "record", !.outcome = o]]
    BY <1>4 DEF RetryDeliver
  <2>1. PICK x : Firm(x) /\ workers' = [workers EXCEPT ![w] = x]
    <3> DEFINE x == [workers[w] EXCEPT !.pc = "record", !.outcome = o]
    <3>1. x.attempt = t /\ x.pc = "record" /\ x.copy = workers[w].copy
      BY <1>w, <2>p DEF WorkerType
    <3>2. Firm(x)
      <4> HIDE DEF x
      <4>1. workers[w].pc = "deliver"
        BY <1>4 DEF RetryDeliver
      <4> QED
        BY <1>w, <3>1, <4>1 DEF Firm
    <3> QED
      BY <2>p, <3>2
  <2>2. \A v \in Worker : Firm(workers[v])'
    BY <1>f, <2>1, FirmStays
  <2> QED
    BY <1>4, <2>2, OthersAlive DEF RetryDeliver
<1>5. CASE \E ok \in BOOLEAN : RetryRecord(w, ok)
  <2>p. PICK ok \in BOOLEAN : RetryRecord(w, ok)
    BY <1>5
  <2> DEFINE o == workers[w].outcome
             again == TryAgain(t, o)
             K == {KeyOf(t)}
             pc == CASE again -> "register"
                     [] o = "delivered" /\ t.event = "firing" -> "mark"
                     [] OTHER -> "end"
             x == [pc |-> pc, attempt |-> t, copy |-> workers[w].copy, outcome |-> o,
                   cancelled |-> workers[w].cancelled]
  <2>1. workers[w].pc = "record" /\ UNCHANGED <<health, lost, handler, alerts>>
    BY <2>p DEF RetryRecord
  <2>2. workers' = [workers EXCEPT ![w] = x] \/ workers' = [Cancelled(K) EXCEPT ![w] = x]
    BY <2>p DEF RetryRecord
  <2>3. Firm(x)
    <3>1. x.attempt = t /\ x.copy = workers[w].copy
      OBVIOUS
    <3> HIDE DEF x
    <3> QED
      BY <1>w, <2>1, <3>1 DEF Firm
  <2>4. \A v \in Worker : Firm(workers[v])'
    <3> HIDE DEF x, K
    <3> QED
      BY <1>f, <2>2, <2>3, FirmStays
  <2> QED
    BY <2>1, <2>4, OthersAlive
<1>6. CASE \E ok \in BOOLEAN : RetryMark(w, ok)
  <2>p. PICK ok \in BOOLEAN : RetryMark(w, ok)
    BY <1>6
  <2> DEFINE alert == [workers[w].copy EXCEPT !.notified = TRUE]
  <2>1. /\ workers[w].pc = "mark" /\ SaveAlert(t.alert, alert, ok)
        /\ UNCHANGED <<health, lost, handler>>
    BY <2>p DEF RetryMark
  <2>2. t.event = "firing" /\ t.alert \in AlertID
    BY <2>1 DEF TypeInv, TypeOK, Ranges, Attempt
  <2>3. alert.state = "firing"
    <3>1. workers[w].copy.state = "firing" /\ workers[w].copy \in Alert
      BY <1>w, <2>1, <2>2 DEF Firm, WorkerType
    <3> QED
      BY <3>1 DEF Alert
  <2>4. SomeFiring'
    <3> HIDE DEF alert, t
    <3> QED
      BY <2>1, <2>2, <2>3, SaveFires
  <2>5. PICK x : Firm(x) /\ workers' = [workers EXCEPT ![w] = x]
    <3> DEFINE x == [workers[w] EXCEPT !.pc = "end"]
    <3>1. x.pc = "end"
      BY <1>w DEF WorkerType
    <3>2. Firm(x)
      <4> HIDE DEF x
      <4> QED
        BY <3>1 DEF Firm
    <3> QED
      BY <2>p, <3>2 DEF RetryMark
  <2>6. \A v \in Worker : Firm(workers[v])'
    BY <1>f, <2>5, FirmStays
  <2>7. UNCHANGED <<health, handler>>
    BY <2>1
  <2> QED
    BY <2>4, <2>6, <2>7 DEF Alive
<1>7. CASE RetryRegister(w)
  <2> DEFINE x == [pc |-> "waiting", attempt |-> NextAttempt(t), copy |-> NoAlert,
                   outcome |-> "retry", cancelled |-> FALSE]
  <2>1. workers' = [workers EXCEPT ![w] = x] /\ UNCHANGED <<health, lost, handler, alerts>>
    BY <1>7 DEF RetryRegister
  <2>2. Firm(x)
    BY DEF Firm
  <2>3. \A v \in Worker : Firm(workers[v])'
    <3> HIDE DEF x
    <3> QED
      BY <1>f, <2>1, <2>2, FirmStays
  <2> QED
    BY <2>1, <2>3, OthersAlive
<1>8. CASE RetryEnd(w)
  <2> DEFINE K == {KeyOf(t)}
  <2>1. workers' = [Cancelled(K) EXCEPT ![w] = FreeWorker]
        /\ UNCHANGED <<health, lost, handler, alerts>>
    BY <1>8 DEF RetryEnd
  <2>2. Firm(FreeWorker)
    BY FreeTyped DEF Firm
  <2>3. \A v \in Worker : Firm(workers[v])'
    <3> HIDE DEF K
    <3> QED
      BY <1>f, <2>1, <2>2, FirmStays
  <2> QED
    BY <2>1, <2>3, OthersAlive
<1> QED
  BY <1>2, <1>3, <1>4, <1>5, <1>6, <1>7, <1>8 DEF WorkerStep

\* An evaluation: its event is handled, or it is lost.
LEMMA EvaluateAlive ==
  ASSUME TypeInv, Alive, NEW s \in Reason, NEW saved \in BOOLEAN, NEW appended \in BOOLEAN,
         EvaluateDevice(s, saved, appended)
  PROVE  Alive'
<1>f. \A v \in Worker : Firm(workers[v])'
  BY DEF Alive, EvaluateDevice
<1>1. health'.mem = s /\ lost' = (lost \/ ~saved \/ ~appended) /\ handler.pc = "idle"
  BY DEF EvaluateDevice
<1>2. CASE saved /\ appended
  <2> DEFINE k == Kind(s)
  <2>1. handler' = [IdleHandler EXCEPT !.pc = "find", !.kind = k]
    BY <1>2 DEF EvaluateDevice
  <2>2. k = "resolved" => s = "ok"
    BY DEF Kind
  <2> HIDE DEF k
  <2>3. handler'.pc = "find" /\ handler'.kind = k
    BY <2>1, IdleTyped DEF HandlerType
  <2> QED
    BY <1>f, <1>1, <2>2, <2>3 DEF Alive
<1>3. CASE ~(saved /\ appended)
  <2>1. handler' = handler
    BY <1>3 DEF EvaluateDevice
  <2> QED
    BY <1>f, <1>1, <1>3, <2>1 DEF Alive
<1> QED
  BY <1>2, <1>3

\* A restart: what it undoes counts as lost.
LEMMA RestartAlive == TypeInv /\ Alive /\ Restart => Alive'
<1> SUFFICES ASSUME TypeInv, Alive, Restart PROVE Alive'
  OBVIOUS
<1>1. handler'.pc = "recover"
  BY IdleTyped DEF Restart, HandlerType
<1>2. \A v \in Worker : Firm(workers[v])'
  BY FreeTyped DEF Restart, Firm
<1>3. ~lost' => ~lost /\ handler.pc = "idle" /\ alerts' = alerts /\ health'.mem = health.mem
  BY DEF Restart, TypeInv, TypeOK
<1> QED
  BY <1>1, <1>2, <1>3 DEF Alive, SomeFiring

\* Every step.
LEMMA NextAlive == TypeInv /\ Alive /\ [Next]_vars => Alive'
<1> SUFFICES ASSUME TypeInv, Alive, [Next]_vars PROVE Alive'
  OBVIOUS
<1>1. CASE UNCHANGED vars
  BY <1>1 DEF vars, Alive, SomeFiring
<1>2. CASE \E saved \in BOOLEAN : EvaluateUnchanged(saved)
  <2>1. health'.mem = health.mem /\ UNCHANGED <<lost, handler, alerts, workers>>
    BY <1>2 DEF EvaluateUnchanged, TypeInv, TypeOK
  <2> QED
    BY <2>1 DEF Alive, SomeFiring
<1> QED
  BY <1>1, <1>2, HandlerKeepsAlive, WorkerKeepsAlive, EvaluateAlive, RestartAlive DEF Next

\* Unless an event was lost, a device that fires has a firing alert whenever its
\* handler rests: no copy that a retry saves late takes it away.
THEOREM FiringIsAlerted == Spec => []FiringHasAlert
<1>1. Spec => [](TypeInv /\ Alive)
  BY InitTypes, NextTypes, InitAlive, NextAlive, PTL DEF Spec
<1>2. Alive => FiringHasAlert
  BY DEF Alive, SomeFiring, FiringHasAlert
<1> QED
  BY <1>1, <1>2, PTL

-----------------------------------------------------------------------------
(* The attempts of one notification over one channel                        *)

Note(t) == <<t.delivery, t.channel>>

\* In the log l the attempts of a note have one record each, none is left out
\* below another, and none follows one that was to be the last.
InOrder(l) ==
    \A e \in l :
        /\ e.attempt.delivery <= sent
        /\ \A k \in 1 .. e.attempt.number :
              \E f \in l : Note(f.attempt) = Note(e.attempt) /\ f.attempt.number = k
        /\ \A f \in l : Note(f.attempt) = Note(e.attempt) =>
              /\ f.attempt.number = e.attempt.number => f = e
              /\ ~e.next => f.attempt.number <= e.attempt.number

\* Attempt k of note n may be recorded next.
Ready(l, n, k) ==
    /\ n[1] <= sent
    /\ k # 1 => \E f \in l : Note(f.attempt) = n /\ f.attempt.number = k - 1
    /\ \A f \in l : Note(f.attempt) = n => f.attempt.number < k /\ f.next

\* A retry chain that goes on, and the attempt it records next.
Holding(x) == x.pc \in {"waiting", "deliver", "record", "register"}
NextNumber(x) == IF x.pc = "register" THEN x.attempt.number + 1 ELSE x.attempt.number

\* The handler's own work: the channels to come, and the attempt under way.
ToDeliver(n) ==
    /\ handler.pc \in {"deliver", "record", "register"} /\ handler.kind # "recover"
    /\ n[1] = handler.delivery /\ n[2] \in handler.todo
InHand(n) == handler.pc \in {"record", "register"} /\ n = Note(handler.attempt)

ToRecover(n) == \E e \in pending : n = Note(e.attempt)
Retried(w, n) == Holding(workers[w]) /\ n = Note(workers[w].attempt)

\* Each note is somebody's: of the handler, of startup, or of one retry chain.
OneHolder(n) ==
    /\ ToDeliver(n) \/ InHand(n) => ~ToRecover(n) /\ \A w \in Worker : ~Retried(w, n)
    /\ ~(ToDeliver(n) /\ InHand(n))
    /\ ToRecover(n) => \A w \in Worker : ~Retried(w, n)
    /\ \A e, f \in pending : n = Note(e.attempt) /\ n = Note(f.attempt) => e = f
    /\ \A v, w \in Worker : Retried(v, n) /\ Retried(w, n) => v = w

Notes == (1 .. MaxDelivery) \X Channel

\* AttemptsInOrder in both copies of the log, and who may add to it.
OrderInv ==
    /\ InOrder(log) /\ InOrder(logFile)
    /\ pending # {} => handler.pc \in {"recover", "register"} /\ handler.kind = "recover"
    /\ handler.pc = "record" => handler.attempt.number = 1
    /\ \A n \in Notes : OneHolder(n)
    /\ \A n \in Notes : ToDeliver(n) => Ready(log, n, 1)
    /\ handler.pc \in {"record", "register"}
          => Ready(log, Note(handler.attempt), handler.attempt.number)
    /\ \A e \in pending : Ready(log, Note(e.attempt), e.attempt.number + 1)
    /\ \A w \in Worker : Holding(workers[w])
          => Ready(log, Note(workers[w].attempt), NextNumber(workers[w]))

\* The next attempt keeps a log in order.
LEMMA AppendInOrder ==
  ASSUME NEW l \in SUBSET Entry, NEW e \in Entry, InOrder(l),
         Ready(l, Note(e.attempt), e.attempt.number)
  PROVE  InOrder(l \cup {e})
<1>e. e.attempt \in Attempt /\ e.attempt.number \in 1 .. MaxAttempt /\ MaxAttempt \in Nat
      /\ Note(e.attempt)[1] = e.attempt.delivery
  BY AlertAssumption DEF Entry, Attempt, Note
<1>l. \A f \in l : f.attempt \in Attempt /\ f.attempt.number \in 1 .. MaxAttempt
  BY DEF Entry, Attempt
<1>1. ASSUME NEW f \in l
      PROVE  /\ f.attempt.delivery <= sent
             /\ \A k \in 1 .. f.attempt.number :
                   \E g \in l \cup {e} : Note(g.attempt) = Note(f.attempt) /\ g.attempt.number = k
             /\ \A g \in l \cup {e} : Note(g.attempt) = Note(f.attempt) =>
                   /\ g.attempt.number = f.attempt.number => g = f
                   /\ ~f.next => g.attempt.number <= f.attempt.number
  <2>1. Note(f.attempt) = Note(e.attempt) => f.attempt.number < e.attempt.number /\ f.next
    BY DEF Ready
  <2>2. /\ f.attempt.delivery <= sent
        /\ \A k \in 1 .. f.attempt.number :
              \E g \in l : Note(g.attempt) = Note(f.attempt) /\ g.attempt.number = k
        /\ \A g \in l : Note(g.attempt) = Note(f.attempt) =>
              /\ g.attempt.number = f.attempt.number => g = f
              /\ ~f.next => g.attempt.number <= f.attempt.number
    BY DEF InOrder
  <2>3. Note(e.attempt) = Note(f.attempt) =>
              /\ e.attempt.number = f.attempt.number => e = f
              /\ ~f.next => e.attempt.number <= f.attempt.number
    BY <1>e, <1>l, <2>1
  <2> QED
    BY <2>2, <2>3
<1>2. e.attempt.delivery <= sent
  BY <1>e DEF Ready
<1>3. ASSUME NEW k \in 1 .. e.attempt.number
      PROVE  \E g \in l \cup {e} : Note(g.attempt) = Note(e.attempt) /\ g.attempt.number = k
  <2>1. CASE k = e.attempt.number
    BY <2>1
  <2>2. CASE k # e.attempt.number
    <3>1. e.attempt.number # 1 /\ k \in 1 .. (e.attempt.number - 1)
      BY <1>e, <2>2
    <3>2. PICK f \in l : Note(f.attempt) = Note(e.attempt) /\ f.attempt.number = e.attempt.number - 1
      BY <3>1 DEF Ready
    <3>3. \E g \in l : Note(g.attempt) = Note(f.attempt) /\ g.attempt.number = k
      BY <3>1, <3>2 DEF InOrder
    <3> QED
      BY <3>2, <3>3
  <2> QED
    BY <2>1, <2>2
<1>4. ASSUME NEW g \in l \cup {e}, Note(g.attempt) = Note(e.attempt)
      PROVE  /\ g.attempt.number = e.attempt.number => g = e
             /\ ~e.next => g.attempt.number <= e.attempt.number
  <2>1. CASE g = e
    BY <1>e, <2>1
  <2>2. CASE g \in l
    BY <1>e, <1>l, <1>4, <2>2 DEF Ready
  <2> QED
    BY <2>1, <2>2
<1> QED
  BY <1>1, <1>2, <1>3, <1>4 DEF InOrder

\* A record of one note makes no other note less ready ...
LEMMA ReadyOther ==
  ASSUME NEW l, NEW e, NEW n, NEW k, Ready(l, n, k), Note(e.attempt) # n
  PROVE  Ready(l \cup {e}, n, k)
  BY DEF Ready

\* ... and its own ready for the next attempt, if there is to be one.
LEMMA ReadyNext ==
  ASSUME NEW l \in SUBSET Entry, NEW e \in Entry,
         Ready(l, Note(e.attempt), e.attempt.number), e.next
  PROVE  Ready(l \cup {e}, Note(e.attempt), e.attempt.number + 1)
<1>1. e.attempt.number \in Nat /\ e.attempt.number + 1 - 1 = e.attempt.number
      /\ \A f \in l : f.attempt.number \in Nat
  BY AlertAssumption DEF Entry, Attempt
<1>2. \A f \in l \cup {e} : Note(f.attempt) = Note(e.attempt) =>
          f.attempt.number < e.attempt.number + 1 /\ f.next
  BY <1>1 DEF Ready
<1> QED
  BY <1>1, <1>2 DEF Ready

\* What startup recovers is ready for its next attempt, and found once.
LEMMA PendingReady ==
  ASSUME NEW l \in SUBSET Entry, InOrder(l)
  PROVE  /\ \A e \in ListPendingRetries(l) : Ready(l, Note(e.attempt), e.attempt.number + 1)
         /\ \A e, f \in ListPendingRetries(l) : Note(e.attempt) = Note(f.attempt) => e = f
<1>l. \A f \in l : f.attempt.number \in Nat
  BY AlertAssumption DEF Entry, Attempt
<1>n. \A f, g \in l : Note(f.attempt) = Note(g.attempt) <=>
          f.attempt.delivery = g.attempt.delivery /\ f.attempt.channel = g.attempt.channel
  BY DEF Note
<1>1. ASSUME NEW e \in ListPendingRetries(l)
      PROVE  Ready(l, Note(e.attempt), e.attempt.number + 1)
  <2>1. e \in l /\ e.next
    BY DEF ListPendingRetries
  <2>2. \A f \in l : Note(f.attempt) = Note(e.attempt) => f.attempt.number <= e.attempt.number
    BY <1>n, <2>1 DEF ListPendingRetries
  <2>3. ASSUME NEW f \in l, Note(f.attempt) = Note(e.attempt)
        PROVE  f.attempt.number < e.attempt.number + 1 /\ f.next
    <3>1. f.attempt.number <= e.attempt.number
      BY <2>2, <2>3
    <3>2. ~f.next => e.attempt.number <= f.attempt.number
      BY <2>1, <2>3 DEF InOrder
    <3>3. f.attempt.number = e.attempt.number => f = e
      BY <2>1, <2>3 DEF InOrder
    <3> QED
      BY <1>l, <2>1, <3>1, <3>2, <3>3
  <2>4. Note(e.attempt)[1] <= sent
    BY <2>1 DEF InOrder, Note
  <2>5. (e.attempt.number + 1) - 1 = e.attempt.number
    BY <1>l, <2>1
  <2>6. \E f \in l : /\ Note(f.attempt) = Note(e.attempt)
                    /\ f.attempt.number = (e.attempt.number + 1) - 1
    BY <2>1, <2>5
  <2> QED
    BY <2>3, <2>4, <2>6 DEF Ready
<1>2. ASSUME NEW e \in ListPendingRetries(l), NEW f \in ListPendingRetries(l),
             Note(e.attempt) = Note(f.attempt)
      PROVE  e = f
  <2>1. e \in l /\ f \in l
    BY DEF ListPendingRetries
  <2>2. e.attempt.number <= f.attempt.number /\ f.attempt.number <= e.attempt.number
    BY <1>n, <1>2, <2>1 DEF ListPendingRetries
  <2>3. e.attempt.number = f.attempt.number => e = f
    BY <1>2, <2>1 DEF InOrder
  <2> QED
    BY <1>l, <2>1, <2>2, <2>3
<1> QED
  BY <1>1, <1>2

\* The notes that the attempts of TypeOK are about.
LEMMA NoteTyped == \A t \in Attempt : Note(t) \in Notes
  BY DEF Attempt, Note, Notes

\* When nobody gets hold of a note he did not hold, nobody shares one.
LEMMA HoldersStay ==
  ASSUME OrderInv, pending' \subseteq pending,
         \A n \in Notes : /\ ToDeliver(n)' => ToDeliver(n)
                          /\ InHand(n)' => InHand(n)
                          /\ \A w \in Worker : Retried(w, n)' => Retried(w, n)
  PROVE  \A n \in Notes : OneHolder(n)'
<1> SUFFICES ASSUME NEW n \in Notes PROVE OneHolder(n)'
  OBVIOUS
<1>1. OneHolder(n)
  BY DEF OrderInv
<1>2. ToRecover(n)' => ToRecover(n)
  BY DEF ToRecover
<1> QED
  BY <1>1, <1>2 DEF OneHolder

\* A step that starts no notification and records nothing: whoever held a note
\* holds it still or has given it up.
LEMMA QuietStep ==
  ASSUME TypeInv, OrderInv, UNCHANGED <<log, logFile, sent>>, pending' \subseteq pending,
         \/ handler' = handler
         \/ /\ handler'.pc \notin {"deliver", "record", "register"}
            /\ pending' # {} => handler'.pc = "recover" /\ handler'.kind = "recover",
         \A w \in Worker : Holding(workers'[w]) =>
            /\ Holding(workers[w])
            /\ Note(workers'[w].attempt) = Note(workers[w].attempt)
            /\ NextNumber(workers'[w]) = NextNumber(workers[w])
  PROVE  OrderInv'
<1>1. InOrder(log)' /\ InOrder(logFile)'
  BY DEF OrderInv, InOrder
<1>2. /\ pending' # {} => handler'.pc \in {"recover", "register"} /\ handler'.kind = "recover"
      /\ handler'.pc = "record" => handler'.attempt.number = 1
  BY DEF OrderInv
<1>3. ASSUME NEW n \in Notes
      PROVE  /\ ToDeliver(n)' => ToDeliver(n)
             /\ InHand(n)' => InHand(n)
             /\ \A w \in Worker : Retried(w, n)' => Retried(w, n)
  BY DEF ToDeliver, InHand, Retried
<1>4. \A n \in Notes : OneHolder(n)'
  BY <1>3, HoldersStay
<1>5. \A n \in Notes : ToDeliver(n)' => Ready(log, n, 1)'
  BY <1>3 DEF OrderInv, Ready
<1>6. handler'.pc \in {"record", "register"}
          => Ready(log, Note(handler.attempt), handler.attempt.number)'
  BY DEF OrderInv, Ready
<1>7. \A e \in pending' : Ready(log, Note(e.attempt), e.attempt.number + 1)'
  BY DEF OrderInv, Ready
<1>8. \A w \in Worker : Holding(workers[w])'
          => Ready(log, Note(workers[w].attempt), NextNumber(workers[w]))'
  <2> SUFFICES ASSUME NEW w \in Worker, Holding(workers[w])'
               PROVE  Ready(log, Note(workers[w].attempt), NextNumber(workers[w]))'
    OBVIOUS
  <2>1. Ready(log, Note(workers[w].attempt), NextNumber(workers[w]))
    BY DEF OrderInv
  <2>2. /\ Note(workers[w].attempt)' = Note(workers[w].attempt)
        /\ NextNumber(workers[w])' = NextNumber(workers[w])
    OBVIOUS
  <2> QED
    BY <2>1, <2>2 DEF Ready
<1> QED
  BY <1>1, <1>2, <1>4, <1>5, <1>6, <1>7, <1>8 DEF OrderInv

\* What the record of a note that is ready does to both copies of the log.
LEMMA RecordOrder ==
  ASSUME TypeInv, OrderInv, NEW t \in Attempt, NEW o, NEW next \in BOOLEAN, NEW ok \in BOOLEAN,
         RecordDeliveryAttempt(t, o, next, ok), sent' = sent, Ready(log, Note(t), t.number)
  PROVE  /\ InOrder(log)' /\ InOrder(logFile)'
         /\ \A n, k : n # Note(t) /\ Ready(log, n, k) => Ready(log, n, k)'
         /\ next => Ready(log, Note(t), t.number + 1)'
<1> DEFINE d == o = "delivered"
           e == [attempt |-> t, delivered |-> d, next |-> next]
<1>1. e \in Entry /\ e.attempt = t /\ e.next = next
  <2>1. d \in BOOLEAN
    OBVIOUS
  <2> HIDE DEF d
  <2> QED
    BY <2>1 DEF Entry
<1>2. log' = log \cup {e} /\ logFile' \in {log', logFile}
  BY DEF RecordDeliveryAttempt
<1>3. log \in SUBSET Entry /\ InOrder(log) /\ InOrder(logFile)
  BY DEF TypeInv, TypeOK, OrderInv
<1> HIDE DEF e
<1>4. InOrder(log \cup {e})
  BY <1>1, <1>3, AppendInOrder
<1>5. InOrder(log)' /\ InOrder(logFile)'
  BY <1>2, <1>3, <1>4 DEF InOrder
<1>6. \A n, k : n # Note(t) /\ Ready(log, n, k) => Ready(log, n, k)'
  <2> SUFFICES ASSUME NEW n, NEW k, n # Note(t), Ready(log, n, k) PROVE Ready(log, n, k)'
    OBVIOUS
  <2>1. Ready(log \cup {e}, n, k)
    BY <1>1, ReadyOther
  <2> QED
    BY <1>2, <2>1 DEF Ready
<1>7. ASSUME next PROVE Ready(log, Note(t), t.number + 1)'
  <2>1. Ready(log \cup {e}, Note(t), t.number + 1)
    BY <1>1, <1>3, <1>7, ReadyNext
  <2> QED
    BY <1>2, <2>1 DEF Ready
<1> QED
  BY <1>5, <1>6, <1>7

\* A new notification has a number of its own.
LEMMA NotifyOrder ==
  ASSUME TypeInv, OrderInv, NEW ok \in BOOLEAN, NEW silenced \in BOOLEAN,
         SaveThenNotify(ok, silenced)
  PROVE  OrderInv'
<1>u. UNCHANGED <<log, logFile, pending, workers>> /\ handler.pc = "save"
  BY DEF SaveThenNotify
<1>h. handler \in HandlerType /\ sent \in Nat
  BY AlertAssumption DEF TypeInv, TypeOK
<1>p. pending = {}
  BY <1>u DEF OrderInv
<1>1. CASE handler' = IdleHandler /\ sent' = sent
  BY <1>u, <1>p, <1>1, IdleTyped, QuietStep
<1>2. CASE handler' = [handler EXCEPT !.pc = "deliver", !.delivery = sent + 1, !.todo = channels]
           /\ sent' = sent + 1
  <2>1. handler'.pc = "deliver" /\ handler'.delivery = sent + 1
    BY <1>h, <1>2 DEF HandlerType
  <2>2. \A n, k : Ready(log, n, k) => n[1] <= sent
    BY DEF Ready
  <2>3. InOrder(log)' /\ InOrder(logFile)'
    <3>1. \A e \in log \cup logFile : e.attempt.delivery \in Nat
      BY DEF TypeInv, TypeOK, Entry, Attempt
    <3>2. \A e \in log \cup logFile : e.attempt.delivery <= sent + 1
      BY <1>h, <3>1 DEF OrderInv, InOrder
    <3> QED
      BY <1>u, <1>2, <3>2 DEF OrderInv, InOrder
  <2>4. ASSUME NEW n \in Notes, NEW k, Ready(log, n, k) PROVE Ready(log, n, k)'
    <3>1. n[1] \in Nat /\ n[1] <= sent
      BY <2>4 DEF Notes, Ready
    <3>2. n[1] <= sent'
      BY <1>h, <1>2, <3>1
    <3> QED
      BY <1>u, <2>4, <3>2 DEF Ready
  <2>5. ASSUME NEW w \in Worker, Holding(workers[w])
        PROVE  /\ Note(workers[w].attempt) \in Notes
               /\ Note(workers[w].attempt)[1] <= sent
               /\ Ready(log, Note(workers[w].attempt), NextNumber(workers[w]))'
    <3>1. Note(workers[w].attempt) \in Notes
      BY <2>5, NoteTyped DEF TypeInv, TypeOK, Holding
    <3>2. Ready(log, Note(workers[w].attempt), NextNumber(workers[w]))
      BY <2>5 DEF OrderInv
    <3>3. PICK n \in Notes, k \in {NextNumber(workers[w])} :
            n = Note(workers[w].attempt) /\ k = NextNumber(workers[w])
      BY <3>1
    <3>4. Ready(log, n, k)' /\ n[1] <= sent
      BY <3>2, <3>3, <2>4, <2>2
    <3> QED
      BY <1>u, <3>1, <3>3, <3>4 DEF Ready
  <2>6. ASSUME NEW n \in Notes
        PROVE  /\ OneHolder(n)'
               /\ ToDeliver(n)' => Ready(log, n, 1)'
    <3>1. ToDeliver(n)' => n[1] = sent + 1
      BY <2>1 DEF ToDeliver
    <3>2. ~InHand(n)' /\ ~ToRecover(n)'
      BY <1>u, <1>p, <2>1 DEF InHand, ToRecover
    <3>3. \A w \in Worker : Retried(w, n)' => Retried(w, n) /\ n[1] <= sent
      BY <1>u, <2>5 DEF Retried
    <3>4. \A v, w \in Worker : Retried(v, n) /\ Retried(w, n) => v = w
      BY DEF OrderInv, OneHolder
    <3>5. OneHolder(n)'
      BY <1>h, <1>u, <1>p, <3>1, <3>2, <3>3, <3>4 DEF OneHolder
    <3>6. ASSUME ToDeliver(n)' PROVE Ready(log, n, 1)'
      <4>1. \A e \in log : Note(e.attempt) # n
        <5> SUFFICES ASSUME NEW e \in log, Note(e.attempt) = n PROVE FALSE
          OBVIOUS
        <5>1. e.attempt.delivery <= sent /\ n[1] = e.attempt.delivery
          BY DEF OrderInv, InOrder, Note
        <5> QED
          BY <1>h, <3>1, <3>6, <5>1
      <4>2. n[1] <= sent'
        BY <1>h, <1>2, <3>1, <3>6
      <4> QED
        BY <1>u, <4>1, <4>2 DEF Ready
    <3> QED
      BY <3>5, <3>6
  <2> QED
    BY <1>u, <1>p, <2>1, <2>3, <2>5, <2>6 DEF OrderInv, Holding
<1> QED
  BY <1>1, <1>2 DEF SaveThenNotify

\* A note that nobody holds in a new way keeps its place in the log.
LEMMA PlacesStay ==
  ASSUME TypeInv, OrderInv, UNCHANGED <<log, logFile, sent>>
  PROVE  /\ InOrder(log)' /\ InOrder(logFile)'
         /\ \A n, k : Ready(log, n, k) => Ready(log, n, k)'
  BY DEF OrderInv, InOrder, Ready

\* The attempt that the handler takes from its list is the first of its note.
LEMMA DeliverOrder == TypeInv /\ OrderInv /\ HandlerDeliver => OrderInv'
<1> SUFFICES ASSUME TypeInv, OrderInv, HandlerDeliver PROVE OrderInv'
  OBVIOUS
<1>u. UNCHANGED <<log, logFile, sent, pending, workers>> /\ handler.pc = "deliver"
  BY DEF HandlerDeliver
<1>h. handler \in HandlerType /\ handler.delivery \in 1 .. MaxDelivery /\ handler.kind # "recover"
  BY <1>u DEF TypeInv, TypeOK, Ranges
<1>p. PICK c \in handler.todo, o \in Outcome :
        handler' = [handler EXCEPT !.pc = "record", !.todo = handler.todo \ {c},
                            !.attempt = [alert |-> handler.alert, event |-> handler.event,
                                         delivery |-> handler.delivery, channel |-> c,
                                         number |-> 1],
                            !.outcome = o, !.any = (handler.any \/ o = "delivered")]
  BY DEF HandlerDeliver
<1>1. /\ handler'.pc = "record" /\ handler'.kind = handler.kind /\ handler'.todo = handler.todo \ {c}
      /\ handler'.delivery = handler.delivery /\ handler'.attempt.number = 1
      /\ Note(handler'.attempt) = <<handler.delivery, c>>
  BY <1>h, <1>p DEF HandlerType, Note
<1>2. <<handler.delivery, c>> \in Notes /\ ToDeliver(<<handler.delivery, c>>)
  BY <1>h, <1>u, <1>p DEF HandlerType, Notes, ToDeliver
<1>3. pending = {}
  BY <1>u DEF OrderInv
<1>4. ASSUME NEW n \in Notes
      PROVE  /\ OneHolder(n)'
             /\ ToDeliver(n)' => ToDeliver(n)
  <2>1. OneHolder(n)
    BY DEF OrderInv
  <2>2. ToDeliver(n)' => ToDeliver(n) /\ n[2] # c
    BY <1>u, <1>1 DEF ToDeliver
  <2>3. InHand(n)' => ToDeliver(n) /\ n[2] = c
    BY <1>1, <1>2 DEF InHand
  <2>4. ~ToRecover(n)' /\ \A w \in Worker : Retried(w, n)' = Retried(w, n)
    BY <1>u, <1>3 DEF ToRecover, Retried
  <2>5. OneHolder(n)'
    BY <1>u, <1>3, <2>1, <2>2, <2>3, <2>4 DEF OneHolder
  <2> QED
    BY <2>2, <2>5
<1>5. Ready(log, <<handler.delivery, c>>, 1)
  BY <1>2 DEF OrderInv
<1>6. InOrder(log)' /\ InOrder(logFile)' /\ \A n, k : Ready(log, n, k) => Ready(log, n, k)'
  BY <1>u, PlacesStay
<1>7. \A n \in Notes : ToDeliver(n)' => Ready(log, n, 1)'
  BY <1>4, <1>6 DEF OrderInv
<1>8. Ready(log, Note(handler.attempt), handler.attempt.number)'
  BY <1>u, <1>1, <1>5 DEF Ready
<1>9. \A w \in Worker : Holding(workers[w])'
          => Ready(log, Note(workers[w].attempt), NextNumber(workers[w]))'
  BY <1>u DEF OrderInv, Ready, Holding, NextNumber, Note
<1> QED
  BY <1>u, <1>1, <1>3, <1>4, <1>6, <1>7, <1>8, <1>9 DEF OrderInv

\* Cancelling takes no note away from anybody.
LEMMA CancelledHold ==
  ASSUME TypeOK, NEW K, NEW w \in Worker
  PROVE  /\ Holding(Cancelled(K)[w]) <=> Holding(workers[w])
         /\ Note(Cancelled(K)[w].attempt) = Note(workers[w].attempt)
         /\ NextNumber(Cancelled(K)[w]) = NextNumber(workers[w])
  BY CancelledKeeps DEF Holding, NextNumber

\* The handler records the first attempt of a note it keeps for the retry, or
\* gives up.
LEMMA HandlerRecordOrder ==
  ASSUME TypeInv, OrderInv, NEW ok \in BOOLEAN, HandlerRecord(ok)
  PROVE  OrderInv'
<1>u. UNCHANGED <<sent, pending>> /\ handler.pc = "record"
  BY DEF HandlerRecord
<1>t. PICK t \in Attempt : t = handler.attempt
  BY <1>u DEF TypeInv, TypeOK
<1>a. PICK again \in BOOLEAN : again <=> handler.outcome = "retry"
  OBVIOUS
<1>h. handler \in HandlerType /\ Note(t) \in Notes /\ handler.kind # "recover"
      /\ t.number = 1
  BY <1>u, <1>t, NoteTyped DEF TypeInv, TypeOK, Ranges, OrderInv
<1>p. pending = {} /\ InHand(Note(t)) /\ OneHolder(Note(t)) /\ Ready(log, Note(t), t.number)
  BY <1>u, <1>t, <1>h DEF OrderInv, InHand
<1>1. /\ InOrder(log)' /\ InOrder(logFile)'
      /\ \A n, k : n # Note(t) /\ Ready(log, n, k) => Ready(log, n, k)'
      /\ again => Ready(log, Note(t), t.number + 1)'
  <2>1. RecordDeliveryAttempt(t, handler.outcome, again, ok)
    BY <1>t, <1>a DEF HandlerRecord
  <2> QED
    BY <1>u, <1>p, <2>1, RecordOrder
<1>2. \A w \in Worker : /\ Holding(workers'[w]) <=> Holding(workers[w])
                        /\ Note(workers'[w].attempt) = Note(workers[w].attempt)
                        /\ NextNumber(workers'[w]) = NextNumber(workers[w])
  <2>1. workers' = workers \/ workers' = Cancelled({KeyOf(t)})
    BY <1>t DEF HandlerRecord
  <2> QED
    BY <2>1, CancelledHold DEF TypeInv
<1>3. /\ again => /\ handler'.pc = "register" /\ handler'.kind = handler.kind
                  /\ handler'.todo = handler.todo /\ handler'.delivery = handler.delivery
                  /\ Note(handler'.attempt) = Note(t) /\ handler'.attempt.number = t.number + 1
      /\ ~again => handler'.pc \in {"idle", "deliver", "mark"}
      /\ handler'.pc = "deliver" => /\ handler'.kind = handler.kind
                                    /\ handler'.todo = handler.todo
                                    /\ handler'.delivery = handler.delivery
  <2>1. CASE again
    <3> DEFINE s == [t EXCEPT !.number = 2]
    <3>1. handler' = [handler EXCEPT !.pc = "register", !.attempt = s]
      BY <1>t, <1>a, <2>1 DEF HandlerRecord
    <3>2. s.number = t.number + 1 /\ Note(s) = Note(t)
      BY <1>h DEF Attempt, Note
    <3> HIDE DEF s
    <3>3. /\ handler'.pc = "register" /\ handler'.kind = handler.kind
          /\ handler'.todo = handler.todo /\ handler'.delivery = handler.delivery
          /\ handler'.attempt = s
      BY <1>h, <3>1 DEF HandlerType
    <3> QED
      BY <2>1, <3>2, <3>3
  <2>2. CASE ~again
    <3>1. handler' = Dispatched(handler)
      BY <1>a, <2>2 DEF HandlerRecord
    <3>2. Dispatched(handler).pc \in {"idle", "deliver", "mark"}
      BY <1>u, <1>h, DispatchedTyped
    <3>3. Dispatched(handler).pc = "deliver" => Dispatched(handler) = [handler EXCEPT !.pc = "deliver"]
      BY <1>h, IdleTyped DEF Dispatched, HandlerType
    <3> QED
      BY <1>h, <2>2, <3>1, <3>2, <3>3 DEF HandlerType
  <2> QED
    BY <2>1, <2>2
<1>4. ASSUME NEW n \in Notes
      PROVE  /\ ToDeliver(n)' => ToDeliver(n) /\ n # Note(t)
             /\ InHand(n)' => InHand(n)
             /\ \A w \in Worker : Retried(w, n)' => Retried(w, n) /\ n # Note(t)
  <2>1. ToDeliver(n)' => ToDeliver(n)
    BY <1>u, <1>3 DEF ToDeliver
  <2>2. InHand(n)' => InHand(n)
    BY <1>u, <1>t, <1>3 DEF InHand
  <2>3. \A w \in Worker : Retried(w, n)' => Retried(w, n)
    BY <1>2 DEF Retried
  <2> QED
    BY <1>p, <2>1, <2>2, <2>3 DEF OneHolder
<1>5. \A n \in Notes : OneHolder(n)'
  BY <1>u, <1>4, HoldersStay
<1>6. \A n \in Notes : ToDeliver(n)' => Ready(log, n, 1)'
  BY <1>1, <1>4 DEF OrderInv
<1>7. handler'.pc \in {"record", "register"}
          => Ready(log, Note(handler.attempt), handler.attempt.number)'
  BY <1>1, <1>3 DEF Ready
<1>8. \A w \in Worker : Holding(workers[w])'
          => Ready(log, Note(workers[w].attempt), NextNumber(workers[w]))'
  <2> SUFFICES ASSUME NEW w \in Worker, Holding(workers[w])'
               PROVE  Ready(log, Note(workers[w].attempt), NextNumber(workers[w]))'
    OBVIOUS
  <2>1. Holding(workers[w]) /\ Ready(log, Note(workers[w].attempt), NextNumber(workers[w]))
    BY <1>2 DEF OrderInv
  <2>2. Note(workers[w].attempt) # Note(t)
    <3>1. Note(workers[w].attempt) = Note(t) => Retried(w, Note(t))
      BY <2>1 DEF Retried
    <3> QED
      BY <1>p, <3>1 DEF OneHolder
  <2> QED
    BY <1>1, <1>2, <2>1, <2>2 DEF Ready
<1> QED
  BY <1>u, <1>p, <1>1, <1>3, <1>5, <1>6, <1>7, <1>8 DEF OrderInv

\* The note in the handler's hand goes to a worker that has none.
LEMMA RegisterOrder == TypeInv /\ OrderInv /\ HandlerRegister => OrderInv'
<1> SUFFICES ASSUME TypeInv, OrderInv, HandlerRegister PROVE OrderInv'
  OBVIOUS
<1>u. UNCHANGED <<log, logFile, sent, pending>> /\ handler.pc = "register"
  BY DEF HandlerRegister
<1>t. PICK t \in Attempt : t = handler.attempt
  BY <1>u DEF TypeInv, TypeOK
<1>h. handler \in HandlerType /\ workers \in [Worker -> WorkerType] /\ Note(t) \in Notes
  BY NoteTyped DEF TypeInv, TypeOK
<1>w. PICK w \in Worker :
        /\ workers[w].pc = "free"
        /\ workers' = [workers EXCEPT ![w] =
                          [pc |-> "waiting", attempt |-> handler.attempt, copy |-> NoAlert,
                           outcome |-> "retry", cancelled |-> FALSE]]
  BY DEF HandlerRegister
<1>1. /\ Holding(workers'[w]) /\ workers'[w].attempt = t /\ NextNumber(workers'[w]) = t.number
      /\ ~Holding(workers[w])
      /\ \A v \in Worker : v # w => workers'[v] = workers[v]
  BY <1>t, <1>h, <1>w DEF Holding, NextNumber
<1>2. /\ handler'.pc \in {"idle", "deliver", "mark", "recover"}
      /\ handler'.pc = "recover" <=> handler.kind = "recover"
      /\ handler'.pc \in {"deliver", "recover"} => /\ handler'.kind = handler.kind
                                                  /\ handler'.todo = handler.todo
                                                  /\ handler'.delivery = handler.delivery
  <2>1. CASE handler.kind = "recover"
    BY <1>h, <2>1 DEF HandlerRegister, HandlerType
  <2>2. CASE handler.kind # "recover"
    <3>1. handler' = Dispatched(handler)
      BY <2>2 DEF HandlerRegister
    <3>2. Dispatched(handler).pc \in {"idle", "deliver", "mark"}
      BY <1>u, <2>2, DispatchedTyped
    <3>3. Dispatched(handler).pc = "deliver" => Dispatched(handler) = [handler EXCEPT !.pc = "deliver"]
      BY <1>h, IdleTyped DEF Dispatched, HandlerType
    <3> QED
      BY <1>h, <2>2, <3>1, <3>2, <3>3 DEF HandlerType
  <2> QED
    BY <2>1, <2>2
<1>p. pending # {} => handler.kind = "recover"
  BY DEF OrderInv
<1>3. InHand(Note(t)) /\ OneHolder(Note(t)) /\ Ready(log, Note(t), t.number)
  BY <1>u, <1>t, <1>h DEF OrderInv, InHand
<1>4. ASSUME NEW n \in Notes
      PROVE  OneHolder(n)' /\ (ToDeliver(n)' => ToDeliver(n))
  <2>1. OneHolder(n)
    BY DEF OrderInv
  <2>2. ToDeliver(n)' => ToDeliver(n)
    BY <1>u, <1>2 DEF ToDeliver
  <2>3. ~InHand(n)' /\ (ToRecover(n)' <=> ToRecover(n))
    BY <1>u, <1>2 DEF InHand, ToRecover
  <2>4. /\ \A v \in Worker : v # w => (Retried(v, n)' <=> Retried(v, n))
        /\ Retried(w, n)' => InHand(n)
    BY <1>u, <1>t, <1>1 DEF Retried, InHand
  <2> QED
    BY <1>u, <2>1, <2>2, <2>3, <2>4 DEF OneHolder
<1>5. InOrder(log)' /\ InOrder(logFile)' /\ \A n, k : Ready(log, n, k) => Ready(log, n, k)'
  BY <1>u, PlacesStay
<1>6. \A n \in Notes : ToDeliver(n)' => Ready(log, n, 1)'
  BY <1>4, <1>5 DEF OrderInv
<1>7. \A e \in pending' : Ready(log, Note(e.attempt), e.attempt.number + 1)'
  BY <1>u, <1>5 DEF OrderInv
<1>8. \A v \in Worker : Holding(workers[v])'
          => Ready(log, Note(workers[v].attempt), NextNumber(workers[v]))'
  <2> SUFFICES ASSUME NEW v \in Worker, Holding(workers[v])'
               PROVE  Ready(log, Note(workers[v].attempt), NextNumber(workers[v]))'
    OBVIOUS
  <2>1. CASE v = w
    BY <1>u, <1>1, <1>3, <2>1 DEF Ready
  <2>2. CASE v # w
    BY <1>u, <1>1, <2>2 DEF OrderInv, Ready, Holding, NextNumber, Note
  <2> QED
    BY <2>1, <2>2
<1> QED
  BY <1>u, <1>p, <1>2, <1>4, <1>5, <1>6, <1>7, <1>8 DEF OrderInv

\* Startup takes a pending retry in hand, or drops it.
LEMMA RecoverOrder == TypeInv /\ OrderInv /\ RecoverOne => OrderInv'
<1> SUFFICES ASSUME TypeInv, OrderInv, RecoverOne PROVE OrderInv'
  OBVIOUS
<1>u. UNCHANGED <<log, logFile, sent>> /\ handler.pc = "recover"
  BY DEF RecoverOne
<1>h. handler \in HandlerType /\ handler.kind = "recover"
  BY <1>u DEF TypeInv, TypeOK, Ranges
<1>p. PICK e \in pending :
        LET t == e.attempt
            due == StillDue(t.event, alerts[t.alert]) IN
        /\ pending' = pending \ {e}
        /\ workers' = IF due THEN Cancelled({KeyOf(t)}) ELSE workers
        /\ active' = IF due THEN Forgotten({KeyOf(t)}) ELSE active
        /\ handler' = IF due
                      THEN [handler EXCEPT !.pc = "register", !.attempt = NextAttempt(t)]
                      ELSE handler
  BY DEF RecoverOne
<1>e. e.attempt \in Attempt /\ Note(e.attempt) \in Notes
  BY NoteTyped DEF TypeInv, TypeOK, Entry
<1>1. \A w \in Worker : /\ Holding(workers'[w]) <=> Holding(workers[w])
                        /\ Note(workers'[w].attempt) = Note(workers[w].attempt)
                        /\ NextNumber(workers'[w]) = NextNumber(workers[w])
  <2>1. workers' = workers \/ workers' = Cancelled({KeyOf(e.attempt)})
    BY <1>p
  <2> QED
    BY <2>1, CancelledHold DEF TypeInv
<1>2. CASE handler' = handler
  BY <1>u, <1>p, <1>1, <1>2, QuietStep
<1>3. CASE handler' = [handler EXCEPT !.pc = "register", !.attempt = NextAttempt(e.attempt)]
  <2> DEFINE s == NextAttempt(e.attempt)
  <2>1. s.number = e.attempt.number + 1 /\ Note(s) = Note(e.attempt)
    BY <1>e DEF NextAttempt, Attempt, Note
  <2>s. handler' = [handler EXCEPT !.pc = "register", !.attempt = s]
    BY <1>3
  <2> HIDE DEF s
  <2>2. handler'.pc = "register" /\ handler'.kind = "recover" /\ handler'.attempt = s
    BY <1>h, <2>s DEF HandlerType
  <2>3. ASSUME NEW n \in Notes PROVE OneHolder(n)' /\ ~ToDeliver(n)'
    <3>1. OneHolder(n)
      BY DEF OrderInv
    <3>2. ~ToDeliver(n)' /\ (InHand(n)' <=> n = Note(e.attempt))
      BY <2>1, <2>2 DEF ToDeliver, InHand
    <3>3. /\ ToRecover(n)' => ToRecover(n)
          /\ n = Note(e.attempt) => ToRecover(n) /\ ~ToRecover(n)'
      BY <1>p, <3>1 DEF ToRecover, OneHolder
    <3>4. \A w \in Worker : Retried(w, n)' <=> Retried(w, n)
      BY <1>1 DEF Retried
    <3>5. \A f, g \in pending' : n = Note(f.attempt) /\ n = Note(g.attempt) => f = g
      BY <1>p, <3>1 DEF OneHolder
    <3> QED
      BY <3>1, <3>2, <3>3, <3>4, <3>5 DEF OneHolder
  <2>4. InOrder(log)' /\ InOrder(logFile)' /\ \A n, k : Ready(log, n, k) => Ready(log, n, k)'
    BY <1>u, PlacesStay
  <2>5. Ready(log, Note(handler.attempt), handler.attempt.number)'
    <3>1. Ready(log, Note(e.attempt), e.attempt.number + 1)
      BY DEF OrderInv
    <3> QED
      BY <1>u, <2>1, <2>2, <3>1 DEF Ready
  <2>6. \A f \in pending' : Ready(log, Note(f.attempt), f.attempt.number + 1)'
    BY <1>p, <2>4 DEF OrderInv
  <2>7. \A w \in Worker : Holding(workers[w])'
            => Ready(log, Note(workers[w].attempt), NextNumber(workers[w]))'
    <3> SUFFICES ASSUME NEW w \in Worker, Holding(workers[w])'
                 PROVE  Ready(log, Note(workers[w].attempt), NextNumber(workers[w]))'
      OBVIOUS
    <3>1. Ready(log, Note(workers[w].attempt), NextNumber(workers[w]))
      BY <1>1 DEF OrderInv
    <3> QED
      BY <1>u, <1>1, <3>1 DEF Ready
  <2> QED
    BY <2>2, <2>3, <2>4, <2>5, <2>6, <2>7 DEF OrderInv
<1> QED
  BY <1>p, <1>2, <1>3

\* A retry chain records its attempt, and keeps its note only for another one.
LEMMA RetryRecordOrder ==
  ASSUME TypeInv, OrderInv, NEW w \in Worker, NEW ok \in BOOLEAN, RetryRecord(w, ok)
  PROVE  OrderInv'
<1>u. UNCHANGED <<sent, pending, handler>> /\ workers[w].pc = "record"
  BY DEF RetryRecord
<1>t. PICK t \in Attempt : t = workers[w].attempt
  BY <1>u DEF TypeInv, TypeOK
<1>h. handler \in HandlerType /\ workers \in [Worker -> WorkerType] /\ Note(t) \in Notes
  BY NoteTyped DEF TypeInv, TypeOK
<1>a. PICK again \in BOOLEAN : again <=> TryAgain(t, workers[w].outcome)
  BY DEF TryAgain
<1>p. Retried(w, Note(t)) /\ OneHolder(Note(t)) /\ Ready(log, Note(t), t.number)
  <2>1. Holding(workers[w]) /\ NextNumber(workers[w]) = t.number
    BY <1>u, <1>t DEF Holding, NextNumber
  <2> QED
    BY <1>t, <1>h, <2>1 DEF OrderInv, Retried
<1>1. /\ InOrder(log)' /\ InOrder(logFile)'
      /\ \A n, k : n # Note(t) /\ Ready(log, n, k) => Ready(log, n, k)'
      /\ again => Ready(log, Note(t), t.number + 1)'
  <2>1. RecordDeliveryAttempt(t, workers[w].outcome, again, ok)
    BY <1>t, <1>a DEF RetryRecord, TryAgain
  <2> QED
    BY <1>u, <1>p, <2>1, RecordOrder
<1>2. /\ \A v \in Worker \ {w} : /\ Holding(workers'[v]) <=> Holding(workers[v])
                                 /\ Note(workers'[v].attempt) = Note(workers[v].attempt)
                                 /\ NextNumber(workers'[v]) = NextNumber(workers[v])
      /\ Note(workers'[w].attempt) = Note(t)
      /\ Holding(workers'[w]) => again /\ NextNumber(workers'[w]) = t.number + 1
  <2> DEFINE pc == CASE again -> "register"
                     [] workers[w].outcome = "delivered" /\ t.event = "firing" -> "mark"
                     [] OTHER -> "end"
             x == [pc |-> pc, attempt |-> t, copy |-> workers[w].copy,
                   outcome |-> workers[w].outcome, cancelled |-> workers[w].cancelled]
             K == {KeyOf(t)}
  <2>1. workers' = [workers EXCEPT ![w] = x] \/ workers' = [Cancelled(K) EXCEPT ![w] = x]
    BY <1>t, <1>a DEF RetryRecord
  <2>2. x.pc = pc /\ x.attempt = t
    OBVIOUS
  <2>3. pc \in {"register", "mark", "end"} /\ (pc = "register" => again)
    OBVIOUS
  <2> HIDE DEF x, pc, K
  <2>4. Cancelled(K) \in [Worker -> WorkerType]
    BY CancelledKeeps DEF TypeInv
  <2>5. workers'[w] = x /\ \A v \in Worker \ {w} : workers'[v] \in {workers[v], Cancelled(K)[v]}
    BY <1>h, <2>1, <2>4
  <2>6. \A v \in Worker \ {w} : /\ Holding(workers'[v]) <=> Holding(workers[v])
                                /\ Note(workers'[v].attempt) = Note(workers[v].attempt)
                                /\ NextNumber(workers'[v]) = NextNumber(workers[v])
    BY <2>5, CancelledHold DEF TypeInv
  <2>7. Holding(x) => again /\ NextNumber(x) = t.number + 1
    BY <2>2, <2>3 DEF Holding, NextNumber
  <2> QED
    BY <2>2, <2>5, <2>6, <2>7
<1>3. ASSUME NEW n \in Notes
      PROVE  /\ ToDeliver(n)' => ToDeliver(n) /\ n # Note(t)
             /\ InHand(n)' => InHand(n) /\ n # Note(t)
             /\ \A v \in Worker : Retried(v, n)' => Retried(v, n) /\ (v # w => n # Note(t))
             /\ ToRecover(n)' => n # Note(t)
  <2>1. (ToDeliver(n)' => ToDeliver(n)) /\ (InHand(n)' => InHand(n)) /\ (ToRecover(n)' => ToRecover(n))
    BY <1>u DEF ToDeliver, InHand, ToRecover
  <2>2. \A v \in Worker : Retried(v, n)' => Retried(v, n)
    BY <1>u, <1>t, <1>2 DEF Retried, Holding
  <2> QED
    BY <1>p, <2>1, <2>2 DEF OneHolder
<1>4. \A n \in Notes : OneHolder(n)'
  BY <1>u, <1>3, HoldersStay
<1>5. \A n \in Notes : ToDeliver(n)' => Ready(log, n, 1)'
  BY <1>1, <1>3 DEF OrderInv
<1>6. handler'.pc \in {"record", "register"}
          => Ready(log, Note(handler.attempt), handler.attempt.number)'
  <2> SUFFICES ASSUME handler.pc \in {"record", "register"}
               PROVE  Ready(log, Note(handler.attempt), handler.attempt.number)'
    BY <1>u
  <2>1. Note(handler.attempt) \in Notes /\ Ready(log, Note(handler.attempt), handler.attempt.number)
    BY NoteTyped DEF TypeInv, TypeOK, OrderInv
  <2>2. Note(handler.attempt) # Note(t)
    BY <1>p, <2>1 DEF OneHolder, InHand
  <2> QED
    BY <1>u, <1>1, <2>1, <2>2 DEF Ready
<1>7. \A e \in pending' : Ready(log, Note(e.attempt), e.attempt.number + 1)'
  <2> SUFFICES ASSUME NEW e \in pending PROVE Ready(log, Note(e.attempt), e.attempt.number + 1)'
    BY <1>u
  <2>1. Note(e.attempt) # Note(t)
    BY <1>p DEF OneHolder, ToRecover
  <2> QED
    BY <1>1, <2>1 DEF OrderInv
<1>8. \A v \in Worker : Holding(workers[v])'
          => Ready(log, Note(workers[v].attempt), NextNumber(workers[v]))'
  <2> SUFFICES ASSUME NEW v \in Worker, Holding(workers[v])'
               PROVE  Ready(log, Note(workers[v].attempt), NextNumber(workers[v]))'
    OBVIOUS
  <2>1. CASE v = w
    BY <1>1, <1>2, <2>1 DEF Ready
  <2>2. CASE v # w
    <3>1. Holding(workers[v]) /\ Ready(log, Note(workers[v].attempt), NextNumber(workers[v]))
      BY <1>2, <2>2 DEF OrderInv
    <3>2. Note(workers[v].attempt) # Note(t)
      <4>1. Note(workers[v].attempt) = Note(t) => Retried(v, Note(t))
        BY <3>1 DEF Retried
      <4> QED
        BY <1>p, <2>2, <4>1 DEF OneHolder
    <3> QED
      BY <1>1, <1>2, <2>2, <3>1, <3>2 DEF Ready
  <2> QED
    BY <2>1, <2>2
<1>9. /\ pending' # {} => handler'.pc \in {"recover", "register"} /\ handler'.kind = "recover"
      /\ handler'.pc = "record" => handler'.attempt.number = 1
  BY <1>u DEF OrderInv
<1> QED
  BY <1>1, <1>4, <1>5, <1>6, <1>7, <1>8, <1>9 DEF OrderInv

\* After a restart the file is the log, and only startup holds notes.
LEMMA RestartOrder == TypeInv /\ OrderInv /\ Restart => OrderInv'
<1> SUFFICES ASSUME TypeInv, OrderInv, Restart PROVE OrderInv'
  OBVIOUS
<1>u. /\ log' = logFile /\ logFile' = logFile /\ sent' = sent
      /\ pending' = ListPendingRetries(logFile)
  BY DEF Restart
<1>h. handler'.pc = "recover" /\ handler'.kind = "recover"
  BY IdleTyped DEF Restart, HandlerType
<1>w. \A w \in Worker : ~Holding(workers'[w])
  BY FreeTyped DEF Restart, Holding
<1>l. logFile \in SUBSET Entry /\ InOrder(logFile)
  BY DEF TypeInv, TypeOK, OrderInv
<1>1. /\ \A e \in pending' : Ready(logFile, Note(e.attempt), e.attempt.number + 1)
      /\ \A e, f \in pending' : Note(e.attempt) = Note(f.attempt) => e = f
  BY <1>u, <1>l, PendingReady
<1>2. \A n \in Notes : OneHolder(n)' /\ ~ToDeliver(n)'
  BY <1>h, <1>w, <1>1 DEF OneHolder, ToDeliver, InHand, Retried
<1>3. InOrder(log)' /\ InOrder(logFile)'
  BY <1>u, <1>l DEF InOrder
<1>4. \A e \in pending' : Ready(log, Note(e.attempt), e.attempt.number + 1)'
  BY <1>u, <1>1 DEF Ready
<1> QED
  BY <1>h, <1>w, <1>2, <1>3, <1>4 DEF OrderInv, Holding

\* The steps of a retry chain between its records.
LEMMA WorkerOrder ==
  ASSUME TypeInv, OrderInv, NEW w \in Worker, WorkerStep(w)
  PROVE  OrderInv'
<1>h. workers \in [Worker -> WorkerType]
  BY DEF TypeInv, TypeOK
<1>f. ~Holding(FreeWorker)
  BY FreeTyped DEF Holding
<1>q. ASSUME UNCHANGED <<log, logFile, sent, pending, handler>>,
             \A v \in Worker : Holding(workers'[v]) =>
                /\ Holding(workers[v])
                /\ Note(workers'[v].attempt) = Note(workers[v].attempt)
                /\ NextNumber(workers'[v]) = NextNumber(workers[v])
      PROVE  OrderInv'
  BY <1>q, QuietStep
<1>x. ASSUME NEW x, workers' = [workers EXCEPT ![w] = x],
             Holding(x) => /\ Holding(workers[w])
                           /\ Note(x.attempt) = Note(workers[w].attempt)
                           /\ NextNumber(x) = NextNumber(workers[w]),
             UNCHANGED <<log, logFile, sent, pending, handler>>
      PROVE  OrderInv'
  <2>1. workers'[w] = x /\ \A v \in Worker : v # w => workers'[v] = workers[v]
    BY <1>h, <1>x
  <2> QED
    BY <1>x, <1>q, <2>1
<1>1. CASE RetryCheck(w)
  <2>1. PICK x : /\ workers' = [workers EXCEPT ![w] = x]
                 /\ x.pc \in {"deliver", "end"} /\ x.attempt = workers[w].attempt
    <3>1. /\ [workers[w] EXCEPT !.pc = "end"].pc = "end"
          /\ [workers[w] EXCEPT !.pc = "end"].attempt = workers[w].attempt
      BY <1>h DEF WorkerType
    <3> DEFINE y == [workers[w] EXCEPT !.pc = "deliver", !.copy = alerts[workers[w].attempt.alert]]
    <3>2. y.pc = "deliver" /\ y.attempt = workers[w].attempt
      BY <1>h DEF WorkerType
    <3>3. \/ workers' = [workers EXCEPT ![w] = y]
          \/ workers' = [workers EXCEPT ![w] = [workers[w] EXCEPT !.pc = "end"]]
      BY <1>1 DEF RetryCheck
    <3> HIDE DEF y
    <3> QED
      BY <3>1, <3>2, <3>3
  <2>2. workers[w].pc = "waiting" /\ UNCHANGED <<log, logFile, sent, pending, handler>>
    BY <1>1 DEF RetryCheck
  <2> QED
    BY <1>x, <2>1, <2>2 DEF Holding, NextNumber
<1>2. CASE RetryCancelled(w)
  BY <1>2, <1>f, <1>x DEF RetryCancelled
<1>3. CASE RetryDeliver(w)
  <2>1. PICK o \in Outcome :
          workers' = [workers EXCEPT ![w] = [workers[w] EXCEPT !.pc = "record", !.outcome = o]]
    BY <1>3 DEF RetryDeliver
  <2> DEFINE x == [workers[w] EXCEPT !.pc = "record", !.outcome = o]
  <2>2. x.pc = "record" /\ x.attempt = workers[w].attempt
    BY <1>h DEF WorkerType
  <2>3. workers[w].pc = "deliver" /\ UNCHANGED <<log, logFile, sent, pending, handler>>
    BY <1>3 DEF RetryDeliver
  <2>4. workers' = [workers EXCEPT ![w] = x]
    BY <2>1
  <2> HIDE DEF x
  <2> QED
    BY <1>x, <2>2, <2>3, <2>4 DEF Holding, NextNumber
<1>4. CASE \E ok \in BOOLEAN : RetryRecord(w, ok)
  BY <1>4, RetryRecordOrder
<1>5. CASE \E ok \in BOOLEAN : RetryMark(w, ok)
  <2> DEFINE x == [workers[w] EXCEPT !.pc = "end"]
  <2>1. x.pc = "end"
    BY <1>h DEF WorkerType
  <2>2. workers' = [workers EXCEPT ![w] = x] /\ UNCHANGED <<log, logFile, sent, pending, handler>>
    BY <1>5 DEF RetryMark
  <2> HIDE DEF x
  <2> QED
    BY <1>x, <2>1, <2>2 DEF Holding
<1>6. CASE RetryRegister(w)
  <2> DEFINE t == workers[w].attempt
             x == [pc |-> "waiting", attempt |-> NextAttempt(t), copy |-> NoAlert,
                   outcome |-> "retry", cancelled |-> FALSE]
  <2>0. t \in Attempt
    BY <1>6 DEF RetryRegister, TypeInv, TypeOK
  <2>1. x.pc = "waiting" /\ Note(x.attempt) = Note(t) /\ x.attempt.number = t.number + 1
    BY <2>0 DEF NextAttempt, Attempt, Note
  <2>2. /\ workers' = [workers EXCEPT ![w] = x] /\ workers[w].pc = "register"
        /\ UNCHANGED <<log, logFile, sent, pending, handler>>
    BY <1>6 DEF RetryRegister
  <2> HIDE DEF x
  <2> QED
    BY <1>x, <2>1, <2>2 DEF Holding, NextNumber
<1>7. CASE RetryEnd(w)
  <2> DEFINE K == {KeyOf(workers[w].attempt)}
  <2>1. workers' = [Cancelled(K) EXCEPT ![w] = FreeWorker]
        /\ UNCHANGED <<log, logFile, sent, pending, handler>>
    BY <1>7 DEF RetryEnd
  <2> HIDE DEF K
  <2>2. Cancelled(K) \in [Worker -> WorkerType]
    BY CancelledKeeps DEF TypeInv
  <2>3. workers'[w] = FreeWorker /\ \A v \in Worker : v # w => workers'[v] = Cancelled(K)[v]
    BY <2>1, <2>2
  <2> QED
    BY <1>f, <1>q, <2>1, <2>3, CancelledHold DEF TypeInv
<1> QED
  BY <1>1, <1>2, <1>3, <1>4, <1>5, <1>6, <1>7 DEF WorkerStep

\* The steps of the handler before and after its attempts.
LEMMA HandlerOrder == TypeInv /\ OrderInv /\ HandlerStep => OrderInv'
<1> SUFFICES ASSUME TypeInv, OrderInv, HandlerStep PROVE OrderInv'
  OBVIOUS
<1>h. handler \in HandlerType
  BY DEF TypeInv, TypeOK
<1>q. ASSUME UNCHANGED <<log, logFile, sent, pending>>, pending = {},
             handler'.pc \in {"idle", "cancel", "save"},
             \A w \in Worker : /\ Holding(workers'[w]) <=> Holding(workers[w])
                               /\ Note(workers'[w].attempt) = Note(workers[w].attempt)
                               /\ NextNumber(workers'[w]) = NextNumber(workers[w])
      PROVE  OrderInv'
  BY <1>q, QuietStep
<1>p. handler.pc \in {"find", "cancel", "mark"} => pending = {}
  BY DEF OrderInv
<1>1. CASE HandleOpened
  <2>1. handler'.pc = "save"
    BY <1>h, <1>1 DEF HandleOpened, HandlerType
  <2> QED
    BY <1>1, <1>p, <1>q, <2>1 DEF HandleOpened
<1>2. CASE HandleResolved
  <2>1. handler'.pc \in {"idle", "cancel"}
    <3>1. ASSUME NEW a \in FindActive,
                 handler' = [handler EXCEPT !.pc = "cancel", !.alert = a, !.event = "resolved",
                              !.copy = [state |-> "resolved", notified |-> alerts[a].notified]]
          PROVE  handler'.pc = "cancel"
      BY <1>h, <3>1 DEF HandlerType
    <3> QED
      BY <1>2, <3>1, IdleTyped DEF HandleResolved
  <2> QED
    BY <1>2, <1>p, <1>q, <2>1 DEF HandleResolved
<1>3. CASE CancelFiringRetriesForAlert
  <2>1. handler'.pc = "save"
    BY <1>h, <1>3 DEF CancelFiringRetriesForAlert, HandlerType
  <2>2. \A w \in Worker : /\ Holding(workers'[w]) <=> Holding(workers[w])
                          /\ Note(workers'[w].attempt) = Note(workers[w].attempt)
                          /\ NextNumber(workers'[w]) = NextNumber(workers[w])
    BY <1>3, CancelledHold DEF CancelFiringRetriesForAlert, TypeInv
  <2> QED
    BY <1>3, <1>p, <1>q, <2>1, <2>2 DEF CancelFiringRetriesForAlert
<1>4. CASE \E ok \in BOOLEAN : HandlerMark(ok)
  BY <1>4, <1>p, <1>q, IdleTyped DEF HandlerMark
<1>5. CASE RecoverDone
  BY <1>5, <1>q, IdleTyped DEF RecoverDone
<1> QED
  BY <1>1, <1>2, <1>3, <1>4, <1>5, NotifyOrder, DeliverOrder, HandlerRecordOrder,
     RegisterOrder, RecoverOrder DEF HandlerStep

\* Every step.
LEMMA NextOrder == TypeInv /\ OrderInv /\ [Next]_vars => OrderInv'
<1> SUFFICES ASSUME TypeInv, OrderInv, [Next]_vars PROVE OrderInv'
  OBVIOUS
<1>h. handler \in HandlerType
  BY DEF TypeInv, TypeOK
<1>1. CASE UNCHANGED vars
  BY <1>1, QuietStep DEF vars
<1>2. CASE \E saved \in BOOLEAN : EvaluateUnchanged(saved)
  BY <1>2, QuietStep DEF EvaluateUnchanged
<1>3. ASSUME NEW s \in Reason, NEW saved \in BOOLEAN, NEW appended \in BOOLEAN,
             EvaluateDevice(s, saved, appended)
      PROVE  OrderInv'
  <2>1. handler' = handler \/ handler'.pc = "find"
    BY <1>3, IdleTyped DEF EvaluateDevice, HandlerType
  <2>2. pending = {} /\ UNCHANGED <<log, logFile, sent, pending, workers>>
    BY <1>3 DEF EvaluateDevice, OrderInv
  <2> QED
    BY <2>1, <2>2, QuietStep
<1> QED
  BY <1>1, <1>2, <1>3, HandlerOrder, WorkerOrder, RestartOrder DEF Next

\* At the start nothing is recorded and nobody holds a note.
LEMMA InitOrder == Init => OrderInv
<1> SUFFICES ASSUME Init PROVE OrderInv
  OBVIOUS
<1>1. log = {} /\ logFile = {} /\ pending = {} /\ handler.pc = "idle"
  BY IdleTyped DEF Init
<1>2. \A w \in Worker : ~Holding(workers[w])
  BY FreeTyped DEF Init, Holding
<1> QED
  BY <1>1, <1>2 DEF OrderInv, InOrder, OneHolder, ToDeliver, InHand, ToRecover, Retried

\* A set of positive numbers that holds whatever is below one of them is an
\* interval.
LEMMA DownwardClosed ==
  ASSUME NEW N \in Nat, NEW S \in SUBSET (1 .. N), \A i \in S : 1 .. i \subseteq S
  PROVE  \E m \in Nat : S = 1 .. m
<1> DEFINE out == {i \in Nat : i # 0 /\ i \notin S}
<1>1. out \subseteq Nat /\ N + 1 \in out
  OBVIOUS
<1>2. PICK i \in out : \A j \in out : ~(<<j, i>> \in OpToRel(<, Nat))
  BY <1>1, NatLessThanWellFounded, WFMin, Zenon
<1>3. \A j \in out : ~(j < i)
  <2> SUFFICES ASSUME NEW j \in out, j < i PROVE FALSE
    OBVIOUS
  <2>1. <<j, i>> \notin {ss \in Nat \X Nat : ss[1] < ss[2]}
    BY <1>2, Zenon DEF OpToRel
  <2> QED
    BY <2>1
<1>4. i \in Nat /\ i # 0 /\ i \notin S
  BY <1>2
<1>5. ASSUME NEW k \in S PROVE k \in 1 .. (i - 1)
  <2>1. k \in Nat /\ k # 0 /\ i \notin 1 .. k
    BY <1>4
  <2> QED
    BY <1>4, <2>1
<1>6. ASSUME NEW k \in 1 .. (i - 1) PROVE k \in S
  <2>1. k \in Nat /\ k # 0 /\ k < i
    BY <1>4
  <2> QED
    BY <1>3, <2>1
<1>7. i - 1 \in Nat
  BY <1>4
<1>8. S \subseteq 1 .. (i - 1) /\ 1 .. (i - 1) \subseteq S
  BY <1>5, <1>6
<1>9. S = 1 .. (i - 1)
  BY <1>8, Zenon
<1> QED
  BY <1>7, <1>9

\* The records of one note are as many as their numbers, and those an interval.
LEMMA OrderCounts ==
  ASSUME NEW l \in SUBSET Entry, InOrder(l), NEW e \in l
  PROVE  LET same == {f \in l : Note(f.attempt) = Note(e.attempt)} IN
         /\ {f.attempt.number : f \in same} = 1 .. Cardinality(same)
         /\ ~e.next => e.attempt.number = Cardinality(same)
<1> DEFINE same == {f \in l : Note(f.attempt) = Note(e.attempt)}
           numbers == {f.attempt.number : f \in same}
<1>t. MaxAttempt \in Nat /\ \A f \in l : f.attempt.number \in 1 .. MaxAttempt
  BY AlertAssumption DEF Entry, Attempt
<1>1. numbers \in SUBSET (1 .. MaxAttempt)
  BY <1>t
<1>2. ASSUME NEW i \in numbers, NEW k \in 1 .. i PROVE k \in numbers
  <2>1. PICK f \in same : i = f.attempt.number
    OBVIOUS
  <2>2. PICK g \in l : Note(g.attempt) = Note(f.attempt) /\ g.attempt.number = k
    BY <1>2, <2>1 DEF InOrder
  <2> QED
    BY <2>1, <2>2
<1>3. PICK m \in Nat : numbers = 1 .. m
  <2> HIDE DEF numbers
  <2> QED
    BY <1>t, <1>1, <1>2, DownwardClosed
<1>4. \A f, g \in same : f.attempt.number = g.attempt.number => f = g
  BY DEF InOrder
<1>5. ExistsBijection(1 .. m, same)
  <2> DEFINE nth == [k \in 1 .. m |-> CHOOSE f \in same : f.attempt.number = k]
  <2>1. ASSUME NEW k \in 1 .. m PROVE nth[k] \in same /\ nth[k].attempt.number = k
    <3>1. \E f \in same : f.attempt.number = k
      BY <1>3
    <3> HIDE DEF same
    <3> QED
      BY <3>1
  <2>2. ASSUME NEW f \in same PROVE f.attempt.number \in 1 .. m
    BY <1>3
  <2>3. nth \in [1 .. m -> same]
    <3>1. DOMAIN nth = 1 .. m /\ nth = [k \in 1 .. m |-> nth[k]]
      OBVIOUS
    <3> HIDE DEF nth, same
    <3> QED
      BY <2>1, <3>1
  <2> HIDE DEF nth, same, numbers
  <2>4. \A j, k \in 1 .. m : nth[j] = nth[k] => j = k
    BY <2>1
  <2>5. \A f \in same : \E k \in 1 .. m : nth[k] = f
    BY <1>4, <2>1, <2>2
  <2>6. nth \in Bijection(1 .. m, same)
    BY <2>3, <2>4, <2>5 DEF Bijection, Injection, Surjection, IsInjective
  <2> QED
    BY <2>6 DEF ExistsBijection
<1>6. Cardinality(same) = m
  <2> HIDE DEF same
  <2> QED
    BY <1>5, FS_CountingElements
<1>7. ~e.next => e.attempt.number = m
  <2> SUFFICES ASSUME ~e.next PROVE e.attempt.number = m
    OBVIOUS
  <2>1. e \in same /\ e.attempt.number \in 1 .. m
    BY <1>3
  <2>2. m \in numbers
    BY <1>3, <2>1
  <2>3. PICK f \in same : f.attempt.number = m
    BY <2>2
  <2>4. m <= e.attempt.number
    BY <2>3 DEF InOrder
  <2> QED
    BY <2>1, <2>4
<1> QED
  BY <1>3, <1>6, <1>7

\* Across retries, cancellations and restarts, no two retry chains ever work on
\* the same notification: its attempts are numbered in order, one record each.
THEOREM AttemptsStayInOrder == Spec => []AttemptsInOrder
<1>1. Spec => [](TypeInv /\ OrderInv)
  BY InitTypes, NextTypes, InitOrder, NextOrder, PTL DEF Spec
<1>2. TypeInv /\ OrderInv => AttemptsInOrder
  <2> SUFFICES ASSUME TypeInv, OrderInv, NEW e \in log
               PROVE  LET same == {f \in log : /\ f.attempt.delivery = e.attempt.delivery
                                               /\ f.attempt.channel = e.attempt.channel} IN
                      /\ {f.attempt.number : f \in same} = 1 .. Cardinality(same)
                      /\ ~e.next => e.attempt.number = Cardinality(same)
    BY DEF AttemptsInOrder
  <2> DEFINE same == {f \in log : /\ f.attempt.delivery = e.attempt.delivery
                                  /\ f.attempt.channel = e.attempt.channel}
             alike == {f \in log : Note(f.attempt) = Note(e.attempt)}
  <2>1. same = alike
    BY DEF Note
  <2>2. log \in SUBSET Entry /\ InOrder(log)
    BY DEF TypeInv, TypeOK, OrderInv
  <2>3. /\ {f.attempt.number : f \in alike} = 1 .. Cardinality(alike)
        /\ ~e.next => e.attempt.number = Cardinality(alike)
    BY <2>2, OrderCounts
  <2> HIDE DEF same, alike
  <2>4. /\ {f.attempt.number : f \in same} = 1 .. Cardinality(same)
        /\ ~e.next => e.attempt.number = Cardinality(same)
    BY <2>1, <2>3
  <2> QED
    BY <2>4 DEF same
<1> QED
  BY <1>1, <1>2, PTL
==============================================================================

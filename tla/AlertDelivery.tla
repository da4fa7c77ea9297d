--------------------------- MODULE AlertDelivery ---------------------------
(***************************************************************************)
(* Alerts of one device and one reason code (one fingerprint), from the    *)
(* health evaluation that opens and resolves them to their notifications.  *)
(*                                                                         *)
(* internal/health/service.go evaluates a device under its mutex, saves    *)
(* the snapshot, appends the events and calls the alerting service, still  *)
(* under that mutex: the handler below is one thread.  A notification that *)
(* fails is retried by a goroutine of its own (a worker); the goroutine    *)
(* that startAsyncRetry starts last thing continues its caller's chain,    *)
(* and both are the same worker here.  activeRetries keeps, per alert and  *)
(* channel, the context by which a retry may be cancelled.                 *)
(*                                                                         *)
(* The repositories change memory first and write their file afterwards;   *)
(* a failed write leaves the file behind until the next one.               *)
(***************************************************************************)
EXTENDS Naturals, FiniteSets

CONSTANTS
    Channel,        \* the notification channels that may be configured
    Worker,         \* bound: retry chains alive at the same time
    NoWorker,       \* no retry is registered
    NoAttempt,      \* a worker that has nothing to deliver
    MaxAttempt,     \* attempts of one notification (6 in the code)
    MaxAlert,       \* bound: alerts opened
    MaxDelivery,    \* bound: notifications sent
    MaxFault,       \* bound: failed file writes
    MaxCrash        \* bound: crashes of the server

ASSUME AlertAssumption ==
    /\ NoWorker \notin Worker
    /\ MaxAttempt \in Nat \ {0, 1} /\ MaxAlert \in Nat /\ MaxDelivery \in Nat
    /\ MaxFault \in Nat /\ MaxCrash \in Nat

VARIABLES
    health,      \* the state of the reason in the snapshot: [mem, disk]
    alerts,      \* the repository's map of alerts
    alertsFile,  \* alerts.json
    log,         \* the repository's delivery attempts
    logFile,     \* deliveries.json
    handler,     \* the thread that holds the device's evaluation mutex
    pending,     \* retries that startup has still to recover
    workers,     \* the retry goroutines
    active,      \* activeRetries: the worker registered per alert and channel
    channels,    \* the registered channels
    received,    \* history: what the receivers have got
    lost,        \* history: a health event was lost, or a crash undid a step
    opened, sent, faults, crashes   \* counters behind IDs and bounds

vars == <<health, alerts, alertsFile, log, logFile, handler, pending, workers,
          active, channels, received, lost, opened, sent, faults, crashes>>

Reason == {"ok", "firing"}
Event == {"firing", "resolved"}
Outcome == {"delivered", "retry", "rejected"}
AlertID == 1 .. MaxAlert
Key == AlertID \X Channel

Alert == [state : {"none", "firing", "resolved"}, notified : BOOLEAN]
NoAlert == [state |-> "none", notified |-> FALSE]

\* One attempt to deliver one notification over one channel.
Attempt == [alert : AlertID, event : Event, delivery : 1 .. MaxDelivery,
            channel : Channel, number : 1 .. MaxAttempt]
KeyOf(t) == <<t.alert, t.channel>>

\* A DeliveryAttempt; next tells whether NextRetryAt is set.
Entry == [attempt : Attempt, delivered : BOOLEAN, next : BOOLEAN]

IdleHandler ==
    [pc |-> "idle", kind |-> "none", alert |-> 0, copy |-> NoAlert, event |-> "firing",
     delivery |-> 0, todo |-> {}, attempt |-> NoAttempt, outcome |-> "retry", any |-> FALSE]

FreeWorker ==
    [pc |-> "free", attempt |-> NoAttempt, copy |-> NoAlert, outcome |-> "retry", cancelled |-> FALSE]

Init ==
    /\ health = [mem |-> "ok", disk |-> "ok"]
    /\ alerts = [a \in AlertID |-> NoAlert] /\ alertsFile = alerts
    /\ log = {} /\ logFile = {}
    /\ handler = IdleHandler /\ pending = {}
    /\ workers = [w \in Worker |-> FreeWorker]
    /\ active = [k \in Key |-> NoWorker]
    /\ channels \in SUBSET Channel
    /\ received = {} /\ lost = FALSE
    /\ opened = 0 /\ sent = 0 /\ faults = 0 /\ crashes = 0

----------------------------------------------------------------------------
(* The repository and the table of retries.                                *)

\* A write to a file succeeds or fails.
Write(ok) == /\ ok \/ faults < MaxFault
             /\ faults' = IF ok THEN faults ELSE faults + 1

SaveAlert(a, alert, ok) ==
    /\ Write(ok)
    /\ alerts' = [alerts EXCEPT ![a] = alert]
    /\ alertsFile' = IF ok THEN alerts' ELSE alertsFile

RecordDeliveryAttempt(t, outcome, next, ok) ==
    /\ Write(ok)
    /\ log' = log \cup {[attempt |-> t, delivered |-> outcome = "delivered", next |-> next]}
    /\ logFile' = IF ok THEN log' ELSE logFile

\* A mutation: older attempts are taken for pending retries as well.
ListPendingRetries_Old(entries) ==
    {e \in entries : ~e.delivered /\ e.next /\ e.attempt.number < MaxAttempt}

\* The newest attempt of every notification and channel, if it waits for another.
ListPendingRetries(entries) ==
    {e \in entries :
        /\ ~e.delivered /\ e.next /\ e.attempt.number < MaxAttempt
        /\ \A f \in entries :
              f.attempt.delivery = e.attempt.delivery /\ f.attempt.channel = e.attempt.channel
              => f.attempt.number <= e.attempt.number}

\* A mutation: alerts that were resolved are found as well.
FindActive_Any == {a \in AlertID : alerts[a].state # "none"}

\* FindActiveAlertByFingerprint; more than one leaves it to the order of the map.
FindActive == {a \in AlertID : alerts[a].state = "firing"}

\* The keys K of activeRetries are cancelled and forgotten.
Cancelled(K) ==
    [w \in Worker |-> IF \E k \in K : active[k] = w
                      THEN [workers[w] EXCEPT !.cancelled = TRUE]
                      ELSE workers[w]]
Forgotten(K) == [k \in Key |-> IF k \in K THEN NoWorker ELSE active[k]]

\* The alert is still in the state that the notification is about.
StillDue(event, alert) == alert.state = event

\* What Channel.Deliver returns, and whether the receiver got the request; a
\* request whose context is cancelled ends in a transport error.
Deliver(a, event, cancelled, outcome) ==
    \E got \in BOOLEAN :
        /\ outcome = "delivered" => got
        /\ outcome = "rejected" => ~got
        /\ cancelled => outcome = "retry"
        /\ received' = IF got THEN received \cup {<<a, event>>} ELSE received

----------------------------------------------------------------------------
(* Evaluation of the device and handling of its events.                    *)

\* generateEvents: a reason that fires opens, one that fires with another severity
\* changes, one that fires no more is resolved; nothing else is an event.
Kind(s) == CASE health.mem = "ok" -> "opened"
             [] s = "ok" -> "resolved"
             [] OTHER -> "changed"

\* EvaluateDevice up to the listener: the snapshot is saved, then the events;
\* whatever fails ends it, with the new snapshot in memory.
EvaluateDevice(s, saved, appended) ==
    /\ handler.pc = "idle" /\ (s = "firing" \/ health.mem = "firing")
    /\ Kind(s) # "resolved" => opened < MaxAlert
    /\ sent < MaxDelivery
    /\ Write(saved /\ appended)
    /\ health' = [mem |-> s, disk |-> IF saved THEN s ELSE health.disk]
    /\ handler' = IF saved /\ appended
                  THEN [IdleHandler EXCEPT !.pc = "find", !.kind = Kind(s)]
                  ELSE handler
    /\ lost' = (lost \/ ~saved \/ ~appended)
    /\ UNCHANGED <<alerts, alertsFile, log, logFile, pending, workers, active, channels,
                   received, opened, sent, crashes>>

\* An evaluation that finds nothing new only saves the snapshot once more.
EvaluateUnchanged(saved) ==
    /\ handler.pc = "idle"
    /\ Write(saved)
    /\ health' = IF saved THEN [health EXCEPT !.disk = health.mem] ELSE health
    /\ UNCHANGED <<alerts, alertsFile, log, logFile, handler, pending, workers, active,
                   channels, received, lost, opened, sent, crashes>>

\* An alert that is firing is updated, or a new one is opened.
HandleOpened ==
    /\ handler.pc = "find" /\ handler.kind \in {"opened", "changed"}
    /\ \/ \E a \in FindActive :
            /\ handler' = [handler EXCEPT !.pc = "save", !.alert = a, !.copy = alerts[a]]
            /\ opened' = opened
       \/ /\ FindActive = {}
          /\ opened' = opened + 1
          /\ handler' = [handler EXCEPT !.pc = "save", !.alert = opened + 1,
                            !.copy = [state |-> "firing", notified |-> FALSE]]
    /\ UNCHANGED <<health, alerts, alertsFile, log, logFile, pending, workers, active,
                   channels, received, lost, sent, faults, crashes>>

HandleResolved ==
    /\ handler.pc = "find" /\ handler.kind = "resolved"
    /\ \/ /\ FindActive = {}
          /\ handler' = IdleHandler
       \/ \E a \in FindActive :
            handler' = [handler EXCEPT !.pc = "cancel", !.alert = a, !.event = "resolved",
                          !.copy = [state |-> "resolved", notified |-> alerts[a].notified]]
    /\ UNCHANGED <<health, alerts, alertsFile, log, logFile, pending, workers, active,
                   channels, received, lost, opened, sent, faults, crashes>>

\* The keys of an alert whose registered retry is about its firing.
FiringKeys(a) ==
    {k \in Key : k[1] = a /\ active[k] # NoWorker
                          /\ workers[active[k]].attempt.event = "firing"}

CancelFiringRetriesForAlert ==
    /\ handler.pc = "cancel"
    /\ workers' = Cancelled(FiringKeys(handler.alert))
    /\ active' = Forgotten(FiringKeys(handler.alert))
    /\ handler' = [handler EXCEPT !.pc = "save"]
    /\ UNCHANGED <<health, alerts, alertsFile, log, logFile, pending, channels,
                   received, lost, opened, sent, faults, crashes>>

\* A mutation: resolutions are always notified.
ShouldNotify_Resolved(kind, copy) == kind = "resolved" \/ ~copy.notified

\* A firing is notified once; a resolution only after a notified firing.
ShouldNotify(kind, copy) == IF kind = "resolved" THEN copy.notified ELSE ~copy.notified

\* The alert is saved before its notification is sent; the silences are read then.
\* Operators create and delete silences at any time, and their windows begin and end.
SaveThenNotify(ok, silenced) ==
    /\ handler.pc = "save"
    /\ SaveAlert(handler.alert, handler.copy, ok)
    /\ IF /\ ok /\ ~silenced /\ channels # {}
          /\ ShouldNotify(handler.kind, handler.copy)
       THEN /\ handler' = [handler EXCEPT !.pc = "deliver", !.delivery = sent + 1,
                                          !.todo = channels]
            /\ sent' = sent + 1
       ELSE handler' = IdleHandler /\ sent' = sent
    /\ UNCHANGED <<health, log, logFile, pending, workers, active, channels,
                   received, lost, opened, crashes>>

\* dispatchNotification: the first attempt over the next channel.
HandlerDeliver ==
    /\ handler.pc = "deliver"
    /\ \E c \in handler.todo, o \in Outcome :
          /\ Deliver(handler.alert, handler.event, FALSE, o)
          /\ handler' = [handler EXCEPT !.pc = "record", !.todo = handler.todo \ {c},
                            !.attempt = [alert |-> handler.alert, event |-> handler.event,
                                         delivery |-> handler.delivery, channel |-> c,
                                         number |-> 1],
                            !.outcome = o, !.any = (handler.any \/ o = "delivered")]
    /\ UNCHANGED <<health, alerts, alertsFile, log, logFile, pending, workers, active,
                   channels, lost, opened, sent, faults, crashes>>

\* A mutation: the firing is marked whether or not a channel took it.
Dispatched_Marked(h) ==
    CASE h.todo # {} -> [h EXCEPT !.pc = "deliver"]
      [] h.todo = {} /\ h.event = "firing" -> [h EXCEPT !.pc = "mark"]
      [] OTHER -> IdleHandler

\* After the last channel a delivered firing is still to be marked.
Dispatched(h) ==
    CASE h.todo # {} -> [h EXCEPT !.pc = "deliver"]
      [] h.todo = {} /\ h.any /\ h.event = "firing" -> [h EXCEPT !.pc = "mark"]
      [] OTHER -> IdleHandler

\* The attempt is recorded; startAsyncRetry begins by cancelling the retry that is
\* registered under the key.
HandlerRecord(ok) ==
    LET t == handler.attempt
        again == handler.outcome = "retry" IN
    /\ handler.pc = "record"
    /\ RecordDeliveryAttempt(t, handler.outcome, again, ok)
    /\ workers' = IF again THEN Cancelled({KeyOf(t)}) ELSE workers
    /\ active' = IF again THEN Forgotten({KeyOf(t)}) ELSE active
    /\ handler' = IF again
                  THEN [handler EXCEPT !.pc = "register",
                                       !.attempt = [t EXCEPT !.number = 2]]
                  ELSE Dispatched(handler)
    /\ UNCHANGED <<health, alerts, alertsFile, pending, channels, received, lost,
                   opened, sent, crashes>>

\* ... and goes on to register the new retry and to start its goroutine.
HandlerRegister ==
    /\ handler.pc = "register"
    /\ \E w \in Worker :
          /\ workers[w].pc = "free"
          /\ workers' = [workers EXCEPT ![w] =
                            [pc |-> "waiting", attempt |-> handler.attempt, copy |-> NoAlert,
                             outcome |-> "retry", cancelled |-> FALSE]]
          /\ active' = [active EXCEPT ![KeyOf(handler.attempt)] = w]
    /\ handler' = IF handler.kind = "recover" THEN [handler EXCEPT !.pc = "recover"]
                                              ELSE Dispatched(handler)
    /\ UNCHANGED <<health, alerts, alertsFile, log, logFile, pending, channels,
                   received, lost, opened, sent, faults, crashes>>

\* The alert, as it was saved, is saved again with FiringNotified; errors are ignored.
HandlerMark(ok) ==
    /\ handler.pc = "mark"
    /\ SaveAlert(handler.alert, [handler.copy EXCEPT !.notified = TRUE], ok)
    /\ handler' = IdleHandler
    /\ UNCHANGED <<health, log, logFile, pending, workers, active, channels,
                   received, lost, opened, sent, crashes>>

----------------------------------------------------------------------------
(* The retry goroutines.                                                   *)

\* A mutation: a retry that is no longer due goes on waiting.
RetryCheck_Waits(w) ==
    LET t == workers[w].attempt IN
    /\ workers[w].pc = "waiting"
    /\ t.channel \in channels /\ StillDue(t.event, alerts[t.alert])
    /\ workers' = [workers EXCEPT ![w] =
          [workers[w] EXCEPT !.pc = "deliver", !.copy = alerts[t.alert]]]
    /\ UNCHANGED <<health, alerts, alertsFile, log, logFile, handler, pending, active,
                   channels, received, lost, opened, sent, faults, crashes>>

\* The timer fires; the channel and the alert are looked up.  select may take the
\* timer although the context is cancelled as well.
RetryCheck(w) ==
    LET t == workers[w].attempt IN
    /\ workers[w].pc = "waiting"
    /\ workers' = [workers EXCEPT ![w] =
          IF t.channel \in channels /\ StillDue(t.event, alerts[t.alert])
          THEN [workers[w] EXCEPT !.pc = "deliver", !.copy = alerts[t.alert]]
          ELSE [workers[w] EXCEPT !.pc = "end"]]
    /\ UNCHANGED <<health, alerts, alertsFile, log, logFile, handler, pending, active,
                   channels, received, lost, opened, sent, faults, crashes>>

\* The context is cancelled during the wait.
RetryCancelled(w) ==
    /\ workers[w].pc = "waiting" /\ workers[w].cancelled
    /\ workers' = [workers EXCEPT ![w] = FreeWorker]
    /\ UNCHANGED <<health, alerts, alertsFile, log, logFile, handler, pending, active,
                   channels, received, lost, opened, sent, faults, crashes>>

RetryDeliver(w) ==
    LET t == workers[w].attempt IN
    /\ workers[w].pc = "deliver"
    /\ \E o \in Outcome :
          /\ Deliver(t.alert, t.event, workers[w].cancelled, o)
          /\ workers' = [workers EXCEPT ![w] =
                            [workers[w] EXCEPT !.pc = "record", !.outcome = o]]
    /\ UNCHANGED <<health, alerts, alertsFile, log, logFile, handler, pending, active,
                   channels, lost, opened, sent, faults, crashes>>

\* Another attempt follows one that may be repeated, up to the limit.
TryAgain(t, outcome) == outcome = "retry" /\ t.number < MaxAttempt

\* The attempt is recorded; if there is to be another, startAsyncRetry cancels the
\* retry that is registered under the key, this worker's or one that replaced it.
RetryRecord(w, ok) ==
    LET t == workers[w].attempt
        o == workers[w].outcome
        again == TryAgain(t, o) IN
    /\ workers[w].pc = "record"
    /\ RecordDeliveryAttempt(t, o, again, ok)
    /\ workers' = [(IF again THEN Cancelled({KeyOf(t)}) ELSE workers) EXCEPT ![w] =
          [pc |-> CASE again -> "register"
                    [] o = "delivered" /\ t.event = "firing" -> "mark"
                    [] OTHER -> "end",
           attempt |-> t, copy |-> workers[w].copy, outcome |-> o,
           cancelled |-> workers[w].cancelled]]
    /\ active' = IF again THEN Forgotten({KeyOf(t)}) ELSE active
    /\ UNCHANGED <<health, alerts, alertsFile, handler, pending, channels,
                   received, lost, opened, sent, crashes>>

NextAttempt(t) == [t EXCEPT !.number = t.number + 1]

RetryRegister(w) ==
    LET t == workers[w].attempt IN
    /\ workers[w].pc = "register"
    /\ workers' = [workers EXCEPT ![w] =
          [pc |-> "waiting", attempt |-> NextAttempt(t),
           copy |-> NoAlert, outcome |-> "retry", cancelled |-> FALSE]]
    /\ active' = [active EXCEPT ![KeyOf(t)] = w]
    /\ UNCHANGED <<health, alerts, alertsFile, log, logFile, handler, pending, channels,
                   received, lost, opened, sent, faults, crashes>>

\* The copy read before the delivery is saved with FiringNotified.
RetryMark(w, ok) ==
    /\ workers[w].pc = "mark"
    /\ SaveAlert(workers[w].attempt.alert, [workers[w].copy EXCEPT !.notified = TRUE], ok)
    /\ workers' = [workers EXCEPT ![w] = [workers[w] EXCEPT !.pc = "end"]]
    /\ UNCHANGED <<health, log, logFile, handler, pending, active, channels,
                   received, lost, opened, sent, crashes>>

\* The goroutine ends by cancelling the retry that is registered under its key.
RetryEnd(w) ==
    LET K == {KeyOf(workers[w].attempt)} IN
    /\ workers[w].pc = "end"
    /\ workers' = [Cancelled(K) EXCEPT ![w] = FreeWorker]
    /\ active' = Forgotten(K)
    /\ UNCHANGED <<health, alerts, alertsFile, log, logFile, handler, pending, channels,
                   received, lost, opened, sent, faults, crashes>>

----------------------------------------------------------------------------
(* Crashes and startup.                                                    *)

\* The server dies and starts again, from the files and with the channels of its
\* configuration; before anything is evaluated the pending retries are recovered.
Restart ==
    /\ crashes < MaxCrash
    /\ crashes' = crashes + 1
    /\ health' = [health EXCEPT !.mem = health.disk]
    /\ alerts' = alertsFile /\ log' = logFile
    /\ channels' \in SUBSET Channel
    /\ handler' = [IdleHandler EXCEPT !.pc = "recover", !.kind = "recover"]
    /\ pending' = ListPendingRetries(logFile)
    /\ workers' = [w \in Worker |-> FreeWorker]
    /\ active' = [k \in Key |-> NoWorker]
    /\ lost' = (lost \/ handler.pc # "idle" \/ alerts # alertsFile \/ health.mem # health.disk)
    /\ UNCHANGED <<alertsFile, logFile, received, opened, sent, faults>>

\* RecoverPendingRetries: the next retry, if its alert is still in the right state.
RecoverOne ==
    /\ handler.pc = "recover"
    /\ \E e \in pending :
          LET t == e.attempt
              due == StillDue(t.event, alerts[t.alert]) IN
          /\ pending' = pending \ {e}
          /\ workers' = IF due THEN Cancelled({KeyOf(t)}) ELSE workers
          /\ active' = IF due THEN Forgotten({KeyOf(t)}) ELSE active
          /\ handler' = IF due
                        THEN [handler EXCEPT !.pc = "register",
                                 !.attempt = NextAttempt(t)]
                        ELSE handler
    /\ UNCHANGED <<health, alerts, alertsFile, log, logFile, channels, received,
                   lost, opened, sent, faults, crashes>>

RecoverDone ==
    /\ handler.pc = "recover" /\ pending = {}
    /\ handler' = IdleHandler
    /\ UNCHANGED <<health, alerts, alertsFile, log, logFile, pending, workers, active,
                   channels, received, lost, opened, sent, faults, crashes>>

----------------------------------------------------------------------------

HandlerStep ==
    \/ HandleOpened \/ HandleResolved \/ CancelFiringRetriesForAlert
    \/ \E ok, silenced \in BOOLEAN : SaveThenNotify(ok, silenced)
    \/ \E ok \in BOOLEAN : HandlerRecord(ok) \/ HandlerMark(ok)
    \/ HandlerDeliver \/ HandlerRegister \/ RecoverOne \/ RecoverDone

WorkerStep(w) ==
    \/ RetryCheck(w) \/ RetryCancelled(w) \/ RetryDeliver(w)
    \/ \E ok \in BOOLEAN : RetryRecord(w, ok) \/ RetryMark(w, ok)
    \/ RetryRegister(w) \/ RetryEnd(w)

Next ==
    \/ \E s \in Reason, saved, appended \in BOOLEAN :
          EvaluateDevice(s, saved, appended)
    \/ \E saved \in BOOLEAN : EvaluateUnchanged(saved)
    \/ HandlerStep
    \/ \E w \in Worker : WorkerStep(w)
    \/ Restart

Spec == Init /\ [][Next]_vars

\* A channel answers or times out (webhook.Config.Timeout), and a timer fires.
FairSpec == Spec /\ WF_vars(HandlerStep) /\ \A w \in Worker : WF_vars(WorkerStep(w))

----------------------------------------------------------------------------
(* Properties.                                                             *)

HandlerType ==
    [pc : {"idle", "find", "cancel", "save", "deliver", "record", "register", "mark", "recover"},
     kind : {"none", "opened", "changed", "resolved", "recover"}, alert : 0 .. MaxAlert,
     copy : Alert, event : Event, delivery : 0 .. MaxDelivery, todo : SUBSET Channel,
     attempt : Attempt \cup {NoAttempt}, outcome : Outcome, any : BOOLEAN]

WorkerType ==
    [pc : {"free", "waiting", "deliver", "record", "register", "mark", "end"},
     attempt : Attempt \cup {NoAttempt}, copy : Alert, outcome : Outcome, cancelled : BOOLEAN]

\* The types; a thread that has an attempt under way knows which one.
TypeOK ==
    /\ health \in [mem : Reason, disk : Reason]
    /\ alerts \in [AlertID -> Alert] /\ alertsFile \in [AlertID -> Alert]
    /\ log \subseteq Entry /\ logFile \subseteq Entry /\ pending \subseteq Entry
    /\ handler \in HandlerType
    /\ handler.pc \in {"record", "register"} => handler.attempt \in Attempt
    /\ workers \in [Worker -> WorkerType]
    /\ \A w \in Worker : workers[w].pc # "free" => workers[w].attempt \in Attempt
    /\ active \in [Key -> Worker \cup {NoWorker}]
    /\ channels \subseteq Channel /\ lost \in BOOLEAN
    /\ received \subseteq AlertID \X Event
    /\ opened \in 0 .. MaxAlert /\ sent \in 0 .. MaxDelivery
    /\ faults \in 0 .. MaxFault /\ crashes \in 0 .. MaxCrash

\* FiringNotified is true only of an alert whose firing was received, in memory and
\* in the file, whichever stale copies the handler and the retries save.
NotifiedWasReceived ==
    \A a \in AlertID :
        alerts[a].notified \/ alertsFile[a].notified => <<a, "firing">> \in received

\* Design section 9.3: nobody is told of the resolution of an alert whose firing
\* reached no one (retries and recovered retries included).
NoOrphanResolved ==
    \A a \in AlertID : <<a, "resolved">> \in received => <<a, "firing">> \in received

\* The attempts recorded for a notification on a channel are numbered 1, 2, ... with
\* one record each and nothing after a delivery or a rejection: no two retry chains
\* ever work on the same notification, across restarts too.
AttemptsInOrder ==
    \A e \in log :
        LET same == {f \in log : /\ f.attempt.delivery = e.attempt.delivery
                                 /\ f.attempt.channel = e.attempt.channel} IN
        /\ {f.attempt.number : f \in same} = 1 .. Cardinality(same)
        /\ ~e.next => e.attempt.number = Cardinality(same)

\* As long as no event was lost to a failed write or a crash, a device that fires has
\* a firing alert when the handler is done: a stale copy saved by a retry may revive a
\* resolved alert but never ends one.
FiringHasAlert ==
    ~lost /\ handler.pc = "idle" /\ health.mem = "firing" =>
        \E a \in AlertID : alerts[a].state = "firing"

\* Every retry chain ends: it delivers, is refused, is cancelled or runs out of attempts.
RetriesEnd == \A w \in Worker : workers[w].pc # "free" ~> workers[w].pc = "free"

\* Design section 9.1: at most one alert of a fingerprint is firing.
\* The code does not keep it: a retry under way saves its firing copy over the
\* resolved alert.
AtMostOneFiring == Cardinality({a \in AlertID : alerts[a].state = "firing"}) <= 1
=============================================================================

--------------------------- MODULE CommandService ---------------------------
(***************************************************************************)
(* The command service (internal/command/service.go) over its file         *)
(* repository (internal/command/file/repository.go), driven by the HTTP    *)
(* handlers of internal/api/api.go and by the expiry sweepers and the      *)
(* startup code of cmd/homeagent-server/main.go.                           *)
(*                                                                         *)
(* The repository's mutex makes one repository call atomic, and nothing    *)
(* more.  A service operation is a Get, a decision, and a second call that *)
(* compares the revision it read with the stored one; handlers and         *)
(* sweepers run in between.  A client c is one goroutine of the HTTP       *)
(* server; calls[c] is what it carries from its Get to its next call.  The *)
(* clock reading that a Transition carries is taken in the same step as    *)
(* the Get: when another call commits in between, the comparison fails     *)
(* and the reading is discarded.                                           *)
(*                                                                         *)
(* write() replaces the file before it returns and rolls memory back when  *)
(* it cannot, so `commands' is both the map and the file.                  *)
(***************************************************************************)
EXTENDS CommandModel, Sequences

CONSTANTS
    Client,     \* concurrent HTTP handlers
    Sweeper,    \* the expiry goroutines (two in the code)
    NoCall,
    Progress,   \* the sequence numbers progress reports carry
    MaxRev,     \* bound: no operation begins on a record of this revision
    Horizon     \* bound: the clock stops here

ASSUME BoundAssumption == MaxRev \in Nat /\ Horizon \in Nat \ {0} /\ Progress \subseteq Nat

VARIABLES
    commands,   \* Repository.commands, and the file
    now,        \* the wall clock
    calls,      \* what each client is in the middle of
    sweep,      \* what is left of the list each sweeper works through
    server      \* the process: down, recovering (before it listens), up

vars == <<commands, now, calls, sweep, server>>

\* transition .. mark: about to call the repository with the revision it read;
\* finish: about to call Service.Finish; project: about to project the result.
Op == {"transition", "late_ack", "progress", "mark", "finish", "project"}

Call == [op   : Op,
         id   : ID,
         rev  : Nat,
         to   : Status,
         ack  : Ack \cup {NoAck},
         proj : ProjectionStatus,
         seq  : Nat,
         next : {"reply", "finish", "project"},  \* what the handler does afterwards
         at   : Nat]

ASSUME NoCallAssumption == NoCall \notin Call

\* Finish carries the outcome the device reported to AppendLateAck.
CarriesAck(call) == call.op = "late_ack" => call.ack \in Ack

Due == [id : ID, rev : Nat]

TypeOK ==
    /\ commands \in [ID -> Command]
    /\ now \in Nat
    /\ calls \in [Client -> Call \cup {NoCall}]
    /\ \A c \in Client : calls[c] # NoCall => CarriesAck(calls[c])
    /\ sweep \in [Sweeper -> Seq(Due)]
    /\ server \in {"down", "recovering", "up"}

Init ==
    /\ commands = [id \in ID |-> Undrawn]
    /\ now = 1
    /\ calls = [c \in Client |-> NoCall]
    /\ sweep = [s \in Sweeper |-> <<>>]
    /\ server = "up"

-----------------------------------------------------------------------------
(* The repository *)

\* write(): the file is replaced, and the pruned records are gone.
Write(cmds) == \E drop \in PruneSets(cmds, now) : commands' = Without(cmds, drop)

Current_AnyRevision(c, rev) == Live(c)

\* The record is there and still at the revision the caller read.
Current(c, rev) == Live(c) /\ c.rev = rev

\* Repository.Transition takes effect.
Applies(c, rev, to) == Current(c, rev) /\ valid(c.status, to) /\ c.status # to

\* The record AppendLateAck stores: the first digest is kept, the same one
\* again and a conflicting one change nothing.
WithLateAck(c, ack) ==
    IF c.lateAcks = {} THEN [c EXCEPT !.lateAcks = {ack}, !.rev = @ + 1] ELSE c

WithProjection_NewOutcome(c, p) ==
    [c EXCEPT !.proj = p, !.projRev = @ + 1, !.rev = @ + 1, !.outcomeRev = c.rev + 1]

WithProjection(c, p) == [c EXCEPT !.proj = p, !.projRev = @ + 1, !.rev = @ + 1]

WithProgress(c, n) == [c EXCEPT !.progress = n, !.rev = @ + 1]

-----------------------------------------------------------------------------
(* Creation *)

\* CreateOrGet with a request that nothing stops.  A request that an
\* existing command answers, and a failed write, change nothing.
Create(req, id) ==
    /\ server = "up"
    /\ commands[id].status = "none"
    /\ CreateStops(commands, req) = {}
    /\ Write([commands EXCEPT ![id] = NewCommand(req)])
    /\ UNCHANGED <<now, calls, sweep, server>>

-----------------------------------------------------------------------------
(* The first half of a service operation: Get, and the early returns *)

Idle(c) == server = "up" /\ calls[c] = NoCall

Carry(op, id) ==
    [op |-> op, id |-> id, rev |-> commands[id].rev, to |-> "none", ack |-> NoAck,
     proj |-> "pending", seq |-> 0, next |-> "reply", at |-> now]

Begin(c, call) ==
    /\ calls' = [calls EXCEPT ![c] = call]
    /\ UNCHANGED <<commands, now, sweep, server>>

Read(c, id) == Idle(c) /\ Live(commands[id]) /\ commands[id].rev < MaxRev

BeginTransition(c, id, to) ==
    Read(c, id) /\ Begin(c, [Carry("transition", id) EXCEPT !.to = to])

StartDispatch(c, id) == BeginTransition(c, id, "dispatching")

\* finishDispatch after a Publish that reached a subscriber
DispatchResult(c, id) ==
    commands[id].status = "dispatching" /\ BeginTransition(c, id, "dispatched")

\* finishDispatch after a Publish that reached none
Requeue(c, id) ==
    commands[id].status = "dispatching" /\ BeginTransition(c, id, "queued")

MarkLegacy(c, id) ==
    commands[id].status = "dispatched" /\ BeginTransition(c, id, "legacy_untracked")

Accept(c, id) ==
    commands[id].status # "accepted" /\ BeginTransition(c, id, "accepted")

Cancel(c, id) ==
    commands[id].status # "accepted" /\ BeginTransition(c, id, "canceled")

\* deviceAck with status progress; phase commit_ready goes on to Finish.
UpdateProgress(c, id, n, commitReady) ==
    /\ commands[id].kind = "upgrade"
    /\ Read(c, id)
    /\ Begin(c, [Carry("progress", id) EXCEPT
                    !.seq = n, !.next = IF commitReady THEN "finish" ELSE "reply"])

\* What Finish does with the record it reads: the terminal cases answer at
\* once or append a late ACK, the others go on to Transition.  A duplicate
\* whose projection is pending is projected again.
FinishCall(id, ack, next) ==
    LET cmd == commands[id]
        call == [Carry("transition", id) EXCEPT !.to = ack.status, !.ack = ack, !.next = next]
    IN  IF ~Live(cmd) THEN NoCall
        ELSE IF ~Terminal(cmd) THEN call
        ELSE IF cmd.finalAck = ack
             THEN IF next = "project" /\ cmd.proj = "pending"
                  THEN [call EXCEPT !.op = "project"]
                  ELSE NoCall
        ELSE IF cmd.status \in AuditStatus THEN [call EXCEPT !.op = "late_ack", !.next = "reply"]
        ELSE NoCall

\* deviceAck with a final status
Finish(c, id, ack) ==
    /\ Read(c, id)
    /\ FinishCall(id, ack, "project") # NoCall
    /\ Begin(c, FinishCall(id, ack, "project"))

\* deviceAck, phase commit_ready: Finish after UpdateProgress
FinishConverged(c) ==
    /\ calls[c] # NoCall /\ calls[c].op = "finish"
    /\ Begin(c, FinishCall(calls[c].id, [status |-> "succeeded", result |-> Converged], "reply"))

\* deviceAck after Finish: the registry takes the result (p = applied), or
\* reports an error that is recorded (failed) or that ends the request before
\* MarkProjection (pending).
Project(c, p) ==
    LET id == calls[c].id IN
    /\ calls[c] # NoCall /\ calls[c].op = "project"
    /\ Begin(c, IF p = "pending" \/ ~Live(commands[id]) THEN NoCall
                ELSE [Carry("mark", id) EXCEPT !.proj = p])

-----------------------------------------------------------------------------
(* The second half: one repository call, with a write that may fail *)

\* How the handler goes on after its repository call.
Continue(c, ok) ==
    LET call == calls[c] IN
    calls' = [calls EXCEPT ![c] =
                IF call.next = "finish" \/ (call.next = "project" /\ ok)
                THEN [call EXCEPT !.op = call.next, !.next = "reply"]
                ELSE NoCall]

Store(c, cmd, ok) ==
    /\ IF ok THEN Write([commands EXCEPT ![calls[c].id] = cmd]) ELSE UNCHANGED commands
    /\ Continue(c, ok)
    /\ UNCHANGED <<now, sweep, server>>

\* A call whose repository method returns an error, or finds nothing to
\* change: `ok' is whether the service reports success.
Refused(c, ok) ==
    /\ Continue(c, ok)
    /\ UNCHANGED <<commands, now, sweep, server>>

CommitTransition(c, written) ==
    LET call == calls[c]
        cmd  == commands[call.id]
    IN  /\ call # NoCall /\ call.op = "transition"
        /\ IF Applies(cmd, call.rev, call.to)
           THEN Store(c, Transitioned(cmd, call.to, call.ack, call.at), written)
           ELSE Refused(c, FALSE)

CommitLateAck(c, written) ==
    LET call == calls[c]
        cmd  == commands[call.id]
    IN  /\ call # NoCall /\ call.op = "late_ack"
        /\ IF Current(cmd, call.rev) /\ WithLateAck(cmd, call.ack) # cmd
           THEN Store(c, WithLateAck(cmd, call.ack), written)
           ELSE Refused(c, FALSE)

CommitProgress(c, written) ==
    LET call == calls[c]
        cmd  == commands[call.id]
    IN  /\ call # NoCall /\ call.op = "progress"
        /\ IF Current(cmd, call.rev)
           THEN Store(c, WithProgress(cmd, call.seq), written)
           ELSE Refused(c, FALSE)

CommitProjection(c, written) ==
    LET call == calls[c]
        cmd  == commands[call.id]
    IN  /\ call # NoCall /\ call.op = "mark"
        /\ IF Current(cmd, call.rev)
           THEN Store(c, WithProjection(cmd, call.proj), written)
           ELSE Refused(c, FALSE)

-----------------------------------------------------------------------------
(* The expiry sweepers: Service.Expire *)

SweepList(s) ==
    /\ server = "up" /\ sweep[s] = <<>>
    /\ \E list \in ExpiredLists(commands, now) :
          /\ list # <<>>
          /\ sweep' = [sweep EXCEPT ![s] =
                         [i \in DOMAIN list |-> [id |-> list[i], rev |-> commands[list[i]].rev]]]
    /\ UNCHANGED <<commands, now, calls, server>>

\* One turn of the loop.  ErrConflict goes on to the next command; any other
\* error ends the sweep.
SweepStep(s, written) ==
    LET due == Head(sweep[s])
        cmd == commands[due.id]
        conflict == Live(cmd) /\ cmd.rev # due.rev
        applies == Applies(cmd, due.rev, "timed_out")
    IN  /\ sweep[s] # <<>>
        /\ IF applies /\ written
           THEN Write([commands EXCEPT ![due.id] = Transitioned(cmd, "timed_out", NoAck, now)])
           ELSE UNCHANGED commands
        /\ sweep' = [sweep EXCEPT ![s] =
                        IF conflict \/ (applies /\ written) THEN Tail(@) ELSE <<>>]
        /\ UNCHANGED <<now, calls, server>>

-----------------------------------------------------------------------------
(* The process and the clock *)

\* The process dies: what the goroutines carry is gone.
Crash ==
    /\ server # "down"
    /\ server' = "down"
    /\ calls' = [c \in Client |-> NoCall]
    /\ sweep' = [s \in Sweeper |-> <<>>]
    /\ UNCHANGED <<commands, now>>

\* serve: Open and InterruptNonTerminal.  When its write fails the process
\* exits, which changes nothing.
Boot ==
    /\ server = "down"
    /\ server' = "recovering"
    /\ IF \E id \in ID : InFlight(commands[id])
       THEN Write([id \in ID |-> Interrupted(commands[id], now)])
       ELSE UNCHANGED commands
    /\ UNCHANGED <<now, calls, sweep>>

ProjectionPending(cmds) ==
    {id \in ID : cmds[id].status \in FinalStatus /\ cmds[id].proj = "pending"}

\* recoverCommandProjections, before the server listens: every pending
\* result is projected again and marked; a mark whose write fails stays
\* pending.
Serve(marked, p) ==
    /\ server = "recovering"
    /\ server' = "up"
    /\ IF marked = {} THEN UNCHANGED commands
       ELSE Write([id \in ID |-> IF id \in marked THEN WithProjection(commands[id], p[id])
                                                  ELSE commands[id]])
    /\ UNCHANGED <<now, calls, sweep>>

Tick ==
    /\ now < Horizon
    /\ now' = now + 1
    /\ UNCHANGED <<commands, calls, sweep, server>>

-----------------------------------------------------------------------------

ClientBegin(c) ==
    \/ \E id \in ID :
          \/ StartDispatch(c, id) \/ DispatchResult(c, id) \/ Requeue(c, id)
          \/ MarkLegacy(c, id) \/ Accept(c, id) \/ Cancel(c, id)
          \/ \E n \in Progress, commitReady \in BOOLEAN : UpdateProgress(c, id, n, commitReady)
          \/ \E ack \in Ack : Finish(c, id, ack)
    \/ FinishConverged(c)
    \/ \E p \in ProjectionStatus : Project(c, p)

ClientCommit(c) ==
    \E written \in BOOLEAN :
        \/ CommitTransition(c, written) \/ CommitLateAck(c, written)
        \/ CommitProgress(c, written) \/ CommitProjection(c, written)

Next ==
    \/ \E req \in Request, id \in ID : Create(req, id)
    \/ \E c \in Client : ClientBegin(c) \/ ClientCommit(c)
    \/ \E s \in Sweeper : SweepList(s) \/ \E written \in BOOLEAN : SweepStep(s, written)
    \/ Crash
    \/ Boot
    \/ \E marked \in SUBSET ProjectionPending(commands) :
          \E p \in [marked -> {"applied", "failed"}] : Serve(marked, p)
    \/ Tick

Spec == Init /\ [][Next]_vars

\* The turn of a sweep that stores timed_out.
SweepCloses(s) == SweepStep(s, TRUE) /\ commands' # commands

\* The tickers fire and the loop of Expire runs on, its writes do not fail for
\* ever, and a process that went down is started again.  Nothing is assumed of
\* handlers or devices.
Fairness ==
    /\ \A s \in Sweeper :
          /\ WF_vars(SweepList(s))
          /\ WF_vars(\E written \in BOOLEAN : SweepStep(s, written))
          /\ SF_vars(SweepCloses(s))
    /\ WF_vars(Boot)
    /\ WF_vars(\E marked \in SUBSET ProjectionPending(commands) :
                  \E p \in [marked -> {"applied", "failed"}] : Serve(marked, p))

FairSpec == Spec /\ Fairness

-----------------------------------------------------------------------------
(* Properties *)

\* Two commands in flight on one device never compete for a slot: not two of
\* a kind, not a shutdown beside an upgrade (CreateOrGet's checks hold across
\* every later interleaving of handlers, sweeps, prunes and restarts).
SlotExclusive ==
    \A a, b \in ID :
        a # b /\ InFlight(commands[a]) /\ InFlight(commands[b])
              /\ commands[a].device = commands[b].device
        => ~Excludes(commands[a].kind, commands[b].kind)

\* An idempotency key names at most one command that is still on record
\* (CreateOrGet never creates a second one beside it).
KeyNamesOne ==
    \A a, b \in ID :
        a # b /\ Live(commands[a]) /\ Live(commands[b]) /\ commands[a].key # NoKey
        => ~SameKey(commands[a], commands[b])

\* Only a command that was closed without an outcome keeps a late ACK, and it
\* keeps one (Finish, AppendLateAck).
LateAckIsAudit ==
    \A id \in ID :
        LET cmd == commands[id] IN
        cmd.lateAcks # {} =>
            /\ cmd.status \in AuditStatus \cup {"pruned"}
            /\ cmd.finalAck = NoAck
            /\ Cardinality(cmd.lateAcks) = 1

\* A command that is out for delivery or running always has a deadline the
\* sweepers can find, never further away than the timeout policy allows
\* (Transition arms it in the same write as the status).
DeadlineArmed ==
    \A id \in ID :
        LET cmd == commands[id] IN
        /\ cmd.status \in {"dispatching", "dispatched"} =>
              cmd.acceptBy # 0 /\ cmd.acceptBy <= now + AcceptTimeout
        /\ cmd.status = "accepted" =>
              cmd.finishBy # 0 /\ cmd.finishBy <= now + FinishTimeout

\* What holds of every record by itself at any moment: its type, its deadline
\* and its late ACK.
CommandInv ==
    /\ TypeOK
    /\ LateAckIsAudit
    /\ DeadlineArmed

\* The status a record has been closed with, the ACK and the revision it was
\* closed at never change again, whatever was read before the close and
\* arrives after it (the table of valid and the revision check).
ClosedForGood ==
    [][\A id \in ID : Terminal(commands[id]) =>
          \/ commands'[id].status = "pruned"
          \/ /\ commands'[id].status = commands[id].status
             /\ commands'[id].finalAck = commands[id].finalAck
             /\ commands'[id].outcomeRev = commands[id].outcomeRev
             /\ commands'[id].finishedAt = commands[id].finishedAt]_vars

\* A sweeper closes only a command whose current deadline has passed, even
\* when the command was requeued and sent again, or accepted, after the
\* sweeper listed it (Expire passes the revision it read).
NoEarlyTimeout ==
    [][\A id \in ID :
          (commands[id].status # "timed_out" /\ commands'[id].status = "timed_out")
          => Expired(commands[id], now)]_vars

\* The records a step drops.
Forgotten == {id \in ID : commands[id].status # "pruned" /\ commands'[id].status = "pruned"}

\* What a step may drop: closed records that are old enough, of more than
\* RetainMax.
DropsOnlyTheOld ==
    Forgotten # {} =>
        /\ \A id \in Forgotten : /\ commands'[id].finishedAt # 0
                               /\ commands'[id].finishedAt + RetainAge < now
        /\ Cardinality({id \in ID : Live(commands'[id])}) >= RetainMax

\* write() forgets a record only when it is closed (perhaps in that very
\* write, by a handler that read the clock long ago) and old enough, and never
\* leaves fewer than RetainMax records (pruneIDsLocked).
ForgetsOnlyTheOld == [][DropsOnlyTheOld]_vars

\* A command that is with the device, past the deadline that applies to it.
Overdue(id) == Expired(commands[id], now) /\ commands[id].status # "queued"

\* A command that was put back in the queue after its deadline was armed.
StaleQueued(id) == Expired(commands[id], now) /\ commands[id].status = "queued"

\* An overdue command does not stay overdue (Expire, the tickers of serve),
\* when no other command sits in the queue with an expired deadline.
OverdueIsResolved ==
    \A id \in ID :
        [](\A x \in ID \ {id} : ~StaleQueued(x)) => (Overdue(id) ~> ~Overdue(id))

\* The state table of the P0 design: any command that is not terminal and
\* reaches its deadline is timed out.
\* The code does not keep it: Expire stops at a requeued command.
EveryDeadlineCloses == \A id \in ID : Overdue(id) ~> ~Overdue(id)

\* The phase of CommandLifecycle that a stored status stands for.
PhaseOf(s) ==
    CASE s = "none" -> "absent"
      [] s = "pruned" -> "forgotten"
      [] s = "queued" -> "waiting"
      [] s \in {"dispatching", "dispatched"} -> "out"
      [] s = "accepted" -> "running"
      [] s \in FinalStatus -> "reported"
      [] OTHER -> s

Phases == [id \in ID |-> PhaseOf(commands[id].status)]
Outcomes == [id \in ID |-> commands[id].finalAck]

Lifecycle ==
    INSTANCE CommandLifecycle WITH
        Outcome <- Ack,
        NoOutcome <- NoAck,
        Verdict <- AuditStatus \cup {"legacy_untracked"},
        phase <- Phases,
        outcome <- Outcomes

\* The service implements the life cycle of CommandLifecycle.
ImplementsLifecycle == Lifecycle!LifecycleSpec
=============================================================================

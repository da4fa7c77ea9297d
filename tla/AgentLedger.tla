---------------------------- MODULE AgentLedger ----------------------------
(***************************************************************************)
(* The agent's execution ledger (internal/daemon/ledger.go) and the daemon *)
(* that executes commands by it (internal/daemon/client.go,                *)
(* internal/daemon/shutdown.go): delivery of a command, possibly more than *)
(* once, its side effect, its ACKs, crashes and restarts of the agent.     *)
(*                                                                         *)
(* Three kinds of goroutine work on the ledger: main (recovery, then one   *)
(* event at a time), one timer per scheduled shutdown, and the loop that   *)
(* retries committed ACKs.  l.mu makes each ledger method one step.  Every *)
(* method changes memory first and then rewrites the whole file, which may *)
(* fail: `mem' is the ledger in memory, `disk' the file.                   *)
(***************************************************************************)
EXTENDS Naturals, FiniteSets

CONSTANTS
    ShutdownID,     \* shutdown commands
    ApplyID,        \* key sync, upgrade and GitHub commands
    BadID,          \* commands of these kinds whose payload does not parse
    NoID, NoAck,
    MaxCrash        \* bound: crashes of the agent

ID == ShutdownID \cup ApplyID \cup BadID

Stage == {"none", "prepared", "side_effect_started", "result_committed", "ack_confirmed"}

\* uncertain: failed with outcome_uncertain
Outcome == {"succeeded", "failed", "uncertain"}

Record == [stage : Stage, ack : Outcome \cup {NoAck}]

ASSUME LedgerNames ==
    /\ NoID \notin ID /\ NoAck \notin Outcome
    /\ ShutdownID \cap (ApplyID \cup BadID) = {} /\ ApplyID \cap BadID = {}
ASSUME LedgerBound == MaxCrash \in Nat

VARIABLES
    process,    \* down, recovering (recoverInterruptedCommands), serving
    stopping,   \* the daemon's context is canceled
    mem, disk,  \* the ledger in memory and its file
    todo,       \* records main has still to recover
    main,       \* where main is, with which command and which ACK
    timer,      \* the goroutine of ScheduleShutdownWithResult, per command
    retry,      \* the ACKs retryCommittedAcks is about to post
    executed,   \* how often the side effect of a command ran
    server,     \* the final ACK the server has recorded for a command
    crashes

vars == <<process, stopping, mem, disk, todo, main, timer, retry, executed, server, crashes>>

Main == [pc : {"idle", "start", "accept", "execute", "commit", "post"},
         id : ID \cup {NoID}, ack : Outcome \cup {NoAck}]
Timer == [pc : {"idle", "waiting", "commit", "post"}, ack : Outcome \cup {NoAck}]
Pending == [id : ID, ack : Outcome]

IdleMain == [pc |-> "idle", id |-> NoID, ack |-> NoAck]
IdleTimer == [pc |-> "idle", ack |-> NoAck]

\* Whoever is about to store or to send an ACK has one.
CarriesAck(t) == t.pc \in {"commit", "post"} => t.ack \in Outcome

TypeOK ==
    /\ process \in {"down", "recovering", "serving"} /\ stopping \in BOOLEAN
    /\ mem \in [ID -> Record] /\ disk \in [ID -> Record]
    /\ \A id \in ID : mem[id].stage = "result_committed" => mem[id].ack \in Outcome
    /\ \A id \in ID : disk[id].stage = "result_committed" => disk[id].ack \in Outcome
    /\ todo \subseteq ID
    /\ main \in Main /\ (main.pc = "idle" <=> main.id = NoID) /\ CarriesAck(main)
    /\ timer \in [ShutdownID -> Timer] /\ \A id \in ShutdownID : CarriesAck(timer[id])
    /\ retry \subseteq Pending
    /\ executed \in [ID -> Nat]
    /\ server \in [ID -> Outcome \cup {NoAck}]
    /\ crashes \in 0..MaxCrash

Init ==
    /\ process = "serving" /\ stopping = FALSE
    /\ mem = [id \in ID |-> [stage |-> "none", ack |-> NoAck]] /\ disk = mem
    /\ todo = {} /\ main = IdleMain
    /\ timer = [id \in ShutdownID |-> IdleTimer]
    /\ retry = {}
    /\ executed = [id \in ID |-> 0]
    /\ server = [id \in ID |-> NoAck]
    /\ crashes = 0

-----------------------------------------------------------------------------
(* The ledger: memory changes, then the file is replaced or not *)

Store(id, rec, written) ==
    /\ mem' = [mem EXCEPT ![id] = rec]
    /\ disk' = IF written THEN [mem EXCEPT ![id] = rec] ELSE disk

SetStage(id, stage, written) == Store(id, [mem[id] EXCEPT !.stage = stage], written)

Committed(ack) == [stage |-> "result_committed", ack |-> ack]

PostFinal_AnyAnswer(id, ack, sent, answered, written) ==
    /\ sent => ~stopping
    /\ server' = IF sent /\ server[id] = NoAck THEN [server EXCEPT ![id] = ack] ELSE server
    /\ SetStage(id, "ack_confirmed", written)

\* postAck and what the server does with a final ACK: it records the first
\* one and answers the same one again; another one is refused.  The request
\* may be lost, and so may the answer.  Only an answer confirms the record.
PostFinal(id, ack, sent, answered, written) ==
    LET ok == sent /\ answered /\ server[id] \in {NoAck, ack} IN
    /\ sent => ~stopping
    /\ server' = IF sent /\ server[id] = NoAck THEN [server EXCEPT ![id] = ack] ELSE server
    /\ IF ok THEN SetStage(id, "ack_confirmed", written) ELSE UNCHANGED <<mem, disk>>

-----------------------------------------------------------------------------
(* main: handleEvent *)

Goto(pc, id, ack) == main' = [pc |-> pc, id |-> id, ack |-> ack]

\* What follows begin for a record that may be executed: an unreadable
\* payload is reported as a failure, anything else is started.
Proceed(id) == IF id \in BadID THEN Goto("commit", id, "failed") ELSE Goto("start", id, NoAck)

OnCommitted_Resume(id) == Goto("execute", id, NoAck)

\* A duplicate of a command with a result: its ACK is posted again.
OnCommitted(id) == Goto("post", id, mem[id].ack)

OnStarted_Failed(id) == Goto("commit", id, "failed")

\* A shutdown that was started, before this start of the agent or just now:
\* nobody knows whether it ran or will.
OnStarted(id) == Goto("commit", id, "uncertain")

\* begin, and the cases that handleEvent decides by the stage it finds.
HandleEvent(id, written) ==
    LET stage == mem[id].stage IN
    \/ /\ stage = "none" \/ (stage = "side_effect_started" /\ id \notin ShutdownID)
       /\ SetStage(id, "prepared", written)                \* a new record, or resetPrepared
       /\ IF written THEN Proceed(id) ELSE UNCHANGED main
    \/ /\ stage = "prepared"
       /\ Proceed(id)
       /\ UNCHANGED <<mem, disk>>
    \/ /\ stage = "side_effect_started" /\ id \in ShutdownID
       /\ OnStarted(id)
       /\ UNCHANGED <<mem, disk>>
    \/ /\ stage = "result_committed"
       /\ OnCommitted(id)
       /\ UNCHANGED <<mem, disk>>
    \/ /\ stage = "ack_confirmed"
       /\ UNCHANGED <<main, mem, disk>>

\* The stream delivers a command, for the first time or again.
Receive(id, written) ==
    /\ process = "serving" /\ main.pc = "idle" /\ ~stopping
    /\ HandleEvent(id, written)
    /\ UNCHANGED <<process, stopping, todo, timer, retry, executed, server, crashes>>

\* ledger.start lets only a prepared record through.
StartGuard(rec) == rec.stage = "prepared"

\* startCommand: no execution unless side_effect_started is on disk.
StartCommand(written) ==
    /\ main.pc = "start"
    /\ IF StartGuard(mem[main.id])
       THEN /\ SetStage(main.id, "side_effect_started", written)
            /\ main' = IF written THEN [main EXCEPT !.pc = "accept"] ELSE IdleMain
       ELSE main' = IdleMain /\ UNCHANGED <<mem, disk>>
    /\ UNCHANGED <<process, stopping, todo, timer, retry, executed, server, crashes>>

\* sendAccepted: best effort; postAck confirms the record when it succeeds.
SendAccepted(ok, written) ==
    /\ main.pc = "accept"
    /\ ok => ~stopping
    /\ main' = [main EXCEPT !.pc = "execute"]
    /\ IF ok THEN SetStage(main.id, "ack_confirmed", written) ELSE UNCHANGED <<mem, disk>>
    /\ UNCHANGED <<process, stopping, todo, timer, retry, executed, server, crashes>>

\* The side effect of a command that main executes itself.
Apply(outcome) ==
    /\ main.pc = "execute" /\ main.id \notin ShutdownID
    /\ executed' = [executed EXCEPT ![main.id] = @ + 1]
    /\ main' = [main EXCEPT !.pc = "commit", !.ack = outcome]
    /\ UNCHANGED <<process, stopping, mem, disk, todo, timer, retry, server, crashes>>

\* A shutdown is left to a timer.
ScheduleShutdown ==
    /\ main.pc = "execute" /\ main.id \in ShutdownID
    /\ timer' = [timer EXCEPT ![main.id] = [pc |-> "waiting", ack |-> NoAck]]
    /\ main' = IdleMain
    /\ UNCHANGED <<process, stopping, mem, disk, todo, retry, executed, server, crashes>>

\* What handleEvent does with a command that may begin.
Execute(outcome) == main.pc = "execute" /\ (Apply(outcome) \/ ScheduleShutdown)

\* sendAck: the result is committed before it is sent.
CommitResult(written) ==
    /\ main.pc = "commit"
    /\ Store(main.id, Committed(main.ack), written)
    /\ main' = IF written THEN [main EXCEPT !.pc = "post"] ELSE IdleMain
    /\ UNCHANGED <<process, stopping, todo, timer, retry, executed, server, crashes>>

PostResult(sent, answered, written) ==
    /\ main.pc = "post"
    /\ PostFinal(main.id, main.ack, sent, answered, written)
    /\ main' = IdleMain
    /\ UNCHANGED <<process, stopping, todo, timer, retry, executed, crashes>>

-----------------------------------------------------------------------------
(* The timer of a shutdown *)

\* ExecuteShutdown, after the delay
Fire(id, outcome) ==
    /\ timer[id].pc = "waiting"
    /\ executed' = [executed EXCEPT ![id] = @ + 1]
    /\ timer' = [timer EXCEPT ![id] = [pc |-> "commit", ack |-> outcome]]
    /\ UNCHANGED <<process, stopping, mem, disk, todo, main, retry, server, crashes>>

\* The context ends first.
CancelTimer(id) ==
    /\ timer[id].pc = "waiting" /\ stopping
    /\ timer' = [timer EXCEPT ![id] = [pc |-> "commit", ack |-> "failed"]]
    /\ UNCHANGED <<process, stopping, mem, disk, todo, main, retry, executed, server, crashes>>

TimerCommit(id, written) ==
    /\ timer[id].pc = "commit"
    /\ Store(id, Committed(timer[id].ack), written)
    /\ timer' = [timer EXCEPT ![id] = IF written THEN [@ EXCEPT !.pc = "post"] ELSE IdleTimer]
    /\ UNCHANGED <<process, stopping, todo, main, retry, executed, server, crashes>>

TimerPost(id, sent, answered, written) ==
    /\ timer[id].pc = "post"
    /\ PostFinal(id, timer[id].ack, sent, answered, written)
    /\ timer' = [timer EXCEPT ![id] = IdleTimer]
    /\ UNCHANGED <<process, stopping, todo, main, retry, executed, crashes>>

-----------------------------------------------------------------------------
(* retryCommittedAcks *)

PendingAcks_Succeeded ==
    {[id |-> id, ack |-> mem[id].ack] :
        id \in {i \in ID : mem[i].stage = "result_committed" /\ mem[i].ack = "succeeded"}}

PendingAcks ==
    {[id |-> id, ack |-> mem[id].ack] : id \in {i \in ID : mem[i].stage = "result_committed"}}

RetryList ==
    /\ process = "serving" /\ retry = {} /\ PendingAcks # {}
    /\ retry' = PendingAcks
    /\ UNCHANGED <<process, stopping, mem, disk, todo, main, timer, executed, server, crashes>>

RetryPost(p, sent, answered, written) ==
    /\ p \in retry
    /\ PostFinal(p.id, p.ack, sent, answered, written)
    /\ retry' = retry \ {p}
    /\ UNCHANGED <<process, stopping, todo, main, timer, executed, crashes>>

-----------------------------------------------------------------------------
(* The process *)

Stop ==
    /\ process = "serving" /\ ~stopping /\ crashes < MaxCrash
    /\ stopping' = TRUE
    /\ UNCHANGED <<process, mem, disk, todo, main, timer, retry, executed, server, crashes>>

\* The agent dies, or ends after Stop; the machine may have gone down.
Crash ==
    /\ process # "down" /\ crashes < MaxCrash
    /\ process' = "down" /\ stopping' = FALSE
    /\ mem' = disk /\ todo' = {} /\ main' = IdleMain
    /\ timer' = [id \in ShutdownID |-> IdleTimer]
    /\ retry' = {}
    /\ crashes' = crashes + 1
    /\ UNCHANGED <<disk, executed, server>>

Boot_NoRecovery ==
    /\ process = "down"
    /\ process' = "recovering"
    /\ todo' = {}
    /\ UNCHANGED <<stopping, mem, disk, main, timer, retry, executed, server, crashes>>

\* openCommandLedger, and the records main has to recover
Boot ==
    /\ process = "down"
    /\ process' = "recovering"
    /\ todo' = {id \in ID : disk[id].stage = "side_effect_started"}
    /\ UNCHANGED <<stopping, mem, disk, main, timer, retry, executed, server, crashes>>

Recover_Reschedule(id, written) ==
    /\ process = "recovering" /\ main.pc = "idle" /\ id \in todo
    /\ todo' = todo \ {id}
    /\ Goto("execute", id, NoAck)
    /\ UNCHANGED <<process, stopping, mem, disk, timer, retry, executed, server, crashes>>

\* recoverInterruptedCommands: a shutdown is reported as uncertain, anything
\* else goes through handleEvent again.
Recover(id, written) ==
    /\ process = "recovering" /\ main.pc = "idle" /\ id \in todo
    /\ todo' = todo \ {id}
    /\ HandleEvent(id, written)
    /\ UNCHANGED <<process, stopping, timer, retry, executed, server, crashes>>

Serve ==
    /\ process = "recovering" /\ main.pc = "idle" /\ todo = {}
    /\ process' = "serving"
    /\ UNCHANGED <<stopping, mem, disk, todo, main, timer, retry, executed, server, crashes>>

-----------------------------------------------------------------------------

MainStep(written) ==
    \/ StartCommand(written) \/ CommitResult(written)
    \/ \E ok \in BOOLEAN : SendAccepted(ok, written)
    \/ \E sent, answered \in BOOLEAN : PostResult(sent, answered, written)
    \/ \E outcome \in {"succeeded", "failed"} : Execute(outcome)

TimerStep(id, written) ==
    \/ \E outcome \in {"succeeded", "failed"} : Fire(id, outcome)
    \/ CancelTimer(id)
    \/ TimerCommit(id, written)
    \/ \E sent, answered \in BOOLEAN : TimerPost(id, sent, answered, written)

RetryStep(written) ==
    \E p \in retry, sent, answered \in BOOLEAN : RetryPost(p, sent, answered, written)

Next ==
    \/ \E written \in BOOLEAN :
          \/ MainStep(written) \/ RetryStep(written)
          \/ \E id \in ID : Receive(id, written) \/ Recover(id, written)
          \/ \E id \in ShutdownID : TimerStep(id, written)
    \/ RetryList \/ Stop \/ Crash \/ Boot \/ Serve

Spec == Init /\ [][Next]_vars

\* The goroutines run, a stopped agent ends and is started again, and a post
\* that is tried again and again gets through once.
Fairness ==
    /\ WF_vars(\E written \in BOOLEAN : MainStep(written))
    /\ WF_vars(\E written \in BOOLEAN, id \in ID : Recover(id, written))
    /\ WF_vars(Boot) /\ WF_vars(Serve)
    /\ WF_vars(stopping /\ Crash)
    /\ WF_vars(RetryList)
    /\ WF_vars(\E written \in BOOLEAN : RetryStep(written))
    /\ \A id \in ID, ack \in Outcome :
          SF_vars(RetryPost([id |-> id, ack |-> ack], TRUE, TRUE, TRUE))

FairSpec == Spec /\ Fairness

-----------------------------------------------------------------------------
(* Properties *)

\* A shutdown is executed at most once, whatever is delivered again, whichever
\* write fails and wherever the agent dies (start writes side_effect_started
\* before the timer is armed, and recovery never leads back to it).
ShutdownOnce == \A id \in ShutdownID : executed[id] <= 1

\* A command whose result reached the disk is not executed again.
CompletedNotRepeated ==
    [][\A id \in ApplyID : disk[id].ack # NoAck => executed'[id] = executed[id]]_vars

\* The agent never gives up a result that the server has nothing of: a record
\* with a result is confirmed only after the server recorded one (commit comes
\* before the final post, the accepted post before commit).
ConfirmedIsRecorded ==
    \A id \in ID : mem[id].stage = "ack_confirmed" /\ mem[id].ack # NoAck => server[id] # NoAck

\* When the agent serves and nothing is under way for a command whose side
\* effect ran, it holds a result, or a post was answered; a command that is
\* safe to apply again may also wait for the next delivery or the next start
\* (recoverInterruptedCommands, with writes that may fail on the way).
RecoveryCoversStarted ==
    process = "serving" /\ main.pc = "idle" =>
        \A id \in ID :
            executed[id] > 0 /\ (id \in ShutdownID => timer[id].pc = "idle")
            => \/ mem[id].ack # NoAck
               \/ mem[id].stage = "ack_confirmed"
               \/ /\ id \in ApplyID
                  /\ mem[id].stage \in {"prepared", "side_effect_started"}

\* The daemon implements CommandExecution: runs are side effects, answers what the
\* server has recorded (startCommand, recoverInterruptedCommands, postAck).
Execution ==
    INSTANCE CommandExecution WITH
        Once <- ShutdownID, Unreadable <- BadID, NoAnswer <- NoAck,
        runs <- executed, answer <- server

\* No duplicate, lost write or restart shows at the server or on the machine as
\* anything CommandExecution excludes.
ImplementsExecution == Execution!ExecutionSpec

\* A result on disk reaches the server (retryCommittedAcks after a restart).
EveryResultReported ==
    \A id \in ID : disk[id].stage = "result_committed" ~> server[id] # NoAck

\* P0 section 7.4, crash recovery: a command that was interrupted after its
\* side effect began ends with a result.
\* The code does not keep it: the answer to the accepted ACK makes a started record
\* ack_confirmed, which recovery passes over.
RecoveredHasResult ==
    process = "serving" /\ main.pc = "idle" =>
        \A id \in ID :
            executed[id] > 0 /\ (id \in ShutdownID => timer[id].pc = "idle")
            => mem[id].ack # NoAck
=============================================================================

---------------------------- MODULE DomainBinding ----------------------------
(***************************************************************************)
(* Domain bindings: the names HomeAgent publishes at the DNS provider.     *)
(*                                                                         *)
(* internal/domainbinding/service.go answers the operator's requests and   *)
(* coordinator.go sweeps over the bindings; both change the control plane  *)
(* only through internal/store/controlplane_service.go, one compare and    *)
(* swap at a time, with the binding's revision checked inside.  The        *)
(* provider (cloudflare/client.go) is written outside of any lock: an      *)
(* operation may disable or delete the binding while Apply is under way,   *)
(* and an answer may be lost after the record was written.                 *)
(***************************************************************************)
EXTENDS Naturals, FiniteSets

CONSTANTS
    Binding,           \* IDs of bindings, never used twice
    Name,              \* FQDNs
    Address,           \* IPv6 addresses
    Unset,             \* no address, no record
    MaxRevision,       \* bound: revision of a binding
    MaxAttempt,        \* attempts of one task before it is given up (6 in the code)
    MaxRecord,         \* bound: records ever created at the provider
    MaxDNSFault        \* bound: requests to the provider that fail

ASSUME DomainBindingAssumption ==
    /\ MaxRevision \in Nat \ {0} /\ MaxAttempt \in Nat \ {0}
    /\ MaxRecord \in Nat /\ MaxDNSFault \in Nat
    /\ Unset \notin Address

VARIABLES
    bindings,      \* snapshot.Bindings
    tasks,         \* snapshot.Tasks
    records,       \* the provider's AAAA record of each name
    recordCount,   \* records ever created
    sweep,         \* Coordinator.RunOnce in flight
    creating,      \* Create between its preflight and its commit
    enabling,      \* Enable between its look at the provider and its commit
    dnsFaults

bindingVars == <<bindings, tasks, records, recordCount, sweep, creating, enabling, dnsFaults>>

RecordID == 1 .. MaxRecord
RecordOf == [id : RecordID, ip : Address]
BindingRecord == [state : {"none", "observing", "enabled", "disabled", "deleted"},
                  runtime : {"waiting_report", "pending", "syncing", "synced", "failed", "stale"},
                  name : Name \cup {Unset}, revision : 0 .. MaxRevision,
                  record : RecordID \cup {Unset}, ip : Address \cup {Unset},
                  desired : Address \cup {Unset}, applied : Address \cup {Unset}]
NoBinding == [state |-> "none", runtime |-> "waiting_report", name |-> Unset, revision |-> 0,
              record |-> Unset, ip |-> Unset, desired |-> Unset, applied |-> Unset]
Task == [binding : Binding, revision : 1 .. MaxRevision, desired : Address,
         status : {"pending", "syncing", "failed"}, attempts : 0 .. MaxAttempt]

\* What a provider call says: the record it saw, and how it failed.
SyncOutcome == [record : RecordID \cup {Unset}, ip : Address \cup {Unset},
            error : {"none", "retryable", "final"}]
ProviderAnswer(record, ip, error) == [record |-> record, ip |-> ip, error |-> error]
Nothing(error) == ProviderAnswer(Unset, Unset, error)

IdleSweep == [phase |-> "idle", view |-> [b \in Binding |-> NoBinding], left |-> {}, queue |-> {},
              task |-> Unset, outcome |-> Nothing("none")]
NoCreate == [name |-> Unset, record |-> Unset, ip |-> Unset]
NoEnable == [binding |-> Unset, revision |-> 0, record |-> Unset, ip |-> Unset]

BindingInit ==
    /\ bindings = [b \in Binding |-> NoBinding] /\ tasks = {}
    /\ records = [n \in Name |-> Unset] /\ recordCount = 0
    /\ sweep = IdleSweep /\ creating = NoCreate /\ enabling = NoEnable
    /\ dnsFaults = 0

Live(b) == bindings[b].state \notin {"none", "deleted"}
Active(t) == t.status \in {"pending", "syncing"}
ActiveOf(b) == {t \in tasks : t.binding = b /\ Active(t)}

DNSFault(bad) ==
    LET n == IF bad THEN 1 ELSE 0 IN dnsFaults + n <= MaxDNSFault /\ dnsFaults' = dnsFaults + n

\* Every commit moves the control plane's revision, which the commit of a Create in
\* flight expects unchanged: the Create is refused.
Commit(newBindings, newTasks) ==
    /\ bindings' = newBindings /\ tasks' = newTasks
    /\ creating' = NoCreate

NoCommit == UNCHANGED <<bindings, tasks, creating>>

----------------------------------------------------------------------------
(* The provider.                                                           *)

\* Client.Observe for a name, given the record the binding knows.
Observe(name, known) ==
    IF records[name] = Unset THEN Nothing("none")
    ELSE IF known # Unset /\ known # records[name].id THEN Nothing("final")
    ELSE ProviderAnswer(records[name].id, records[name].ip, "none")

\* Someone else publishes, changes or removes the record of a name.
OutsideWrite(n, a) ==
    /\ recordCount < MaxRecord /\ recordCount' = recordCount + 1
    /\ records' = [records EXCEPT ![n] = IF records[n] = Unset THEN [id |-> recordCount + 1, ip |-> a]
                                                               ELSE [records[n] EXCEPT !.ip = a]]
    /\ NoCommit /\ UNCHANGED <<sweep, enabling, dnsFaults>>

OutsideRemove(n) ==
    /\ records[n] # Unset /\ records' = [records EXCEPT ![n] = Unset]
    /\ NoCommit /\ UNCHANGED <<recordCount, sweep, enabling, dnsFaults>>

----------------------------------------------------------------------------
(* The operator's requests.                                                *)

NameFree(n) == \A b \in Binding : Live(b) => bindings[b].name # n

\* Create: Preflight.
PreflightBinding(n, bad) ==
    /\ creating = NoCreate /\ NameFree(n) /\ DNSFault(bad)
    /\ creating' = IF bad THEN NoCreate
                   ELSE [name |-> n, record |-> Observe(n, Unset).record, ip |-> Observe(n, Unset).ip]
    /\ UNCHANGED <<bindings, tasks, records, recordCount, sweep, enabling>>

\* IDs no binding has; which of them Create generates makes no difference.
FreshBindings == {b \in Binding : bindings[b].state = "none"}

\* Create: CreateDomainBinding.  A name with a record is only observed.
CreateBinding(b) ==
    /\ creating # NoCreate /\ b \in FreshBindings /\ NameFree(creating.name)
    /\ b = CHOOSE c \in FreshBindings : TRUE
    /\ Commit([bindings EXCEPT ![b] =
                  [NoBinding EXCEPT !.state = IF creating.record = Unset THEN "enabled" ELSE "observing",
                                    !.name = creating.name, !.revision = 1,
                                    !.record = creating.record, !.ip = creating.ip]],
              tasks)
    /\ UNCHANGED <<records, recordCount, sweep, enabling, dnsFaults>>

\* A mutation: what is queued stays queued.
Transition_KeepsTasks(b, state) ==
    Commit([bindings EXCEPT ![b].state = state, ![b].runtime = "waiting_report",
                            ![b].revision = bindings[b].revision + 1],
           tasks)

\* TransitionDomainBinding, at the revision the caller expects.
Transition(b, state) ==
    Commit([bindings EXCEPT ![b].state = state, ![b].runtime = "waiting_report",
                            ![b].revision = bindings[b].revision + 1],
           tasks \ ActiveOf(b))

CanMove(b) == Live(b) /\ bindings[b].revision < MaxRevision

\* Enable, the publisher confirmed: a look at the provider first.
BeginEnable(b, bad) ==
    LET seen == Observe(bindings[b].name, bindings[b].record) IN
    /\ enabling = NoEnable /\ CanMove(b) /\ DNSFault(bad)
    /\ enabling' = IF bad \/ seen.error # "none" \/ (bindings[b].state = "observing" /\ seen.record = Unset)
                   THEN NoEnable
                   ELSE [binding |-> b, revision |-> bindings[b].revision,
                         record |-> seen.record, ip |-> seen.ip]
    /\ NoCommit /\ UNCHANGED <<records, recordCount, sweep>>

\* A disabled binding takes over the record that was found.
Adopts ==
    /\ enabling # NoEnable /\ enabling.record # Unset
    /\ bindings[enabling.binding].state = "disabled"
    /\ bindings[enabling.binding].revision = enabling.revision

\* Enable: RecordObservation, which leaves the revision alone.
AdoptRecord ==
    /\ Adopts
    /\ Commit([bindings EXCEPT ![enabling.binding].record = enabling.record,
                               ![enabling.binding].ip = enabling.ip], tasks)
    /\ enabling' = [enabling EXCEPT !.record = Unset, !.ip = Unset]
    /\ UNCHANGED <<records, recordCount, sweep, dnsFaults>>

\* Enable: the transition, at the revision the caller expects.
FinishEnable ==
    /\ enabling # NoEnable /\ ~Adopts /\ enabling' = NoEnable
    /\ IF bindings[enabling.binding].revision = enabling.revision
       THEN Transition(enabling.binding, "enabled")
       ELSE NoCommit
    /\ UNCHANGED <<records, recordCount, sweep, dnsFaults>>

\* Disable and Delete.
StopBinding(b, state) ==
    /\ CanMove(b) /\ Transition(b, state)
    /\ UNCHANGED <<records, recordCount, sweep, enabling, dnsFaults>>

----------------------------------------------------------------------------
(* The sweep of the coordinator, one at a time.                            *)

SweepUnchanged == UNCHANGED <<records, recordCount, enabling>>

Swept == {b \in Binding : bindings[b].state \in {"observing", "enabled"}}
ViewOf(S) == [b \in Binding |-> IF b \in S THEN bindings[b] ELSE NoBinding]

\* RunOnce lists the bindings.
BeginSweep ==
    /\ sweep.phase = "idle"
    /\ sweep' = [IdleSweep EXCEPT !.phase = "visit", !.view = ViewOf(Swept), !.left = Swept]
    /\ NoCommit /\ SweepUnchanged /\ UNCHANGED dnsFaults

Visited(b) == sweep' = [sweep EXCEPT !.left = sweep.left \ {b}, !.view[b] = NoBinding]

\* A mutation: what was seen is stored whatever became of the binding.
RecordObservation_Anyway(b, revision, seen, runtime) ==
    Commit([bindings EXCEPT ![b].record = seen.record, ![b].ip = seen.ip, ![b].runtime = runtime], tasks)

\* UpdateDomainBindingObservation, at the revision that was listed.
RecordObservation(b, revision, seen, runtime) ==
    IF bindings[b].revision = revision
    THEN Commit([bindings EXCEPT ![b].record = seen.record, ![b].ip = seen.ip, ![b].runtime = runtime], tasks)
    ELSE NoCommit

\* A binding that is only observed; a look that fails forgets the record.
VisitObserving(b, bad) ==
    LET seen == IF bad THEN Nothing("retryable") ELSE Observe(sweep.view[b].name, sweep.view[b].record) IN
    /\ sweep.phase = "visit" /\ b \in sweep.left /\ sweep.view[b].state = "observing"
    /\ DNSFault(bad) /\ Visited(b)
    /\ RecordObservation(b, sweep.view[b].revision, seen,
                         IF seen.error = "none" THEN "waiting_report" ELSE "failed")
    /\ SweepUnchanged

VisitEnabled(b) ==
    /\ sweep.phase = "visit" /\ b \in sweep.left /\ sweep.view[b].state = "enabled"
    /\ Visited(b) /\ SweepUnchanged /\ UNCHANGED dnsFaults

\* The owner lost the permission on the source.
VisitUnauthorized(b) ==
    /\ VisitEnabled(b)
    /\ IF bindings[b].revision = sweep.view[b].revision
       THEN bindings[b].revision < MaxRevision /\ Transition(b, "disabled")
       ELSE NoCommit

\* A mutation: a new address does not end what the binding shows.
Queued_KeepsRuntime(b, a) == [bindings EXCEPT ![b].desired = a]

Queued(b, a) == [bindings EXCEPT ![b].desired = a, ![b].runtime = "pending"]

\* QueueReconcileTask: an active task for the same address serves, any other goes; a
\* task of this revision that was given up is replaced and counts from nothing.
VisitAddress(b, a) ==
    LET listed == sweep.view[b]
        fresh == [binding |-> b, revision |-> bindings[b].revision, desired |-> a,
                  status |-> "pending", attempts |-> 0]
        serves(t) == t.revision = bindings[b].revision /\ t.desired = a
        replaced(t) == t.binding = b /\ (Active(t) \/ t.revision = bindings[b].revision)
    IN
    /\ VisitEnabled(b)
    /\ IF /\ a # listed.applied \/ listed.runtime # "synced"
          /\ bindings[b].revision = listed.revision
       THEN IF \E t \in ActiveOf(b) : serves(t)
            THEN Commit(bindings, {t \in tasks : t \notin ActiveOf(b) \/ serves(t)})
            ELSE Commit(Queued(b, a), {t \in tasks : ~replaced(t)} \cup {fresh})
       ELSE NoCommit

\* The source has no address now.
VisitNoAddress(b) ==
    LET listed == sweep.view[b]
        runtime == IF listed.applied # Unset THEN "stale" ELSE "waiting_report"
    IN
    /\ VisitEnabled(b)
    /\ IF listed.runtime # runtime
       THEN RecordObservation(b, listed.revision, ProviderAnswer(listed.record, listed.ip, "none"), runtime)
       ELSE NoCommit

Current(t) == bindings[t.binding].state = "enabled" /\ bindings[t.binding].revision = t.revision

\* RecoverReconcileTasks; a task that failed before may not be due yet.
RecoverTasks(due) ==
    LET kept == {t \in tasks : Current(t)}
        again(t) == IF t.status = "syncing" THEN [t EXCEPT !.status = "pending"] ELSE t
        waiting == {t \in {again(k) : k \in kept} : t.status = "pending"}
    IN
    /\ sweep.phase = "visit" /\ sweep.left = {}
    /\ due \subseteq waiting /\ {t \in waiting : t.attempts = 0} \subseteq due
    /\ Commit(bindings, {again(t) : t \in kept})
    /\ sweep' = [IdleSweep EXCEPT !.phase = "process", !.queue = due]
    /\ SweepUnchanged /\ UNCHANGED dnsFaults

TaskNow(t) == {k \in tasks : k.binding = t.binding /\ k.revision = t.revision}

\* process: MarkReconcileTaskSyncing, and the look at the binding.
ProcessTask(t) ==
    /\ sweep.phase = "process" /\ t \in sweep.queue
    /\ IF TaskNow(t) # {} /\ Current(t)
       THEN /\ Commit([bindings EXCEPT ![t.binding].runtime = "syncing"],
                      {IF k \in TaskNow(t) THEN [k EXCEPT !.status = "syncing"] ELSE k : k \in tasks})
            /\ sweep' = [sweep EXCEPT !.phase = "apply", !.queue = sweep.queue \ {t}, !.task = t,
                                      !.view = ViewOf({t.binding})]
       ELSE /\ NoCommit
            /\ sweep' = [sweep EXCEPT !.queue = sweep.queue \ {t}]
    /\ SweepUnchanged /\ UNCHANGED dnsFaults

EndSweep ==
    /\ sweep.phase = "process" /\ sweep.queue = {} /\ sweep' = IdleSweep
    /\ NoCommit /\ SweepUnchanged /\ UNCHANGED dnsFaults

\* Apply: the record has to be the one the binding knows, or none for a new one.
\* "lost" is a write whose answer never came.
ApplyRecord(result) ==
    LET b == sweep.task.binding
        view == sweep.view[b]
        there == records[view.name]
        mine == IF view.record = Unset THEN there = Unset ELSE there # Unset /\ there.id = view.record
        writes == mine /\ result \in {"ok", "lost"}
        id == IF view.record = Unset THEN recordCount + 1 ELSE view.record
    IN
    /\ sweep.phase = "apply"
    /\ mine \/ result = "ok"
    /\ DNSFault(result # "ok")
    /\ writes /\ view.record = Unset => recordCount < MaxRecord
    /\ records' = IF writes THEN [records EXCEPT ![view.name] = [id |-> id, ip |-> view.desired]] ELSE records
    /\ recordCount' = IF writes /\ view.record = Unset THEN recordCount + 1 ELSE recordCount
    /\ sweep' = [sweep EXCEPT !.phase = IF writes /\ result = "ok" THEN "verify" ELSE "complete",
                              !.outcome = IF ~mine \/ result = "denied" THEN Nothing("final")
                                          ELSE IF result = "ok" THEN ProviderAnswer(id, view.desired, "none")
                                          ELSE Nothing("retryable")]
    /\ NoCommit /\ UNCHANGED <<enabling>>

\* Apply, two minutes later: the record is read again and the name looked up.  A name
\* that does not resolve yet is an error that still shows the record, and process
\* stores what it saw.
VerifyRecord(result) ==
    LET b == sweep.task.binding
        view == sweep.view[b]
        there == records[view.name]
        same == there # Unset /\ there = [id |-> sweep.outcome.record, ip |-> view.desired]
        seen == IF result = "unanswered" THEN Nothing("retryable")
                ELSE IF ~same THEN Nothing("final")
                ELSE IF result = "unresolved" THEN [sweep.outcome EXCEPT !.error = "retryable"]
                ELSE sweep.outcome
        stored == seen.error # "none" /\ seen.record # Unset
    IN
    /\ sweep.phase = "verify" /\ DNSFault(result # "ok")
    /\ same \/ result # "unresolved"
    /\ IF stored THEN RecordObservation(b, sweep.task.revision, seen, "failed") ELSE NoCommit
    /\ sweep' = IF stored /\ bindings[b].revision # sweep.task.revision
                THEN [IdleSweep EXCEPT !.phase = "process", !.queue = sweep.queue]
                ELSE [sweep EXCEPT !.phase = "complete", !.outcome = seen]
    /\ SweepUnchanged

ResultApplies(t) ==
    /\ TaskNow(t) # {} /\ Current(t)
    /\ \A k \in TaskNow(t) : k.desired = bindings[t.binding].desired

\* CompleteReconcileTask
CompleteTask ==
    LET t == sweep.task
        b == t.binding
        seen == sweep.outcome
        tries == [t EXCEPT !.attempts = t.attempts + 1,
                           !.status = IF seen.error = "retryable" /\ t.attempts + 1 < MaxAttempt
                                      THEN "pending" ELSE "failed"]
        others == tasks \ TaskNow(t)
    IN
    /\ sweep.phase = "complete"
    /\ sweep' = [IdleSweep EXCEPT !.phase = "process", !.queue = sweep.queue]
    /\ IF ~ResultApplies(t) THEN NoCommit
       ELSE IF seen.error = "none"
       THEN Commit([bindings EXCEPT ![b].record = seen.record, ![b].ip = seen.ip,
                                    ![b].applied = t.desired, ![b].runtime = "synced"], others)
       ELSE Commit([bindings EXCEPT ![b].runtime = "failed"], others \cup {tries})
    /\ SweepUnchanged /\ UNCHANGED dnsFaults

\* The process dies: requests and the sweep are gone, the control plane stays.
BindingCrash ==
    /\ sweep # IdleSweep \/ enabling # NoEnable \/ creating # NoCreate
    /\ sweep' = IdleSweep /\ enabling' = NoEnable /\ creating' = NoCreate
    /\ UNCHANGED <<bindings, tasks, records, recordCount, dnsFaults>>

----------------------------------------------------------------------------
OutsideStep == \E n \in Name : OutsideRemove(n) \/ \E a \in Address : OutsideWrite(n, a)

RequestStep ==
    \/ \E n \in Name, bad \in BOOLEAN : PreflightBinding(n, bad)
    \/ \E b \in Binding, bad \in BOOLEAN : BeginEnable(b, bad)
    \/ \E b \in Binding : CreateBinding(b)
    \/ AdoptRecord \/ FinishEnable
    \/ \E b \in Binding, state \in {"disabled", "deleted"} : StopBinding(b, state)

VisitStep(b) ==
    \/ \E bad \in BOOLEAN : VisitObserving(b, bad)
    \/ VisitUnauthorized(b) \/ VisitNoAddress(b)
    \/ \E a \in Address : VisitAddress(b, a)

SweepStep ==
    \/ BeginSweep
    \/ \E b \in Binding : VisitStep(b)
    \/ \E due \in SUBSET {[t EXCEPT !.status = "pending"] : t \in tasks} : RecoverTasks(due)
    \/ \E t \in sweep.queue : ProcessTask(t)
    \/ \E result \in {"ok", "lost", "unanswered", "denied"} : ApplyRecord(result)
    \/ \E result \in {"ok", "unresolved", "unanswered"} : VerifyRecord(result)
    \/ CompleteTask
    \/ EndSweep

BindingNext == RequestStep \/ SweepStep \/ OutsideStep \/ BindingCrash

BindingSpec == BindingInit /\ [][BindingNext]_bindingVars

----------------------------------------------------------------------------
(* Properties.                                                             *)

\* The type invariant.
BindingTypeOK ==
    /\ bindings \in [Binding -> BindingRecord] /\ tasks \in SUBSET Task
    /\ records \in [Name -> RecordOf \cup {Unset}] /\ recordCount \in 0 .. MaxRecord
    /\ sweep \in [phase : {"idle", "visit", "process", "apply", "verify", "complete"},
                  view : [Binding -> BindingRecord], left : SUBSET Binding, queue : SUBSET Task,
                  task : Task \cup {Unset}, outcome : SyncOutcome]
    /\ creating \in [name : Name \cup {Unset}, record : RecordID \cup {Unset}, ip : Address \cup {Unset}]
    /\ enabling \in [binding : Binding \cup {Unset}, revision : 0 .. MaxRevision,
                     record : RecordID \cup {Unset}, ip : Address \cup {Unset}]
    /\ dnsFaults \in 0 .. MaxDNSFault

\* Two bindings that live never share a name, however preflights, creations and
\* deletions interleave.
NameOnce ==
    \A b, c \in Binding : b # c /\ Live(b) /\ Live(c) => bindings[b].name # bindings[c].name

\* A binding has at most one active task, of its current revision and for the address
\* it wants: nothing that was queued survives a transition.
ActiveTaskIsCurrent ==
    \A b \in Binding :
        /\ Cardinality(ActiveOf(b)) <= 1
        /\ \A t \in ActiveOf(b) : Current(t) /\ t.desired = bindings[b].desired

\* The bindings and their tasks stay consistent: a name is given once, and what is
\* queued is for the present revision and address.
BindingInv ==
    /\ BindingTypeOK
    /\ NameOnce
    /\ ActiveTaskIsCurrent

\* Synced means that the provider confirmed the address the binding wants, never the
\* one of an earlier sweep.
SyncedIsConfirmed ==
    \A b \in Binding :
        bindings[b].runtime = "synced" =>
            /\ bindings[b].desired # Unset
            /\ bindings[b].applied = bindings[b].desired /\ bindings[b].ip = bindings[b].desired

\* Once a binding is stopped no result of a sweep that was under way shows in it.
StoppedStaysQuiet ==
    \A b \in Binding :
        bindings[b].state \in {"disabled", "deleted"} => bindings[b].runtime = "waiting_report"

\* A task that was given up, refused for good or tried too often, is not taken up again
\* for the same revision and address.
\* The code does not keep it: the next sweep queues the task anew, with no attempts.
GivenUpStaysGivenUp ==
    [][\A t \in tasks : t.status = "failed" =>
          ~\E k \in tasks' : /\ Active(k) /\ k.binding = t.binding
                             /\ k.revision = t.revision /\ k.desired = t.desired]_bindingVars

=============================================================================

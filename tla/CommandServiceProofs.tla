------------------------ MODULE CommandServiceProofs ------------------------
(***************************************************************************)
(* Theorems about CommandService for every set of commands, devices, kinds *)
(* and clients, every timeout and every retention bound.                   *)
(***************************************************************************)
EXTENDS CommandService, FiniteSetTheorems, TLAPS

-----------------------------------------------------------------------------
(* The records the operations store *)

\* NewCommand builds a command record, and so does Undrawn.
LEMMA NewCommandType ==
    /\ \A req \in Request : NewCommand(req) \in Command
    /\ Undrawn \in Command /\ Undrawn.status = "none" /\ Undrawn.rev = 0
<1>1. ASSUME NEW req \in Request PROVE NewCommand(req) \in Command
  BY KindAssumption DEF Request, NewCommand, Command, Status, InFlightStatus, ProjectionStatus
<1>2. \E r \in Request : TRUE
  <2>1. PICK k \in Kind, d \in Device, g \in Digest : TRUE
    BY RequestAssumption
  <2>2. [kind |-> k, device |-> d, key |-> NoKey, digest |-> g] \in Request
    BY DEF Request
  <2> QED BY <2>2
<1>3. (CHOOSE r \in Request : TRUE) \in Request
  BY <1>2
<1>4. NewCommand(CHOOSE r \in Request : TRUE) \in Command
  BY <1>1, <1>3
<1>5. Undrawn \in Command /\ Undrawn.status = "none" /\ Undrawn.rev = 0
  BY <1>4 DEF Undrawn, Command, Status, GoneStatus
<1> QED BY <1>1, <1>5

\* Transition, AppendLateAck, UpdateProjection, UpdateProgress,
\* InterruptNonTerminal and write() store command records.
LEMMA StoredType ==
    ASSUME NEW c \in Command
    PROVE  /\ \A to \in Status, ack \in Ack \cup {NoAck}, at \in Nat :
                 Transitioned(c, to, ack, at) \in Command
           /\ \A ack \in Ack : WithLateAck(c, ack) \in Command
           /\ \A p \in ProjectionStatus : WithProjection(c, p) \in Command
           /\ \A n \in Nat : WithProgress(c, n) \in Command
           /\ \A at \in Nat : Interrupted(c, at) \in Command
           /\ Pruned(c) \in Command
<1>0. c.rev + 1 \in Nat /\ c.projRev + 1 \in Nat
  BY DEF Command
<1>1. ASSUME NEW to \in Status, NEW ack \in Ack \cup {NoAck}, NEW at \in Nat
      PROVE  Transitioned(c, to, ack, at) \in Command
  <2> DEFINE rev == c.rev + 1
             acceptBy == IF to = "dispatching" THEN at + AcceptTimeout ELSE c.acceptBy
             finishBy == IF to = "accepted" THEN at + FinishTimeout ELSE c.finishBy
             finalAck == IF to \in FinalStatus THEN ack ELSE c.finalAck
             outcomeRev == IF to \in FinalStatus THEN rev ELSE c.outcomeRev
             finishedAt == IF to \in TerminalStatus THEN at ELSE c.finishedAt
  <2>1. /\ rev \in Nat /\ acceptBy \in Nat /\ finishBy \in Nat
        /\ outcomeRev \in Nat /\ finishedAt \in Nat /\ finalAck \in Ack \cup {NoAck}
    BY TimeoutAssumption DEF Command
  <2> DEFINE c1 == [c EXCEPT !.status = to, !.rev = rev]
             c2 == [c1 EXCEPT !.acceptBy = acceptBy, !.finishBy = finishBy]
             c3 == [c2 EXCEPT !.finalAck = finalAck, !.outcomeRev = outcomeRev]
  <2>2. Transitioned(c, to, ack, at) = [c3 EXCEPT !.finishedAt = finishedAt]
    BY Zenon DEF Transitioned
  <2> HIDE DEF rev, acceptBy, finishBy, finalAck, outcomeRev, finishedAt
  <2>3. c1 \in Command
    BY <2>1 DEF Command
  <2> HIDE DEF c1
  <2>4. c2 \in Command
    BY <2>1, <2>3 DEF Command
  <2> HIDE DEF c2
  <2>5. c3 \in Command
    BY <2>1, <2>4 DEF Command
  <2> HIDE DEF c3
  <2>6. [c3 EXCEPT !.finishedAt = finishedAt] \in Command
    BY <2>1, <2>5 DEF Command
  <2> QED BY <2>2, <2>6
<1>2. ASSUME NEW ack \in Ack PROVE WithLateAck(c, ack) \in Command
  <2>1. \A n \in Nat : [c EXCEPT !.lateAcks = {ack}, !.rev = n] \in Command
    BY DEF Command
  <2> QED BY <1>0, <2>1, Zenon DEF WithLateAck
<1>3. ASSUME NEW p \in ProjectionStatus PROVE WithProjection(c, p) \in Command
  <2>1. \A m, n \in Nat : [c EXCEPT !.proj = p, !.projRev = m, !.rev = n] \in Command
    BY DEF Command
  <2> QED BY <1>0, <2>1, Zenon DEF WithProjection
<1>4. ASSUME NEW n \in Nat PROVE WithProgress(c, n) \in Command
  <2>1. \A m \in Nat : [c EXCEPT !.progress = n, !.rev = m] \in Command
    BY DEF Command
  <2> QED BY <1>0, <2>1, Zenon DEF WithProgress
<1>5. ASSUME NEW at \in Nat PROVE Interrupted(c, at) \in Command
  <2>1. "interrupted" \in Status
    BY DEF Status, TerminalStatus, AuditStatus
  <2>2. \A s \in Status, n \in Nat :
           [c EXCEPT !.status = s, !.rev = n, !.finishedAt = at] \in Command
    BY DEF Command
  <2> QED BY <1>0, <2>1, <2>2, Zenon DEF Interrupted
<1>6. Pruned(c) \in Command
  BY DEF Pruned, Command, Status, GoneStatus
<1> QED BY <1>1, <1>2, <1>3, <1>4, <1>5, <1>6

\* A write stores the records it is given, except that it may drop closed ones.
LEMMA WriteFacts ==
    ASSUME NEW cmds \in [ID -> Command], Write(cmds)
    PROVE  /\ commands' \in [ID -> Command]
           /\ \A id \in ID : \/ commands'[id] = cmds[id]
                             \/ Terminal(cmds[id]) /\ commands'[id] = Pruned(cmds[id])
<1>1. PICK drop \in PruneSets(cmds, now) : commands' = Without(cmds, drop)
  BY DEF Write
<1>2. \A id \in drop : id \in ID /\ Terminal(cmds[id])
  BY DEF PruneSets, PruneCandidates
<1>3. \A id \in ID : Pruned(cmds[id]) \in Command
  BY StoredType
<1> QED BY <1>1, <1>2, <1>3 DEF Without

-----------------------------------------------------------------------------
(* Type correctness *)

\* What a client carries after its Get is a call record.
LEMMA CarryType ==
    ASSUME TypeOK, NEW op \in Op, NEW id \in ID
    PROVE  /\ Carry(op, id) \in Call
           /\ \A to \in Status : [Carry(op, id) EXCEPT !.to = to] \in Call
           /\ \A p \in ProjectionStatus : [Carry(op, id) EXCEPT !.proj = p] \in Call
           /\ \A n \in Nat, x \in {"reply", "finish", "project"} :
                 [Carry(op, id) EXCEPT !.seq = n, !.next = x] \in Call
<1>1. commands[id].rev \in Nat /\ now \in Nat
  BY DEF TypeOK, Command
<1>2. Carry(op, id) \in Call
  BY <1>1 DEF Carry, Call, Status, GoneStatus, ProjectionStatus
<1>3. ASSUME NEW c \in Call
      PROVE  /\ \A to \in Status : [c EXCEPT !.to = to] \in Call
             /\ \A p \in ProjectionStatus : [c EXCEPT !.proj = p] \in Call
             /\ \A n \in Nat, x \in {"reply", "finish", "project"} :
                   [c EXCEPT !.seq = n, !.next = x] \in Call
  BY DEF Call
<1> HIDE DEF Carry
<1> QED BY <1>2, <1>3, Zenon

\* The call Service.Finish leads to.
LEMMA FinishCallType ==
    ASSUME TypeOK, NEW id \in ID, NEW ack \in Ack,
           NEW next \in {"reply", "finish", "project"}
    PROVE  /\ FinishCall(id, ack, next) \in Call \cup {NoCall}
           /\ FinishCall(id, ack, next) # NoCall => CarriesAck(FinishCall(id, ack, next))
<1> DEFINE call == [Carry("transition", id) EXCEPT !.to = ack.status, !.ack = ack, !.next = next]
<1>1. ack.status \in Status
  BY DEF Ack, Status, TerminalStatus
<1>2. call \in Call /\ [call EXCEPT !.op = "project"] \in Call
               /\ [call EXCEPT !.op = "late_ack", !.next = "reply"] \in Call
  <2>1. "transition" \in Op /\ "project" \in Op /\ "late_ack" \in Op
    BY DEF Op
  <2>2. Carry("transition", id) \in Call
    BY <2>1, CarryType
  <2>3. call \in Call
    BY <1>1, <2>2 DEF Call
  <2> HIDE DEF call
  <2> QED BY <2>1, <2>3 DEF Call
<1>3. /\ call.op = "transition"
      /\ [call EXCEPT !.op = "project"].op = "project"
      /\ [call EXCEPT !.op = "late_ack", !.next = "reply"].ack = ack
  <2>1. Carry("transition", id).op = "transition" /\ Carry("transition", id) \in Call
    BY CarryType DEF Carry, Op
  <2> QED BY <2>1, <1>2 DEF Call
<1> HIDE DEF call
<1>4. FinishCall(id, ack, next) \in {call, [call EXCEPT !.op = "project"],
            [call EXCEPT !.op = "late_ack", !.next = "reply"], NoCall}
  BY Zenon DEF FinishCall, call
<1> QED BY <1>2, <1>3, <1>4 DEF CarriesAck

\* The handler's next stage is a call or none.
LEMMA ContinueType ==
    ASSUME TypeOK, NEW c \in Client, NEW ok \in BOOLEAN, calls[c] # NoCall, Continue(c, ok)
    PROVE  /\ calls' \in [Client -> Call \cup {NoCall}]
           /\ \A x \in Client : calls'[x] # NoCall => CarriesAck(calls'[x])
<1>1. calls[c] \in Call
  BY DEF TypeOK
<1>2. \A o \in Op : /\ [calls[c] EXCEPT !.op = o, !.next = "reply"] \in Call
                   /\ [calls[c] EXCEPT !.op = o, !.next = "reply"].op = o
  BY <1>1 DEF Call
<1>3. calls[c].next \in {"reply", "finish", "project"}
  BY <1>1 DEF Call
<1>4. CASE calls[c].next = "reply"
  BY <1>4 DEF Continue, TypeOK
<1>5. CASE calls[c].next \in {"finish", "project"}
  <2>1. calls[c].next \in Op
    BY <1>5 DEF Op
  <2> QED BY <2>1, <1>2, <1>5 DEF Continue, TypeOK, CarriesAck
<1> QED BY <1>3, <1>4, <1>5

\* The second half of an operation stores a command record.
LEMMA StoreType ==
    ASSUME TypeOK, NEW c \in Client, NEW cmd \in Command, NEW ok \in BOOLEAN,
           calls[c] # NoCall, Store(c, cmd, ok)
    PROVE  TypeOK'
<1>1. calls[c].id \in ID
  BY DEF TypeOK, Call
<1>2. [commands EXCEPT ![calls[c].id] = cmd] \in [ID -> Command]
  BY <1>1 DEF TypeOK
<1>3. commands' \in [ID -> Command]
  BY <1>2, WriteFacts DEF Store, TypeOK
<1>4. /\ calls' \in [Client -> Call \cup {NoCall}]
      /\ \A x \in Client : calls'[x] # NoCall => CarriesAck(calls'[x])
  BY ContinueType DEF Store
<1> QED BY <1>3, <1>4 DEF Store, TypeOK

\* A refused repository call keeps the types.
LEMMA RefusedType ==
    ASSUME TypeOK, NEW c \in Client, calls[c] # NoCall, Refused(c, FALSE)
    PROVE  TypeOK'
BY ContinueType DEF Refused, TypeOK

\* The first half of an operation keeps the types.
LEMMA BeginType ==
    ASSUME TypeOK, NEW c \in Client, NEW call \in Call \cup {NoCall},
           call # NoCall => CarriesAck(call), Begin(c, call)
    PROVE  TypeOK'
BY DEF Begin, TypeOK

\* The lists Expire works through are sequences of command IDs.
LEMMA ExpiredListType ==
    ASSUME NEW list \in ExpiredLists(commands, now)
    PROVE  /\ \E n \in Nat : DOMAIN list = 1..n
           /\ \A i \in DOMAIN list : list[i] \in ID /\ Expired(commands[list[i]], now)
<1> DEFINE due == {id \in ID : Expired(commands[id], now)}
           n == IF Cardinality(due) < SweepLimit THEN Cardinality(due) ELSE SweepLimit
<1>1. IsFiniteSet(due)
  BY FiniteAssumption, FS_Subset
<1>2. Cardinality(due) \in Nat
  BY <1>1, FS_CardinalityType
<1>3. n \in Nat
  BY <1>2, TimeoutAssumption
<1>4. list \in [1..n -> due]
  BY DEF ExpiredLists
<1> QED BY <1>3, <1>4

\* Every step keeps the types.
LEMMA TypeStep == ASSUME TypeOK, [Next]_vars PROVE TypeOK'
<1>1. ASSUME NEW req \in Request, NEW id \in ID, Create(req, id) PROVE TypeOK'
  <2>1. [commands EXCEPT ![id] = NewCommand(req)] \in [ID -> Command]
    BY NewCommandType DEF TypeOK
  <2>2. commands' \in [ID -> Command]
    BY <2>1, <1>1, WriteFacts DEF Create
  <2> QED BY <2>2, <1>1 DEF Create, TypeOK
<1>2. ASSUME NEW c \in Client, ClientBegin(c) PROVE TypeOK'
  <2>1. ASSUME NEW id \in ID, NEW to \in Status, BeginTransition(c, id, to) PROVE TypeOK'
    <3>1. /\ [Carry("transition", id) EXCEPT !.to = to] \in Call
          /\ [Carry("transition", id) EXCEPT !.to = to].op # "late_ack"
      BY CarryType DEF Op, Carry
    <3> QED BY <2>1, <3>1, BeginType DEF BeginTransition, CarriesAck
  <2>2. {"dispatching", "dispatched", "queued", "legacy_untracked", "accepted", "canceled"}
           \subseteq Status
    BY DEF Status, TerminalStatus, InFlightStatus, AuditStatus
  <2>3. ASSUME NEW id \in ID, NEW n \in Progress, NEW b \in BOOLEAN, UpdateProgress(c, id, n, b)
        PROVE  TypeOK'
    <3>1. n \in Nat
      BY BoundAssumption
    <3> DEFINE call == [Carry("progress", id) EXCEPT
                           !.seq = n, !.next = IF b THEN "finish" ELSE "reply"]
    <3>2. call \in Call
      BY <3>1, CarryType DEF Op
    <3>3. call.op # "late_ack"
      BY DEF Carry
    <3> QED BY <2>3, <3>2, <3>3, BeginType DEF UpdateProgress, CarriesAck
  <2>4. ASSUME NEW id \in ID, NEW ack \in Ack, Finish(c, id, ack) PROVE TypeOK'
    BY <2>4, FinishCallType, BeginType DEF Finish
  <2>5. ASSUME FinishConverged(c) PROVE TypeOK'
    <3>1. calls[c].id \in ID
      BY <2>5 DEF FinishConverged, TypeOK, Call
    <3>2. [status |-> "succeeded", result |-> Converged] \in Ack
      BY RequestAssumption DEF Ack, FinalStatus
    <3> QED BY <2>5, <3>1, <3>2, FinishCallType, BeginType DEF FinishConverged
  <2>6. ASSUME NEW p \in ProjectionStatus, Project(c, p) PROVE TypeOK'
    <3>1. calls[c].id \in ID
      BY <2>6 DEF Project, TypeOK, Call
    <3>2. /\ [Carry("mark", calls[c].id) EXCEPT !.proj = p] \in Call
          /\ [Carry("mark", calls[c].id) EXCEPT !.proj = p].op # "late_ack"
      BY <3>1, CarryType DEF Op, Carry
    <3> QED BY <2>6, <3>2, BeginType DEF Project, CarriesAck
  <2> QED BY <1>2, <2>1, <2>2, <2>3, <2>4, <2>5, <2>6
       DEF ClientBegin, StartDispatch, DispatchResult, Requeue, MarkLegacy, Accept, Cancel
<1>3. ASSUME NEW c \in Client, ClientCommit(c) PROVE TypeOK'
  <2> PICK written \in BOOLEAN :
          \/ CommitTransition(c, written) \/ CommitLateAck(c, written)
          \/ CommitProgress(c, written) \/ CommitProjection(c, written)
    BY <1>3 DEF ClientCommit
  <2> DEFINE call == calls[c]
             cmd == commands[call.id]
  <2>1. call # NoCall
    BY DEF CommitTransition, CommitLateAck, CommitProgress, CommitProjection
  <2>2. call \in Call
    BY <2>1 DEF TypeOK
  <2>3. cmd \in Command
    BY <2>2 DEF TypeOK, Call
  <2>4. CASE CommitTransition(c, written)
    <3>1. Transitioned(cmd, call.to, call.ack, call.at) \in Command
      BY <2>2, <2>3, StoredType DEF Call
    <3> QED BY <2>1, <2>4, <3>1, StoreType, RefusedType DEF CommitTransition
  <2>5. CASE CommitLateAck(c, written)
    <3>1. call.ack \in Ack
      BY <2>1, <2>5 DEF CommitLateAck, TypeOK, CarriesAck
    <3>2. WithLateAck(cmd, call.ack) \in Command
      BY <3>1, <2>3, StoredType
    <3> QED BY <2>1, <2>5, <3>2, StoreType, RefusedType DEF CommitLateAck
  <2>6. CASE CommitProgress(c, written)
    <3>1. WithProgress(cmd, call.seq) \in Command
      BY <2>2, <2>3, StoredType DEF Call
    <3> QED BY <2>1, <2>6, <3>1, StoreType, RefusedType DEF CommitProgress
  <2>7. CASE CommitProjection(c, written)
    <3>1. WithProjection(cmd, call.proj) \in Command
      BY <2>2, <2>3, StoredType DEF Call
    <3> QED BY <2>1, <2>7, <3>1, StoreType, RefusedType DEF CommitProjection
  <2> QED BY <2>4, <2>5, <2>6, <2>7
<1>4. ASSUME NEW s \in Sweeper, SweepList(s) PROVE TypeOK'
  <2>1. PICK list \in ExpiredLists(commands, now) :
          sweep' = [sweep EXCEPT ![s] =
                      [i \in DOMAIN list |-> [id |-> list[i], rev |-> commands[list[i]].rev]]]
    BY <1>4 DEF SweepList
  <2>2. PICK n \in Nat : DOMAIN list = 1..n
    BY ExpiredListType
  <2>3. \A i \in 1..n : [id |-> list[i], rev |-> commands[list[i]].rev] \in Due
    BY <2>2, ExpiredListType DEF TypeOK, Command, Due
  <2>4. [i \in 1..n |-> [id |-> list[i], rev |-> commands[list[i]].rev]] \in Seq(Due)
    BY <2>3
  <2> QED BY <1>4, <2>1, <2>2, <2>4 DEF SweepList, TypeOK
<1>5. ASSUME NEW s \in Sweeper, NEW written \in BOOLEAN, SweepStep(s, written) PROVE TypeOK'
  <2> DEFINE due == Head(sweep[s])
             cmd == commands[due.id]
  <2>1. sweep[s] \in Seq(Due) /\ sweep[s] # <<>>
    BY <1>5 DEF SweepStep, TypeOK
  <2>2. due \in Due /\ Tail(sweep[s]) \in Seq(Due) /\ <<>> \in Seq(Due)
    BY <2>1
  <2>3. sweep' \in [Sweeper -> Seq(Due)]
    BY <1>5, <2>2 DEF SweepStep, TypeOK
  <2>4. due.id \in ID /\ cmd \in Command
    BY <2>2 DEF Due, TypeOK
  <2>5. Transitioned(cmd, "timed_out", NoAck, now) \in Command
    BY <2>4, StoredType DEF TypeOK, Status, TerminalStatus, AuditStatus
  <2>6. [commands EXCEPT ![due.id] = Transitioned(cmd, "timed_out", NoAck, now)] \in [ID -> Command]
    BY <2>4, <2>5 DEF TypeOK
  <2>7. commands' \in [ID -> Command]
    BY <1>5, <2>6, WriteFacts DEF SweepStep, TypeOK
  <2> QED BY <1>5, <2>3, <2>7 DEF SweepStep, TypeOK
<1>6. ASSUME Crash PROVE TypeOK'
  BY <1>6 DEF Crash, TypeOK
<1>7. ASSUME Boot PROVE TypeOK'
  <2>1. [id \in ID |-> Interrupted(commands[id], now)] \in [ID -> Command]
    BY StoredType DEF TypeOK
  <2>2. commands' \in [ID -> Command]
    BY <1>7, <2>1, WriteFacts DEF Boot, TypeOK
  <2> QED BY <1>7, <2>2 DEF Boot, TypeOK
<1>8. ASSUME NEW marked \in SUBSET ProjectionPending(commands),
             NEW p \in [marked -> {"applied", "failed"}], Serve(marked, p)
      PROVE  TypeOK'
  <2> DEFINE cmds == [id \in ID |-> IF id \in marked THEN WithProjection(commands[id], p[id])
                                                      ELSE commands[id]]
  <2>1. \A id \in marked : p[id] \in ProjectionStatus
    BY DEF ProjectionStatus
  <2>2. cmds \in [ID -> Command]
    BY <2>1, StoredType DEF TypeOK
  <2> HIDE DEF cmds
  <2>3. commands' \in [ID -> Command]
    <3>1. CASE marked = {}
      BY <1>8, <3>1 DEF Serve, TypeOK
    <3>2. CASE marked # {}
      <4>1. Write(cmds)
        BY <1>8, <3>2 DEF Serve, cmds
      <4> QED BY <4>1, <2>2, WriteFacts
    <3> QED BY <3>1, <3>2
  <2> QED BY <1>8, <2>3 DEF Serve, TypeOK
<1>9. ASSUME Tick PROVE TypeOK'
  BY <1>9 DEF Tick, TypeOK
<1>10. ASSUME UNCHANGED vars PROVE TypeOK'
  BY <1>10 DEF vars, TypeOK
<1> QED BY <1>1, <1>2, <1>3, <1>4, <1>5, <1>6, <1>7, <1>8, <1>9, <1>10 DEF Next

\* Type correctness: every reachable state is well typed, whatever the
\* handlers, the sweepers and the crashes do.
THEOREM TypeCorrect == Spec => []TypeOK
<1>1. Init => TypeOK
  BY NewCommandType DEF Init, TypeOK
<1>2. TypeOK /\ [Next]_vars => TypeOK'
  BY TypeStep
<1> QED BY <1>1, <1>2, PTL DEF Spec

-----------------------------------------------------------------------------
(* How a record evolves *)

\* What any step but Create may do to the record of one command: it keeps
\* its request, an absent command stays absent, a closed one stays closed
\* with its outcome or is dropped, and a change moves the revision on.
Evolves(c, d) ==
    /\ d.kind = c.kind /\ d.device = c.device /\ d.key = c.key /\ d.digest = c.digest
    /\ Live(d) => Live(c)
    /\ InFlight(d) => InFlight(c)
    /\ Terminal(c) =>
          \/ d.status = "pruned"
          \/ /\ d.status = c.status /\ d.finalAck = c.finalAck
             /\ d.outcomeRev = c.outcomeRev /\ d.finishedAt = c.finishedAt
    /\ c.status # "none" => d.status # "none"
    /\ d.rev >= c.rev
    /\ d = c \/ d.rev > c.rev \/ ~Live(d)

\* Every operation of the repository on a stored record evolves it.
LEMMA StoredEvolves ==
    ASSUME NEW c \in Command
    PROVE  /\ Evolves(c, c)
           /\ \A to \in Status, ack \in Ack \cup {NoAck}, at \in Nat :
                 Live(c) /\ valid(c.status, to) /\ c.status # to
                 => Evolves(c, Transitioned(c, to, ack, at))
           /\ \A ack \in Ack : Evolves(c, WithLateAck(c, ack))
           /\ \A p \in ProjectionStatus : Evolves(c, WithProjection(c, p))
           /\ \A n \in Nat : Evolves(c, WithProgress(c, n))
           /\ \A at \in Nat : Evolves(c, Interrupted(c, at))
<1> USE DEF Live, InFlight, Terminal
<1>0. c.rev \in Nat /\ c.rev + 1 > c.rev /\ c.rev + 1 >= c.rev
  BY DEF Command
<1>1. Evolves(c, c)
  BY <1>0 DEF Evolves
<1>2. ASSUME NEW to \in Status, NEW ack \in Ack \cup {NoAck}, NEW at \in Nat,
             Live(c), valid(c.status, to), c.status # to
      PROVE  Evolves(c, Transitioned(c, to, ack, at))
  <2> DEFINE d == Transitioned(c, to, ack, at)
  <2>1. /\ d.kind = c.kind /\ d.device = c.device /\ d.key = c.key /\ d.digest = c.digest
        /\ d.status = to /\ d.rev = c.rev + 1
    BY DEF Transitioned, Command
  <2>2. c.status \in InFlightStatus /\ c.status \notin TerminalStatus
    BY <1>2 DEF valid, InFlightStatus, TerminalStatus, FinalStatus, AuditStatus
  <2>3. to # "none"
    BY <1>2 DEF valid, FinalStatus, AuditStatus
  <2> HIDE DEF d
  <2>4. Evolves(c, d)
    BY <2>1, <2>2, <2>3, <1>0, <1>2 DEF Evolves
  <2> QED BY <2>4 DEF d
<1>3. ASSUME NEW d, d.rev = c.rev + 1, d.status = c.status,
             d.kind = c.kind, d.device = c.device, d.key = c.key, d.digest = c.digest,
             d.finalAck = c.finalAck, d.outcomeRev = c.outcomeRev, d.finishedAt = c.finishedAt
      PROVE  Evolves(c, d)
  BY <1>0, <1>3 DEF Evolves
<1>4. ASSUME NEW ack \in Ack PROVE Evolves(c, WithLateAck(c, ack))
  <2> DEFINE d == [c EXCEPT !.lateAcks = {ack}, !.rev = c.rev + 1]
  <2>1. /\ d.rev = c.rev + 1 /\ d.status = c.status
        /\ d.kind = c.kind /\ d.device = c.device /\ d.key = c.key /\ d.digest = c.digest
        /\ d.finalAck = c.finalAck /\ d.outcomeRev = c.outcomeRev /\ d.finishedAt = c.finishedAt
    BY DEF Command
  <2>2. WithLateAck(c, ack) = c \/ WithLateAck(c, ack) = d
    BY Zenon DEF WithLateAck
  <2> HIDE DEF d
  <2> QED BY <2>1, <2>2, <1>1, <1>3
<1>5. ASSUME NEW p \in ProjectionStatus PROVE Evolves(c, WithProjection(c, p))
  <2> DEFINE d == WithProjection(c, p)
  <2>1. /\ d.rev = c.rev + 1 /\ d.status = c.status
        /\ d.kind = c.kind /\ d.device = c.device /\ d.key = c.key /\ d.digest = c.digest
        /\ d.finalAck = c.finalAck /\ d.outcomeRev = c.outcomeRev /\ d.finishedAt = c.finishedAt
    BY DEF Command, WithProjection
  <2> HIDE DEF d
  <2>2. Evolves(c, d)
    BY <2>1, <1>3
  <2> QED BY <2>2 DEF d
<1>6. ASSUME NEW n \in Nat PROVE Evolves(c, WithProgress(c, n))
  <2> DEFINE d == WithProgress(c, n)
  <2>1. /\ d.rev = c.rev + 1 /\ d.status = c.status
        /\ d.kind = c.kind /\ d.device = c.device /\ d.key = c.key /\ d.digest = c.digest
        /\ d.finalAck = c.finalAck /\ d.outcomeRev = c.outcomeRev /\ d.finishedAt = c.finishedAt
    BY DEF Command, WithProgress
  <2> HIDE DEF d
  <2>2. Evolves(c, d)
    BY <2>1, <1>3
  <2> QED BY <2>2 DEF d
<1>7. ASSUME NEW at \in Nat PROVE Evolves(c, Interrupted(c, at))
  <2>1. CASE ~InFlight(c)
    BY <2>1, <1>1 DEF Interrupted
  <2>2. CASE InFlight(c)
    <3> DEFINE d == Interrupted(c, at)
    <3>1. /\ d.rev = c.rev + 1 /\ d.status = "interrupted"
          /\ d.kind = c.kind /\ d.device = c.device /\ d.key = c.key /\ d.digest = c.digest
      BY <2>2 DEF Command, Interrupted
    <3>2. /\ c.status \notin TerminalStatus /\ c.status \notin GoneStatus
          /\ "interrupted" \notin InFlightStatus
      BY <2>2 DEF InFlightStatus, TerminalStatus, GoneStatus, FinalStatus, AuditStatus
    <3> HIDE DEF d
    <3>3. Evolves(c, d)
      BY <1>0, <3>1, <3>2 DEF Evolves
    <3> QED BY <3>3 DEF d
  <2> QED BY <2>1, <2>2
<1> QED BY <1>1, <1>2, <1>4, <1>5, <1>6, <1>7

\* The pruning of write() evolves the records too.
LEMMA WriteEvolves ==
    ASSUME TypeOK, NEW cmds \in [ID -> Command], Write(cmds),
           \A id \in ID : Evolves(commands[id], cmds[id])
    PROVE  \A id \in ID : Evolves(commands[id], commands'[id])
<1> SUFFICES ASSUME NEW id \in ID PROVE Evolves(commands[id], commands'[id])
  OBVIOUS
<1> DEFINE c == commands[id]
           d == cmds[id]
           e == Pruned(d)
<1>1. CASE commands'[id] = d
  BY <1>1
<1>2. CASE Terminal(d) /\ commands'[id] = e
  <2>1. d \in Command
    OBVIOUS
  <2>2. /\ e.kind = d.kind /\ e.device = d.device /\ e.key = d.key /\ e.digest = d.digest
        /\ e.status = "pruned" /\ e.rev = d.rev
    BY <2>1 DEF Pruned, Command
  <2>3. Evolves(c, d)
    OBVIOUS
  <2> HIDE DEF c, d, e
  <2>4. Evolves(c, e)
    BY <2>2, <2>3 DEF Evolves, Live, InFlight, GoneStatus, InFlightStatus
  <2> QED BY <1>2, <2>4 DEF c, e
<1> QED BY <1>1, <1>2, WriteFacts

\* A handler's second half that stores an evolved record.
LEMMA StoreEvolves ==
    ASSUME TypeOK, NEW c \in Client, calls[c] \in Call, NEW cmd \in Command, NEW ok \in BOOLEAN,
           Store(c, cmd, ok), Evolves(commands[calls[c].id], cmd)
    PROVE  \A id \in ID : Evolves(commands[id], commands'[id])
<1>1. calls[c].id \in ID /\ commands \in [ID -> Command]
  BY DEF TypeOK, Call
<1>2. \A id \in ID : Evolves(commands[id], commands[id])
  BY <1>1, StoredEvolves
<1>3. CASE ok
  <2> DEFINE cmds == [commands EXCEPT ![calls[c].id] = cmd]
  <2>1. cmds \in [ID -> Command] /\ \A id \in ID : Evolves(commands[id], cmds[id])
    BY <1>1, <1>2
  <2>2. Write(cmds)
    BY <1>3 DEF Store
  <2> HIDE DEF cmds
  <2> QED BY <2>1, <2>2, WriteEvolves
<1>4. CASE ~ok
  BY <1>2, <1>4 DEF Store
<1> QED BY <1>3, <1>4

\* Every step but the creation of a command evolves every record.
LEMMA StepEvolves ==
    ASSUME TypeOK, [Next]_vars
    PROVE  \/ \E req \in Request, id \in ID : Create(req, id)
           \/ \A id \in ID : Evolves(commands[id], commands'[id])
<1> DEFINE Goal == \A id \in ID : Evolves(commands[id], commands'[id])
<1>0. commands \in [ID -> Command] /\ now \in Nat
  BY DEF TypeOK
<1>1. ASSUME UNCHANGED commands PROVE Goal
  BY <1>0, <1>1, StoredEvolves
<1>2. ASSUME NEW c \in Client, ClientBegin(c) PROVE UNCHANGED commands
  BY <1>2 DEF ClientBegin, StartDispatch, DispatchResult, Requeue, MarkLegacy, Accept, Cancel,
      BeginTransition, UpdateProgress, Finish, FinishConverged, Project, Begin
<1>3. ASSUME NEW c \in Client, ClientCommit(c) PROVE Goal
  <2> PICK written \in BOOLEAN :
          \/ CommitTransition(c, written) \/ CommitLateAck(c, written)
          \/ CommitProgress(c, written) \/ CommitProjection(c, written)
    BY <1>3 DEF ClientCommit
  <2> DEFINE call == calls[c]
             cmd == commands[call.id]
  <2>1. call # NoCall
    BY DEF CommitTransition, CommitLateAck, CommitProgress, CommitProjection
  <2>2. call \in Call
    BY <2>1 DEF TypeOK
  <2>3. cmd \in Command
    BY <2>2 DEF TypeOK, Call
  <2>4. ASSUME NEW d \in Command, Evolves(cmd, d), Store(c, d, written) PROVE Goal
    BY <2>2, <2>4, StoreEvolves
  <2>5. ASSUME Refused(c, FALSE) PROVE Goal
    BY <2>5, <1>1 DEF Refused
  <2>6. CASE CommitTransition(c, written)
    <3> DEFINE d == Transitioned(cmd, call.to, call.ack, call.at)
    <3>0. call.to \in Status /\ call.ack \in Ack \cup {NoAck} /\ call.at \in Nat
      BY <2>2 DEF Call
    <3>1. d \in Command
      BY <3>0, <2>3, StoredType
    <3>2. CASE Applies(cmd, call.rev, call.to)
      <4>1. Evolves(cmd, d)
        BY <3>0, <3>2, <2>3, StoredEvolves DEF Applies, Current
      <4>2. Store(c, d, written)
        BY <2>6, <3>2 DEF CommitTransition
      <4> HIDE DEF d
      <4> QED BY <3>1, <4>1, <4>2, <2>4
    <3>3. CASE ~Applies(cmd, call.rev, call.to)
      BY <2>6, <3>3, <2>5 DEF CommitTransition
    <3> QED BY <3>2, <3>3
  <2>7. CASE CommitLateAck(c, written)
    <3>1. call.ack \in Ack
      BY <2>1, <2>7 DEF CommitLateAck, TypeOK, CarriesAck
    <3>2. WithLateAck(cmd, call.ack) \in Command /\ Evolves(cmd, WithLateAck(cmd, call.ack))
      BY <3>1, <2>3, StoredType, StoredEvolves
    <3> QED BY <2>7, <3>2, <2>4, <2>5 DEF CommitLateAck
  <2>8. CASE CommitProgress(c, written)
    <3>1. WithProgress(cmd, call.seq) \in Command /\ Evolves(cmd, WithProgress(cmd, call.seq))
      BY <2>2, <2>3, StoredType, StoredEvolves DEF Call
    <3> QED BY <2>8, <3>1, <2>4, <2>5 DEF CommitProgress
  <2>9. CASE CommitProjection(c, written)
    <3>1. WithProjection(cmd, call.proj) \in Command /\ Evolves(cmd, WithProjection(cmd, call.proj))
      BY <2>2, <2>3, StoredType, StoredEvolves DEF Call
    <3> QED BY <2>9, <3>1, <2>4, <2>5 DEF CommitProjection
  <2> QED BY <2>6, <2>7, <2>8, <2>9
<1>4. ASSUME NEW s \in Sweeper, NEW written \in BOOLEAN, SweepStep(s, written) PROVE Goal
  <2> DEFINE due == Head(sweep[s])
             cmd == commands[due.id]
             d == Transitioned(cmd, "timed_out", NoAck, now)
             cmds == [commands EXCEPT ![due.id] = d]
  <2>1. due \in Due
    BY <1>4 DEF SweepStep, TypeOK
  <2>2. due.id \in ID /\ cmd \in Command
    BY <2>1, <1>0 DEF Due
  <2>3. "timed_out" \in Status
    BY DEF Status, TerminalStatus, AuditStatus
  <2>4. CASE Applies(cmd, due.rev, "timed_out") /\ written
    <3>1. d \in Command
      BY <1>0, <2>2, <2>3, StoredType
    <3>2. Evolves(cmd, d)
      BY <1>0, <2>2, <2>3, <2>4, StoredEvolves DEF Applies, Current
    <3>3. Write(cmds)
      BY <1>4, <2>4 DEF SweepStep
    <3> HIDE DEF d
    <3>4. cmds \in [ID -> Command] /\ \A id \in ID : Evolves(commands[id], cmds[id])
      BY <3>1, <3>2, <1>0, <2>2, StoredEvolves
    <3> HIDE DEF cmds
    <3> QED BY <3>3, <3>4, WriteEvolves
  <2>5. CASE ~(Applies(cmd, due.rev, "timed_out") /\ written)
    BY <1>4, <2>5, <1>1 DEF SweepStep
  <2> QED BY <2>4, <2>5
<1>5. ASSUME Boot PROVE Goal
  <2> DEFINE cmds == [id \in ID |-> Interrupted(commands[id], now)]
  <2>1. cmds \in [ID -> Command] /\ \A id \in ID : Evolves(commands[id], cmds[id])
    BY <1>0, StoredType, StoredEvolves
  <2>2. Write(cmds) \/ UNCHANGED commands
    BY <1>5 DEF Boot
  <2> HIDE DEF cmds
  <2> QED BY <2>1, <2>2, <1>1, WriteEvolves
<1>6. ASSUME NEW marked \in SUBSET ProjectionPending(commands),
             NEW p \in [marked -> {"applied", "failed"}], Serve(marked, p)
      PROVE  Goal
  <2> DEFINE cmds == [id \in ID |-> IF id \in marked THEN WithProjection(commands[id], p[id])
                                                      ELSE commands[id]]
  <2>1. \A id \in marked : p[id] \in ProjectionStatus
    BY DEF ProjectionStatus
  <2>2. cmds \in [ID -> Command] /\ \A id \in ID : Evolves(commands[id], cmds[id])
    BY <1>0, <2>1, StoredType, StoredEvolves
  <2>3. Write(cmds) \/ UNCHANGED commands
    BY <1>6 DEF Serve
  <2> HIDE DEF cmds
  <2> QED BY <2>2, <2>3, <1>1, WriteEvolves
<1>7. ASSUME \/ UNCHANGED vars \/ Crash \/ Tick \/ \E s \in Sweeper : SweepList(s)
      PROVE  UNCHANGED commands
  BY <1>7 DEF vars, Crash, Tick, SweepList
<1> HIDE DEF Goal
<1> QED BY <1>1, <1>2, <1>3, <1>4, <1>5, <1>6, <1>7 DEF Next, Goal

\* What Create does: the new record appears, the others stay or are dropped.
LEMMA CreateFacts ==
    ASSUME TypeOK, NEW req \in Request, NEW id \in ID, Create(req, id)
    PROVE  /\ commands[id].status = "none"
           /\ commands'[id] = NewCommand(req)
           /\ \A x \in ID \ {id} :
                 \/ commands'[x] = commands[x]
                 \/ Terminal(commands[x]) /\ commands'[x] = Pruned(commands[x])
           /\ \A x \in ID : Live(commands[x]) =>
                 ~SameKey(commands[x], req) /\ ~SlotTaken(commands[x], req)
<1> DEFINE cmds == [commands EXCEPT ![id] = NewCommand(req)]
<1>1. cmds \in [ID -> Command]
  BY NewCommandType DEF TypeOK
<1>2. Write(cmds)
  BY DEF Create
<1>3. /\ cmds[id] = NewCommand(req)
      /\ \A x \in ID \ {id} : cmds[x] = commands[x]
  BY DEF TypeOK
<1>4. ~Terminal(NewCommand(req))
  BY DEF Terminal, NewCommand, TerminalStatus, FinalStatus, AuditStatus
<1> HIDE DEF cmds
<1>5. ASSUME NEW x \in ID
      PROVE  \/ commands'[x] = cmds[x]
             \/ Terminal(cmds[x]) /\ commands'[x] = Pruned(cmds[x])
  BY <1>1, <1>2, WriteFacts
<1>6. \A x \in ID : Live(commands[x]) =>
          ~SameKey(commands[x], req) /\ ~SlotTaken(commands[x], req)
  <2>1. CreateStops(commands, req) = {}
    BY DEF Create
  <2> QED BY <2>1, Zenon DEF CreateStops
<1> QED BY <1>3, <1>4, <1>5, <1>6 DEF Create

\* A dropped record is neither in flight nor on record, and NewCommand keeps
\* the request.
LEMMA RecordFacts ==
    /\ \A c \in Command : ~Live(Pruned(c)) /\ ~InFlight(Pruned(c)) /\ ~Terminal(Pruned(c))
                           /\ Pruned(c).status = "pruned" /\ Pruned(c).rev = c.rev
    /\ \A c : InFlight(c) => Live(c)
    /\ \A req \in Request :
          LET c == NewCommand(req) IN
          /\ c.kind = req.kind /\ c.device = req.device /\ c.key = req.key
          /\ c.status = "queued" /\ c.rev = 1
<1>1. ASSUME NEW c \in Command
      PROVE  ~Live(Pruned(c)) /\ ~InFlight(Pruned(c)) /\ ~Terminal(Pruned(c))
             /\ Pruned(c).status = "pruned" /\ Pruned(c).rev = c.rev
  <2>1. Pruned(c).status = "pruned" /\ Pruned(c).rev = c.rev
    BY DEF Pruned, Command
  <2> QED BY <2>1 DEF Live, InFlight, Terminal, GoneStatus, InFlightStatus,
       TerminalStatus, FinalStatus, AuditStatus
<1>2. ASSUME NEW c, InFlight(c) PROVE Live(c)
  BY <1>2 DEF InFlight, Live, InFlightStatus, GoneStatus
<1>3. ASSUME NEW req \in Request
      PROVE  LET c == NewCommand(req) IN
             /\ c.kind = req.kind /\ c.device = req.device /\ c.key = req.key
             /\ c.status = "queued" /\ c.rev = 1
  BY DEF NewCommand
<1> QED BY <1>1, <1>2, <1>3

-----------------------------------------------------------------------------
(* Safety *)

\* At every time, at most one command in flight occupies a slot of a device:
\* one per kind, and no shutdown beside an upgrade (CreateOrGet).
THEOREM SlotsExclusive == Spec => []SlotExclusive
<1>1. Init => SlotExclusive
  BY NewCommandType DEF Init, SlotExclusive, InFlight, InFlightStatus
<1>2. TypeOK /\ SlotExclusive /\ [Next]_vars => SlotExclusive'
  <2> SUFFICES ASSUME TypeOK, SlotExclusive, [Next]_vars,
                      NEW a \in ID, NEW b \in ID, a # b,
                      InFlight(commands'[a]), InFlight(commands'[b]),
                      commands'[a].device = commands'[b].device
               PROVE  ~Excludes(commands'[a].kind, commands'[b].kind)
    BY DEF SlotExclusive
  <2>1. ASSUME NEW req \in Request, NEW id \in ID, Create(req, id)
        PROVE  ~Excludes(commands'[a].kind, commands'[b].kind)
    <3>1. ASSUME NEW x \in ID, x # id, InFlight(commands'[x])
          PROVE  /\ commands'[x] = commands[x] /\ InFlight(commands[x])
                 /\ ~SlotTaken(commands[x], req)
      BY <2>1, <3>1, CreateFacts, RecordFacts DEF TypeOK
    <3>2. commands'[id].kind = req.kind /\ commands'[id].device = req.device
      BY <2>1, CreateFacts, RecordFacts
    <3>3. CASE a = id
      BY <3>1, <3>2, <3>3 DEF SlotTaken, Excludes
    <3>4. CASE b = id
      BY <3>1, <3>2, <3>4 DEF SlotTaken
    <3>5. CASE a # id /\ b # id
      BY <3>1, <3>5 DEF SlotExclusive
    <3> QED BY <3>3, <3>4, <3>5
  <2>2. ASSUME \A id \in ID : Evolves(commands[id], commands'[id])
        PROVE  ~Excludes(commands'[a].kind, commands'[b].kind)
    BY <2>2 DEF Evolves, SlotExclusive
  <2> QED BY <2>1, <2>2, StepEvolves
<1> QED BY <1>1, <1>2, TypeCorrect, PTL DEF Spec

\* At every time, an idempotency key names at most one command on record
\* (CreateOrGet), through prunes and restarts.
THEOREM KeysNameOne == Spec => []KeyNamesOne
<1>1. Init => KeyNamesOne
  BY NewCommandType DEF Init, KeyNamesOne, Live, GoneStatus
<1>2. TypeOK /\ KeyNamesOne /\ [Next]_vars => KeyNamesOne'
  <2> SUFFICES ASSUME TypeOK, KeyNamesOne, [Next]_vars,
                      NEW a \in ID, NEW b \in ID, a # b,
                      Live(commands'[a]), Live(commands'[b]), commands'[a].key # NoKey
               PROVE  ~SameKey(commands'[a], commands'[b])
    BY DEF KeyNamesOne
  <2>1. ASSUME NEW req \in Request, NEW id \in ID, Create(req, id)
        PROVE  ~SameKey(commands'[a], commands'[b])
    <3>1. ASSUME NEW x \in ID, x # id, Live(commands'[x])
          PROVE  /\ commands'[x] = commands[x] /\ Live(commands[x])
                 /\ ~SameKey(commands[x], req)
      BY <2>1, <3>1, CreateFacts, RecordFacts DEF TypeOK
    <3>2. /\ commands'[id].kind = req.kind /\ commands'[id].device = req.device
          /\ commands'[id].key = req.key
      BY <2>1, CreateFacts, RecordFacts
    <3>3. CASE a = id
      BY <3>1, <3>2, <3>3 DEF SameKey
    <3>4. CASE b = id
      BY <3>1, <3>2, <3>4 DEF SameKey
    <3>5. CASE a # id /\ b # id
      BY <3>1, <3>5 DEF KeyNamesOne
    <3> QED BY <3>3, <3>4, <3>5
  <2>2. ASSUME \A id \in ID : Evolves(commands[id], commands'[id])
        PROVE  ~SameKey(commands'[a], commands'[b])
    BY <2>2 DEF Evolves, KeyNamesOne, SameKey
  <2> QED BY <2>1, <2>2, StepEvolves
<1> QED BY <1>1, <1>2, TypeCorrect, PTL DEF Spec

\* A closed command keeps its status and its outcome in every step, whatever
\* handler or sweeper read it before it was closed (Transition).
THEOREM OutcomesFrozen == Spec => ClosedForGood
<1> DEFINE Kept == \A id \in ID : Terminal(commands[id]) =>
                \/ commands'[id].status = "pruned"
                \/ /\ commands'[id].status = commands[id].status
                   /\ commands'[id].finalAck = commands[id].finalAck
                   /\ commands'[id].outcomeRev = commands[id].outcomeRev
                   /\ commands'[id].finishedAt = commands[id].finishedAt
<1>1. TypeOK /\ [Next]_vars => [Kept]_vars
  <2> SUFFICES ASSUME TypeOK, [Next]_vars PROVE Kept
    OBVIOUS
  <2>1. ASSUME NEW req \in Request, NEW id \in ID, Create(req, id) PROVE Kept
    <3>1. ~Terminal(commands[id])
      BY <2>1, CreateFacts DEF Terminal, TerminalStatus, FinalStatus, AuditStatus
    <3> QED BY <2>1, <3>1, CreateFacts, RecordFacts DEF TypeOK
  <2>2. ASSUME \A id \in ID : Evolves(commands[id], commands'[id]) PROVE Kept
    BY <2>2 DEF Evolves
  <2> QED BY <2>1, <2>2, StepEvolves
<1> QED BY <1>1, TypeCorrect, PTL DEF Spec, ClosedForGood

-----------------------------------------------------------------------------
(* A sweep never closes a command early *)

\* What a sweeper knows of a command it listed: as long as the command is
\* still at the revision that was listed, its deadline has passed.
StillDue(due, cmds, t) ==
    /\ cmds[due.id].status # "none"
    /\ cmds[due.id].rev >= due.rev
    /\ Current(cmds[due.id], due.rev) => Expired(cmds[due.id], t)

SweepsKnow == \A s \in Sweeper : \A i \in DOMAIN sweep[s] : StillDue(sweep[s][i], commands, now)

\* No handler asks for timed_out: only the sweepers do.
ClientsNeverTimeOut ==
    \A c \in Client : calls[c] # NoCall /\ calls[c].op = "transition" => calls[c].to # "timed_out"

\* Only Tick moves the clock.
LEMMA ClockStep == ASSUME TypeOK, [Next]_vars PROVE now' \in Nat /\ now <= now'
<1>1. ASSUME NEW c \in Client, ClientBegin(c) PROVE UNCHANGED now
  BY <1>1 DEF ClientBegin, StartDispatch, DispatchResult, Requeue, MarkLegacy, Accept, Cancel,
      BeginTransition, UpdateProgress, Finish, FinishConverged, Project, Begin
<1>2. ASSUME NEW c \in Client, ClientCommit(c) PROVE UNCHANGED now
  BY <1>2 DEF ClientCommit, CommitTransition, CommitLateAck, CommitProgress, CommitProjection,
      Store, Refused
<1>3. \/ Tick \/ UNCHANGED now
  BY <1>1, <1>2 DEF Next, vars, Create, SweepList, SweepStep, Crash, Boot, Serve
<1> QED BY <1>3 DEF Tick, TypeOK

\* A step of any actor leaves what a sweeper knows true.
LEMMA StillDueStep ==
    ASSUME TypeOK, [Next]_vars, NEW due \in Due, StillDue(due, commands, now)
    PROVE  StillDue(due, commands', now')
<1> DEFINE c == commands[due.id]
           d == commands'[due.id]
<1>1. due.id \in ID /\ due.rev \in Nat /\ c \in Command
  BY DEF Due, TypeOK
<1>2. now \in Nat /\ now' \in Nat /\ now <= now'
  BY ClockStep DEF TypeOK
<1>3. Expired(c, now) => Expired(c, now')
  BY <1>1, <1>2 DEF Expired, Deadline, Command
<1>4. CASE \E req \in Request, id \in ID : Create(req, id)
  <2> PICK req \in Request, id \in ID : Create(req, id)
    BY <1>4
  <2>1. due.id # id
    BY CreateFacts DEF StillDue
  <2>2. d = c \/ d = Pruned(c)
    BY <1>1, <2>1, CreateFacts
  <2> HIDE DEF c, d
  <2>3. d = c \/ (d.status = "pruned" /\ d.rev = c.rev /\ ~Live(d))
    BY <1>1, <2>2, RecordFacts
  <2> QED BY <1>3, <2>3 DEF StillDue, Current, c, d
<1>5. CASE \A id \in ID : Evolves(commands[id], commands'[id])
  <2>1. Evolves(c, d)
    BY <1>1, <1>5
  <2>2. TypeOK'
    BY TypeStep
  <2>3. d.rev \in Nat /\ c.rev \in Nat
    BY <1>1, <2>2 DEF TypeOK, Command
  <2> QED BY <1>1, <1>3, <2>1, <2>3 DEF Evolves, StillDue, Current
<1> QED BY <1>4, <1>5, StepEvolves

\* The first half of an operation never leads to timed_out.
LEMMA ClientsNeverTimeOutStep ==
    ASSUME TypeOK, ClientsNeverTimeOut, [Next]_vars
    PROVE  ClientsNeverTimeOut'
<1>1. ASSUME NEW c \in Client, NEW call \in Call \cup {NoCall}, Begin(c, call),
             call # NoCall /\ call.op = "transition" => call.to # "timed_out"
      PROVE  ClientsNeverTimeOut'
  BY <1>1 DEF Begin, ClientsNeverTimeOut, TypeOK
<1>2. ASSUME NEW c \in Client, ClientBegin(c) PROVE ClientsNeverTimeOut'
  <2>1. ASSUME NEW id \in ID, NEW to \in Status, to # "timed_out", BeginTransition(c, id, to)
        PROVE  ClientsNeverTimeOut'
    <3> DEFINE call == [Carry("transition", id) EXCEPT !.to = to]
    <3>1. call \in Call /\ call.to = to
      <4>1. Carry("transition", id) \in Call
        BY CarryType DEF Op
      <4> QED BY <4>1 DEF Call
    <3> HIDE DEF call
    <3> QED BY <2>1, <3>1, <1>1 DEF BeginTransition, call
  <2>2. {"dispatching", "dispatched", "queued", "legacy_untracked", "accepted", "canceled"}
           \subseteq Status \ {"timed_out"}
    BY DEF Status, TerminalStatus, InFlightStatus, AuditStatus
  <2>3. ASSUME NEW id \in ID, NEW n \in Progress, NEW b \in BOOLEAN, UpdateProgress(c, id, n, b)
        PROVE  ClientsNeverTimeOut'
    <3> DEFINE call == [Carry("progress", id) EXCEPT
                           !.seq = n, !.next = IF b THEN "finish" ELSE "reply"]
    <3>1. n \in Nat
      BY BoundAssumption
    <3>2. call \in Call /\ call.op = "progress"
      BY <3>1, CarryType DEF Op, Carry
    <3> HIDE DEF call
    <3> QED BY <2>3, <3>2, <1>1 DEF UpdateProgress, call
  <2>4. ASSUME NEW id \in ID, NEW ack \in Ack, NEW next \in {"reply", "finish", "project"},
               Begin(c, FinishCall(id, ack, next))
        PROVE  ClientsNeverTimeOut'
    <3>1. FinishCall(id, ack, next) \in Call \cup {NoCall}
      BY FinishCallType
    <3>2. FinishCall(id, ack, next) # NoCall => FinishCall(id, ack, next).to = ack.status
      <4>1. Carry("transition", id) \in Call
        BY CarryType DEF Op
      <4> DEFINE call == [Carry("transition", id) EXCEPT
                             !.to = ack.status, !.ack = ack, !.next = next]
      <4>2. /\ call.to = ack.status
            /\ [call EXCEPT !.op = "project"].to = ack.status
            /\ [call EXCEPT !.op = "late_ack", !.next = "reply"].to = ack.status
        BY <4>1 DEF Call
      <4> HIDE DEF call
      <4>3. FinishCall(id, ack, next) \in {call, [call EXCEPT !.op = "project"],
                [call EXCEPT !.op = "late_ack", !.next = "reply"], NoCall}
        BY Zenon DEF FinishCall, call
      <4> QED BY <4>2, <4>3
    <3>3. ack.status # "timed_out"
      BY DEF Ack, FinalStatus
    <3> QED BY <2>4, <3>1, <3>2, <3>3, <1>1
  <2>5. ASSUME FinishConverged(c) PROVE ClientsNeverTimeOut'
    <3>1. calls[c].id \in ID
      BY <2>5 DEF FinishConverged, TypeOK, Call
    <3>2. [status |-> "succeeded", result |-> Converged] \in Ack
      BY RequestAssumption DEF Ack, FinalStatus
    <3> QED BY <2>5, <3>1, <3>2, <2>4 DEF FinishConverged
  <2>6. ASSUME NEW p \in ProjectionStatus, Project(c, p) PROVE ClientsNeverTimeOut'
    <3> DEFINE call == [Carry("mark", calls[c].id) EXCEPT !.proj = p]
    <3>1. calls[c].id \in ID
      BY <2>6 DEF Project, TypeOK, Call
    <3>2. call \in Call /\ call.op = "mark"
      BY <3>1, CarryType DEF Op, Carry
    <3>3. Begin(c, call) \/ Begin(c, NoCall)
      BY <2>6 DEF Project
    <3> HIDE DEF call
    <3> QED BY <3>2, <3>3, <1>1
  <2> QED BY <1>2, <2>1, <2>2, <2>3, <2>4, <2>5, <2>6
       DEF ClientBegin, StartDispatch, DispatchResult, Requeue, MarkLegacy, Accept, Cancel, Finish
<1>3. ASSUME NEW c \in Client, ClientCommit(c) PROVE ClientsNeverTimeOut'
  <2>1. calls[c] # NoCall /\ \E ok \in BOOLEAN : Continue(c, ok)
    BY <1>3 DEF ClientCommit, CommitTransition, CommitLateAck, CommitProgress, CommitProjection,
        Store, Refused
  <2>2. calls[c] \in Call
    BY <2>1 DEF TypeOK
  <2>3. \A o \in {"finish", "project"} :
            [calls[c] EXCEPT !.op = o, !.next = "reply"].op # "transition"
    BY <2>2 DEF Call
  <2>4. calls' \in [Client -> Call \cup {NoCall}] /\ \A x \in Client \ {c} : calls'[x] = calls[x]
    BY <2>1, ContinueType DEF Continue, TypeOK
  <2>5. calls'[c] = NoCall \/ calls'[c].op # "transition"
    BY <2>1, <2>3 DEF Continue, TypeOK
  <2> QED BY <2>4, <2>5 DEF ClientsNeverTimeOut
<1>4. ASSUME Crash PROVE ClientsNeverTimeOut'
  BY <1>4 DEF Crash, ClientsNeverTimeOut
<1>5. ASSUME UNCHANGED calls PROVE ClientsNeverTimeOut'
  BY <1>5 DEF ClientsNeverTimeOut
<1> QED BY <1>2, <1>3, <1>4, <1>5
     DEF Next, vars, Create, SweepList, SweepStep, Boot, Serve, Tick

\* A command becomes timed_out only in the turn of a sweep that found it at
\* the revision it had listed.
LEMMA OnlySweepsTimeOut ==
    ASSUME TypeOK, ClientsNeverTimeOut, [Next]_vars, NEW id \in ID,
           commands[id].status # "timed_out", commands'[id].status = "timed_out"
    PROVE  \E s \in Sweeper : /\ sweep[s] # <<>> /\ Head(sweep[s]).id = id
                              /\ Current(commands[id], Head(sweep[s]).rev)
<1>0. commands \in [ID -> Command] /\ now \in Nat
  BY DEF TypeOK
<1>1. ASSUME NEW cmds \in [ID -> Command], Write(cmds) PROVE cmds[id].status = "timed_out"
  <2>1. commands'[id] = cmds[id] \/ commands'[id] = Pruned(cmds[id])
    BY <1>1, WriteFacts
  <2> QED BY <1>1, <2>1, RecordFacts
<1>2. commands' # commands
  OBVIOUS
<1>3. ASSUME NEW req \in Request, NEW x \in ID, Create(req, x) PROVE FALSE
  <2>1. x = id => commands'[id].status = "queued"
    BY <1>3, CreateFacts, RecordFacts
  <2>2. x # id => commands'[id] = commands[id] \/ commands'[id] = Pruned(commands[id])
    BY <1>3, CreateFacts
  <2> QED BY <1>0, <2>1, <2>2, RecordFacts
<1>4. ASSUME NEW c \in Client, ClientBegin(c) PROVE FALSE
  BY <1>4, <1>2 DEF ClientBegin, StartDispatch, DispatchResult, Requeue, MarkLegacy, Accept,
      Cancel, BeginTransition, UpdateProgress, Finish, FinishConverged, Project, Begin
<1>5. ASSUME NEW c \in Client, ClientCommit(c) PROVE FALSE
  <2> PICK written \in BOOLEAN :
          \/ CommitTransition(c, written) \/ CommitLateAck(c, written)
          \/ CommitProgress(c, written) \/ CommitProjection(c, written)
    BY <1>5 DEF ClientCommit
  <2> DEFINE call == calls[c]
             cmd == commands[call.id]
  <2>1. call # NoCall
    BY DEF CommitTransition, CommitLateAck, CommitProgress, CommitProjection
  <2>2. call \in Call /\ cmd \in Command /\ call.id \in ID
    BY <2>1 DEF TypeOK, Call
  <2>3. ASSUME NEW d \in Command, Store(c, d, written), d.status # "timed_out" \/ d.status = cmd.status
        PROVE  FALSE
    <3>1. Write([commands EXCEPT ![call.id] = d])
      BY <2>3, <1>2 DEF Store
    <3>2. [commands EXCEPT ![call.id] = d] \in [ID -> Command]
      BY <1>0, <2>2
    <3>3. [commands EXCEPT ![call.id] = d][id].status = "timed_out"
      BY <3>1, <3>2, <1>1
    <3> QED BY <3>3, <2>3, <1>0, <2>2
  <2>4. ~Refused(c, FALSE)
    BY <1>2 DEF Refused
  <2>5. CASE CommitTransition(c, written)
    <3> DEFINE d == Transitioned(cmd, call.to, call.ack, call.at)
    <3>1. d \in Command
      BY <2>2, StoredType DEF Call
    <3>2. d.status = call.to
      BY <2>2 DEF Transitioned, Command
    <3>3. call.to # "timed_out"
      BY <2>1, <2>5 DEF CommitTransition, ClientsNeverTimeOut
    <3>4. Store(c, d, written)
      BY <2>4, <2>5 DEF CommitTransition
    <3> HIDE DEF d
    <3> QED BY <3>1, <3>2, <3>3, <3>4, <2>3
  <2>6. CASE CommitLateAck(c, written)
    <3>1. call.ack \in Ack
      BY <2>1, <2>6 DEF CommitLateAck, TypeOK, CarriesAck
    <3>2. WithLateAck(cmd, call.ack) \in Command
      BY <3>1, <2>2, StoredType
    <3>3. WithLateAck(cmd, call.ack).status = cmd.status
      BY <2>2 DEF WithLateAck, Command
    <3> QED BY <2>4, <2>6, <3>2, <3>3, <2>3 DEF CommitLateAck
  <2>7. CASE CommitProgress(c, written)
    <3>1. WithProgress(cmd, call.seq) \in Command
      BY <2>2, StoredType DEF Call
    <3>2. WithProgress(cmd, call.seq).status = cmd.status
      BY <2>2 DEF WithProgress, Command
    <3> QED BY <2>4, <2>7, <3>1, <3>2, <2>3 DEF CommitProgress
  <2>8. CASE CommitProjection(c, written)
    <3>1. WithProjection(cmd, call.proj) \in Command
      BY <2>2, StoredType DEF Call
    <3>2. WithProjection(cmd, call.proj).status = cmd.status
      BY <2>2 DEF WithProjection, Command
    <3> QED BY <2>4, <2>8, <3>1, <3>2, <2>3 DEF CommitProjection
  <2> QED BY <2>5, <2>6, <2>7, <2>8
<1>6. ASSUME Boot PROVE FALSE
  <2> DEFINE cmds == [x \in ID |-> Interrupted(commands[x], now)]
  <2>1. cmds \in [ID -> Command]
    BY <1>0, StoredType
  <2>2. Write(cmds)
    BY <1>6, <1>2 DEF Boot
  <2>3. Interrupted(commands[id], now).status \in {commands[id].status, "interrupted"}
    BY <1>0 DEF Interrupted, Command
  <2>4. cmds[id].status # "timed_out"
    BY <2>3
  <2> HIDE DEF cmds
  <2> QED BY <2>1, <2>2, <2>4, <1>1
<1>7. ASSUME NEW marked \in SUBSET ProjectionPending(commands),
             NEW p \in [marked -> {"applied", "failed"}], Serve(marked, p)
      PROVE  FALSE
  <2> DEFINE cmds == [x \in ID |-> IF x \in marked THEN WithProjection(commands[x], p[x])
                                                    ELSE commands[x]]
  <2>1. \A x \in marked : p[x] \in ProjectionStatus
    BY DEF ProjectionStatus
  <2>2. cmds \in [ID -> Command]
    BY <1>0, <2>1, StoredType
  <2>3. Write(cmds)
    BY <1>7, <1>2 DEF Serve
  <2>4. WithProjection(commands[id], p[id]).status = commands[id].status
    BY <1>0 DEF WithProjection, Command
  <2>5. cmds[id].status # "timed_out"
    BY <2>4
  <2> HIDE DEF cmds
  <2> QED BY <2>2, <2>3, <2>5, <1>1
<1>8. ASSUME NEW s \in Sweeper, NEW written \in BOOLEAN, SweepStep(s, written)
      PROVE  /\ sweep[s] # <<>> /\ Head(sweep[s]).id = id
             /\ Current(commands[id], Head(sweep[s]).rev)
  <2> DEFINE due == Head(sweep[s])
             cmd == commands[due.id]
             d == Transitioned(cmd, "timed_out", NoAck, now)
  <2>1. due \in Due /\ sweep[s] # <<>>
    BY <1>8 DEF SweepStep, TypeOK
  <2>2. due.id \in ID /\ cmd \in Command
    BY <2>1, <1>0 DEF Due
  <2>3. Applies(cmd, due.rev, "timed_out") /\ Write([commands EXCEPT ![due.id] = d])
    BY <1>8, <1>2 DEF SweepStep
  <2>4. d \in Command
    BY <2>2, <1>0, StoredType DEF Status, TerminalStatus, AuditStatus
  <2> HIDE DEF d
  <2>5. [commands EXCEPT ![due.id] = d][id].status = "timed_out"
    BY <1>0, <2>2, <2>3, <2>4, <1>1
  <2>6. due.id = id
    BY <1>0, <2>5
  <2> QED BY <2>1, <2>3, <2>6 DEF Applies
<1>9. ASSUME UNCHANGED vars \/ Crash \/ Tick \/ \E s \in Sweeper : SweepList(s) PROVE FALSE
  BY <1>9, <1>2 DEF vars, Crash, Tick, SweepList
<1> QED BY <1>3, <1>4, <1>5, <1>6, <1>7, <1>8, <1>9 DEF Next

\* The sweepers' knowledge is an invariant.
LEMMA SweepsKnowStep ==
    ASSUME TypeOK, SweepsKnow, [Next]_vars
    PROVE  SweepsKnow'
<1>1. \A s \in Sweeper : \A i \in DOMAIN sweep[s] : StillDue(sweep[s][i], commands', now')
  <2>1. \A s \in Sweeper : \A i \in DOMAIN sweep[s] : sweep[s][i] \in Due
    BY DEF TypeOK
  <2> QED BY <2>1, StillDueStep DEF SweepsKnow
<1>2. ASSUME NEW s \in Sweeper, SweepList(s) PROVE SweepsKnow'
  <2>1. PICK list \in ExpiredLists(commands, now) :
          sweep' = [sweep EXCEPT ![s] =
                      [i \in DOMAIN list |-> [id |-> list[i], rev |-> commands[list[i]].rev]]]
    BY <1>2 DEF SweepList
  <2>2. ASSUME NEW i \in DOMAIN list
        PROVE  StillDue([id |-> list[i], rev |-> commands[list[i]].rev], commands, now)
    <3>1. list[i] \in ID /\ Expired(commands[list[i]], now)
      BY ExpiredListType
    <3>2. commands[list[i]].status # "none" /\ commands[list[i]].rev \in Nat
      BY <3>1 DEF Expired, InFlight, InFlightStatus, TypeOK, Command
    <3> QED BY <3>1, <3>2 DEF StillDue
  <2>3. UNCHANGED <<commands, now>>
    BY <1>2 DEF SweepList
  <2> QED BY <2>1, <2>2, <2>3 DEF SweepsKnow, TypeOK
<1>3. ASSUME NEW s \in Sweeper, NEW written \in BOOLEAN, SweepStep(s, written) PROVE SweepsKnow'
  <2>1. sweep[s] \in Seq(Due) /\ sweep[s] # <<>>
    BY <1>3 DEF SweepStep, TypeOK
  <2>2. \A i \in DOMAIN Tail(sweep[s]) :
            i + 1 \in DOMAIN sweep[s] /\ Tail(sweep[s])[i] = sweep[s][i + 1]
    BY <2>1
  <2>3. sweep' = [sweep EXCEPT ![s] = Tail(sweep[s])] \/ sweep' = [sweep EXCEPT ![s] = <<>>]
    BY <1>3 DEF SweepStep
  <2>4. ASSUME NEW x \in Sweeper, NEW i \in DOMAIN sweep'[x]
        PROVE  StillDue(sweep'[x][i], commands', now')
    <3>1. CASE x # s
      <4>1. sweep'[x] = sweep[x]
        BY <2>3, <3>1 DEF TypeOK
      <4> QED BY <4>1, <1>1
    <3>2. CASE x = s
      <4>1. sweep'[x] = Tail(sweep[s]) \/ sweep'[x] = <<>>
        BY <2>3, <3>2 DEF TypeOK
      <4>2. sweep'[x] = Tail(sweep[s])
        BY <4>1
      <4> QED BY <4>2, <2>2, <1>1
    <3> QED BY <3>1, <3>2
  <2> QED BY <2>4 DEF SweepsKnow
<1>4. ASSUME Crash PROVE SweepsKnow'
  BY <1>4 DEF Crash, SweepsKnow
<1>5. ASSUME UNCHANGED sweep PROVE SweepsKnow'
  BY <1>1, <1>5 DEF SweepsKnow
<1>6. ASSUME NEW c \in Client, ClientBegin(c) \/ ClientCommit(c) PROVE UNCHANGED sweep
  BY <1>6 DEF ClientBegin, StartDispatch, DispatchResult, Requeue, MarkLegacy, Accept,
      Cancel, BeginTransition, UpdateProgress, Finish, FinishConverged, Project, Begin,
      ClientCommit, CommitTransition, CommitLateAck, CommitProgress, CommitProjection,
      Store, Refused
<1> QED BY <1>2, <1>3, <1>4, <1>5, <1>6 DEF Next, vars, Create, Boot, Serve, Tick

\* A sweeper closes a command only when the deadline it has now is past, even
\* if it was listed under an earlier one (Expire and the revision check of
\* Transition).
THEOREM TimeoutsNeverEarly == Spec => NoEarlyTimeout
<1> DEFINE IInv == TypeOK /\ ClientsNeverTimeOut /\ SweepsKnow
           InTime == \A id \in ID :
              (commands[id].status # "timed_out" /\ commands'[id].status = "timed_out")
              => Expired(commands[id], now)
<1>1. Init => IInv
  <2>1. Init => TypeOK
    BY NewCommandType DEF Init, TypeOK
  <2> QED BY <2>1 DEF Init, ClientsNeverTimeOut, SweepsKnow
<1>2. IInv /\ [Next]_vars => IInv'
  BY TypeStep, ClientsNeverTimeOutStep, SweepsKnowStep
<1>3. IInv /\ [Next]_vars => [InTime]_vars
  <2> SUFFICES ASSUME IInv, [Next]_vars, NEW id \in ID,
                      commands[id].status # "timed_out", commands'[id].status = "timed_out"
               PROVE  Expired(commands[id], now)
    OBVIOUS
  <2>1. PICK s \in Sweeper : /\ sweep[s] # <<>> /\ Head(sweep[s]).id = id
                             /\ Current(commands[id], Head(sweep[s]).rev)
    BY OnlySweepsTimeOut
  <2>2. 1 \in DOMAIN sweep[s] /\ Head(sweep[s]) = sweep[s][1]
    BY <2>1 DEF TypeOK
  <2> QED BY <2>1, <2>2 DEF SweepsKnow, StillDue
<1> QED BY <1>1, <1>2, <1>3, PTL DEF Spec, NoEarlyTimeout

-----------------------------------------------------------------------------
(* What the carried calls are known to be, and what a step stores *)

\* The statuses the handlers ask Transition for.
Asked == {"queued", "dispatching", "dispatched", "accepted", "legacy_untracked", "canceled"}
            \cup FinalStatus

\* Closed without an outcome, or dropped since.
Unreported(c) == c.status = "pruned" \/ (c.status \in AuditStatus /\ c.finalAck = NoAck)

\* What a handler knows of the call it carries: when it read the clock, that
\* a final status comes with its ACK, and that AppendLateAck is about a
\* command that will never have an outcome.
CallKnown(call) ==
    /\ call.at \in 1 .. now
    /\ call.op = "transition" =>
          call.to \in Asked /\ (call.to \in FinalStatus => call.ack \in Ack)
    /\ call.op = "late_ack" => Unreported(commands[call.id])

CallsKnown == \A c \in Client : calls[c] # NoCall => CallKnown(calls[c])

\* What holds of a stored record by itself: a late ACK excludes an outcome, an
\* outcome excludes every status but its own, a closed record says when, and
\* the deadline that applies is armed.
RecordKept(c, t) ==
    /\ c.lateAcks # {} => /\ \E a \in Ack : c.lateAcks = {a}
                          /\ c.status \in AuditStatus \cup {"pruned"}
                          /\ c.finalAck = NoAck
    /\ c.finalAck # NoAck => c.status \in FinalStatus \cup {"pruned"}
    /\ Terminal(c) => c.finishedAt # 0
    /\ c.status \in {"dispatching", "dispatched"} =>
          c.acceptBy # 0 /\ c.acceptBy <= t + AcceptTimeout
    /\ c.status = "accepted" => c.finishBy # 0 /\ c.finishBy <= t + FinishTimeout

RecordsKept == \A id \in ID : RecordKept(commands[id], now)

ServiceInv == TypeOK /\ 1 <= now /\ CallsKnown /\ RecordsKept

\* What one repository call may store for a command on record.
Touched(c, d) ==
    /\ Live(c)
    /\ \/ \E to \in Asked \cup {"timed_out"}, ack \in Ack \cup {NoAck}, at \in 1 .. now :
             /\ valid(c.status, to) /\ c.status # to
             /\ to \in FinalStatus => ack \in Ack
             /\ d = Transitioned(c, to, ack, at)
       \/ \E ack \in Ack : c.lateAcks = {} /\ Unreported(c) /\ d = WithLateAck(c, ack)
       \/ \E p \in ProjectionStatus : d = WithProjection(c, p)
       \/ \E n \in Nat : d = WithProgress(c, n)

\* recoverCommandProjections marks several commands in one step.
Marked(cmds) ==
    \A id \in ID : \/ cmds[id] = commands[id]
                   \/ /\ Live(commands[id])
                      /\ \E p \in ProjectionStatus : cmds[id] = WithProjection(commands[id], p)

\* The ways a step stores records.
LEMMA StepStores ==
    ASSUME TypeOK, 1 <= now, CallsKnown, [Next]_vars
    PROVE  \/ \E req \in Request, id \in ID : Create(req, id)
           \/ UNCHANGED commands
           \/ \E id \in ID : \E d \in Command :
                 Touched(commands[id], d) /\ Write([commands EXCEPT ![id] = d])
           \/ Write([id \in ID |-> Interrupted(commands[id], now)])
           \/ \E cmds \in [ID -> Command] : Marked(cmds) /\ Write(cmds)
<1> DEFINE One == \E id \in ID : \E d \in Command :
                     Touched(commands[id], d) /\ Write([commands EXCEPT ![id] = d])
           Many == \E cmds \in [ID -> Command] : Marked(cmds) /\ Write(cmds)
<1>0. commands \in [ID -> Command] /\ now \in Nat
  BY DEF TypeOK
<1>1. ASSUME NEW c \in Client, ClientBegin(c) PROVE UNCHANGED commands
  BY <1>1 DEF ClientBegin, StartDispatch, DispatchResult, Requeue, MarkLegacy, Accept, Cancel,
      BeginTransition, UpdateProgress, Finish, FinishConverged, Project, Begin
<1>2. ASSUME NEW c \in Client, ClientCommit(c) PROVE UNCHANGED commands \/ One
  <2> PICK written \in BOOLEAN :
          \/ CommitTransition(c, written) \/ CommitLateAck(c, written)
          \/ CommitProgress(c, written) \/ CommitProjection(c, written)
    BY <1>2 DEF ClientCommit
  <2> DEFINE call == calls[c]
             cmd == commands[call.id]
  <2>1. call # NoCall
    BY DEF CommitTransition, CommitLateAck, CommitProgress, CommitProjection
  <2>2. call \in Call /\ CallKnown(call)
    BY <2>1 DEF TypeOK, CallsKnown
  <2>3. call.id \in ID /\ cmd \in Command
    BY <2>2 DEF TypeOK, Call
  <2>4. ASSUME NEW d \in Command, Touched(cmd, d), Store(c, d, written)
        PROVE  UNCHANGED commands \/ One
    BY <2>3, <2>4 DEF Store
  <2>5. ASSUME Refused(c, FALSE) PROVE UNCHANGED commands
    BY <2>5 DEF Refused
  <2>6. CASE CommitTransition(c, written)
    <3> DEFINE d == Transitioned(cmd, call.to, call.ack, call.at)
    <3>0. /\ call.to \in Asked /\ call.to \in Status /\ call.ack \in Ack \cup {NoAck}
          /\ call.at \in 1 .. now /\ call.at \in Nat /\ (call.to \in FinalStatus => call.ack \in Ack)
      BY <2>2, <2>6 DEF Call, CallKnown, CommitTransition
    <3>1. d \in Command
      BY <3>0, <2>3, StoredType
    <3>2. CASE Applies(cmd, call.rev, call.to)
      <4>1. Touched(cmd, d)
        BY <3>0, <3>2 DEF Applies, Current, Touched
      <4>2. Store(c, d, written)
        BY <2>6, <3>2 DEF CommitTransition
      <4> HIDE DEF d
      <4> QED BY <3>1, <4>1, <4>2, <2>4
    <3>3. CASE ~Applies(cmd, call.rev, call.to)
      BY <2>6, <3>3, <2>5 DEF CommitTransition
    <3> QED BY <3>2, <3>3
  <2>7. CASE CommitLateAck(c, written)
    <3>1. call.ack \in Ack /\ Unreported(cmd)
      BY <2>1, <2>2, <2>7 DEF CommitLateAck, TypeOK, CarriesAck, CallKnown
    <3> DEFINE d == WithLateAck(cmd, call.ack)
    <3>2. d \in Command
      BY <3>1, <2>3, StoredType
    <3>3. CASE Current(cmd, call.rev) /\ d # cmd
      <4>1. cmd.lateAcks = {}
        BY <3>3 DEF WithLateAck
      <4>2. Touched(cmd, d)
        BY <3>1, <3>3, <4>1 DEF Current, Touched
      <4>3. Store(c, d, written)
        BY <2>7, <3>3 DEF CommitLateAck
      <4> HIDE DEF d
      <4> QED BY <3>2, <4>2, <4>3, <2>4
    <3>4. CASE ~(Current(cmd, call.rev) /\ d # cmd)
      BY <2>7, <3>4, <2>5 DEF CommitLateAck
    <3> QED BY <3>3, <3>4
  <2>8. CASE CommitProgress(c, written)
    <3>1. WithProgress(cmd, call.seq) \in Command /\ call.seq \in Nat
      BY <2>2, <2>3, StoredType DEF Call
    <3>2. Current(cmd, call.rev) => Touched(cmd, WithProgress(cmd, call.seq))
      BY <3>1 DEF Current, Touched
    <3> QED BY <2>8, <3>1, <3>2, <2>4, <2>5 DEF CommitProgress
  <2>9. CASE CommitProjection(c, written)
    <3>1. WithProjection(cmd, call.proj) \in Command /\ call.proj \in ProjectionStatus
      BY <2>2, <2>3, StoredType DEF Call
    <3>2. Current(cmd, call.rev) => Touched(cmd, WithProjection(cmd, call.proj))
      BY <3>1 DEF Current, Touched
    <3> QED BY <2>9, <3>1, <3>2, <2>4, <2>5 DEF CommitProjection
  <2> QED BY <2>6, <2>7, <2>8, <2>9
<1>3. ASSUME NEW s \in Sweeper, NEW written \in BOOLEAN, SweepStep(s, written)
      PROVE  UNCHANGED commands \/ One
  <2> DEFINE due == Head(sweep[s])
             cmd == commands[due.id]
             d == Transitioned(cmd, "timed_out", NoAck, now)
  <2>1. due \in Due
    BY <1>3 DEF SweepStep, TypeOK
  <2>2. due.id \in ID /\ cmd \in Command
    BY <2>1, <1>0 DEF Due
  <2>3. CASE Applies(cmd, due.rev, "timed_out") /\ written
    <3>1. d \in Command
      BY <1>0, <2>2, StoredType DEF Status, TerminalStatus, AuditStatus
    <3>2. now \in 1 .. now /\ "timed_out" \notin FinalStatus
      BY <1>0 DEF FinalStatus
    <3>3. Touched(cmd, d)
      BY <3>2, <2>3 DEF Applies, Current, Touched
    <3>4. Write([commands EXCEPT ![due.id] = d])
      BY <1>3, <2>3 DEF SweepStep
    <3> HIDE DEF d
    <3> QED BY <3>1, <3>3, <3>4, <2>2
  <2>4. CASE ~(Applies(cmd, due.rev, "timed_out") /\ written)
    BY <1>3, <2>4 DEF SweepStep
  <2> QED BY <2>3, <2>4
<1>4. ASSUME NEW marked \in SUBSET ProjectionPending(commands),
             NEW p \in [marked -> {"applied", "failed"}], Serve(marked, p)
      PROVE  UNCHANGED commands \/ Many
  <2> DEFINE cmds == [id \in ID |-> IF id \in marked THEN WithProjection(commands[id], p[id])
                                                      ELSE commands[id]]
  <2>1. \A id \in marked : p[id] \in ProjectionStatus /\ Live(commands[id])
    BY DEF ProjectionStatus, ProjectionPending, Live, GoneStatus, FinalStatus
  <2>2. cmds \in [ID -> Command]
    BY <1>0, <2>1, StoredType
  <2>3. Marked(cmds)
    BY <2>1, Zenon DEF Marked
  <2>4. Write(cmds) \/ UNCHANGED commands
    BY <1>4 DEF Serve
  <2> HIDE DEF cmds
  <2> QED BY <2>2, <2>3, <2>4
<1>5. ASSUME Boot PROVE UNCHANGED commands \/ Write([id \in ID |-> Interrupted(commands[id], now)])
  BY <1>5 DEF Boot
<1>6. ASSUME UNCHANGED vars \/ Crash \/ Tick \/ \E s \in Sweeper : SweepList(s)
      PROVE  UNCHANGED commands
  BY <1>6 DEF vars, Crash, Tick, SweepList
<1> HIDE DEF One, Many
<1>7. \/ \E req \in Request, id \in ID : Create(req, id)
      \/ UNCHANGED commands \/ One \/ Many
      \/ Write([id \in ID |-> Interrupted(commands[id], now)])
  BY <1>1, <1>2, <1>3, <1>4, <1>5, <1>6 DEF Next
<1> QED BY <1>7 DEF One, Many

\* What a repository call stores keeps what holds of a record.
LEMMA TouchKeeps ==
    ASSUME TypeOK, NEW c \in Command, NEW d \in Command, RecordKept(c, now), Touched(c, d)
    PROVE  RecordKept(d, now)
<1> USE DEF Live, Terminal, GoneStatus, TerminalStatus, AuditStatus, FinalStatus
<1>0. now \in Nat /\ c.rev \in Nat
  BY DEF TypeOK, Command
<1>1. ASSUME NEW to \in Asked \cup {"timed_out"}, NEW ack \in Ack \cup {NoAck}, NEW at \in 1 .. now,
             valid(c.status, to), c.status # to, to \in FinalStatus => ack \in Ack,
             d = Transitioned(c, to, ack, at)
      PROVE  RecordKept(d, now)
  <2>1. c.status \in {"queued", "dispatching", "dispatched", "accepted"}
    BY <1>1 DEF valid
  <2>2. c.lateAcks = {} /\ c.finalAck = NoAck
    BY <2>1 DEF RecordKept
  <2>3. to = "dispatched" => c.status = "dispatching"
    BY <1>1 DEF valid
  <2>4. /\ d.status = to
        /\ d.acceptBy = IF to = "dispatching" THEN at + AcceptTimeout ELSE c.acceptBy
        /\ d.finishBy = IF to = "accepted" THEN at + FinishTimeout ELSE c.finishBy
        /\ d.finalAck = IF to \in FinalStatus THEN ack ELSE c.finalAck
        /\ d.finishedAt = IF to \in TerminalStatus THEN at ELSE c.finishedAt
        /\ d.lateAcks = c.lateAcks
    BY <1>1 DEF Transitioned, Command
  <2>5. /\ at + AcceptTimeout # 0 /\ at + AcceptTimeout <= now + AcceptTimeout
        /\ at + FinishTimeout # 0 /\ at + FinishTimeout <= now + FinishTimeout
        /\ at # 0
    BY <1>0, TimeoutAssumption
  <2>6. to \in TerminalStatus => d.finishedAt # 0
    BY <2>4, <2>5
  <2>7. d.finalAck # NoAck => to \in FinalStatus
    BY <2>2, <2>4
  <2>8. to \in {"dispatching", "dispatched"} =>
             d.acceptBy # 0 /\ d.acceptBy <= now + AcceptTimeout
    BY <2>3, <2>4, <2>5 DEF RecordKept
  <2>9. to = "accepted" => d.finishBy # 0 /\ d.finishBy <= now + FinishTimeout
    BY <2>4, <2>5
  <2> QED BY <2>2, <2>4, <2>6, <2>7, <2>8, <2>9 DEF RecordKept
<1>2. ASSUME NEW ack \in Ack, c.lateAcks = {}, Live(c), Unreported(c), d = WithLateAck(c, ack)
      PROVE  RecordKept(d, now)
  <2>1. /\ d.status = c.status /\ d.finalAck = c.finalAck /\ d.lateAcks = {ack}
        /\ d.finishedAt = c.finishedAt /\ d.acceptBy = c.acceptBy /\ d.finishBy = c.finishBy
    BY <1>2 DEF WithLateAck, Command
  <2> QED BY <2>1, <1>2 DEF RecordKept, Unreported
<1>3. ASSUME NEW p \in ProjectionStatus, d = WithProjection(c, p) PROVE RecordKept(d, now)
  <2>1. /\ d.status = c.status /\ d.finalAck = c.finalAck /\ d.lateAcks = c.lateAcks
        /\ d.finishedAt = c.finishedAt /\ d.acceptBy = c.acceptBy /\ d.finishBy = c.finishBy
    BY <1>3 DEF WithProjection, Command
  <2> QED BY <2>1 DEF RecordKept
<1>4. ASSUME NEW n \in Nat, d = WithProgress(c, n) PROVE RecordKept(d, now)
  <2>1. /\ d.status = c.status /\ d.finalAck = c.finalAck /\ d.lateAcks = c.lateAcks
        /\ d.finishedAt = c.finishedAt /\ d.acceptBy = c.acceptBy /\ d.finishBy = c.finishBy
    BY <1>4 DEF WithProgress, Command
  <2> QED BY <2>1 DEF RecordKept
<1> QED BY <1>1, <1>2, <1>3, <1>4 DEF Touched

\* So do creation, the interruption at startup and the pruning of write().
LEMMA OtherKeeps ==
    ASSUME TypeOK, 1 <= now
    PROVE  /\ \A req \in Request : RecordKept(NewCommand(req), now)
           /\ \A c \in Command : RecordKept(c, now) => RecordKept(Interrupted(c, now), now)
           /\ \A c \in Command : RecordKept(c, now) => RecordKept(Pruned(c), now)
           /\ RecordKept(Undrawn, now)
<1> USE DEF Live, Terminal, InFlight, GoneStatus, TerminalStatus, AuditStatus, FinalStatus,
            InFlightStatus
<1>1. ASSUME NEW req \in Request PROVE RecordKept(NewCommand(req), now)
  BY DEF RecordKept, NewCommand
<1>2. ASSUME NEW c \in Command, RecordKept(c, now) PROVE RecordKept(Interrupted(c, now), now)
  <2>1. CASE ~InFlight(c)
    BY <1>2, <2>1 DEF Interrupted
  <2>2. CASE InFlight(c)
    <3> DEFINE d == Interrupted(c, now)
    <3>1. /\ d.status = "interrupted" /\ d.finalAck = c.finalAck /\ d.lateAcks = c.lateAcks
          /\ d.finishedAt = now
      BY <2>2 DEF Interrupted, Command
    <3>2. c.lateAcks = {} /\ c.finalAck = NoAck
      BY <1>2, <2>2 DEF RecordKept
    <3>3. now # 0
      BY DEF TypeOK
    <3> HIDE DEF d
    <3>4. RecordKept(d, now)
      BY <3>1, <3>2, <3>3 DEF RecordKept
    <3> QED BY <3>4 DEF d
  <2> QED BY <2>1, <2>2
<1>3. ASSUME NEW c \in Command, RecordKept(c, now) PROVE RecordKept(Pruned(c), now)
  <2> DEFINE d == Pruned(c)
  <2>1. d.status = "pruned" /\ d.finalAck = c.finalAck /\ d.lateAcks = c.lateAcks
    BY DEF Pruned, Command
  <2> HIDE DEF d
  <2>2. RecordKept(d, now)
    BY <2>1, <1>3 DEF RecordKept
  <2> QED BY <2>2 DEF d
<1>4. RecordKept(Undrawn, now)
  <2>1. Undrawn.status = "none" /\ Undrawn.lateAcks = {} /\ Undrawn.finalAck = NoAck
    BY DEF Undrawn, NewCommand
  <2> QED BY <2>1 DEF RecordKept
<1> QED BY <1>1, <1>2, <1>3, <1>4

\* Every step keeps what holds of the records.
LEMMA RecordsKeptStep ==
    ASSUME TypeOK, 1 <= now, CallsKnown, RecordsKept, [Next]_vars
    PROVE  RecordsKept'
<1>0. commands \in [ID -> Command] /\ now \in Nat /\ \A id \in ID : RecordKept(commands[id], now)
  BY DEF TypeOK, RecordsKept
<1>1. ASSUME NEW cmds \in [ID -> Command], Write(cmds), \A id \in ID : RecordKept(cmds[id], now)
      PROVE  \A id \in ID : RecordKept(commands'[id], now)
  BY <1>1, WriteFacts, OtherKeeps
<1>2. \A id \in ID : RecordKept(commands'[id], now)
  <2>1. ASSUME NEW req \in Request, NEW id \in ID, Create(req, id)
        PROVE  \A x \in ID : RecordKept(commands'[x], now)
    BY <2>1, <1>0, CreateFacts, OtherKeeps
  <2>2. ASSUME NEW id \in ID, NEW d \in Command, Touched(commands[id], d),
               Write([commands EXCEPT ![id] = d])
        PROVE  \A x \in ID : RecordKept(commands'[x], now)
    <3>1. RecordKept(d, now)
      BY <2>2, <1>0, TouchKeeps
    <3> DEFINE cmds == [commands EXCEPT ![id] = d]
    <3>2. cmds \in [ID -> Command] /\ \A x \in ID : RecordKept(cmds[x], now)
      BY <1>0, <3>1
    <3> HIDE DEF cmds
    <3> QED BY <3>2, <2>2, <1>1 DEF cmds
  <2>3. ASSUME Write([id \in ID |-> Interrupted(commands[id], now)])
        PROVE  \A x \in ID : RecordKept(commands'[x], now)
    <3> DEFINE cmds == [id \in ID |-> Interrupted(commands[id], now)]
    <3>1. cmds \in [ID -> Command] /\ \A id \in ID : RecordKept(cmds[id], now)
      BY <1>0, StoredType, OtherKeeps
    <3> HIDE DEF cmds
    <3> QED BY <3>1, <2>3, <1>1 DEF cmds
  <2>4. ASSUME NEW cmds \in [ID -> Command], Marked(cmds), Write(cmds)
        PROVE  \A x \in ID : RecordKept(commands'[x], now)
    <3>1. ASSUME NEW id \in ID PROVE RecordKept(cmds[id], now)
      <4>1. cmds[id] = commands[id] \/ Touched(commands[id], cmds[id])
        BY <2>4 DEF Marked, Touched
      <4> QED BY <4>1, <1>0, TouchKeeps
    <3> QED BY <3>1, <2>4, <1>1
  <2> QED BY <1>0, <2>1, <2>2, <2>3, <2>4, StepStores
<1>3. now' \in Nat /\ now <= now' /\ commands' \in [ID -> Command]
  BY ClockStep, TypeStep DEF TypeOK
<1>4. ASSUME NEW id \in ID PROVE RecordKept(commands'[id], now')
  <2>1. commands'[id].acceptBy \in Nat /\ commands'[id].finishBy \in Nat
    BY <1>3 DEF Command
  <2> QED BY <2>1, <1>0, <1>2, <1>3, TimeoutAssumption DEF RecordKept
<1> QED BY <1>4 DEF RecordsKept

\* Where a command will never have an outcome, it keeps none.
LEMMA UnreportedStays ==
    ASSUME TypeOK, [Next]_vars, NEW id \in ID, Unreported(commands[id])
    PROVE  Unreported(commands'[id])
<1> USE DEF Unreported, AuditStatus
<1>0. commands[id] \in Command
  BY DEF TypeOK
<1>1. ASSUME NEW req \in Request, NEW x \in ID, Create(req, x) PROVE Unreported(commands'[id])
  <2>1. x # id
    BY <1>1, CreateFacts
  <2> QED BY <1>0, <1>1, <2>1, CreateFacts, RecordFacts
<1>2. ASSUME \A x \in ID : Evolves(commands[x], commands'[x]) PROVE Unreported(commands'[id])
  <2>1. TypeOK'
    BY TypeStep
  <2>2. commands'[id].status \in Status
    BY <2>1 DEF TypeOK, Command
  <2> QED BY <1>2, <2>2 DEF Evolves, Live, Terminal, GoneStatus, TerminalStatus, Status
<1> QED BY <1>1, <1>2, StepEvolves

\* What a Begin carries is known at that moment.
LEMMA CarryKnown ==
    ASSUME TypeOK, 1 <= now, RecordsKept
    PROVE  /\ \A id \in ID, to \in Asked \ FinalStatus :
                 CallKnown([Carry("transition", id) EXCEPT !.to = to])
           /\ \A id \in ID, p \in ProjectionStatus :
                 CallKnown([Carry("mark", id) EXCEPT !.proj = p])
           /\ \A id \in ID, n \in Nat, x \in {"reply", "finish"} :
                 CallKnown([Carry("progress", id) EXCEPT !.seq = n, !.next = x])
           /\ \A id \in ID, ack \in Ack, next \in {"reply", "finish", "project"} :
                 FinishCall(id, ack, next) # NoCall => CallKnown(FinishCall(id, ack, next))
<1>0. now \in 1 .. now
  BY DEF TypeOK
<1>1. ASSUME NEW id \in ID, NEW to \in Asked \ FinalStatus
      PROVE  CallKnown([Carry("transition", id) EXCEPT !.to = to])
  BY <1>0 DEF CallKnown, Carry
<1>2. ASSUME NEW id \in ID, NEW p \in ProjectionStatus
      PROVE  CallKnown([Carry("mark", id) EXCEPT !.proj = p])
  BY <1>0 DEF CallKnown, Carry
<1>3. ASSUME NEW id \in ID, NEW n \in Nat, NEW x \in {"reply", "finish"}
      PROVE  CallKnown([Carry("progress", id) EXCEPT !.seq = n, !.next = x])
  BY <1>0 DEF CallKnown, Carry
<1>4. ASSUME NEW id \in ID, NEW ack \in Ack, NEW next \in {"reply", "finish", "project"},
             FinishCall(id, ack, next) # NoCall
      PROVE  CallKnown(FinishCall(id, ack, next))
  <2> DEFINE call == [Carry("transition", id) EXCEPT !.to = ack.status, !.ack = ack, !.next = next]
             again == [call EXCEPT !.op = "project"]
             late == [call EXCEPT !.op = "late_ack", !.next = "reply"]
  <2>1. ack.status \in FinalStatus
    BY DEF Ack
  <2>2. /\ call.op = "transition" /\ call.to = ack.status /\ call.ack = ack /\ call.at = now
        /\ again.op = "project" /\ again.at = now
        /\ late.op = "late_ack" /\ late.at = now /\ late.id = id
    BY DEF Carry
  <2>3. CallKnown(call) /\ CallKnown(again)
    BY <1>0, <2>1, <2>2 DEF CallKnown, Asked
  <2>4. FinishCall(id, ack, next) = late => CallKnown(late)
    <3>1. CASE /\ commands[id].status \in AuditStatus
      <4>1. commands[id].finalAck = NoAck
        BY <3>1 DEF RecordsKept, RecordKept, AuditStatus, FinalStatus
      <4> HIDE DEF late
      <4> QED BY <1>0, <2>2, <3>1, <4>1 DEF CallKnown, Unreported
    <3>2. CASE commands[id].status \notin AuditStatus
      <4>1. FinishCall(id, ack, next) \in {NoCall, call, again}
        BY <3>2, Zenon DEF FinishCall
      <4>2. call # late /\ again # late
        <5> HIDE DEF call, again, late
        <5> QED BY <2>2
      <4> HIDE DEF call, again, late
      <4> QED BY <1>4, <4>1, <4>2
    <3> QED BY <3>1, <3>2
  <2>5. FinishCall(id, ack, next) \in {call, again, late, NoCall}
    BY Zenon DEF FinishCall
  <2> HIDE DEF call, again, late
  <2> QED BY <1>4, <2>3, <2>4, <2>5
<1> QED BY <1>1, <1>2, <1>3, <1>4

\* Every step keeps what the handlers know of their calls.
LEMMA CallsKnownStep ==
    ASSUME TypeOK, 1 <= now, CallsKnown, RecordsKept, [Next]_vars
    PROVE  CallsKnown'
<1>0. /\ calls \in [Client -> Call \cup {NoCall}]
      /\ now \in Nat /\ now' \in Nat /\ now <= now'
  BY ClockStep DEF TypeOK
<1>1. ASSUME NEW call \in Call, CallKnown(call) PROVE CallKnown(call)'
  <2>1. call.id \in ID
    BY DEF Call
  <2> QED BY <1>0, <1>1, <2>1, UnreportedStays DEF CallKnown
<1>2. \A c \in Client : calls[c] # NoCall => calls[c] \in Call /\ CallKnown(calls[c])
  BY <1>0 DEF CallsKnown
<1>3. ASSUME NEW c \in Client, NEW call, Begin(c, call),
             call # NoCall => CallKnown(call)
      PROVE  CallsKnown'
  <2>1. UNCHANGED <<commands, now>> /\ calls' = [calls EXCEPT ![c] = call]
    BY <1>3 DEF Begin
  <2>2. ASSUME NEW x \in Client, calls'[x] # NoCall PROVE CallKnown(calls'[x])
    BY <2>1, <2>2, <1>0, <1>2, <1>3
  <2> QED BY <2>1, <2>2 DEF CallsKnown, CallKnown
<1>4. ASSUME NEW c \in Client, ClientBegin(c) PROVE CallsKnown'
  <2>1. ASSUME NEW id \in ID, NEW to \in Asked \ FinalStatus, BeginTransition(c, id, to)
        PROVE  CallsKnown'
    BY <2>1, <1>3, CarryKnown DEF BeginTransition
  <2>2. {"dispatching", "dispatched", "queued", "legacy_untracked", "accepted", "canceled"}
           \subseteq Asked \ FinalStatus
    BY DEF Asked, FinalStatus
  <2>3. ASSUME NEW id \in ID, NEW n \in Progress, NEW b \in BOOLEAN, UpdateProgress(c, id, n, b)
        PROVE  CallsKnown'
    <3>1. n \in Nat
      BY BoundAssumption
    <3> QED BY <2>3, <3>1, <1>3, CarryKnown DEF UpdateProgress
  <2>4. ASSUME NEW id \in ID, NEW ack \in Ack, Finish(c, id, ack) PROVE CallsKnown'
    BY <2>4, <1>3, CarryKnown DEF Finish
  <2>5. ASSUME FinishConverged(c) PROVE CallsKnown'
    <3>1. calls[c].id \in ID
      BY <2>5, <1>0 DEF FinishConverged, Call
    <3>2. [status |-> "succeeded", result |-> Converged] \in Ack
      BY RequestAssumption DEF Ack, FinalStatus
    <3> QED BY <2>5, <3>1, <3>2, <1>3, CarryKnown DEF FinishConverged
  <2>6. ASSUME NEW p \in ProjectionStatus, Project(c, p) PROVE CallsKnown'
    <3>1. calls[c].id \in ID
      BY <2>6, <1>0 DEF Project, Call
    <3>2. \/ Begin(c, NoCall)
          \/ Begin(c, [Carry("mark", calls[c].id) EXCEPT !.proj = p])
      BY <2>6 DEF Project
    <3>3. CallKnown([Carry("mark", calls[c].id) EXCEPT !.proj = p])
      BY <3>1, CarryKnown
    <3> QED BY <3>2, <3>3, <1>3
  <2> QED BY <1>4, <2>1, <2>2, <2>3, <2>4, <2>5, <2>6
       DEF ClientBegin, StartDispatch, DispatchResult, Requeue, MarkLegacy, Accept, Cancel
<1>5. ASSUME NEW c \in Client, ClientCommit(c) PROVE CallsKnown'
  <2>1. calls[c] # NoCall /\ \E ok \in BOOLEAN : Continue(c, ok)
    BY <1>5 DEF ClientCommit, CommitTransition, CommitLateAck, CommitProgress, CommitProjection,
        Store, Refused
  <2>2. calls[c] \in Call /\ CallKnown(calls[c])
    BY <2>1, <1>2
  <2>3. ASSUME NEW o \in {"finish", "project"}
        PROVE  LET call == [calls[c] EXCEPT !.op = o, !.next = "reply"]
               IN  call \in Call /\ CallKnown(call)
    BY <2>2 DEF Call, Op, CallKnown
  <2>4. \/ calls' = [calls EXCEPT ![c] = NoCall]
        \/ \E o \in {"finish", "project"} :
              calls' = [calls EXCEPT ![c] = [calls[c] EXCEPT !.op = o, !.next = "reply"]]
    BY <2>1, Zenon DEF Continue
  <2>5. ASSUME NEW x \in Client, calls'[x] # NoCall
        PROVE  calls'[x] \in Call /\ CallKnown(calls'[x])
    BY <1>0, <1>2, <2>3, <2>4, <2>5
  <2>6. ASSUME NEW x \in Client, calls'[x] # NoCall PROVE CallKnown(calls[x])'
    BY <2>5, <2>6, <1>0, UnreportedStays DEF CallKnown, Call
  <2> QED BY <2>6 DEF CallsKnown
<1>6. ASSUME Crash PROVE CallsKnown'
  BY <1>6 DEF Crash, CallsKnown
<1>7. ASSUME UNCHANGED calls PROVE CallsKnown'
  <2>1. ASSUME NEW c \in Client, calls[c] # NoCall PROVE CallKnown(calls[c])'
    BY <2>1, <1>0, <1>2, <1>7, UnreportedStays DEF CallKnown, Call
  <2> QED BY <2>1, <1>7 DEF CallsKnown
<1> QED BY <1>4, <1>5, <1>6, <1>7 DEF Next, vars, Create, SweepList, SweepStep, Boot, Serve, Tick

\* The inductive invariant of the service: the types, the clock, what the
\* carried calls are known to be and what holds of the stored records.
LEMMA ServiceInvariant == Spec => []ServiceInv
<1>1. Init => ServiceInv
  <2> SUFFICES ASSUME Init PROVE ServiceInv
    OBVIOUS
  <2>1. TypeOK
    BY NewCommandType DEF Init, TypeOK
  <2>2. 1 <= now
    BY DEF Init
  <2>3. CallsKnown
    BY DEF Init, CallsKnown
  <2>4. RecordsKept
    BY <2>1, <2>2, OtherKeeps DEF Init, RecordsKept
  <2> QED BY <2>1, <2>2, <2>3, <2>4 DEF ServiceInv
<1>2. ServiceInv /\ [Next]_vars => ServiceInv'
  <2> SUFFICES ASSUME ServiceInv, [Next]_vars PROVE ServiceInv'
    OBVIOUS
  <2>1. TypeOK' /\ CallsKnown' /\ RecordsKept'
    BY TypeStep, CallsKnownStep, RecordsKeptStep DEF ServiceInv
  <2>2. 1 <= now'
    BY ClockStep DEF ServiceInv, TypeOK
  <2> QED BY <2>1, <2>2 DEF ServiceInv
<1> QED BY <1>1, <1>2, PTL DEF Spec

\* Every record on file is consistent in itself: only a command closed without
\* an outcome has a late ACK, and one (Finish, AppendLateAck); a command that
\* is out or running has a deadline within the timeouts (Transition).
THEOREM CommandsConsistent == Spec => []CommandInv
<1>1. ServiceInv => CommandInv
  <2> SUFFICES ASSUME ServiceInv PROVE CommandInv
    OBVIOUS
  <2>1. LateAckIsAudit
    <3>1. \A a : Cardinality({a}) = 1
      BY FS_Singleton
    <3> QED BY <3>1 DEF ServiceInv, RecordsKept, RecordKept, LateAckIsAudit
  <2>2. DeadlineArmed
    BY DEF ServiceInv, RecordsKept, RecordKept, DeadlineArmed
  <2> QED BY <2>1, <2>2 DEF ServiceInv, CommandInv
<1> QED BY <1>1, ServiceInvariant, PTL

-----------------------------------------------------------------------------
(* Retention *)

\* write() drops only closed records that are old enough, and leaves at least
\* RetainMax records when it drops any.
LEMMA WriteRetains ==
    ASSUME TypeOK, NEW cmds \in [ID -> Command], Write(cmds),
           \A id \in ID : cmds[id].status = "pruned" => commands[id].status = "pruned",
           \A id \in ID : Terminal(cmds[id]) => cmds[id].finishedAt # 0
    PROVE  DropsOnlyTheOld
<1> SUFFICES ASSUME Forgotten # {} PROVE DropsOnlyTheOld
  BY DEF DropsOnlyTheOld
<1> DEFINE live == {id \in ID : Live(cmds[id])}
           left == {id \in ID : Live(commands'[id])}
           cand == PruneCandidates(cmds, now)
<1>1. PICK drop \in PruneSets(cmds, now) : commands' = Without(cmds, drop)
  BY DEF Write
<1>2. /\ drop \subseteq cand /\ cand \subseteq live
      /\ \A id \in drop : /\ id \in ID /\ Terminal(cmds[id])
                          /\ cmds[id].finishedAt + RetainAge < now
  BY <1>1 DEF PruneSets, PruneCandidates, Terminal, Live, TerminalStatus, GoneStatus,
      FinalStatus, AuditStatus
<1>3. \A id \in ID : commands'[id] = IF id \in drop THEN Pruned(cmds[id]) ELSE cmds[id]
  BY <1>1 DEF Without
<1>4. \A id \in drop : /\ commands'[id].finishedAt = cmds[id].finishedAt
                       /\ ~Live(commands'[id])
  <2>1. \A c \in Command : Pruned(c).finishedAt = c.finishedAt
    BY DEF Pruned, Command
  <2> QED BY <1>2, <1>3, <2>1, RecordFacts
<1>5. Forgotten \subseteq drop
  BY <1>3 DEF Forgotten
<1>6. left = live \ drop
  BY <1>2, <1>3, <1>4
<1>7. IsFiniteSet(live) /\ IsFiniteSet(cand) /\ IsFiniteSet(drop)
  BY <1>2, FiniteAssumption, FS_Subset
<1>8. /\ Cardinality(live) \in Nat /\ Cardinality(drop) \in Nat /\ Cardinality(cand) \in Nat
      /\ Cardinality(left) = Cardinality(live) - Cardinality(drop)
  <2>1. live \cap drop = drop
    BY <1>2
  <2> QED BY <2>1, <1>6, <1>7, FS_Difference, FS_CardinalityType
<1>9. /\ Cardinality(live) > RetainMax
      /\ \/ Cardinality(drop) = Cardinality(live) - RetainMax
         \/ drop = cand /\ Cardinality(cand) < Cardinality(live) - RetainMax
  <2>1. drop # {}
    BY <1>5
  <2>2. /\ Cardinality(live) <= RetainMax => drop = {}
        /\ Cardinality(live) > RetainMax =>
              \/ Cardinality(drop) = Cardinality(live) - RetainMax
              \/ drop = cand /\ Cardinality(cand) < Cardinality(live) - RetainMax
    BY <1>1 DEF PruneSets
  <2> HIDE DEF live, cand
  <2> QED BY <2>1, <2>2, <1>8, TimeoutAssumption
<1>10. Cardinality(left) >= RetainMax
  <2> HIDE DEF live, cand, left
  <2> QED BY <1>8, <1>9, TimeoutAssumption
<1> QED BY <1>2, <1>4, <1>5, <1>10 DEF DropsOnlyTheOld

\* write() forgets a record only when it is closed and old enough, and never
\* leaves fewer than RetainMax (pruneIDsLocked), whatever else that write
\* stores.
THEOREM ForgetsOld == Spec => ForgetsOnlyTheOld
<1>1. ServiceInv /\ [Next]_vars => [DropsOnlyTheOld]_vars
  <2> SUFFICES ASSUME ServiceInv, [Next]_vars, ~UNCHANGED vars, Forgotten # {} PROVE DropsOnlyTheOld
    BY DEF DropsOnlyTheOld
  <2>0. commands \in [ID -> Command] /\ TypeOK /\ \A id \in ID : RecordKept(commands[id], now)
    BY DEF ServiceInv, TypeOK, RecordsKept
  <2>1. ASSUME NEW cmds \in [ID -> Command], Write(cmds),
               \A id \in ID : cmds[id].status = "pruned" => commands[id].status = "pruned",
               \A id \in ID : RecordKept(cmds[id], now)
        PROVE  DropsOnlyTheOld
    <3>1. \A id \in ID : Terminal(cmds[id]) => cmds[id].finishedAt # 0
      BY <2>1 DEF RecordKept
    <3> QED BY <2>0, <2>1, <3>1, WriteRetains
  <2>2. ASSUME NEW c \in Command, NEW d \in Command, Touched(c, d), RecordKept(c, now)
        PROVE  RecordKept(d, now) /\ d.status # "pruned"
    <3>1. d.status # "pruned"
      <4>1. /\ \A to, ack, at : Transitioned(c, to, ack, at).status = to
            /\ \A ack : WithLateAck(c, ack).status = c.status
            /\ \A p : WithProjection(c, p).status = c.status
            /\ \A n : WithProgress(c, n).status = c.status
        <5>1. ASSUME NEW to, NEW ack, NEW at PROVE Transitioned(c, to, ack, at).status = to
          BY DEF Transitioned, Command
        <5>2. ASSUME NEW ack PROVE WithLateAck(c, ack).status = c.status
          BY DEF WithLateAck, Command
        <5>3. ASSUME NEW p PROVE WithProjection(c, p).status = c.status
          BY DEF WithProjection, Command
        <5>4. ASSUME NEW n PROVE WithProgress(c, n).status = c.status
          BY DEF WithProgress, Command
        <5> QED BY <5>1, <5>2, <5>3, <5>4
      <4>2. d.status = c.status \/ d.status \in Asked \cup {"timed_out"}
        BY <2>2, <4>1 DEF Touched
      <4> QED BY <4>2, <2>2 DEF Touched, Live, GoneStatus, Asked, FinalStatus
    <3> QED BY <3>1, <2>0, <2>2, TouchKeeps
  <2>3. ASSUME NEW req \in Request, NEW id \in ID, Create(req, id) PROVE DropsOnlyTheOld
    <3> DEFINE cmds == [commands EXCEPT ![id] = NewCommand(req)]
    <3>1. /\ cmds \in [ID -> Command] /\ \A x \in ID : RecordKept(cmds[x], now)
          /\ \A x \in ID : cmds[x].status = "pruned" => commands[x].status = "pruned"
      BY <2>0, NewCommandType, OtherKeeps, RecordFacts DEF ServiceInv
    <3>2. Write(cmds)
      BY <2>3 DEF Create
    <3> HIDE DEF cmds
    <3> QED BY <3>1, <3>2, <2>1
  <2>4. ASSUME NEW id \in ID, NEW d \in Command, Touched(commands[id], d),
               Write([commands EXCEPT ![id] = d])
        PROVE  DropsOnlyTheOld
    <3> DEFINE cmds == [commands EXCEPT ![id] = d]
    <3>1. RecordKept(d, now) /\ d.status # "pruned"
      BY <2>0, <2>2, <2>4
    <3>2. /\ cmds \in [ID -> Command] /\ \A x \in ID : RecordKept(cmds[x], now)
          /\ \A x \in ID : cmds[x].status = "pruned" => commands[x].status = "pruned"
      BY <2>0, <3>1
    <3> HIDE DEF cmds
    <3> QED BY <3>2, <2>4, <2>1 DEF cmds
  <2>5. ASSUME Write([id \in ID |-> Interrupted(commands[id], now)]) PROVE DropsOnlyTheOld
    <3> DEFINE cmds == [id \in ID |-> Interrupted(commands[id], now)]
    <3>1. \A id \in ID : Interrupted(commands[id], now).status \in {commands[id].status, "interrupted"}
      BY <2>0 DEF Interrupted, Command
    <3>2. now \in Nat
      BY <2>0 DEF TypeOK
    <3>3. /\ cmds \in [ID -> Command] /\ \A x \in ID : RecordKept(cmds[x], now)
          /\ \A x \in ID : cmds[x].status = "pruned" => commands[x].status = "pruned"
      BY <2>0, <3>1, <3>2, StoredType, OtherKeeps DEF ServiceInv
    <3> HIDE DEF cmds
    <3> QED BY <3>3, <2>5, <2>1 DEF cmds
  <2>6. ASSUME NEW cmds \in [ID -> Command], Marked(cmds), Write(cmds) PROVE DropsOnlyTheOld
    <3>1. \A id \in ID : cmds[id] = commands[id] \/ Touched(commands[id], cmds[id])
      BY <2>6 DEF Marked, Touched
    <3> QED BY <3>1, <2>0, <2>1, <2>2, <2>6
  <2>7. ~UNCHANGED commands
    BY DEF Forgotten
  <2> QED BY <2>3, <2>4, <2>5, <2>6, <2>7, StepStores DEF ServiceInv
<1> QED BY <1>1, ServiceInvariant, PTL DEF Spec, ForgetsOnlyTheOld

-----------------------------------------------------------------------------
(* The service implements CommandLifecycle *)

\* The phases of the statuses, and what the life cycle calls open and closed.
LEMMA PhaseFacts ==
    /\ \A s \in TerminalStatus : PhaseOf(s) \in Lifecycle!Closed
    /\ \A s \in InFlightStatus : PhaseOf(s) \in Lifecycle!Open
    /\ \A s \in Status : PhaseOf(s) \in Lifecycle!Open => s \in InFlightStatus
    /\ \A s \in Status : PhaseOf(s) \in Lifecycle!Closed => s \in TerminalStatus
    /\ PhaseOf("pruned") = "forgotten" /\ PhaseOf("none") = "absent"
    /\ PhaseOf("queued") = "waiting" /\ PhaseOf("interrupted") = "interrupted"
BY DEF PhaseOf, Lifecycle!Closed, Lifecycle!Open, Status, TerminalStatus, InFlightStatus,
   GoneStatus, FinalStatus, AuditStatus

\* A write, seen as phases: the records it stores, some of the closed ones
\* forgotten; outcomes stay with forgotten records.
LEMMA WritePhases ==
    ASSUME NEW cmds \in [ID -> Command], Write(cmds)
    PROVE  \E gone \in SUBSET {x \in ID : PhaseOf(cmds[x].status) \in Lifecycle!Closed} :
              /\ Phases' = [x \in ID |-> IF x \in gone THEN "forgotten"
                                                      ELSE PhaseOf(cmds[x].status)]
              /\ Outcomes' = [x \in ID |-> cmds[x].finalAck]
<1> DEFINE gone == {x \in ID : Terminal(cmds[x]) /\ commands'[x] = Pruned(cmds[x])}
<1>1. gone \in SUBSET {x \in ID : PhaseOf(cmds[x].status) \in Lifecycle!Closed}
  BY PhaseFacts DEF Terminal
<1>2. ASSUME NEW x \in ID
      PROVE  /\ PhaseOf(commands'[x].status) =
                   IF x \in gone THEN "forgotten" ELSE PhaseOf(cmds[x].status)
             /\ commands'[x].finalAck = cmds[x].finalAck
  <2>1. Pruned(cmds[x]).status = "pruned" /\ Pruned(cmds[x]).finalAck = cmds[x].finalAck
    BY DEF Pruned, Command
  <2>2. x \notin gone => commands'[x] = cmds[x]
    BY WriteFacts
  <2> QED BY <2>1, <2>2, PhaseFacts
<1> HIDE DEF gone
<1> QED BY <1>1, <1>2 DEF Phases, Outcomes

\* A write that changes neither a phase nor an outcome forgets at most.
LEMMA ForgetStep ==
    ASSUME NEW cmds \in [ID -> Command], Write(cmds),
           \A x \in ID : /\ PhaseOf(cmds[x].status) = PhaseOf(commands[x].status)
                         /\ cmds[x].finalAck = commands[x].finalAck
    PROVE  Lifecycle!Forget
<1>1. PICK gone \in SUBSET {x \in ID : PhaseOf(cmds[x].status) \in Lifecycle!Closed} :
              /\ Phases' = [x \in ID |-> IF x \in gone THEN "forgotten"
                                                      ELSE PhaseOf(cmds[x].status)]
              /\ Outcomes' = [x \in ID |-> cmds[x].finalAck]
  BY WritePhases
<1>2. gone \in SUBSET {x \in ID : Phases[x] \in Lifecycle!Closed}
  BY DEF Phases
<1>3. Phases' = [x \in ID |-> IF x \in gone THEN "forgotten" ELSE Phases[x]]
  BY <1>1 DEF Phases
<1>4. Outcomes' = Outcomes
  BY <1>1 DEF Outcomes
<1> QED BY <1>2, <1>3, <1>4 DEF Lifecycle!Forget

\* A write that moves one command.
LEMMA AdvanceStep ==
    ASSUME TypeOK, NEW id \in ID, NEW d \in Command, Write([commands EXCEPT ![id] = d]),
           Lifecycle!May(PhaseOf(commands[id].status), PhaseOf(d.status)),
           IF PhaseOf(d.status) = "reported" THEN d.finalAck \in Ack
                                             ELSE d.finalAck = commands[id].finalAck
    PROVE  Lifecycle!Advance(id, PhaseOf(d.status))
<1> DEFINE cmds == [commands EXCEPT ![id] = d]
           to == PhaseOf(d.status)
<1>1. cmds \in [ID -> Command] /\ cmds[id] = d /\ \A x \in ID \ {id} : cmds[x] = commands[x]
  BY DEF TypeOK
<1>0. Write(cmds)
  OBVIOUS
<1> HIDE DEF cmds
<1>2. PICK gone \in SUBSET {x \in ID : PhaseOf(cmds[x].status) \in Lifecycle!Closed} :
              /\ Phases' = [x \in ID |-> IF x \in gone THEN "forgotten"
                                                      ELSE PhaseOf(cmds[x].status)]
              /\ Outcomes' = [x \in ID |-> cmds[x].finalAck]
  BY <1>0, <1>1, WritePhases
<1>3. gone \in SUBSET {x \in ID : Phases[x] \in Lifecycle!Closed
                                  \/ (x = id /\ to \in Lifecycle!Closed)}
  BY <1>1 DEF Phases
<1>4. Phases' = [x \in ID |-> IF x \in gone THEN "forgotten"
                               ELSE IF x = id THEN to ELSE Phases[x]]
  BY <1>1, <1>2 DEF Phases
<1>5. Phases[id] = PhaseOf(commands[id].status)
  BY DEF Phases
<1>6. IF to = "reported" THEN \E o \in Ack : Outcomes' = [Outcomes EXCEPT ![id] = o]
                         ELSE Outcomes' = Outcomes
  <2>1. Outcomes' = [x \in ID |-> IF x = id THEN d.finalAck ELSE commands[x].finalAck]
    BY <1>1, <1>2
  <2>2. Outcomes' = [Outcomes EXCEPT ![id] = d.finalAck]
    BY <2>1 DEF Outcomes
  <2>3. CASE to = "reported"
    BY <2>2, <2>3
  <2>4. CASE to # "reported"
    BY <2>1, <2>4 DEF Outcomes
  <2> QED BY <2>3, <2>4
<1> HIDE DEF to
<1> QED BY <1>3, <1>4, <1>5, <1>6 DEF Lifecycle!Advance, to

\* The moves of Transition are moves of the life cycle.
LEMMA TransitionMoves ==
    ASSUME NEW from \in Status, NEW to \in Asked \cup {"timed_out"}, valid(from, to), from # to,
           PhaseOf(from) # PhaseOf(to)
    PROVE  Lifecycle!May(PhaseOf(from), PhaseOf(to))
<1>1. from \in InFlightStatus
  BY DEF valid, InFlightStatus
<1>2. /\ from = "queued" => to \in {"dispatching", "canceled"}
      /\ from = "dispatching" =>
            to \in {"queued", "dispatched", "accepted", "canceled", "timed_out"} \cup FinalStatus
      /\ from = "dispatched" =>
            to \in {"accepted", "legacy_untracked", "canceled", "timed_out"} \cup FinalStatus
      /\ from = "accepted" => to \in FinalStatus \cup {"timed_out"}
  BY DEF valid, Asked, AuditStatus, FinalStatus
<1>3. /\ PhaseOf("queued") = "waiting" /\ PhaseOf("dispatching") = "out"
      /\ PhaseOf("dispatched") = "out" /\ PhaseOf("accepted") = "running"
      /\ \A s \in FinalStatus : PhaseOf(s) = "reported"
      /\ PhaseOf("canceled") = "canceled" /\ PhaseOf("timed_out") = "timed_out"
      /\ PhaseOf("legacy_untracked") = "legacy_untracked"
  BY DEF PhaseOf, FinalStatus
<1>4. CASE from = "queued"
  BY <1>2, <1>3, <1>4 DEF Lifecycle!May, Lifecycle!Moves
<1>5. CASE from = "dispatching"
  BY <1>2, <1>3, <1>5 DEF Lifecycle!May, Lifecycle!Moves
<1>6. CASE from = "dispatched"
  BY <1>2, <1>3, <1>6 DEF Lifecycle!May, Lifecycle!Moves
<1>7. CASE from = "accepted"
  BY <1>2, <1>3, <1>7 DEF Lifecycle!May, Lifecycle!Moves
<1> QED BY <1>1, <1>4, <1>5, <1>6, <1>7 DEF InFlightStatus

\* What one repository call stores is a move of the life cycle, or none.
LEMMA TouchImplements ==
    ASSUME TypeOK, RecordsKept, NEW id \in ID, NEW d \in Command, Touched(commands[id], d),
           Write([commands EXCEPT ![id] = d])
    PROVE  Lifecycle!LifecycleNext
<1> DEFINE c == commands[id]
           cmds == [commands EXCEPT ![id] = d]
<1>0. c \in Command /\ RecordKept(c, now) /\ c.status \in Status
  BY DEF TypeOK, RecordsKept, Command
<1>1. ASSUME PhaseOf(d.status) = PhaseOf(c.status), d.finalAck = c.finalAck
      PROVE  Lifecycle!Forget
  <2>1. cmds \in [ID -> Command] /\ \A x \in ID : /\ PhaseOf(cmds[x].status) = PhaseOf(commands[x].status)
                                               /\ cmds[x].finalAck = commands[x].finalAck
    BY <1>1 DEF TypeOK
  <2>2. Write(cmds)
    OBVIOUS
  <2> HIDE DEF cmds
  <2> QED BY <2>1, <2>2, ForgetStep
<1>2. ASSUME NEW to \in Asked \cup {"timed_out"}, NEW ack \in Ack \cup {NoAck}, NEW at \in 1 .. now,
             valid(c.status, to), c.status # to, to \in FinalStatus => ack \in Ack,
             d = Transitioned(c, to, ack, at)
      PROVE  Lifecycle!LifecycleNext
  <2>1. d.status = to /\ d.finalAck = IF to \in FinalStatus THEN ack ELSE c.finalAck
    BY <1>0, <1>2 DEF Transitioned, Command
  <2>2. CASE PhaseOf(to) = PhaseOf(c.status)
    <3>1. to \notin FinalStatus
      <4>1. c.status \in InFlightStatus
        BY <1>2 DEF valid, InFlightStatus
      <4> QED BY <2>2, <4>1 DEF PhaseOf, InFlightStatus, FinalStatus
    <3> QED BY <1>1, <2>1, <2>2, <3>1 DEF Lifecycle!LifecycleNext
  <2>3. CASE PhaseOf(to) # PhaseOf(c.status)
    <3>1. Lifecycle!May(PhaseOf(c.status), PhaseOf(d.status))
      BY <1>0, <1>2, <2>1, <2>3, TransitionMoves
    <3>2. PhaseOf(to) = "reported" <=> to \in FinalStatus
      BY DEF PhaseOf, Asked, FinalStatus
    <3>3. Lifecycle!Advance(id, PhaseOf(d.status))
      BY <3>1, <3>2, <1>2, <2>1, AdvanceStep
    <3>4. PhaseOf(to) \in Lifecycle!Open \cup Lifecycle!Closed
      <4>1. to \in TerminalStatus \cup InFlightStatus
        BY DEF Asked, TerminalStatus, AuditStatus, InFlightStatus
      <4> QED BY <4>1, PhaseFacts
    <3> QED BY <2>1, <3>3, <3>4 DEF Lifecycle!LifecycleNext
  <2> QED BY <2>2, <2>3
<1>3. ASSUME NEW ack \in Ack, d = WithLateAck(c, ack) PROVE d.status = c.status /\ d.finalAck = c.finalAck
  BY <1>0, <1>3 DEF WithLateAck, Command
<1>4. ASSUME NEW p \in ProjectionStatus, d = WithProjection(c, p)
      PROVE  d.status = c.status /\ d.finalAck = c.finalAck
  BY <1>0, <1>4 DEF WithProjection, Command
<1>5. ASSUME NEW n \in Nat, d = WithProgress(c, n) PROVE d.status = c.status /\ d.finalAck = c.finalAck
  BY <1>0, <1>5 DEF WithProgress, Command
<1>6. d.status = c.status /\ d.finalAck = c.finalAck => Lifecycle!LifecycleNext
  BY <1>1 DEF Lifecycle!LifecycleNext
<1> HIDE DEF c
<1> QED BY <1>2, <1>3, <1>4, <1>5, <1>6 DEF Touched, c

\* Creation is the move from absent to waiting.
LEMMA CreateImplements ==
    ASSUME TypeOK, RecordsKept, NEW req \in Request, NEW id \in ID, Create(req, id)
    PROVE  Lifecycle!LifecycleNext
<1> DEFINE d == NewCommand(req)
<1>1. d \in Command /\ d.status = "queued" /\ d.finalAck = NoAck
  BY NewCommandType DEF NewCommand
<1>2. commands[id].status = "none" /\ commands[id].finalAck = NoAck
  BY DEF Create, RecordsKept, RecordKept, FinalStatus
<1>3. Write([commands EXCEPT ![id] = d])
  BY DEF Create
<1> HIDE DEF d
<1>4. /\ PhaseOf(commands[id].status) = "absent" /\ PhaseOf(d.status) = "waiting"
      /\ "waiting" \in Lifecycle!Open
  BY <1>1, <1>2, PhaseFacts DEF Lifecycle!Open
<1>5. Lifecycle!May(PhaseOf(commands[id].status), PhaseOf(d.status))
  BY <1>4 DEF Lifecycle!May, Lifecycle!Moves
<1>6. Lifecycle!Advance(id, PhaseOf(d.status))
  BY <1>1, <1>2, <1>3, <1>4, <1>5, AdvanceStep
<1> QED BY <1>4, <1>6 DEF Lifecycle!LifecycleNext

\* The startup write is the restart of the life cycle.
LEMMA BootImplements ==
    ASSUME TypeOK, Write([id \in ID |-> Interrupted(commands[id], now)])
    PROVE  Lifecycle!Restart
<1> DEFINE cmds == [id \in ID |-> Interrupted(commands[id], now)]
<1>0. commands \in [ID -> Command] /\ now \in Nat
  BY DEF TypeOK
<1>1. cmds \in [ID -> Command] /\ Write(cmds)
  BY <1>0, StoredType
<1>2. ASSUME NEW x \in ID
      PROVE  /\ PhaseOf(cmds[x].status) = IF Phases[x] \in Lifecycle!Open THEN "interrupted"
                                                                        ELSE Phases[x]
             /\ cmds[x].finalAck = commands[x].finalAck
  <2> DEFINE c == commands[x]
  <2>1. c \in Command /\ c.status \in Status /\ Phases[x] = PhaseOf(c.status)
    BY <1>0 DEF Command, Phases
  <2>2. CASE InFlight(c)
    <3>1. cmds[x].status = "interrupted" /\ cmds[x].finalAck = c.finalAck
      BY <2>1, <2>2 DEF Interrupted, Command
    <3>2. Phases[x] \in Lifecycle!Open
      BY <2>1, <2>2, PhaseFacts DEF InFlight
    <3> QED BY <3>1, <3>2, PhaseFacts
  <2>3. CASE ~InFlight(c)
    <3>1. cmds[x] = c
      BY <2>3 DEF Interrupted
    <3>2. Phases[x] \notin Lifecycle!Open
      BY <2>1, <2>3, PhaseFacts DEF InFlight
    <3> QED BY <2>1, <3>1, <3>2
  <2> QED BY <2>2, <2>3
<1> HIDE DEF cmds
<1>3. PICK gone \in SUBSET {x \in ID : PhaseOf(cmds[x].status) \in Lifecycle!Closed} :
              /\ Phases' = [x \in ID |-> IF x \in gone THEN "forgotten"
                                                      ELSE PhaseOf(cmds[x].status)]
              /\ Outcomes' = [x \in ID |-> cmds[x].finalAck]
  BY <1>1, WritePhases
<1>4. gone \in SUBSET {x \in ID : Phases[x] \in Lifecycle!Open \cup Lifecycle!Closed}
  BY <1>2
<1>5. Phases' = [x \in ID |-> IF x \in gone THEN "forgotten"
                              ELSE IF Phases[x] \in Lifecycle!Open THEN "interrupted"
                              ELSE Phases[x]]
  BY <1>2, <1>3
<1>6. Outcomes' = Outcomes
  BY <1>2, <1>3 DEF Outcomes
<1> QED BY <1>4, <1>5, <1>6 DEF Lifecycle!Restart

\* The service implements the life cycle: whatever the interleaving of
\* handlers, sweepers, prunes and crashes, each write moves at most one
\* command along CommandLifecycle, interrupts the open ones or forgets closed
\* ones (Transition, InterruptNonTerminal, write).
THEOREM LifecycleImplemented == Spec => ImplementsLifecycle
<1>1. Init => Lifecycle!LifecycleInit
  <2> SUFFICES ASSUME Init PROVE Lifecycle!LifecycleInit
    OBVIOUS
  <2>1. Undrawn.status = "none" /\ Undrawn.finalAck = NoAck
    BY DEF Undrawn, NewCommand
  <2>2. \A id \in ID : PhaseOf(commands[id].status) = "absent" /\ commands[id].finalAck = NoAck
    BY <2>1, PhaseFacts DEF Init
  <2> QED BY <2>2 DEF Lifecycle!LifecycleInit, Phases, Outcomes
<1>2. ServiceInv /\ [Next]_vars => [Lifecycle!LifecycleNext]_<<Phases, Outcomes>>
  <2> SUFFICES ASSUME ServiceInv, [Next]_vars
               PROVE  Lifecycle!LifecycleNext \/ UNCHANGED <<Phases, Outcomes>>
    OBVIOUS
  <2>0. TypeOK /\ RecordsKept
    BY DEF ServiceInv
  <2>1. ASSUME UNCHANGED commands PROVE UNCHANGED <<Phases, Outcomes>>
    BY <2>1 DEF Phases, Outcomes
  <2>2. ASSUME NEW cmds \in [ID -> Command], Marked(cmds), Write(cmds)
        PROVE  Lifecycle!Forget
    <3>1. ASSUME NEW x \in ID
          PROVE  /\ PhaseOf(cmds[x].status) = PhaseOf(commands[x].status)
                 /\ cmds[x].finalAck = commands[x].finalAck
      <4>1. commands[x] \in Command
        BY <2>0 DEF TypeOK
      <4>2. \A p : LET d == WithProjection(commands[x], p)
                   IN  d.status = commands[x].status /\ d.finalAck = commands[x].finalAck
        BY <4>1 DEF WithProjection, Command
      <4> QED BY <4>2, <2>2 DEF Marked
    <3> QED BY <2>2, <3>1, ForgetStep
  <2> QED BY <2>0, <2>1, <2>2, StepStores, CreateImplements, TouchImplements, BootImplements
       DEF ServiceInv, Lifecycle!LifecycleNext
<1> QED BY <1>1, <1>2, ServiceInvariant, PTL DEF Spec, ImplementsLifecycle, Lifecycle!LifecycleSpec
=============================================================================

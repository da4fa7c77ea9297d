------------------------- MODULE AgentLedgerProofs -------------------------
(***************************************************************************)
(* Proofs about the agent's ledger, for every set of commands and any      *)
(* number of crashes.                                                      *)
(*                                                                         *)
(* ShutdownOnce is not inductive: executed does not say who may still run  *)
(* the command.  OnceInv adds it.  A shutdown that main or a timer holds,  *)
(* or that has run, is past `prepared' in memory AND on disk, so neither a *)
(* second delivery nor a restart lets it through start again; and at most  *)
(* one of them holds it.                                                   *)
(*                                                                         *)
(* ResultInv says who may post or store a result; with it a record that is *)
(* confirmed has one at the server.  CoverInv says, while the ledger is    *)
(* loaded, while records are recovered and while main works, who still has *)
(* to look at a command whose side effect ran.                             *)
(*                                                                         *)
(* AnswerInv says of every answer, wherever it is kept or on its way, that *)
(* it is true and stays so; with it the daemon implements                  *)
(* CommandExecution.                                                       *)
(***************************************************************************)
EXTENDS AgentLedger, TLAPS

Past(rec) == rec.stage \notin {"none", "prepared"}

\* main is past startCommand with a command and has not reported on it.
Launched(id) == main.id = id /\ main.pc \in {"accept", "execute"}

OnceInv ==
    \A id \in ShutdownID :
        /\ executed[id] # 0 \/ timer[id].pc # "idle" \/ Launched(id)
           => Past(mem[id]) /\ Past(disk[id])
        /\ timer[id].pc = "waiting" => executed[id] = 0
        /\ Launched(id) => executed[id] = 0 /\ timer[id].pc = "idle"
        /\ executed[id] \in {0, 1}

Reported == {"result_committed", "ack_confirmed"}

\* A record with a result is past execution in both copies, and confirmed
\* only when the server has recorded one.
Kept(id) ==
    /\ mem[id].ack # NoAck => mem[id].stage \in Reported
    /\ disk[id].ack # NoAck => mem[id].ack # NoAck /\ disk[id].stage \in Reported
    /\ mem[id].stage = "ack_confirmed" /\ mem[id].ack # NoAck => server[id] # NoAck
    /\ disk[id].stage = "ack_confirmed" /\ disk[id].ack # NoAck => server[id] # NoAck

\* Nobody who is about to execute a command has a result of it.
ResultInv ==
    /\ \A id \in ID : Kept(id)
    /\ main.pc = "start" => mem[main.id].stage = "prepared"
    /\ main.pc \in {"accept", "execute"} => mem[main.id].ack = NoAck
    /\ \A p \in retry : mem[p.id].ack # NoAck

-----------------------------------------------------------------------------
(* Types *)

\* The two copies of the ledger that TypeOK speaks of.
LedgerType(m, d) ==
    /\ m \in [ID -> Record] /\ d \in [ID -> Record]
    /\ \A id \in ID : m[id].stage = "result_committed" => m[id].ack \in Outcome
    /\ \A id \in ID : d[id].stage = "result_committed" => d[id].ack \in Outcome

MainType(m) == m \in Main /\ (m.pc = "idle" <=> m.id = NoID) /\ CarriesAck(m)

\* A ledger method stores a well-formed record (ledger.go).
LEMMA StoreType ==
    ASSUME LedgerType(mem, disk), NEW id \in ID, NEW rec \in Record,
           rec.stage = "result_committed" => rec.ack \in Outcome,
           NEW written \in BOOLEAN, Store(id, rec, written)
    PROVE  LedgerType(mem', disk')
  BY DEF LedgerType, Store

\* Changing the stage keeps the ACK (resetPrepared, start, confirm).
LEMMA StageType ==
    ASSUME LedgerType(mem, disk), NEW id \in ID,
           NEW stage \in Stage \ {"result_committed"},
           NEW written \in BOOLEAN, SetStage(id, stage, written)
    PROVE  LedgerType(mem', disk')
  <1>1. [mem[id] EXCEPT !.stage = stage] \in Record
    BY DEF LedgerType, Record
  <1>2. [mem[id] EXCEPT !.stage = stage].stage = stage
    BY DEF LedgerType, Record
  <1>. QED  BY <1>1, <1>2, StoreType DEF SetStage

\* postAck leaves the ledger and the server well-formed.
LEMMA PostType ==
    ASSUME LedgerType(mem, disk), server \in [ID -> Outcome \cup {NoAck}],
           NEW id \in ID, NEW ack \in Outcome,
           NEW sent \in BOOLEAN, NEW answered \in BOOLEAN, NEW written \in BOOLEAN,
           PostFinal(id, ack, sent, answered, written)
    PROVE  LedgerType(mem', disk') /\ server' \in [ID -> Outcome \cup {NoAck}]
  <1>1. LedgerType(mem', disk')
    <2>1. CASE UNCHANGED <<mem, disk>>
      BY <2>1
    <2>2. CASE SetStage(id, "ack_confirmed", written)
      BY <2>2, StageType DEF Stage
    <2>. QED  BY <2>1, <2>2 DEF PostFinal
  <1>2. server' \in [ID -> Outcome \cup {NoAck}]
    BY DEF PostFinal
  <1>. QED  BY <1>1, <1>2

\* handleEvent leaves the ledger well-formed and main somewhere sensible.
LEMMA HandleEventType ==
    ASSUME LedgerType(mem, disk), MainType(main), NEW id \in ID,
           NEW written \in BOOLEAN, HandleEvent(id, written)
    PROVE  LedgerType(mem', disk') /\ MainType(main')
  <1>p. ASSUME Proceed(id) PROVE MainType(main')
    BY <1>p, LedgerNames DEF Proceed, Goto, MainType, Main, CarriesAck, Outcome
  <1>s. mem[id] \in Record /\ (mem[id].stage = "result_committed" => mem[id].ack \in Outcome)
    BY DEF LedgerType
  <1>1. CASE SetStage(id, "prepared", written) /\ (Proceed(id) \/ UNCHANGED main)
    BY <1>1, <1>p, StageType DEF Stage
  <1>2. CASE Proceed(id) /\ UNCHANGED <<mem, disk>>
    BY <1>2, <1>p
  <1>3. CASE OnStarted(id) /\ UNCHANGED <<mem, disk>>
    BY <1>3, LedgerNames DEF OnStarted, Goto, MainType, Main, CarriesAck, Outcome
  <1>4. CASE mem[id].stage = "result_committed" /\ OnCommitted(id) /\ UNCHANGED <<mem, disk>>
    BY <1>4, <1>s, LedgerNames DEF OnCommitted, Goto, MainType, Main, CarriesAck
  <1>5. CASE UNCHANGED <<main, mem, disk>>
    BY <1>5
  <1>. QED  BY <1>1, <1>2, <1>3, <1>4, <1>5 DEF HandleEvent

TypeFrame ==
    /\ process \in {"down", "recovering", "serving"} /\ stopping \in BOOLEAN
    /\ todo \subseteq ID
    /\ timer \in [ShutdownID -> Timer] /\ \A id \in ShutdownID : CarriesAck(timer[id])
    /\ retry \subseteq Pending
    /\ executed \in [ID -> Nat]
    /\ crashes \in 0..MaxCrash

\* TypeOK in the parts the lemmas above speak of.
LEMMA TypeParts ==
    TypeOK <=> /\ LedgerType(mem, disk) /\ MainType(main)
               /\ server \in [ID -> Outcome \cup {NoAck}] /\ TypeFrame
  BY DEF TypeOK, LedgerType, MainType, TypeFrame

\* Every step of the daemon preserves the types.
LEMMA TypeStep == TypeOK /\ [Next]_vars => TypeOK'
  <1>. SUFFICES ASSUME LedgerType(mem, disk), MainType(main),
                       server \in [ID -> Outcome \cup {NoAck}], TypeFrame, [Next]_vars
                PROVE  /\ LedgerType(mem', disk') /\ MainType(main')
                       /\ server' \in [ID -> Outcome \cup {NoAck}] /\ TypeFrame'
    BY TypeParts DEF TypeOK, LedgerType, MainType, TypeFrame
  <1>m. main.pc # "idle" => main.id \in ID
    BY DEF MainType, Main
  <1>i. MainType(IdleMain)
    BY DEF MainType, Main, IdleMain, CarriesAck
  <1>t. IdleTimer \in Timer /\ CarriesAck(IdleTimer)
    BY DEF Timer, IdleTimer, CarriesAck
  <1>1. ASSUME NEW written \in BOOLEAN, NEW id \in ID, Receive(id, written)
        PROVE  /\ LedgerType(mem', disk') /\ MainType(main')
               /\ server' \in [ID -> Outcome \cup {NoAck}] /\ TypeFrame'
    BY <1>1, HandleEventType DEF Receive, TypeFrame
  <1>2. ASSUME NEW written \in BOOLEAN, NEW id \in ID, Recover(id, written)
        PROVE  /\ LedgerType(mem', disk') /\ MainType(main')
               /\ server' \in [ID -> Outcome \cup {NoAck}] /\ TypeFrame'
    BY <1>2, HandleEventType DEF Recover, TypeFrame
  <1>3. ASSUME NEW written \in BOOLEAN, StartCommand(written)
        PROVE  /\ LedgerType(mem', disk') /\ MainType(main')
               /\ server' \in [ID -> Outcome \cup {NoAck}] /\ TypeFrame'
    <2>1. LedgerType(mem', disk')
      <3>1. CASE UNCHANGED <<mem, disk>>
        BY <3>1
      <3>2. CASE SetStage(main.id, "side_effect_started", written)
        BY <1>3, <3>2, <1>m, StageType DEF Stage, StartCommand
      <3>. QED  BY <1>3, <3>1, <3>2 DEF StartCommand
    <2>2. MainType([main EXCEPT !.pc = "accept"])
      BY <1>3 DEF StartCommand, MainType, Main, CarriesAck
    <2>3. MainType(main')
      BY <1>3, <1>i, <2>2 DEF StartCommand
    <2>. QED  BY <1>3, <2>1, <2>3 DEF StartCommand, TypeFrame
  <1>4. ASSUME NEW written \in BOOLEAN, CommitResult(written)
        PROVE  /\ LedgerType(mem', disk') /\ MainType(main')
               /\ server' \in [ID -> Outcome \cup {NoAck}] /\ TypeFrame'
    <2>1. main.ack \in Outcome
      BY <1>4 DEF CommitResult, MainType, CarriesAck
    <2>2. Committed(main.ack) \in Record /\ Committed(main.ack).ack \in Outcome
      BY <2>1 DEF Committed, Record, Stage
    <2>3. LedgerType(mem', disk')
      BY <1>4, <1>m, <2>2, StoreType DEF CommitResult
    <2>4. MainType([main EXCEPT !.pc = "post"])
      BY <1>4, <2>1 DEF CommitResult, MainType, Main, CarriesAck
    <2>5. MainType(main')
      BY <1>4, <1>i, <2>4 DEF CommitResult
    <2>. QED  BY <1>4, <2>3, <2>5 DEF CommitResult, TypeFrame
  <1>5. ASSUME NEW written \in BOOLEAN, NEW ok \in BOOLEAN, SendAccepted(ok, written)
        PROVE  /\ LedgerType(mem', disk') /\ MainType(main')
               /\ server' \in [ID -> Outcome \cup {NoAck}] /\ TypeFrame'
    <2>1. LedgerType(mem', disk')
      <3>1. CASE UNCHANGED <<mem, disk>>
        BY <3>1
      <3>2. CASE SetStage(main.id, "ack_confirmed", written)
        BY <1>5, <3>2, <1>m, StageType DEF Stage, SendAccepted
      <3>. QED  BY <1>5, <3>1, <3>2 DEF SendAccepted
    <2>2. MainType(main')
      BY <1>5 DEF SendAccepted, MainType, Main, CarriesAck
    <2>. QED  BY <1>5, <2>1, <2>2 DEF SendAccepted, TypeFrame
  <1>6. ASSUME NEW written \in BOOLEAN, NEW sent \in BOOLEAN, NEW answered \in BOOLEAN,
               PostResult(sent, answered, written)
        PROVE  /\ LedgerType(mem', disk') /\ MainType(main')
               /\ server' \in [ID -> Outcome \cup {NoAck}] /\ TypeFrame'
    <2>1. main.ack \in Outcome /\ main.id \in ID
      BY <1>6, <1>m DEF PostResult, MainType, CarriesAck
    <2>2. LedgerType(mem', disk') /\ server' \in [ID -> Outcome \cup {NoAck}]
      BY <1>6, <2>1, PostType DEF PostResult
    <2>. QED  BY <1>6, <1>i, <2>2 DEF PostResult, TypeFrame
  <1>7. ASSUME NEW outcome \in {"succeeded", "failed"}, Apply(outcome)
        PROVE  /\ LedgerType(mem', disk') /\ MainType(main')
               /\ server' \in [ID -> Outcome \cup {NoAck}] /\ TypeFrame'
    <2>1. MainType(main')
      BY <1>7 DEF Apply, MainType, Main, CarriesAck, Outcome
    <2>2. executed' \in [ID -> Nat]
      BY <1>7, <1>m DEF Apply, TypeFrame
    <2>. QED  BY <1>7, <2>1, <2>2 DEF Apply, TypeFrame
  <1>8. ASSUME ScheduleShutdown
        PROVE  /\ LedgerType(mem', disk') /\ MainType(main')
               /\ server' \in [ID -> Outcome \cup {NoAck}] /\ TypeFrame'
    <2>1. [pc |-> "waiting", ack |-> NoAck] \in Timer /\ CarriesAck([pc |-> "waiting", ack |-> NoAck])
      BY DEF Timer, CarriesAck
    <2>2. timer' \in [ShutdownID -> Timer] /\ \A id \in ShutdownID : CarriesAck(timer'[id])
      BY <1>8, <2>1 DEF ScheduleShutdown, TypeFrame
    <2>. QED  BY <1>8, <1>i, <2>2 DEF ScheduleShutdown, TypeFrame
  <1>9. ASSUME NEW id \in ShutdownID, NEW outcome \in {"succeeded", "failed"},
               Fire(id, outcome)
        PROVE  /\ LedgerType(mem', disk') /\ MainType(main')
               /\ server' \in [ID -> Outcome \cup {NoAck}] /\ TypeFrame'
    <2>1. [pc |-> "commit", ack |-> outcome] \in Timer /\ CarriesAck([pc |-> "commit", ack |-> outcome])
      BY DEF Timer, CarriesAck, Outcome
    <2>2. timer' \in [ShutdownID -> Timer] /\ \A i \in ShutdownID : CarriesAck(timer'[i])
      BY <1>9, <2>1 DEF Fire, TypeFrame
    <2>3. executed' \in [ID -> Nat]
      BY <1>9 DEF Fire, TypeFrame, ID
    <2>. QED  BY <1>9, <2>2, <2>3 DEF Fire, TypeFrame
  <1>10. ASSUME NEW id \in ShutdownID, CancelTimer(id)
         PROVE  /\ LedgerType(mem', disk') /\ MainType(main')
                /\ server' \in [ID -> Outcome \cup {NoAck}] /\ TypeFrame'
    <2>1. [pc |-> "commit", ack |-> "failed"] \in Timer /\ CarriesAck([pc |-> "commit", ack |-> "failed"])
      BY DEF Timer, CarriesAck, Outcome
    <2>2. timer' \in [ShutdownID -> Timer] /\ \A i \in ShutdownID : CarriesAck(timer'[i])
      BY <1>10, <2>1 DEF CancelTimer, TypeFrame
    <2>. QED  BY <1>10, <2>2 DEF CancelTimer, TypeFrame
  <1>11. ASSUME NEW id \in ShutdownID, NEW written \in BOOLEAN, TimerCommit(id, written)
         PROVE  /\ LedgerType(mem', disk') /\ MainType(main')
                /\ server' \in [ID -> Outcome \cup {NoAck}] /\ TypeFrame'
    <2>1. timer[id] \in Timer /\ timer[id].ack \in Outcome /\ id \in ID
      BY <1>11 DEF TimerCommit, TypeFrame, CarriesAck, ID
    <2>2. Committed(timer[id].ack) \in Record /\ Committed(timer[id].ack).ack \in Outcome
      BY <2>1 DEF Committed, Record, Stage
    <2>3. LedgerType(mem', disk')
      BY <1>11, <2>1, <2>2, StoreType DEF TimerCommit
    <2>4. [timer[id] EXCEPT !.pc = "post"] \in Timer /\ CarriesAck([timer[id] EXCEPT !.pc = "post"])
      BY <2>1 DEF Timer, CarriesAck
    <2>5. timer' \in [ShutdownID -> Timer] /\ \A i \in ShutdownID : CarriesAck(timer'[i])
      BY <1>11, <1>t, <2>4 DEF TimerCommit, TypeFrame
    <2>. QED  BY <1>11, <2>3, <2>5 DEF TimerCommit, TypeFrame
  <1>12. ASSUME NEW id \in ShutdownID, NEW sent \in BOOLEAN, NEW answered \in BOOLEAN,
                NEW written \in BOOLEAN, TimerPost(id, sent, answered, written)
         PROVE  /\ LedgerType(mem', disk') /\ MainType(main')
                /\ server' \in [ID -> Outcome \cup {NoAck}] /\ TypeFrame'
    <2>1. timer[id].ack \in Outcome /\ id \in ID
      BY <1>12 DEF TimerPost, TypeFrame, CarriesAck, ID
    <2>2. LedgerType(mem', disk') /\ server' \in [ID -> Outcome \cup {NoAck}]
      BY <1>12, <2>1, PostType DEF TimerPost
    <2>3. timer' \in [ShutdownID -> Timer] /\ \A i \in ShutdownID : CarriesAck(timer'[i])
      BY <1>12, <1>t DEF TimerPost, TypeFrame
    <2>. QED  BY <1>12, <2>2, <2>3 DEF TimerPost, TypeFrame
  <1>13. ASSUME RetryList
         PROVE  /\ LedgerType(mem', disk') /\ MainType(main')
                /\ server' \in [ID -> Outcome \cup {NoAck}] /\ TypeFrame'
    <2>1. PendingAcks \subseteq Pending
      BY DEF PendingAcks, Pending, LedgerType
    <2>. QED  BY <1>13, <2>1 DEF RetryList, TypeFrame
  <1>14. ASSUME NEW p \in retry, NEW sent \in BOOLEAN, NEW answered \in BOOLEAN,
                NEW written \in BOOLEAN, RetryPost(p, sent, answered, written)
         PROVE  /\ LedgerType(mem', disk') /\ MainType(main')
                /\ server' \in [ID -> Outcome \cup {NoAck}] /\ TypeFrame'
    <2>1. p.id \in ID /\ p.ack \in Outcome
      BY DEF TypeFrame, Pending
    <2>2. LedgerType(mem', disk') /\ server' \in [ID -> Outcome \cup {NoAck}]
      BY <1>14, <2>1, PostType DEF RetryPost
    <2>. QED  BY <1>14, <2>2 DEF RetryPost, TypeFrame
  <1>15. CASE Stop \/ Serve
    BY <1>15 DEF Stop, Serve, TypeFrame
  <1>16. CASE Crash
    <2>1. LedgerType(mem', disk')
      BY <1>16 DEF Crash, LedgerType
    <2>2. timer' \in [ShutdownID -> Timer] /\ \A i \in ShutdownID : CarriesAck(timer'[i])
      BY <1>16, <1>t DEF Crash
    <2>3. crashes' \in 0..MaxCrash
      BY <1>16, LedgerBound DEF Crash, TypeFrame
    <2>. QED  BY <1>16, <1>i, <2>1, <2>2, <2>3 DEF Crash, TypeFrame
  <1>17. CASE Boot
    BY <1>17 DEF Boot, TypeFrame
  <1>18. CASE UNCHANGED vars
    BY <1>18 DEF vars, TypeFrame
  <1>. QED
    BY <1>1, <1>2, <1>3, <1>4, <1>5, <1>6, <1>7, <1>8, <1>9, <1>10, <1>11, <1>12, <1>13,
       <1>14, <1>15, <1>16, <1>17, <1>18
    DEF Next, MainStep, Execute, TimerStep, RetryStep

\* The types of TypeOK hold in every state of the daemon: the ledger never
\* holds a committed record without an ACK, nobody sends an ACK he has not got.
THEOREM LedgerTypes == Spec => []TypeOK
  <1>1. Init => TypeOK
    <2>. SUFFICES ASSUME Init PROVE TypeOK
      OBVIOUS
    <2>1. [stage |-> "none", ack |-> NoAck] \in Record
      BY DEF Record, Stage
    <2>2. LedgerType(mem, disk)
      BY <2>1 DEF Init, LedgerType
    <2>3. MainType(main)
      BY DEF Init, MainType, Main, IdleMain, CarriesAck
    <2>4. TypeFrame
      <3>1. IdleTimer \in Timer /\ CarriesAck(IdleTimer)
        BY DEF Timer, IdleTimer, CarriesAck
      <3>2. process \in {"down", "recovering", "serving"} /\ stopping \in BOOLEAN
        BY DEF Init
      <3>3. timer \in [ShutdownID -> Timer] /\ \A id \in ShutdownID : CarriesAck(timer[id])
        BY <3>1 DEF Init
      <3>4. todo \subseteq ID /\ retry \subseteq Pending /\ executed \in [ID -> Nat]
        BY DEF Init
      <3>5. crashes \in 0..MaxCrash
        BY LedgerBound DEF Init
      <3>. QED  BY <3>2, <3>3, <3>4, <3>5 DEF TypeFrame
    <2>5. server \in [ID -> Outcome \cup {NoAck}]
      BY DEF Init
    <2>. QED  BY <2>2, <2>3, <2>4, <2>5, TypeParts
  <1>. QED  BY <1>1, TypeStep, PTL DEF Spec

-----------------------------------------------------------------------------
(* At most one execution of a shutdown *)

\* What a ledger method does to the other records and to the file.
LEMMA StoreFacts ==
    ASSUME LedgerType(mem, disk), NEW id \in ID, NEW rec \in Record,
           NEW written \in BOOLEAN, Store(id, rec, written)
    PROVE  \A x \in ID : /\ mem'[x] = IF x = id THEN rec ELSE mem[x]
                         /\ disk'[x] \in {mem'[x], disk[x]}
                         /\ written => disk'[x] = mem'[x]
  BY DEF LedgerType, Store

\* SetStage changes one record in memory, and the file only when it is written.
LEMMA StageFacts ==
    ASSUME LedgerType(mem, disk), NEW id \in ID, NEW stage \in Stage,
           NEW written \in BOOLEAN, SetStage(id, stage, written)
    PROVE  \A x \in ID :
              /\ mem'[x].stage = IF x = id THEN stage ELSE mem[x].stage
              /\ mem'[x].ack = mem[x].ack
              /\ disk'[x] \in {mem'[x], disk[x]}
              /\ written => disk'[x] = mem'[x]
  <1>. DEFINE rec == [mem[id] EXCEPT !.stage = stage]
  <1>1. rec \in Record /\ rec.stage = stage /\ rec.ack = mem[id].ack
    BY DEF LedgerType, Record
  <1>2. Store(id, rec, written)
    BY DEF SetStage
  <1>. HIDE DEF rec
  <1>. QED  BY <1>1, <1>2, StoreFacts

\* postAck only ever moves a record to ack_confirmed, and only with a final
\* ACK on record at the server.
LEMMA PostFacts ==
    ASSUME LedgerType(mem, disk), server \in [ID -> Outcome \cup {NoAck}],
           NEW id \in ID, NEW ack \in Outcome,
           NEW sent \in BOOLEAN, NEW answered \in BOOLEAN, NEW written \in BOOLEAN,
           PostFinal(id, ack, sent, answered, written)
    PROVE  /\ \A x \in ID :
                /\ mem'[x].ack = mem[x].ack
                /\ disk'[x] \in {mem'[x], disk[x]}
                /\ \/ mem'[x] = mem[x]
                   \/ mem'[x].stage = "ack_confirmed" /\ server'[x] # NoAck /\ x = id
                /\ server[x] # NoAck => server'[x] # NoAck
  <1>1. \A x \in ID : server[x] # NoAck => server'[x] # NoAck
    BY LedgerNames DEF PostFinal
  <1>2. CASE UNCHANGED <<mem, disk>>
    BY <1>1, <1>2
  <1>3. CASE SetStage(id, "ack_confirmed", written) /\ sent /\ server[id] \in {NoAck, ack}
    <2>1. server'[id] # NoAck
      BY <1>3, LedgerNames DEF PostFinal
    <2>2. \A x \in ID : x # id => mem'[x] = mem[x]
      BY <1>3 DEF SetStage, Store, LedgerType
    <2>. QED  BY <1>1, <1>3, <2>1, <2>2, StageFacts DEF Stage
  <1>. QED  BY <1>2, <1>3 DEF PostFinal

PastBoth(id) == Past(mem[id]) /\ Past(disk[id])

\* A shutdown that is past `prepared' in both copies stays there: only a
\* record that is new, or of another kind, is ever set to prepared.
LEMMA PastKept ==
    ASSUME TypeOK, [Next]_vars, NEW x \in ShutdownID, PastBoth(x)
    PROVE  PastBoth(x)'
  <1>. USE DEF PastBoth, Past
  <1>l. LedgerType(mem, disk) /\ server \in [ID -> Outcome \cup {NoAck}] /\ x \in ID
    BY TypeParts DEF ID
  <1>m. main.pc # "idle" => main.id \in ID
    BY DEF TypeOK, Main
  <1>a. /\ main.pc \in {"commit", "post"} => main.ack \in Outcome
        /\ \A id \in ShutdownID : timer[id].pc \in {"commit", "post"} => timer[id].ack \in Outcome
    BY DEF TypeOK, CarriesAck
  <1>h. ASSUME NEW id \in ID, NEW written \in BOOLEAN, HandleEvent(id, written)
        PROVE  PastBoth(x)'
    <2>1. CASE SetStage(id, "prepared", written) /\ id # x
      BY <2>1, <1>l, StageFacts DEF Stage
    <2>. QED  BY <1>h, <2>1 DEF HandleEvent
  <1>c. ASSUME NEW id \in ID, NEW ack \in Outcome, NEW written \in BOOLEAN,
               Store(id, Committed(ack), written)
        PROVE  PastBoth(x)'
    <2>1. Committed(ack) \in Record /\ Committed(ack).stage = "result_committed"
      BY DEF Committed, Record, Stage
    <2>. QED  BY <1>c, <1>l, <2>1, StoreFacts
  <1>p. ASSUME NEW id \in ID, NEW ack \in Outcome, NEW sent \in BOOLEAN,
               NEW answered \in BOOLEAN, NEW written \in BOOLEAN,
               PostFinal(id, ack, sent, answered, written)
        PROVE  PastBoth(x)'
    BY <1>p, <1>l, PostFacts
  <1>s. ASSUME NEW id \in ID, NEW stage \in Stage \ {"none", "prepared"},
               NEW written \in BOOLEAN, SetStage(id, stage, written)
        PROVE  PastBoth(x)'
    BY <1>s, <1>l, StageFacts
  <1>1. ASSUME NEW written \in BOOLEAN, NEW id \in ID,
               Receive(id, written) \/ Recover(id, written)
        PROVE  PastBoth(x)'
    BY <1>1, <1>h DEF Receive, Recover
  <1>2. ASSUME NEW written \in BOOLEAN, StartCommand(written)
        PROVE  PastBoth(x)'
    BY <1>2, <1>m, <1>s DEF StartCommand, Stage
  <1>3. ASSUME NEW written \in BOOLEAN, NEW ok \in BOOLEAN, SendAccepted(ok, written)
        PROVE  PastBoth(x)'
    BY <1>3, <1>m, <1>s DEF SendAccepted, Stage
  <1>4. ASSUME NEW written \in BOOLEAN, CommitResult(written)
        PROVE  PastBoth(x)'
    BY <1>4, <1>m, <1>a, <1>c DEF CommitResult
  <1>5. ASSUME NEW written \in BOOLEAN, NEW id \in ShutdownID, TimerCommit(id, written)
        PROVE  PastBoth(x)'
    BY <1>5, <1>a, <1>c DEF TimerCommit, ID
  <1>6. ASSUME NEW written \in BOOLEAN, NEW sent \in BOOLEAN, NEW answered \in BOOLEAN,
               PostResult(sent, answered, written)
        PROVE  PastBoth(x)'
    BY <1>6, <1>m, <1>a, <1>p DEF PostResult
  <1>7. ASSUME NEW written \in BOOLEAN, NEW sent \in BOOLEAN, NEW answered \in BOOLEAN,
               NEW id \in ShutdownID, TimerPost(id, sent, answered, written)
        PROVE  PastBoth(x)'
    BY <1>7, <1>a, <1>p DEF TimerPost, ID
  <1>8. ASSUME NEW written \in BOOLEAN, NEW sent \in BOOLEAN, NEW answered \in BOOLEAN,
               NEW p \in retry, RetryPost(p, sent, answered, written)
        PROVE  PastBoth(x)'
    <2>1. p.id \in ID /\ p.ack \in Outcome
      BY DEF TypeOK, Pending
    <2>. QED  BY <1>8, <1>p, <2>1 DEF RetryPost
  <1>9. ASSUME UNCHANGED <<mem, disk>> \/ Crash
        PROVE  PastBoth(x)'
    BY <1>9 DEF Crash
  <1>10. ASSUME NEW outcome \in Outcome, NEW id \in ShutdownID,
                Apply(outcome) \/ Fire(id, outcome) \/ CancelTimer(id)
         PROVE  UNCHANGED <<mem, disk>>
    BY <1>10 DEF Apply, Fire, CancelTimer
  <1>11. ASSUME ScheduleShutdown \/ RetryList \/ Stop \/ Boot \/ Serve \/ UNCHANGED vars
                \/ (\E outcome \in {"succeeded", "failed"} : Apply(outcome))
         PROVE  UNCHANGED <<mem, disk>>
    BY <1>11 DEF ScheduleShutdown, RetryList, Stop, Boot, Serve, vars, Apply
  <1>. HIDE DEF PastBoth, Past
  <1>. QED
    BY <1>1, <1>2, <1>3, <1>4, <1>5, <1>6, <1>7, <1>8, <1>9, <1>10, <1>11
    DEF Next, MainStep, Execute, TimerStep, RetryStep, Outcome

Once(id) ==
    /\ executed[id] # 0 \/ timer[id].pc # "idle" \/ Launched(id) => PastBoth(id)
    /\ timer[id].pc = "waiting" => executed[id] = 0
    /\ Launched(id) => executed[id] = 0 /\ timer[id].pc = "idle"
    /\ executed[id] \in {0, 1}

\* A step after which nobody holds a shutdown who did not hold it before.
NoNewHolder(id) ==
    /\ executed'[id] = executed[id]
    /\ Launched(id)' => Launched(id)
    /\ \/ timer'[id].pc = timer[id].pc
       \/ timer'[id].pc = "idle"
       \/ timer[id].pc # "idle" /\ timer'[id].pc # "waiting"

\* Only startCommand, the hand-over to the timer and the timer's firing make
\* a new holder; every other step keeps OnceInv for what it leaves alone.
LEMMA OnceStep ==
    ASSUME TypeOK, TypeOK', [Next]_vars, OnceInv
    PROVE  OnceInv'
  <1>. SUFFICES ASSUME NEW x \in ShutdownID PROVE Once(x)'
    BY DEF OnceInv, Once, PastBoth
  <1>o. Once(x) /\ (PastBoth(x) => PastBoth(x)')
    BY PastKept DEF OnceInv, Once, PastBoth
  <1>t. /\ x \in ID /\ x # NoID /\ timer \in [ShutdownID -> Timer] /\ executed \in [ID -> Nat]
        /\ main \in Main /\ LedgerType(mem, disk)
    BY LedgerNames, TypeParts DEF TypeOK, ID
  <1>q. ASSUME NoNewHolder(x) PROVE Once(x)'
    BY <1>q, <1>o DEF NoNewHolder, Once
  <1>i. ASSUME main' = IdleMain \/ main'.pc \in {"idle", "start", "commit", "post"} \/ UNCHANGED main
        PROVE  Launched(x)' => Launched(x)
    BY <1>i, <1>t DEF Launched, IdleMain
  <1>1. ASSUME NEW written \in BOOLEAN, NEW id \in ID,
               Receive(id, written) \/ Recover(id, written)
        PROVE  NoNewHolder(x)
    <2>1. main'.pc \in {"start", "commit", "post"} \/ UNCHANGED main
      BY <1>1 DEF Receive, Recover, HandleEvent, Proceed, OnStarted, OnCommitted, Goto
    <2>. QED  BY <1>1, <1>i, <2>1 DEF Receive, Recover, NoNewHolder
  <1>2. ASSUME NEW written \in BOOLEAN, StartCommand(written)
        PROVE  Once(x)'
    <2>0. UNCHANGED <<timer, executed>>
      BY <1>2 DEF StartCommand
    <2>1. CASE ~Launched(x)'
      BY <2>0, <2>1, <1>q DEF NoNewHolder
    <2>2. CASE Launched(x)'
      <3>1. /\ main.pc = "start" /\ main.id = x /\ written
            /\ mem[x].stage = "prepared" /\ SetStage(x, "side_effect_started", written)
        BY <1>2, <2>2, <1>t DEF StartCommand, StartGuard, Launched, IdleMain, Main
      <3>2. ~PastBoth(x)
        BY <3>1 DEF PastBoth, Past
      <3>3. mem'[x].stage = "side_effect_started" /\ disk'[x] = mem'[x]
        <4>1. "side_effect_started" \in Stage /\ x \in ID /\ LedgerType(mem, disk)
          BY <1>t DEF Stage
        <4>2. /\ mem'[x].stage = IF x = x THEN "side_effect_started" ELSE mem[x].stage
              /\ written => disk'[x] = mem'[x]
          BY <4>1, <3>1, StageFacts, Zenon
        <4>. QED  BY <3>1, <4>2
      <3>4. PastBoth(x)'
        BY <3>3 DEF PastBoth, Past
      <3>. QED  BY <2>0, <3>2, <3>4, <1>o DEF Once
    <2>. QED  BY <2>1, <2>2
  <1>3. ASSUME NEW written \in BOOLEAN, NEW ok \in BOOLEAN, SendAccepted(ok, written)
        PROVE  NoNewHolder(x)
    BY <1>3, <1>t DEF SendAccepted, NoNewHolder, Launched, Main
  <1>4. ASSUME NEW written \in BOOLEAN, CommitResult(written)
        PROVE  NoNewHolder(x)
    <2>1. main'.pc = "post" \/ main' = IdleMain
      BY <1>4, <1>t DEF CommitResult, Main
    <2>. QED  BY <1>4, <1>i, <2>1 DEF CommitResult, NoNewHolder
  <1>5. ASSUME NEW sent \in BOOLEAN, NEW answered \in BOOLEAN, NEW written \in BOOLEAN,
               PostResult(sent, answered, written)
        PROVE  NoNewHolder(x)
    BY <1>5, <1>i DEF PostResult, NoNewHolder
  <1>6. ASSUME NEW outcome \in {"succeeded", "failed"}, Apply(outcome)
        PROVE  NoNewHolder(x)
    <2>1. main'.pc = "commit" /\ executed'[x] = executed[x]
      BY <1>6, <1>t DEF Apply, Main
    <2>. QED  BY <1>6, <1>i, <2>1 DEF Apply, NoNewHolder
  <1>7. ASSUME ScheduleShutdown
        PROVE  Once(x)'
    <2>1. CASE main.id # x
      BY <1>7, <2>1, <1>i, <1>q, <1>t DEF ScheduleShutdown, NoNewHolder
    <2>2. CASE main.id = x
      <3>1. Launched(x) /\ ~Launched(x)' /\ timer'[x].pc = "waiting" /\ UNCHANGED executed
        BY <1>7, <2>2, <1>t DEF ScheduleShutdown, Launched, IdleMain
      <3>. QED  BY <3>1, <1>o DEF Once
    <2>. QED  BY <2>1, <2>2
  <1>8. ASSUME NEW id \in ShutdownID, NEW outcome \in {"succeeded", "failed"}, Fire(id, outcome)
        PROVE  Once(x)'
    <2>1. CASE id # x
      BY <1>8, <2>1, <1>i, <1>q, <1>t DEF Fire, NoNewHolder
    <2>2. CASE id = x
      <3>1. /\ timer[x].pc = "waiting" /\ timer'[x].pc = "commit"
            /\ executed'[x] = executed[x] + 1 /\ UNCHANGED main
        BY <1>8, <2>2, <1>t DEF Fire
      <3>2. ~Launched(x)'
        BY <3>1, <1>o DEF Once, Launched
      <3>3. executed[x] = 0 /\ executed'[x] = 1
        BY <3>1, <1>o DEF Once
      <3>. QED  BY <3>1, <3>2, <3>3, <1>o DEF Once
    <2>. QED  BY <2>1, <2>2
  <1>9. ASSUME NEW id \in ShutdownID, CancelTimer(id)
        PROVE  NoNewHolder(x)
    BY <1>9, <1>i, <1>t DEF CancelTimer, NoNewHolder
  <1>10. ASSUME NEW id \in ShutdownID, NEW written \in BOOLEAN, TimerCommit(id, written)
         PROVE  NoNewHolder(x)
    <2>1. timer'[x].pc = timer[x].pc \/ (timer[x].pc = "commit" /\ timer'[x].pc \in {"post", "idle"})
      BY <1>10, <1>t DEF TimerCommit, Timer, IdleTimer
    <2>. QED  BY <1>10, <1>i, <2>1 DEF TimerCommit, NoNewHolder
  <1>11. ASSUME NEW id \in ShutdownID, NEW sent \in BOOLEAN, NEW answered \in BOOLEAN,
                NEW written \in BOOLEAN, TimerPost(id, sent, answered, written)
         PROVE  NoNewHolder(x)
    BY <1>11, <1>i, <1>t DEF TimerPost, NoNewHolder, IdleTimer
  <1>12. ASSUME NEW p \in retry, NEW sent \in BOOLEAN, NEW answered \in BOOLEAN,
                NEW written \in BOOLEAN, RetryPost(p, sent, answered, written)
         PROVE  NoNewHolder(x)
    BY <1>12, <1>i DEF RetryPost, NoNewHolder
  <1>13. ASSUME RetryList \/ Stop \/ Boot \/ Serve \/ UNCHANGED vars
         PROVE  NoNewHolder(x)
    BY <1>13, <1>i DEF RetryList, Stop, Boot, Serve, vars, NoNewHolder
  <1>14. ASSUME Crash
         PROVE  NoNewHolder(x)
    BY <1>14, <1>i DEF Crash, NoNewHolder, IdleTimer
  <1>. QED
    BY <1>q, <1>1, <1>2, <1>3, <1>4, <1>5, <1>6, <1>7, <1>8, <1>9, <1>10, <1>11, <1>12,
       <1>13, <1>14
    DEF Next, MainStep, Execute, TimerStep, RetryStep

\* P0 section 7.4, "at most once": for any number of commands, crashes,
\* duplicate deliveries and failed writes, a shutdown runs at most once.
THEOREM ShutdownAtMostOnce == Spec => []ShutdownOnce
  <1>1. Init => OnceInv
    BY DEF Init, OnceInv, Launched, IdleMain, IdleTimer, ID
  <1>2. TypeOK /\ OnceInv => ShutdownOnce
    BY DEF OnceInv, ShutdownOnce
  <1>3. TypeOK /\ TypeOK' /\ OnceInv /\ [Next]_vars => OnceInv'
    BY OnceStep
  <1>. QED  BY <1>1, <1>2, <1>3, LedgerTypes, PTL DEF Spec

-----------------------------------------------------------------------------
(* Results are kept until the server has them *)

\* Every step of the daemon preserves ResultInv.
LEMMA ResultStep ==
    ASSUME TypeOK, TypeOK', [Next]_vars, OnceInv, ResultInv
    PROVE  ResultInv'
  <1>. DEFINE Execs == /\ main.pc = "start" => mem[main.id].stage = "prepared"
                       /\ main.pc \in {"accept", "execute"} => mem[main.id].ack = NoAck
              Retries == \A p \in retry : mem[p.id].ack # NoAck
  <1>k. (\A id \in ID : Kept(id)) /\ Execs /\ Retries
    BY DEF ResultInv
  <1>t. /\ LedgerType(mem, disk) /\ server \in [ID -> Outcome \cup {NoAck}]
        /\ LedgerType(mem', disk') /\ retry \subseteq Pending /\ main \in Main
        /\ main.pc # "idle" => main.id \in ID
        /\ main.pc \in {"commit", "post"} => main.ack \in Outcome
        /\ \A id \in ShutdownID : timer[id].pc \in {"commit", "post"} => timer[id].ack \in Outcome
    BY TypeParts DEF TypeOK, CarriesAck, LedgerType, Main
  <1>p. ASSUME NEW id \in ID, NEW ack \in Outcome, NEW sent \in BOOLEAN,
               NEW answered \in BOOLEAN, NEW written \in BOOLEAN,
               PostFinal(id, ack, sent, answered, written)
        PROVE  /\ \A x \in ID : Kept(x)' /\ mem'[x].ack = mem[x].ack
               /\ \A x \in ID : x # id => mem'[x] = mem[x]
    <2>1. \A x \in ID :
             /\ mem'[x].ack = mem[x].ack
             /\ disk'[x] \in {mem'[x], disk[x]}
             /\ \/ mem'[x] = mem[x]
                \/ mem'[x].stage = "ack_confirmed" /\ server'[x] # NoAck /\ x = id
             /\ server[x] # NoAck => server'[x] # NoAck
      BY <1>p, <1>t, PostFacts
    <2>. QED  BY <2>1, <1>k DEF Kept, Reported
  <1>s. ASSUME NEW id \in ID, NEW stage \in Stage \ {"result_committed"}, NEW written \in BOOLEAN,
               SetStage(id, stage, written), mem[id].ack = NoAck, UNCHANGED server
        PROVE  \A x \in ID : /\ Kept(x)' /\ mem'[x].ack = mem[x].ack
                             /\ mem'[x].stage = IF x = id THEN stage ELSE mem[x].stage
    <2>1. \A x \in ID :
              /\ mem'[x].stage = IF x = id THEN stage ELSE mem[x].stage
              /\ mem'[x].ack = mem[x].ack
              /\ disk'[x] \in {mem'[x], disk[x]}
      BY <1>s, <1>t, StageFacts
    <2>. QED  BY <1>s, <2>1, <1>k DEF Kept, Reported
  <1>c. ASSUME NEW id \in ID, NEW ack \in Outcome, NEW written \in BOOLEAN,
               Store(id, Committed(ack), written), UNCHANGED server
        PROVE  /\ \A x \in ID : Kept(x)' /\ (mem[x].ack # NoAck => mem'[x].ack # NoAck)
               /\ \A x \in ID : x # id => mem'[x] = mem[x]
    <2>1. /\ Committed(ack) \in Record /\ Committed(ack).stage = "result_committed"
          /\ Committed(ack).ack # NoAck
      BY LedgerNames DEF Committed, Record, Stage
    <2>2. \A x \in ID : /\ mem'[x] = IF x = id THEN Committed(ack) ELSE mem[x]
                        /\ disk'[x] \in {mem'[x], disk[x]}
      BY <1>c, <1>t, <2>1, StoreFacts
    <2>. QED  BY <1>c, <2>1, <2>2, <1>k DEF Kept, Reported
  <1>u. ASSUME UNCHANGED <<mem, disk, server>>
        PROVE  \A x \in ID : Kept(x)'
    BY <1>u, <1>k DEF Kept
  <1>r. ASSUME \A x \in ID : mem[x].ack # NoAck => mem'[x].ack # NoAck, retry' \subseteq retry
        PROVE  Retries'
    BY <1>r, <1>k, <1>t DEF Pending
  <1>e. ASSUME main'.pc \in {"idle", "commit", "post"} PROVE Execs'
    BY <1>e
  <1>h. ASSUME NEW id \in ID, NEW written \in BOOLEAN, HandleEvent(id, written),
               UNCHANGED <<server, retry>>, main.pc = "idle"
        PROVE  (\A x \in ID : Kept(x)') /\ Execs' /\ Retries'
    <2>1. CASE /\ mem[id].stage \in {"none", "side_effect_started"}
               /\ SetStage(id, "prepared", written)
               /\ Proceed(id) \/ UNCHANGED main
      <3>1. mem[id].ack = NoAck
        BY <2>1, <1>k DEF Kept, Reported
      <3>2. \A x \in ID : /\ Kept(x)' /\ mem'[x].ack = mem[x].ack
                          /\ mem'[x].stage = IF x = id THEN "prepared" ELSE mem[x].stage
        BY <2>1, <3>1, <1>h, <1>s DEF Stage
      <3>3. Execs'
        BY <2>1, <3>2, <1>h DEF Proceed, Goto
      <3>. QED  BY <3>2, <3>3, <1>h, <1>r
    <2>2. CASE mem[id].stage = "prepared" /\ Proceed(id) /\ UNCHANGED <<mem, disk>>
      BY <2>2, <1>h, <1>u, <1>r DEF Proceed, Goto
    <2>3. CASE /\ UNCHANGED <<mem, disk>>
               /\ OnStarted(id) \/ OnCommitted(id) \/ UNCHANGED main
      BY <2>3, <1>h, <1>u, <1>r DEF OnStarted, OnCommitted, Goto
    <2>. QED  BY <1>h, <2>1, <2>2, <2>3 DEF HandleEvent
  <1>1. ASSUME NEW written \in BOOLEAN, NEW id \in ID,
               Receive(id, written) \/ Recover(id, written)
        PROVE  (\A x \in ID : Kept(x)') /\ Execs' /\ Retries'
    BY <1>1, <1>h DEF Receive, Recover
  <1>2. ASSUME NEW written \in BOOLEAN, StartCommand(written)
        PROVE  (\A x \in ID : Kept(x)') /\ Execs' /\ Retries'
    <2>1. CASE main' = IdleMain /\ UNCHANGED <<mem, disk>>
      BY <2>1, <1>2, <1>u, <1>r DEF StartCommand, IdleMain
    <2>2. CASE /\ SetStage(main.id, "side_effect_started", written)
               /\ mem[main.id].stage = "prepared"
               /\ main' = IdleMain \/ main' = [main EXCEPT !.pc = "accept"]
      <3>1. main.id \in ID /\ mem[main.id].ack = NoAck
        BY <2>2, <1>2, <1>t, <1>k DEF StartCommand, Kept, Reported
      <3>2. \A x \in ID : Kept(x)' /\ mem'[x].ack = mem[x].ack
        BY <2>2, <3>1, <1>2, <1>s DEF Stage, StartCommand
      <3>3. Execs'
        BY <2>2, <3>1, <3>2, <1>t DEF IdleMain, Main
      <3>. QED  BY <3>2, <3>3, <1>2, <1>r DEF StartCommand
    <2>. QED  BY <1>2, <2>1, <2>2 DEF StartCommand, StartGuard
  <1>3. ASSUME NEW written \in BOOLEAN, NEW ok \in BOOLEAN, SendAccepted(ok, written)
        PROVE  (\A x \in ID : Kept(x)') /\ Execs' /\ Retries'
    <2>1. main.id \in ID /\ mem[main.id].ack = NoAck /\ main'.pc = "execute" /\ main'.id = main.id
      BY <1>3, <1>t, <1>k DEF SendAccepted, Main
    <2>2. \A x \in ID : Kept(x)' /\ mem'[x].ack = mem[x].ack
      <3>1. CASE UNCHANGED <<mem, disk>>
        BY <3>1, <1>3, <1>u DEF SendAccepted
      <3>2. CASE SetStage(main.id, "ack_confirmed", written)
        BY <3>2, <2>1, <1>3, <1>s DEF SendAccepted, Stage
      <3>. QED  BY <1>3, <3>1, <3>2 DEF SendAccepted
    <2>. QED  BY <2>1, <2>2, <1>3, <1>r DEF SendAccepted
  <1>4. ASSUME NEW written \in BOOLEAN, CommitResult(written)
        PROVE  (\A x \in ID : Kept(x)') /\ Execs' /\ Retries'
    <2>1. main'.pc \in {"idle", "post"}
      BY <1>4, <1>t DEF CommitResult, IdleMain, Main
    <2>. QED  BY <2>1, <1>4, <1>t, <1>c, <1>r, <1>e DEF CommitResult
  <1>5. ASSUME NEW sent \in BOOLEAN, NEW answered \in BOOLEAN, NEW written \in BOOLEAN,
               PostResult(sent, answered, written)
        PROVE  (\A x \in ID : Kept(x)') /\ Execs' /\ Retries'
    BY <1>5, <1>t, <1>p, <1>r, <1>e DEF PostResult, IdleMain
  <1>6. ASSUME ScheduleShutdown \/ \E outcome \in {"succeeded", "failed"} : Apply(outcome)
        PROVE  (\A x \in ID : Kept(x)') /\ Execs' /\ Retries'
    <2>1. /\ main'.pc \in {"idle", "commit"} /\ UNCHANGED <<mem, disk, server, retry>>
      <3>1. CASE ScheduleShutdown
        BY <3>1 DEF ScheduleShutdown, IdleMain
      <3>2. ASSUME NEW outcome \in {"succeeded", "failed"}, Apply(outcome)
            PROVE  main'.pc = "commit" /\ UNCHANGED <<mem, disk, server, retry>>
        BY <3>2, <1>t DEF Apply, Main
      <3>. QED  BY <1>6, <3>1, <3>2
    <2>. QED  BY <2>1, <1>u, <1>r, <1>e
  <1>7. ASSUME NEW id \in ShutdownID, NEW written \in BOOLEAN, TimerCommit(id, written)
        PROVE  (\A x \in ID : Kept(x)') /\ Execs' /\ Retries'
    <2>1. id \in ID /\ UNCHANGED <<main, server, retry>>
          /\ (main.id = id => main.pc \notin {"start", "accept", "execute"})
      BY <1>7, <1>k DEF TimerCommit, ID, OnceInv, Launched, Past
    <2>2. /\ \A x \in ID : Kept(x)' /\ (mem[x].ack # NoAck => mem'[x].ack # NoAck)
          /\ \A x \in ID : x # id => mem'[x] = mem[x]
      BY <2>1, <1>7, <1>t, <1>c DEF TimerCommit
    <2>3. Execs'
      BY <2>1, <2>2, <1>k, <1>t
    <2>. QED  BY <2>1, <2>2, <2>3, <1>r
  <1>8. ASSUME NEW id \in ShutdownID, NEW sent \in BOOLEAN, NEW answered \in BOOLEAN,
               NEW written \in BOOLEAN, TimerPost(id, sent, answered, written)
        PROVE  (\A x \in ID : Kept(x)') /\ Execs' /\ Retries'
    <2>1. id \in ID /\ UNCHANGED <<main, retry>> /\ (main.id = id => main.pc # "start")
      BY <1>8, <1>k DEF TimerPost, ID, OnceInv, Past
    <2>2. /\ \A x \in ID : Kept(x)' /\ mem'[x].ack = mem[x].ack
          /\ \A x \in ID : x # id => mem'[x] = mem[x]
      BY <2>1, <1>8, <1>t, <1>p DEF TimerPost
    <2>3. Execs'
      BY <2>1, <2>2, <1>k, <1>t
    <2>. QED  BY <2>1, <2>2, <2>3, <1>r
  <1>9. ASSUME NEW p \in retry, NEW sent \in BOOLEAN, NEW answered \in BOOLEAN,
               NEW written \in BOOLEAN, RetryPost(p, sent, answered, written)
        PROVE  (\A x \in ID : Kept(x)') /\ Execs' /\ Retries'
    <2>1. /\ p.id \in ID /\ p.ack \in Outcome /\ UNCHANGED main /\ retry' \subseteq retry
          /\ mem[p.id].ack # NoAck /\ mem[p.id].stage \in Reported
      BY <1>9, <1>t, <1>k DEF RetryPost, Pending, Kept
    <2>2. /\ \A x \in ID : Kept(x)' /\ mem'[x].ack = mem[x].ack
          /\ \A x \in ID : x # p.id => mem'[x] = mem[x]
      BY <2>1, <1>9, <1>p DEF RetryPost
    <2>3. Execs'
      BY <2>1, <2>2, <1>k, <1>t DEF Reported
    <2>. QED  BY <2>1, <2>2, <2>3, <1>r
  <1>10. ASSUME RetryList
         PROVE  (\A x \in ID : Kept(x)') /\ Execs' /\ Retries'
    <2>1. Retries'
      BY <1>10, LedgerNames DEF RetryList, PendingAcks, TypeOK
    <2>. QED  BY <1>10, <2>1, <1>u, <1>k DEF RetryList
  <1>11. ASSUME Stop \/ Boot \/ Serve \/ UNCHANGED vars \/
                (\E id \in ShutdownID : CancelTimer(id) \/
                    \E outcome \in {"succeeded", "failed"} : Fire(id, outcome))
         PROVE  (\A x \in ID : Kept(x)') /\ Execs' /\ Retries'
    <2>1. UNCHANGED <<mem, disk, server, main, retry>>
      BY <1>11 DEF Stop, Boot, Serve, vars, CancelTimer, Fire
    <2>. QED  BY <2>1, <1>u, <1>k
  <1>12. ASSUME Crash
         PROVE  (\A x \in ID : Kept(x)') /\ Execs' /\ Retries'
    BY <1>12, <1>k DEF Crash, Kept, IdleMain
  <1>. HIDE DEF Execs, Retries
  <1>n. (\A x \in ID : Kept(x)') /\ Execs' /\ Retries'
    BY <1>1, <1>2, <1>3, <1>4, <1>5, <1>6, <1>7, <1>8, <1>9, <1>10, <1>11, <1>12
    DEF Next, MainStep, Execute, TimerStep, RetryStep
  <1>. QED  BY <1>n DEF ResultInv, Execs, Retries

LedgerInv == TypeOK /\ OnceInv /\ ResultInv

\* The inductive invariant of the daemon.
LEMMA LedgerInvariant == Spec => []LedgerInv
  <1>1. Init => OnceInv
    BY DEF Init, OnceInv, Launched, IdleMain, IdleTimer, ID
  <1>2. Init => ResultInv
    BY DEF Init, ResultInv, Kept, IdleMain
  <1>3. TypeOK /\ TypeOK' /\ OnceInv /\ ResultInv /\ [Next]_vars => OnceInv' /\ ResultInv'
    BY OnceStep, ResultStep
  <1>. QED  BY <1>1, <1>2, <1>3, LedgerTypes, PTL DEF Spec, LedgerInv

\* The agent drops no result that the server has nothing of, whatever fails.
THEOREM ResultsConfirmed == Spec => []ConfirmedIsRecorded
  <1>1. LedgerInv => ConfirmedIsRecorded
    BY DEF LedgerInv, ResultInv, Kept, ConfirmedIsRecorded
  <1>. QED  BY <1>1, LedgerInvariant, PTL

\* A command whose result is on disk is never executed again, across any
\* number of restarts and deliveries.
THEOREM ResultsEndExecution == Spec => CompletedNotRepeated
  <1>1. LedgerInv /\ [Next]_vars
        => [\A id \in ApplyID : disk[id].ack # NoAck => executed'[id] = executed[id]]_vars
    <2>. SUFFICES ASSUME LedgerInv, Next, NEW id \in ApplyID, disk[id].ack # NoAck
                  PROVE  executed'[id] = executed[id]
      BY DEF vars
    <2>0. id \in ID /\ executed \in [ID -> Nat] /\ id \notin ShutdownID
      BY LedgerNames DEF LedgerInv, TypeOK, ID
    <2>1. mem[id].ack # NoAck
      BY <2>0 DEF LedgerInv, ResultInv, Kept
    <2>2. ASSUME NEW outcome \in {"succeeded", "failed"}, Apply(outcome)
          PROVE  executed'[id] = executed[id]
      <3>1. main.id # id
        BY <2>1, <2>2 DEF Apply, LedgerInv, ResultInv
      <3>. QED  BY <2>0, <2>2, <3>1 DEF Apply
    <2>3. ASSUME NEW s \in ShutdownID, NEW outcome \in {"succeeded", "failed"}, Fire(s, outcome)
          PROVE  executed'[id] = executed[id]
      BY <2>0, <2>3 DEF Fire
    <2>4. CASE UNCHANGED executed
      BY <2>4
    <2>. QED
      BY <2>2, <2>3, <2>4
      DEF Next, MainStep, Execute, TimerStep, RetryStep, Receive, Recover, StartCommand, SendAccepted,
          CommitResult, PostResult, ScheduleShutdown, CancelTimer, TimerCommit, TimerPost,
          RetryList, RetryPost, Stop, Crash, Boot, Serve
  <1>. QED  BY <1>1, LedgerInvariant, PTL DEF Spec, CompletedNotRepeated

-----------------------------------------------------------------------------
(* Whatever was started is accounted for *)

\* How a ledger method, of whichever goroutine, may change a record.
Grown(x) ==
    /\ mem[x].ack # NoAck => mem'[x].ack # NoAck
    /\ disk'[x] \in {mem'[x], disk[x]}
    /\ \/ mem'[x].stage = mem[x].stage
       \/ mem'[x].stage \in Reported
       \/ mem'[x].stage = "prepared" /\ (x \in ShutdownID => mem[x].stage \in {"none", "prepared"})
       \/ mem'[x].stage = "side_effect_started" /\ mem[x].stage = "prepared"

\* Only a crash makes memory forget.
LEMMA RecordsGrow ==
    ASSUME TypeOK, [Next]_vars, ~Crash
    PROVE  \A x \in ID : Grown(x)
  <1>. SUFFICES ASSUME NEW x \in ID PROVE Grown(x)
    OBVIOUS
  <1>l. LedgerType(mem, disk) /\ server \in [ID -> Outcome \cup {NoAck}]
    BY TypeParts
  <1>m. main.pc # "idle" => main.id \in ID
    BY DEF TypeOK, Main
  <1>a. /\ main.pc \in {"commit", "post"} => main.ack \in Outcome
        /\ \A id \in ShutdownID : timer[id].pc \in {"commit", "post"} => timer[id].ack \in Outcome
    BY DEF TypeOK, CarriesAck
  <1>u. ASSUME UNCHANGED <<mem, disk>> PROVE Grown(x)
    BY <1>u DEF Grown
  <1>s. ASSUME NEW id \in ID, NEW stage \in Stage, NEW written \in BOOLEAN,
               SetStage(id, stage, written),
               \/ stage \in Reported
               \/ stage = "prepared" /\ (id \in ShutdownID => mem[id].stage = "none")
               \/ stage = "side_effect_started" /\ mem[id].stage = "prepared"
        PROVE  Grown(x)
    <2>1. /\ mem'[x].stage = IF x = id THEN stage ELSE mem[x].stage
          /\ mem'[x].ack = mem[x].ack
          /\ disk'[x] \in {mem'[x], disk[x]}
      BY <1>s, <1>l, StageFacts
    <2>. QED  BY <1>s, <2>1 DEF Grown
  <1>h. ASSUME NEW id \in ID, NEW written \in BOOLEAN, HandleEvent(id, written)
        PROVE  Grown(x)
    <2>1. CASE /\ mem[id].stage = "none" \/ id \notin ShutdownID
               /\ SetStage(id, "prepared", written)
      BY <2>1, <1>s DEF Stage
    <2>. QED  BY <1>h, <1>u, <2>1 DEF HandleEvent
  <1>c. ASSUME NEW id \in ID, NEW ack \in Outcome, NEW written \in BOOLEAN,
               Store(id, Committed(ack), written)
        PROVE  Grown(x) /\ mem'[id].ack # NoAck
    <2>1. /\ Committed(ack) \in Record /\ Committed(ack).stage = "result_committed"
          /\ Committed(ack).ack # NoAck
      BY LedgerNames DEF Committed, Record, Stage
    <2>2. \A y \in ID : /\ mem'[y] = IF y = id THEN Committed(ack) ELSE mem[y]
                        /\ disk'[y] \in {mem'[y], disk[y]}
      BY <1>c, <1>l, <2>1, StoreFacts
    <2>. QED  BY <2>1, <2>2 DEF Grown, Reported
  <1>p. ASSUME NEW id \in ID, NEW ack \in Outcome, NEW sent \in BOOLEAN,
               NEW answered \in BOOLEAN, NEW written \in BOOLEAN,
               PostFinal(id, ack, sent, answered, written)
        PROVE  Grown(x)
    <2>1. /\ mem'[x].ack = mem[x].ack
          /\ disk'[x] \in {mem'[x], disk[x]}
          /\ mem'[x] = mem[x] \/ mem'[x].stage = "ack_confirmed"
      BY <1>p, <1>l, PostFacts
    <2>. QED  BY <2>1 DEF Grown, Reported
  <1>1. ASSUME NEW written \in BOOLEAN, NEW id \in ID,
               Receive(id, written) \/ Recover(id, written)
        PROVE  Grown(x)
    BY <1>1, <1>h DEF Receive, Recover
  <1>2. ASSUME NEW written \in BOOLEAN, StartCommand(written)
        PROVE  Grown(x)
    BY <1>2, <1>m, <1>s, <1>u DEF StartCommand, StartGuard, Stage
  <1>3. ASSUME NEW written \in BOOLEAN, NEW ok \in BOOLEAN, SendAccepted(ok, written)
        PROVE  Grown(x)
    BY <1>3, <1>m, <1>s, <1>u DEF SendAccepted, Stage, Reported
  <1>4. ASSUME NEW written \in BOOLEAN, CommitResult(written)
        PROVE  Grown(x)
    BY <1>4, <1>m, <1>a, <1>c DEF CommitResult
  <1>5. ASSUME NEW written \in BOOLEAN, NEW id \in ShutdownID, TimerCommit(id, written)
        PROVE  Grown(x)
    BY <1>5, <1>a, <1>c DEF TimerCommit, ID
  <1>6. ASSUME NEW written \in BOOLEAN, NEW sent \in BOOLEAN, NEW answered \in BOOLEAN,
               PostResult(sent, answered, written)
        PROVE  Grown(x)
    BY <1>6, <1>m, <1>a, <1>p DEF PostResult
  <1>7. ASSUME NEW written \in BOOLEAN, NEW sent \in BOOLEAN, NEW answered \in BOOLEAN,
               NEW id \in ShutdownID, TimerPost(id, sent, answered, written)
        PROVE  Grown(x)
    BY <1>7, <1>a, <1>p DEF TimerPost, ID
  <1>8. ASSUME NEW written \in BOOLEAN, NEW sent \in BOOLEAN, NEW answered \in BOOLEAN,
               NEW p \in retry, RetryPost(p, sent, answered, written)
        PROVE  Grown(x)
    <2>1. p.id \in ID /\ p.ack \in Outcome
      BY DEF TypeOK, Pending
    <2>. QED  BY <1>8, <1>p, <2>1 DEF RetryPost
  <1>9. ASSUME NEW outcome \in Outcome, NEW id \in ShutdownID,
               Fire(id, outcome) \/ CancelTimer(id)
        PROVE  UNCHANGED <<mem, disk>>
    BY <1>9 DEF Fire, CancelTimer
  <1>10. ASSUME ScheduleShutdown \/ RetryList \/ Stop \/ Boot \/ Serve \/ UNCHANGED vars
                \/ (\E outcome \in {"succeeded", "failed"} : Apply(outcome))
         PROVE  UNCHANGED <<mem, disk>>
    BY <1>10 DEF ScheduleShutdown, RetryList, Stop, Boot, Serve, vars, Apply
  <1>. HIDE DEF Grown
  <1>. QED
    BY <1>u, <1>1, <1>2, <1>3, <1>4, <1>5, <1>6, <1>7, <1>8, <1>9, <1>10
    DEF Next, MainStep, Execute, TimerStep, RetryStep, Outcome

Begun(id) == mem[id].stage # "none" /\ disk[id].stage # "none"

\* Where recovery finds a shutdown that ran and has no result yet: with a
\* daemon that is down, among the records to recover, or with main.
ToRecover(id) == process = "down" \/ id \in todo \/ (main.pc = "commit" /\ main.id = id)

\* RecoveryCoversStarted speaks of a serving daemon only.  To get there it
\* takes what holds while the daemon is down or recovers.
CoverInv ==
    /\ process = "down" =>
          /\ mem = disk /\ main = IdleMain /\ retry = {}
          /\ \A id \in ShutdownID : timer[id].pc = "idle"
    /\ process = "serving" => todo = {}
    /\ main.pc \in {"start", "accept", "execute"} => main.id \notin BadID
    /\ main.pc \in {"accept", "execute"} => Begun(main.id)
    /\ \A id \in ApplyID : executed[id] # 0 => Begun(id)
    /\ \A id \in BadID : executed[id] = 0
    /\ \A id \in ShutdownID :
          /\ timer[id].pc = "post" => mem[id].ack # NoAck
          /\ executed[id] # 0 /\ timer[id].pc = "idle" =>
                \/ mem[id].ack # NoAck
                \/ mem[id].stage = "ack_confirmed"
                \/ mem[id].stage = "side_effect_started" /\ ToRecover(id)

\* The parts of CoverInv, one by one.
DownQuiet == process = "down" =>
    /\ mem = disk /\ main = IdleMain /\ retry = {}
    /\ \A id \in ShutdownID : timer[id].pc = "idle"
ServedAll == process = "serving" => todo = {}
MainCovered ==
    /\ main.pc \in {"start", "accept", "execute"} => main.id \notin BadID
    /\ main.pc \in {"accept", "execute"} => Begun(main.id)
ExecutedBegun ==
    /\ \A id \in ApplyID : executed[id] # 0 => Begun(id)
    /\ \A id \in BadID : executed[id] = 0
Accounted(id) ==
    /\ timer[id].pc = "post" => mem[id].ack # NoAck
    /\ executed[id] # 0 /\ timer[id].pc = "idle" =>
          \/ mem[id].ack # NoAck
          \/ mem[id].stage = "ack_confirmed"
          \/ mem[id].stage = "side_effect_started" /\ ToRecover(id)

LEMMA CoverParts ==
    CoverInv <=> /\ DownQuiet /\ ServedAll /\ MainCovered /\ ExecutedBegun
                 /\ \A id \in ShutdownID : Accounted(id)
  BY DEF CoverInv, DownQuiet, ServedAll, MainCovered, ExecutedBegun, Accounted

\* Once begun, a record is never new again, not even after a crash.
LEMMA BegunKept ==
    ASSUME TypeOK, [Next]_vars, NEW x \in ID, Begun(x)
    PROVE  Begun(x)'
  <1>1. CASE Crash
    BY <1>1 DEF Crash, Begun
  <1>2. CASE ~Crash
    BY <1>2, RecordsGrow DEF Grown, Begun, Reported
  <1>. QED  BY <1>1, <1>2

\* A daemon that is down does nothing, and serves when all is recovered.
LEMMA DownStep ==
    ASSUME TypeOK, [Next]_vars, DownQuiet, ServedAll
    PROVE  DownQuiet' /\ ServedAll'
  <1>1. CASE process = "down"
    <2>1. main.pc = "idle" /\ retry = {} /\ \A id \in ShutdownID : timer[id].pc = "idle"
      BY <1>1 DEF DownQuiet, IdleMain
    <2>2. Boot \/ UNCHANGED vars
      BY <1>1, <2>1
      DEF Next, MainStep, Execute, TimerStep, RetryStep, StartCommand, SendAccepted, Apply,
          ScheduleShutdown, CommitResult, PostResult, Receive, Recover, Fire, CancelTimer,
          TimerCommit, TimerPost, RetryList, RetryPost, Stop, Crash, Serve
    <2>. QED  BY <1>1, <2>2 DEF Boot, vars, DownQuiet, ServedAll
  <1>2. CASE process # "down"
    <2>1. CASE Crash
      BY <2>1 DEF Crash, DownQuiet, ServedAll, IdleTimer
    <2>2. CASE ~Crash
      <3>1. process' # "down" /\ (process' = "serving" => todo' = {})
        BY <1>2, <2>2
        DEF Next, MainStep, Execute, TimerStep, RetryStep, StartCommand, SendAccepted, Apply,
            ScheduleShutdown, CommitResult, PostResult, Receive, Recover, Fire, CancelTimer,
            TimerCommit, TimerPost, RetryList, RetryPost, Stop, Boot, Serve, vars, ServedAll
      <3>. QED  BY <3>1 DEF DownQuiet, ServedAll
    <2>. QED  BY <2>1, <2>2
  <1>. QED  BY <1>1, <1>2

\* Only a command that parses is started, and begun before it is executed.
LEMMA MainStepCovered ==
    ASSUME TypeOK, [Next]_vars, MainCovered
    PROVE  MainCovered'
  <1>t. /\ main \in Main /\ LedgerType(mem, disk)
        /\ main.pc # "idle" => main.id \in ID
    BY TypeParts DEF TypeOK, Main
  <1>b. \A x \in ID : Begun(x) => Begun(x)'
    BY BegunKept
  <1>u. ASSUME UNCHANGED main PROVE MainCovered'
    BY <1>u, <1>t, <1>b DEF MainCovered, Begun
  <1>e. ASSUME main'.pc \in {"idle", "commit", "post"} PROVE MainCovered'
    BY <1>e DEF MainCovered
  <1>1. ASSUME NEW written \in BOOLEAN, NEW id \in ID,
               Receive(id, written) \/ Recover(id, written)
        PROVE  MainCovered'
    <2>1. \/ UNCHANGED main \/ main'.pc \in {"commit", "post"}
          \/ main'.pc = "start" /\ main'.id \notin BadID
      BY <1>1 DEF Receive, Recover, HandleEvent, Proceed, OnStarted, OnCommitted, Goto
    <2>. QED  BY <2>1, <1>u DEF MainCovered
  <1>2. ASSUME NEW written \in BOOLEAN, StartCommand(written)
        PROVE  MainCovered'
    <2>1. CASE main' = IdleMain
      BY <2>1, <1>e DEF IdleMain
    <2>2. CASE main' # IdleMain
      <3>1. /\ main.pc = "start" /\ written /\ main' = [main EXCEPT !.pc = "accept"]
            /\ SetStage(main.id, "side_effect_started", written)
        BY <1>2, <2>2 DEF StartCommand
      <3>2. main'.id = main.id /\ main'.pc = "accept" /\ main.id \in ID
        BY <3>1, <1>t DEF Main
      <3>3. mem'[main.id].stage = "side_effect_started" /\ disk'[main.id] = mem'[main.id]
        <4>0. PICK c \in ID : main.id = c
          BY <3>2
        <4>1. "side_effect_started" \in Stage /\ LedgerType(mem, disk)
          BY <1>t DEF Stage
        <4>2. /\ mem'[c].stage = IF c = c THEN "side_effect_started" ELSE mem[c].stage
              /\ written => disk'[c] = mem'[c]
          <5>1. SetStage(c, "side_effect_started", written)
            BY <4>0, <3>1
          <5>. QED  BY <4>1, <5>1, StageFacts, Zenon
        <4>. QED  BY <4>0, <4>2, <3>1
      <3>. QED  BY <3>1, <3>2, <3>3 DEF MainCovered, Begun
    <2>. QED  BY <2>1, <2>2
  <1>3. ASSUME NEW written \in BOOLEAN, NEW ok \in BOOLEAN, SendAccepted(ok, written)
        PROVE  MainCovered'
    <2>1. main'.id = main.id /\ main.pc = "accept" /\ main.id \in ID
      BY <1>3, <1>t DEF SendAccepted, Main
    <2>. QED  BY <2>1, <1>b DEF MainCovered, Begun
  <1>4. ASSUME NEW written \in BOOLEAN, CommitResult(written)
        PROVE  main'.pc \in {"idle", "commit", "post"}
    BY <1>4, <1>t DEF CommitResult, IdleMain, Main
  <1>5. ASSUME NEW outcome \in {"succeeded", "failed"}, Apply(outcome)
        PROVE  main'.pc \in {"idle", "commit", "post"}
    BY <1>5, <1>t DEF Apply, Main
  <1>6. ASSUME \/ ScheduleShutdown \/ Crash
               \/ \E sent, answered, written \in BOOLEAN : PostResult(sent, answered, written)
        PROVE  main'.pc \in {"idle", "commit", "post"}
    BY <1>6 DEF ScheduleShutdown, Crash, PostResult, IdleMain
  <1>7. ASSUME \/ RetryList \/ Stop \/ Boot \/ Serve \/ UNCHANGED vars
               \/ \E written \in BOOLEAN : RetryStep(written)
               \/ \E written \in BOOLEAN, id \in ShutdownID : TimerStep(id, written)
        PROVE  UNCHANGED main
    BY <1>7 DEF RetryList, Stop, Boot, Serve, vars, RetryStep, RetryPost, TimerStep, Fire,
                CancelTimer, TimerCommit, TimerPost
  <1>. QED
    BY <1>u, <1>e, <1>1, <1>2, <1>3, <1>4, <1>5, <1>6, <1>7 DEF Next, MainStep, Execute

\* The side effects that main executes itself are those of begun commands.
LEMMA ExecutedStep ==
    ASSUME TypeOK, [Next]_vars, MainCovered, ExecutedBegun
    PROVE  ExecutedBegun'
  <1>t. executed \in [ID -> Nat] /\ ApplyID \subseteq ID /\ BadID \subseteq ID
    BY DEF TypeOK, ID
  <1>b. \A x \in ID : Begun(x) => Begun(x)'
    BY BegunKept
  <1>u. ASSUME \A x \in ApplyID \cup BadID : executed'[x] = executed[x]
        PROVE  ExecutedBegun'
    BY <1>u, <1>t, <1>b DEF ExecutedBegun, Begun
  <1>1. ASSUME NEW outcome \in {"succeeded", "failed"}, Apply(outcome)
        PROVE  ExecutedBegun'
    <2>1. /\ main.id \notin BadID /\ Begun(main.id)
          /\ \A x \in ID : x # main.id => executed'[x] = executed[x]
      BY <1>1, <1>t DEF Apply, MainCovered
    <2>. QED  BY <2>1, <1>t, <1>b DEF ExecutedBegun, Begun
  <1>2. ASSUME NEW id \in ShutdownID, NEW outcome \in {"succeeded", "failed"}, Fire(id, outcome)
        PROVE  ExecutedBegun'
    BY <1>2, <1>t, <1>u, LedgerNames DEF Fire
  <1>3. CASE UNCHANGED executed
    BY <1>3, <1>u
  <1>. QED
    BY <1>1, <1>2, <1>3
    DEF Next, MainStep, Execute, TimerStep, RetryStep, StartCommand, SendAccepted,
        ScheduleShutdown, CommitResult, PostResult, Receive, Recover, CancelTimer,
        TimerCommit, TimerPost, RetryList, RetryPost, Stop, Crash, Boot, Serve, vars

\* A shutdown that ran stays accounted for: its timer stores the result
\* before it ends, a crash leaves it to recovery, and recovery to main.
LEMMA AccountedStep ==
    ASSUME TypeOK, TypeOK', [Next]_vars, OnceInv, DownQuiet, NEW x \in ShutdownID, Accounted(x)
    PROVE  Accounted(x)'
  <1>t. /\ x \in ID /\ x # NoID /\ timer \in [ShutdownID -> Timer] /\ executed \in [ID -> Nat]
        /\ main \in Main /\ LedgerType(mem, disk) /\ LedgerType(mem', disk')
        /\ main.pc # "idle" => main.id \in ID
        /\ main.pc = "commit" => main.ack \in Outcome
        /\ timer[x].pc = "commit" => timer[x].ack \in Outcome
    BY LedgerNames, TypeParts DEF TypeOK, ID, CarriesAck, LedgerType, Main
  <1>o. /\ executed[x] # 0 => Past(mem[x]) /\ Past(disk[x])
        /\ Launched(x) => executed[x] = 0
    BY DEF OnceInv
  <1>c. ASSUME NEW id \in ID, NEW ack \in Outcome, NEW written \in BOOLEAN,
               Store(id, Committed(ack), written)
        PROVE  mem'[id].ack # NoAck
    <2>1. Committed(ack) \in Record /\ Committed(ack).ack = ack /\ ack # NoAck
      BY LedgerNames DEF Committed, Record, Stage
    <2>2. mem'[id] = Committed(ack)
      BY <1>c, <1>t, <2>1 DEF Store, LedgerType
    <2>. QED  BY <2>1, <2>2
  <1>q. ASSUME ~Crash, executed'[x] = executed[x], timer'[x] = timer[x],
               ToRecover(x) /\ mem[x].stage = "side_effect_started"
                  => ToRecover(x)' \/ mem'[x].ack # NoAck
        PROVE  Accounted(x)'
    <2>1. Grown(x) /\ (mem'[x].stage = "result_committed" => mem'[x].ack \in Outcome)
      BY <1>q, <1>t, RecordsGrow DEF LedgerType
    <2>2. executed'[x] # 0 => Past(mem[x])
      BY <1>q, <1>o
    <2>. QED  BY <1>q, <2>1, <2>2, LedgerNames DEF Accounted, Grown, Reported, Past
  <1>w. ASSUME ~Crash, executed'[x] = executed[x], timer'[x] = timer[x],
               process' = process, todo' = todo, UNCHANGED main \/ main.pc # "commit"
        PROVE  Accounted(x)'
    BY <1>w, <1>q DEF ToRecover
  <1>n. ASSUME NEW id \in ShutdownID, NEW written \in BOOLEAN, ~Crash, timer'[x].pc # "idle",
               timer'[x].pc = "post" => mem'[x].ack # NoAck
        PROVE  Accounted(x)'
    BY <1>n DEF Accounted
  <1>0. ASSUME Crash PROVE Accounted(x)'
    <2>1. mem' = disk /\ process' = "down" /\ timer'[x].pc = "idle" /\ UNCHANGED executed
      BY <1>0, <1>t DEF Crash, IdleTimer
    <2>2. executed[x] # 0 => disk[x].stage \in {"side_effect_started", "result_committed", "ack_confirmed"}
      BY <1>o, <1>t DEF LedgerType, Record, Stage, Past
    <2>3. disk[x].stage = "result_committed" => disk[x].ack # NoAck
      BY <1>t, LedgerNames DEF LedgerType
    <2>. QED  BY <2>1, <2>2, <2>3 DEF Accounted, ToRecover
  <1>1. ASSUME NEW written \in BOOLEAN, NEW id \in ID, Receive(id, written), ~Crash
        PROVE  Accounted(x)'
    BY <1>1, <1>w DEF Receive
  <1>2. ASSUME NEW written \in BOOLEAN, NEW id \in ID, Recover(id, written), ~Crash
        PROVE  Accounted(x)'
    <2>1. id = x /\ mem[x].stage = "side_effect_started" => main'.pc = "commit" /\ main'.id = x
      BY <1>2 DEF Recover, HandleEvent, OnStarted, Goto
    <2>2. main.pc = "idle" /\ process' = process /\ todo' = todo \ {id} /\ UNCHANGED <<executed, timer>>
      BY <1>2 DEF Recover
    <2>. QED  BY <1>2, <2>1, <2>2, <1>q DEF ToRecover
  <1>3. ASSUME NEW written \in BOOLEAN, ~Crash,
               \/ StartCommand(written)
               \/ \E ok \in BOOLEAN : SendAccepted(ok, written)
               \/ \E sent, answered \in BOOLEAN : PostResult(sent, answered, written)
        PROVE  Accounted(x)'
    BY <1>3, <1>w DEF StartCommand, SendAccepted, PostResult
  <1>4. ASSUME NEW outcome \in {"succeeded", "failed"}, Apply(outcome), ~Crash
        PROVE  Accounted(x)'
    <2>1. executed'[x] = executed[x]
      BY <1>4, <1>t DEF Apply
    <2>. QED  BY <1>4, <2>1, <1>w DEF Apply
  <1>5. ASSUME NEW written \in BOOLEAN, CommitResult(written), ~Crash
        PROVE  Accounted(x)'
    <2>1. main.id = x => mem'[x].ack # NoAck
      BY <1>5, <1>t, <1>c DEF CommitResult
    <2>. QED  BY <1>5, <2>1, <1>q DEF CommitResult, ToRecover
  <1>6. ASSUME ScheduleShutdown, ~Crash
        PROVE  Accounted(x)'
    <2>1. CASE main.id = x
      <3>1. timer'[x].pc = "waiting"
        BY <1>6, <2>1, <1>t DEF ScheduleShutdown
      <3>. QED  BY <3>1 DEF Accounted
    <2>2. CASE main.id # x
      BY <1>6, <2>2, <1>t, <1>w DEF ScheduleShutdown
    <2>. QED  BY <2>1, <2>2
  <1>7. ASSUME NEW id \in ShutdownID, ~Crash,
               CancelTimer(id) \/ \E outcome \in {"succeeded", "failed"} : Fire(id, outcome)
        PROVE  Accounted(x)'
    <2>1. CASE id = x
      <3>1. timer'[x].pc = "commit"
        BY <1>7, <2>1, <1>t DEF CancelTimer, Fire
      <3>. QED  BY <3>1 DEF Accounted
    <2>2. CASE id # x
      BY <1>7, <2>2, <1>t, <1>w DEF CancelTimer, Fire
    <2>. QED  BY <2>1, <2>2
  <1>8. ASSUME NEW id \in ShutdownID, NEW written \in BOOLEAN, TimerCommit(id, written), ~Crash
        PROVE  Accounted(x)'
    <2>1. CASE id = x
      <3>1. mem'[x].ack # NoAck
        BY <1>8, <2>1, <1>t, <1>c DEF TimerCommit
      <3>. QED  BY <3>1 DEF Accounted
    <2>2. CASE id # x
      BY <1>8, <2>2, <1>t, <1>w DEF TimerCommit
    <2>. QED  BY <2>1, <2>2
  <1>9. ASSUME NEW id \in ShutdownID, NEW sent \in BOOLEAN, NEW answered \in BOOLEAN,
               NEW written \in BOOLEAN, TimerPost(id, sent, answered, written), ~Crash
        PROVE  Accounted(x)'
    <2>1. CASE id = x
      <3>1. mem'[x].ack # NoAck
        BY <1>9, <2>1, <1>t, RecordsGrow DEF TimerPost, Accounted, Grown
      <3>. QED  BY <3>1 DEF Accounted
    <2>2. CASE id # x
      BY <1>9, <2>2, <1>t, <1>w DEF TimerPost
    <2>. QED  BY <2>1, <2>2
  <1>10. ASSUME ~Crash, \/ RetryList \/ Stop \/ UNCHANGED vars
                        \/ \E written \in BOOLEAN : RetryStep(written)
         PROVE  Accounted(x)'
    BY <1>10, <1>w DEF RetryList, Stop, vars, RetryStep, RetryPost
  <1>11. ASSUME Boot, ~Crash
         PROVE  Accounted(x)'
    <2>1. mem[x].stage = "side_effect_started" => x \in todo'
      BY <1>11, <1>t DEF Boot, DownQuiet
    <2>. QED  BY <1>11, <2>1, <1>q DEF Boot, ToRecover
  <1>12. ASSUME Serve, ~Crash
         PROVE  Accounted(x)'
    BY <1>12, <1>q DEF Serve, ToRecover
  <1>. QED
    BY <1>0, <1>1, <1>2, <1>3, <1>4, <1>5, <1>6, <1>7, <1>8, <1>9, <1>10, <1>11, <1>12
    DEF Next, MainStep, Execute, TimerStep

\* Every step of the daemon preserves CoverInv.
LEMMA CoverStep ==
    TypeOK /\ TypeOK' /\ OnceInv /\ [Next]_vars /\ CoverInv => CoverInv'
  <1>. SUFFICES ASSUME TypeOK, TypeOK', OnceInv, [Next]_vars, CoverInv PROVE CoverInv'
    OBVIOUS
  <1>1. DownQuiet' /\ ServedAll'
    BY CoverParts, DownStep
  <1>2. MainCovered' /\ ExecutedBegun'
    BY CoverParts, MainStepCovered, ExecutedStep
  <1>3. \A x \in ShutdownID : Accounted(x)'
    BY CoverParts, AccountedStep
  <1>. QED
    BY <1>1, <1>2, <1>3
    DEF CoverInv, DownQuiet, ServedAll, MainCovered, ExecutedBegun, Accounted, Begun, ToRecover

\* The inductive invariant behind it.
LEMMA CoverInvariant == Spec => []CoverInv
  <1>1. Init => CoverInv
    BY DEF Init, CoverInv, IdleMain, IdleTimer, ID
  <1>. QED  BY <1>1, LedgerInvariant, CoverStep, PTL DEF Spec, LedgerInv

\* Whatever was delivered twice, failed to be written or was interrupted: when
\* the daemon serves again, each command that ran has a result, can be applied again, is
\* in a timer's or main's hands, or has a record that the server's answer confirmed; the
\* answer may have been to the accepted post, and such a command gets no result any more.
THEOREM StartedIsCovered == Spec => []RecoveryCoversStarted
  <1>1. TypeOK /\ CoverInv => RecoveryCoversStarted
    <2>. SUFFICES ASSUME TypeOK, CoverInv, process = "serving", main.pc = "idle", NEW id \in ID,
                         executed[id] > 0, id \in ShutdownID => timer[id].pc = "idle"
                  PROVE  \/ mem[id].ack # NoAck
                         \/ mem[id].stage = "ack_confirmed"
                         \/ id \in ApplyID /\ mem[id].stage \in {"prepared", "side_effect_started"}
      BY DEF RecoveryCoversStarted
    <2>1. executed[id] # 0 /\ mem[id].stage \in Stage
      BY DEF TypeOK, Record
    <2>2. mem[id].stage = "result_committed" => mem[id].ack # NoAck
      BY LedgerNames DEF TypeOK
    <2>3. CASE id \in ShutdownID
      BY <2>1, <2>3 DEF CoverInv, ToRecover
    <2>4. CASE id \in ApplyID
      BY <2>1, <2>2, <2>4 DEF CoverInv, Begun, Stage
    <2>5. id \notin BadID
      BY <2>1 DEF CoverInv
    <2>. QED  BY <2>3, <2>4, <2>5 DEF ID
  <1>. QED  BY <1>1, LedgerInvariant, CoverInvariant, PTL DEF LedgerInv

-----------------------------------------------------------------------------
(* The daemon implements CommandExecution *)

\* Somebody, or some copy of the ledger, has this answer of a command.
Claims(id, o) ==
    \/ mem[id].ack = o \/ disk[id].ack = o \/ server[id] = o
    \/ main.id = id /\ main.ack = o
    \/ id \in ShutdownID /\ timer[id].ack = o
    \/ [id |-> id, ack |-> o] \in retry

\* A shutdown that will not run any more: nobody holds it, nobody starts it again.
Settled(id) == timer[id].pc # "waiting" /\ ~Launched(id) /\ PastBoth(id)

\* What an answer says is so, and stays so.
Justified(id, o) ==
    /\ o = "succeeded" => executed[id] # 0
    /\ o = "failed" => executed[id] # 0 \/ id \in ShutdownID \cup BadID
    /\ o = "uncertain" => id \in ShutdownID
    /\ id \in ShutdownID /\ o # "uncertain" => Settled(id)

\* CommandExecution speaks of the answer the server has.  It is true there because it
\* was true when the agent made it up, and wherever it was kept since.
AnswerInv == \A id \in ID, o \in Outcome : Claims(id, o) => Justified(id, o)

\* A side effect is never undone.
LEMMA RunsGrow ==
    ASSUME TypeOK, [Next]_vars, NEW x \in ID, executed[x] # 0
    PROVE  executed'[x] # 0
  <1>t. executed \in [ID -> Nat] /\ ShutdownID \subseteq ID
    BY DEF TypeOK, ID
  <1>1. ASSUME NEW outcome \in {"succeeded", "failed"}, Apply(outcome)
        PROVE  executed'[x] # 0
    BY <1>1, <1>t DEF Apply
  <1>2. ASSUME NEW id \in ShutdownID, NEW outcome \in {"succeeded", "failed"}, Fire(id, outcome)
        PROVE  executed'[x] # 0
    BY <1>2, <1>t DEF Fire
  <1>3. CASE UNCHANGED executed
    BY <1>3
  <1>. QED
    BY <1>1, <1>2, <1>3
    DEF Next, MainStep, Execute, TimerStep, RetryStep, StartCommand, SendAccepted,
        ScheduleShutdown, CommitResult, PostResult, Receive, Recover, CancelTimer,
        TimerCommit, TimerPost, RetryList, RetryPost, Stop, Crash, Boot, Serve, vars

\* Who is to be executed was prepared just before, and a timer gets its shutdown from
\* main: neither happens to a settled one.
LEMMA SettledStays ==
    ASSUME TypeOK, [Next]_vars, ResultInv, NEW x \in ShutdownID, Settled(x)
    PROVE  Settled(x)'
  <1>t. /\ x \in ID /\ x # NoID /\ main \in Main /\ timer \in [ShutdownID -> Timer]
    BY LedgerNames DEF TypeOK, ID
  <1>p. PastBoth(x)'
    BY PastKept DEF Settled
  <1>s. /\ timer[x].pc # "waiting" /\ ~Launched(x)
        /\ main.pc = "start" => main.id # x
    BY DEF Settled, PastBoth, Past, ResultInv
  <1>f. ASSUME main'.pc \notin {"accept", "execute"} \/ main' = main,
               timer' = timer
        PROVE  Settled(x)'
    BY <1>f, <1>p, <1>s DEF Settled, Launched
  <1>1. ASSUME NEW written \in BOOLEAN, NEW id \in ID,
               Receive(id, written) \/ Recover(id, written)
        PROVE  Settled(x)'
    <2>1. HandleEvent(id, written) /\ UNCHANGED timer
      BY <1>1 DEF Receive, Recover
    <2>2. main' = main \/ main'.pc \in {"commit", "start", "post"}
      BY <2>1 DEF HandleEvent, Proceed, OnStarted, OnCommitted, Goto
    <2>. QED  BY <2>1, <2>2, <1>f
  <1>2. ASSUME NEW written \in BOOLEAN, StartCommand(written)
        PROVE  Settled(x)'
    <2>1. main' = IdleMain \/ main'.id = main.id
      BY <1>2, <1>t DEF StartCommand, Main
    <2>2. ~Launched(x)'
      BY <2>1, <1>2, <1>s, <1>t DEF Launched, IdleMain, StartCommand
    <2>. QED  BY <2>2, <1>2, <1>p, <1>s DEF Settled, StartCommand
  <1>3. ASSUME NEW written \in BOOLEAN, NEW ok \in BOOLEAN, SendAccepted(ok, written)
        PROVE  Settled(x)'
    <2>1. main.id # x /\ main'.id = main.id
      BY <1>3, <1>s, <1>t DEF SendAccepted, Launched, Main
    <2>. QED  BY <2>1, <1>3, <1>p, <1>s DEF Settled, SendAccepted, Launched
  <1>4. ASSUME NEW written \in BOOLEAN, CommitResult(written)
        PROVE  Settled(x)'
    <2>1. main'.pc \in {"idle", "post"} /\ UNCHANGED timer
      BY <1>4, <1>t DEF CommitResult, IdleMain, Main
    <2>. QED  BY <2>1, <1>f
  <1>5. ASSUME NEW outcome \in {"succeeded", "failed"}, Apply(outcome)
        PROVE  Settled(x)'
    <2>1. main'.pc = "commit" /\ UNCHANGED timer
      BY <1>5, <1>t DEF Apply, Main
    <2>. QED  BY <2>1, <1>f
  <1>6. ASSUME ScheduleShutdown
        PROVE  Settled(x)'
    <2>1. main.id # x
      BY <1>6, <1>s DEF ScheduleShutdown, Launched
    <2>2. timer'[x] = timer[x] /\ main' = IdleMain
      BY <1>6, <2>1, <1>t DEF ScheduleShutdown
    <2>. QED  BY <2>2, <1>p, <1>s DEF Settled, Launched, IdleMain
  <1>7. ASSUME NEW id \in ShutdownID, NEW written \in BOOLEAN, TimerStep(id, written)
        PROVE  Settled(x)'
    <2>1. UNCHANGED main /\ timer'[x].pc # "waiting"
      BY <1>7, <1>s, <1>t
      DEF TimerStep, Fire, CancelTimer, TimerCommit, TimerPost, IdleTimer, Timer
    <2>. QED  BY <2>1, <1>p, <1>s DEF Settled, Launched
  <1>8. ASSUME \/ RetryList \/ Stop \/ Boot \/ Serve \/ UNCHANGED vars
               \/ \E written \in BOOLEAN : RetryStep(written)
               \/ \E sent, answered, written \in BOOLEAN : PostResult(sent, answered, written)
        PROVE  Settled(x)'
    <2>1. (UNCHANGED main \/ main' = IdleMain) /\ UNCHANGED timer
      BY <1>8 DEF RetryList, Stop, Boot, Serve, vars, RetryStep, RetryPost, PostResult
    <2>. QED  BY <2>1, <1>f DEF IdleMain
  <1>9. ASSUME Crash
        PROVE  Settled(x)'
    BY <1>9, <1>p, <1>t DEF Crash, Settled, Launched, IdleMain, IdleTimer
  <1>. QED
    BY <1>1, <1>2, <1>3, <1>4, <1>5, <1>6, <1>7, <1>8, <1>9 DEF Next, MainStep, Execute

\* What was true of a command stays true.
LEMMA JustifiedStays ==
    ASSUME TypeOK, [Next]_vars, ResultInv, NEW x \in ID, NEW o \in Outcome, Justified(x, o)
    PROVE  Justified(x, o)'
  BY RunsGrow, SettledStays DEF Justified

\* The answers in the ledger after a step: those that were there, or one that was
\* committed with the step.
LEMMA StoreClaims ==
    ASSUME TypeOK, NEW id \in ID, NEW ack \in Outcome, NEW written \in BOOLEAN,
           Store(id, Committed(ack), written)
    PROVE  \A x \in ID : /\ mem'[x].ack = mem[x].ack \/ (x = id /\ mem'[x].ack = ack)
                         /\ disk'[x].ack = mem'[x].ack \/ disk'[x].ack = disk[x].ack
  <1>1. LedgerType(mem, disk)
    BY TypeParts
  <1>2. Committed(ack) \in Record /\ Committed(ack).ack = ack
    BY DEF Committed, Record, Stage
  <1>. QED  BY <1>1, <1>2, StoreFacts

\* A change of stage brings none.
LEMMA StageClaims ==
    ASSUME TypeOK, NEW id \in ID, NEW stage \in Stage, NEW written \in BOOLEAN,
           SetStage(id, stage, written)
    PROVE  \A x \in ID : /\ mem'[x].ack = mem[x].ack
                         /\ disk'[x].ack = mem'[x].ack \/ disk'[x].ack = disk[x].ack
  <1>1. LedgerType(mem, disk)
    BY TypeParts
  <1>. QED  BY <1>1, StageFacts

\* A post tells the server what its sender claims.
LEMMA PostClaims ==
    ASSUME TypeOK, NEW id \in ID, NEW ack \in Outcome, NEW sent \in BOOLEAN,
           NEW answered \in BOOLEAN, NEW written \in BOOLEAN,
           PostFinal(id, ack, sent, answered, written)
    PROVE  \A x \in ID : /\ mem'[x].ack = mem[x].ack
                         /\ disk'[x].ack = mem'[x].ack \/ disk'[x].ack = disk[x].ack
                         /\ server'[x] = server[x] \/ (x = id /\ server'[x] = ack)
  <1>1. LedgerType(mem, disk) /\ server \in [ID -> Outcome \cup {NoAck}]
    BY TypeParts
  <1>2. \A x \in ID : server'[x] = server[x] \/ (x = id /\ server'[x] = ack)
    BY <1>1 DEF PostFinal
  <1>. QED  BY <1>1, <1>2, PostFacts

\* Nobody makes up an answer that is not so: what is new is reported of a payload that
\* does not parse, of a shutdown found started, or of what has just run or was canceled.
LEMMA NewClaims ==
    ASSUME TypeOK, TypeOK', [Next]_vars, OnceInv, NEW x \in ID, NEW o \in Outcome,
           Claims(x, o)'
    PROVE  Claims(x, o) \/ Justified(x, o)'
  <1>t. /\ main \in Main /\ timer \in [ShutdownID -> Timer] /\ executed \in [ID -> Nat]
        /\ ShutdownID \subseteq ID /\ NoAck \notin Outcome /\ NoID \notin ID
        /\ ShutdownID \cap (ApplyID \cup BadID) = {} /\ ID = ShutdownID \cup ApplyID \cup BadID
        /\ main.pc # "idle" => main.id \in ID
        /\ main.pc \in {"commit", "post"} => main.ack \in Outcome
        /\ \A id \in ShutdownID : timer[id].pc \in {"commit", "post"} => timer[id].ack \in Outcome
        /\ retry \subseteq Pending
    BY LedgerNames DEF TypeOK, ID, CarriesAck, Main
  <1>i. IdleMain.ack = NoAck /\ IdleTimer.ack = NoAck
    BY DEF IdleMain, IdleTimer
  \* Whatever else a step does, a claim of main or of the ledger is an old one.
  <1>k. ASSUME \/ mem'[x].ack = mem[x].ack
               \/ mem'[x].ack = o => Claims(x, o),
               disk'[x].ack = mem'[x].ack \/ disk'[x].ack = disk[x].ack,
               server'[x] = server[x] \/ (server'[x] = o => Claims(x, o)),
               (main'.id = x /\ main'.ack = o) => Claims(x, o),
               (x \in ShutdownID /\ timer'[x].ack = o) => Claims(x, o),
               [id |-> x, ack |-> o] \in retry' => Claims(x, o)
        PROVE  Claims(x, o)
    BY <1>k DEF Claims
  <1>1. ASSUME NEW written \in BOOLEAN, NEW id \in ID,
               Receive(id, written) \/ Recover(id, written)
        PROVE  Claims(x, o) \/ Justified(x, o)'
    <2>1. HandleEvent(id, written) /\ UNCHANGED <<timer, retry, server, executed>>
      BY <1>1 DEF Receive, Recover
    <2>2. /\ mem'[x].ack = mem[x].ack
          /\ disk'[x].ack = mem'[x].ack \/ disk'[x].ack = disk[x].ack
      <3>1. CASE SetStage(id, "prepared", written)
        BY <3>1, StageClaims DEF Stage
      <3>2. CASE UNCHANGED <<mem, disk>>
        BY <3>2
      <3>. QED  BY <2>1, <3>1, <3>2 DEF HandleEvent
    <2>3. \/ main' = main
          \/ main'.id = id /\ main'.ack \in {NoAck, mem[id].ack}
          \/ main'.id = id /\ id \in BadID /\ main'.ack = "failed"
          \/ main'.id = id /\ id \in ShutdownID /\ main'.ack = "uncertain"
      BY <2>1 DEF HandleEvent, Proceed, OnStarted, OnCommitted, Goto
    <2>4. CASE main'.id = x /\ main'.ack = o /\ x \in BadID /\ o = "failed"
      BY <2>4, <1>t DEF Justified
    <2>5. CASE main'.id = x /\ main'.ack = o /\ x \in ShutdownID /\ o = "uncertain"
      BY <2>5, <1>t DEF Justified
    <2>6. (main'.id = x /\ main'.ack = o)
            => Claims(x, o) \/ (x \in BadID /\ o = "failed") \/ (x \in ShutdownID /\ o = "uncertain")
      BY <2>3, <1>t DEF Claims
    <2>7. ((x \in ShutdownID /\ timer'[x].ack = o) \/ [id |-> x, ack |-> o] \in retry') => Claims(x, o)
      BY <2>1 DEF Claims
    <2>. QED  BY <2>1, <2>2, <2>4, <2>5, <2>6, <2>7, <1>k
  <1>2. ASSUME NEW written \in BOOLEAN,
               StartCommand(written) \/ \E ok \in BOOLEAN : SendAccepted(ok, written)
        PROVE  Claims(x, o)
    <2>1. UNCHANGED <<timer, retry, server>> /\ main.id \in ID
      BY <1>2, <1>t DEF StartCommand, SendAccepted
    <2>2. /\ mem'[x].ack = mem[x].ack
          /\ disk'[x].ack = mem'[x].ack \/ disk'[x].ack = disk[x].ack
      <3>1. CASE \E stage \in Stage : SetStage(main.id, stage, written)
        BY <3>1, <2>1, StageClaims
      <3>2. CASE UNCHANGED <<mem, disk>>
        BY <3>2
      <3>. QED  BY <1>2, <3>1, <3>2 DEF StartCommand, SendAccepted, Stage
    <2>3. main'.ack = NoAck \/ (main'.ack = main.ack /\ main'.id = main.id)
      BY <1>2, <1>i, <1>t DEF StartCommand, SendAccepted, Main
    <2>. QED  BY <2>1, <2>2, <2>3, <1>k, <1>t DEF Claims
  <1>3. ASSUME NEW written \in BOOLEAN, CommitResult(written)
        PROVE  Claims(x, o)
    <2>1. UNCHANGED <<timer, retry, server>> /\ main.id \in ID /\ main.ack \in Outcome
      BY <1>3, <1>t DEF CommitResult
    <2>2. /\ mem'[x].ack = mem[x].ack \/ (x = main.id /\ mem'[x].ack = main.ack)
          /\ disk'[x].ack = mem'[x].ack \/ disk'[x].ack = disk[x].ack
      BY <1>3, <2>1, StoreClaims DEF CommitResult
    <2>3. main'.ack = NoAck \/ (main'.ack = main.ack /\ main'.id = main.id)
      BY <1>3, <1>i, <1>t DEF CommitResult, Main
    <2>. QED  BY <2>1, <2>2, <2>3, <1>k, <1>t DEF Claims
  <1>4. ASSUME NEW sent \in BOOLEAN, NEW answered \in BOOLEAN, NEW written \in BOOLEAN,
               PostResult(sent, answered, written)
        PROVE  Claims(x, o)
    <2>1. /\ UNCHANGED <<timer, retry>> /\ main.id \in ID /\ main.ack \in Outcome
          /\ main' = IdleMain
      BY <1>4, <1>t DEF PostResult
    <2>2. /\ mem'[x].ack = mem[x].ack
          /\ disk'[x].ack = mem'[x].ack \/ disk'[x].ack = disk[x].ack
          /\ server'[x] = server[x] \/ (x = main.id /\ server'[x] = main.ack)
      BY <1>4, <2>1, PostClaims DEF PostResult
    <2>. QED  BY <2>1, <2>2, <1>i, <1>k, <1>t DEF Claims
  <1>5. ASSUME NEW outcome \in {"succeeded", "failed"}, Apply(outcome)
        PROVE  Claims(x, o) \/ Justified(x, o)'
    <2>1. /\ UNCHANGED <<mem, disk, server, timer, retry>>
          /\ main'.id = main.id /\ main'.ack = outcome /\ main.id \in ID
          /\ executed'[main.id] = executed[main.id] + 1 /\ main.id \notin ShutdownID
      BY <1>5, <1>t DEF Apply, Main
    <2>2. CASE main.id = x /\ outcome = o
      <3>1. executed'[x] # 0 /\ x \notin ShutdownID /\ o # "uncertain"
        BY <2>1, <2>2, <1>t
      <3>. QED  BY <3>1 DEF Justified
    <2>3. CASE ~(main.id = x /\ outcome = o)
      BY <2>1, <2>3, <1>k DEF Claims
    <2>. QED  BY <2>2, <2>3
  <1>6. ASSUME NEW id \in ShutdownID,
               CancelTimer(id) \/ \E outcome \in {"succeeded", "failed"} : Fire(id, outcome)
        PROVE  Claims(x, o) \/ Justified(x, o)'
    <2>1. PICK outcome \in {"succeeded", "failed"} :
             /\ timer' = [timer EXCEPT ![id] = [pc |-> "commit", ack |-> outcome]]
             /\ timer[id].pc = "waiting" /\ UNCHANGED <<mem, disk, server, main, retry>>
             /\ outcome = "succeeded" => executed'[id] = executed[id] + 1
      BY <1>6, <1>t DEF CancelTimer, Fire
    <2>2. CASE id = x /\ outcome = o
      <3>1. timer'[x].pc = "commit" /\ ~Launched(x)' /\ PastBoth(x)'
        BY <2>1, <2>2, <1>t DEF OnceInv, Launched, PastBoth
      <3>2. outcome = "succeeded" => executed'[x] # 0
        BY <2>1, <2>2, <1>t
      <3>. QED  BY <2>2, <3>1, <3>2 DEF Justified, Settled
    <2>3. CASE ~(id = x /\ outcome = o)
      <3>1. x \in ShutdownID /\ timer'[x].ack = o => timer[x].ack = o
        BY <2>1, <2>3, <1>t
      <3>. QED  BY <2>1, <3>1, <1>k DEF Claims
    <2>. QED  BY <2>2, <2>3
  <1>7. ASSUME ScheduleShutdown
        PROVE  Claims(x, o)
    <2>1. /\ UNCHANGED <<mem, disk, server, retry>> /\ main'.ack = NoAck
          /\ x \in ShutdownID => timer'[x].ack \in {NoAck, timer[x].ack}
      BY <1>7, <1>i, <1>t DEF ScheduleShutdown
    <2>. QED  BY <2>1, <1>k, <1>t DEF Claims
  <1>8. ASSUME NEW id \in ShutdownID, NEW written \in BOOLEAN, TimerCommit(id, written)
        PROVE  Claims(x, o)
    <2>1. UNCHANGED <<main, retry, server>> /\ id \in ID /\ timer[id].ack \in Outcome
      BY <1>8, <1>t DEF TimerCommit
    <2>2. /\ mem'[x].ack = mem[x].ack \/ (x = id /\ mem'[x].ack = timer[id].ack)
          /\ disk'[x].ack = mem'[x].ack \/ disk'[x].ack = disk[x].ack
      BY <1>8, <2>1, StoreClaims DEF TimerCommit
    <2>3. x \in ShutdownID => timer'[x].ack \in {NoAck, timer[x].ack}
      BY <1>8, <1>i, <1>t DEF TimerCommit, Timer
    <2>. QED  BY <2>1, <2>2, <2>3, <1>k, <1>t DEF Claims
  <1>9. ASSUME NEW id \in ShutdownID, NEW sent \in BOOLEAN, NEW answered \in BOOLEAN,
               NEW written \in BOOLEAN, TimerPost(id, sent, answered, written)
        PROVE  Claims(x, o)
    <2>1. UNCHANGED <<main, retry>> /\ id \in ID /\ timer[id].ack \in Outcome
      BY <1>9, <1>t DEF TimerPost
    <2>2. /\ mem'[x].ack = mem[x].ack
          /\ disk'[x].ack = mem'[x].ack \/ disk'[x].ack = disk[x].ack
          /\ server'[x] = server[x] \/ (x = id /\ server'[x] = timer[id].ack)
      BY <1>9, <2>1, PostClaims DEF TimerPost
    <2>3. x \in ShutdownID => timer'[x].ack \in {NoAck, timer[x].ack}
      BY <1>9, <1>i, <1>t DEF TimerPost
    <2>. QED  BY <2>1, <2>2, <2>3, <1>k, <1>t DEF Claims
  <1>10. ASSUME RetryList
         PROVE  Claims(x, o)
    <2>1. [id |-> x, ack |-> o] \in retry' => mem[x].ack = o
      BY <1>10 DEF RetryList, PendingAcks
    <2>2. UNCHANGED <<mem, disk, server, main, timer>>
      BY <1>10 DEF RetryList
    <2>. QED  BY <2>1, <2>2, <1>k DEF Claims
  <1>11. ASSUME NEW p \in retry, NEW sent \in BOOLEAN, NEW answered \in BOOLEAN,
                NEW written \in BOOLEAN, RetryPost(p, sent, answered, written)
         PROVE  Claims(x, o)
    <2>1. /\ UNCHANGED <<main, timer>> /\ p.id \in ID /\ p.ack \in Outcome
          /\ p = [id |-> p.id, ack |-> p.ack] /\ retry' \subseteq retry
      BY <1>11, <1>t DEF RetryPost, Pending
    <2>2. /\ mem'[x].ack = mem[x].ack
          /\ disk'[x].ack = mem'[x].ack \/ disk'[x].ack = disk[x].ack
          /\ server'[x] = server[x] \/ (x = p.id /\ server'[x] = p.ack)
      BY <1>11, <2>1, PostClaims DEF RetryPost
    <2>3. x = p.id /\ o = p.ack => Claims(x, o)
      BY <2>1 DEF Claims
    <2>4. [id |-> x, ack |-> o] \in retry' => Claims(x, o)
      BY <2>1 DEF Claims
    <2>5. (main'.id = x /\ main'.ack = o) \/ (x \in ShutdownID /\ timer'[x].ack = o) => Claims(x, o)
      BY <2>1 DEF Claims
    <2>. QED  BY <2>2, <2>3, <2>4, <2>5, <1>k
  <1>12. ASSUME Crash
         PROVE  Claims(x, o)
    BY <1>12, <1>i, <1>t DEF Crash, Claims
  <1>13. ASSUME Stop \/ Boot \/ Serve \/ UNCHANGED vars
         PROVE  Claims(x, o)
    BY <1>13 DEF Stop, Boot, Serve, vars, Claims
  <1>. QED
    BY <1>1, <1>2, <1>3, <1>4, <1>5, <1>6, <1>7, <1>8, <1>9, <1>10, <1>11, <1>12, <1>13
    DEF Next, MainStep, Execute, TimerStep, RetryStep

\* Every step of the daemon preserves AnswerInv.
LEMMA AnswerStep ==
    ASSUME TypeOK, TypeOK', [Next]_vars, OnceInv, ResultInv, AnswerInv
    PROVE  AnswerInv'
  <1>1. ASSUME NEW x \in ID, NEW o \in Outcome, Claims(x, o)'
        PROVE  Justified(x, o)'
    BY <1>1, NewClaims, JustifiedStays DEF AnswerInv
  <1>. QED  BY <1>1 DEF AnswerInv

\* The server learns of a command what its sender claims, and keeps the first answer.
LEMMA ServerLearns ==
    ASSUME TypeOK, [Next]_vars
    PROVE  \/ UNCHANGED server
           \/ \E x \in ID, o \in Outcome :
                 /\ Claims(x, o) /\ server[x] = NoAck /\ UNCHANGED executed
                 /\ server' = [server EXCEPT ![x] = o]
  <1>t. /\ ShutdownID \subseteq ID /\ retry \subseteq Pending
        /\ main.pc # "idle" => main.id \in ID
        /\ main.pc \in {"commit", "post"} => main.ack \in Outcome
        /\ \A id \in ShutdownID : timer[id].pc \in {"commit", "post"} => timer[id].ack \in Outcome
    BY DEF TypeOK, ID, CarriesAck, Main
  <1>p. ASSUME NEW x \in ID, NEW o \in Outcome, NEW sent \in BOOLEAN, NEW answered \in BOOLEAN,
               NEW written \in BOOLEAN, PostFinal(x, o, sent, answered, written),
               Claims(x, o), UNCHANGED executed
        PROVE  \/ UNCHANGED server
               \/ \E y \in ID, a \in Outcome :
                     /\ Claims(y, a) /\ server[y] = NoAck /\ UNCHANGED executed
                     /\ server' = [server EXCEPT ![y] = a]
    BY <1>p DEF PostFinal
  <1>1. ASSUME NEW sent \in BOOLEAN, NEW answered \in BOOLEAN, NEW written \in BOOLEAN,
               PostResult(sent, answered, written)
        PROVE  \/ UNCHANGED server
               \/ \E y \in ID, a \in Outcome :
                     /\ Claims(y, a) /\ server[y] = NoAck /\ UNCHANGED executed
                     /\ server' = [server EXCEPT ![y] = a]
    <2>1. /\ main.id \in ID /\ main.ack \in Outcome /\ UNCHANGED executed
          /\ PostFinal(main.id, main.ack, sent, answered, written)
      BY <1>1, <1>t DEF PostResult
    <2>2. Claims(main.id, main.ack)
      BY DEF Claims
    <2>. QED  BY <2>1, <2>2, <1>p
  <1>2. ASSUME NEW id \in ShutdownID, NEW sent \in BOOLEAN, NEW answered \in BOOLEAN,
               NEW written \in BOOLEAN, TimerPost(id, sent, answered, written)
        PROVE  \/ UNCHANGED server
               \/ \E y \in ID, a \in Outcome :
                     /\ Claims(y, a) /\ server[y] = NoAck /\ UNCHANGED executed
                     /\ server' = [server EXCEPT ![y] = a]
    <2>1. /\ id \in ID /\ timer[id].ack \in Outcome /\ UNCHANGED executed
          /\ PostFinal(id, timer[id].ack, sent, answered, written)
      BY <1>2, <1>t DEF TimerPost
    <2>2. Claims(id, timer[id].ack)
      BY DEF Claims
    <2>. QED  BY <2>1, <2>2, <1>p
  <1>3. ASSUME NEW p \in retry, NEW sent \in BOOLEAN, NEW answered \in BOOLEAN,
               NEW written \in BOOLEAN, RetryPost(p, sent, answered, written)
        PROVE  \/ UNCHANGED server
               \/ \E y \in ID, a \in Outcome :
                     /\ Claims(y, a) /\ server[y] = NoAck /\ UNCHANGED executed
                     /\ server' = [server EXCEPT ![y] = a]
    <2>1. /\ p.id \in ID /\ p.ack \in Outcome /\ UNCHANGED executed
          /\ p = [id |-> p.id, ack |-> p.ack]
          /\ PostFinal(p.id, p.ack, sent, answered, written)
      BY <1>3, <1>t DEF RetryPost, Pending
    <2>2. Claims(p.id, p.ack)
      BY <2>1 DEF Claims
    <2>. QED  BY <2>1, <2>2, <1>p
  <1>. QED
    BY <1>1, <1>2, <1>3
    DEF Next, MainStep, Execute, TimerStep, RetryStep, StartCommand, SendAccepted, Apply, Fire,
        ScheduleShutdown, CommitResult, Receive, Recover, CancelTimer, TimerCommit, RetryList,
        Stop, Crash, Boot, Serve, vars

\* What a side effect runs is readable, and a shutdown has not run and is not settled.
LEMMA SideEffects ==
    ASSUME TypeOK, [Next]_vars, OnceInv, MainCovered
    PROVE  \/ UNCHANGED executed
           \/ \E x \in ID : /\ executed' = [executed EXCEPT ![x] = @ + 1] /\ UNCHANGED server
                            /\ x \notin BadID
                            /\ x \in ShutdownID => executed[x] = 0 /\ ~Settled(x)
  <1>t. /\ ShutdownID \subseteq ID /\ ShutdownID \cap BadID = {}
        /\ main.pc # "idle" => main.id \in ID
    BY LedgerNames DEF TypeOK, ID, Main
  <1>1. ASSUME NEW outcome \in {"succeeded", "failed"}, Apply(outcome)
        PROVE  \E x \in ID : /\ executed' = [executed EXCEPT ![x] = @ + 1] /\ UNCHANGED server
                             /\ x \notin BadID /\ x \notin ShutdownID
    <2>1. /\ main.id \in ID /\ main.id \notin BadID /\ main.id \notin ShutdownID
          /\ executed' = [executed EXCEPT ![main.id] = @ + 1] /\ UNCHANGED server
      BY <1>1, <1>t DEF Apply, MainCovered
    <2>. QED  BY <2>1
  <1>2. ASSUME NEW id \in ShutdownID, NEW outcome \in {"succeeded", "failed"}, Fire(id, outcome)
        PROVE  \E x \in ID : /\ executed' = [executed EXCEPT ![x] = @ + 1] /\ UNCHANGED server
                             /\ x \notin BadID
                             /\ x \in ShutdownID => executed[x] = 0 /\ ~Settled(x)
    <2>1. /\ id \in ID /\ id \notin BadID /\ executed[id] = 0 /\ ~Settled(id)
          /\ executed' = [executed EXCEPT ![id] = @ + 1] /\ UNCHANGED server
      BY <1>2, <1>t DEF Fire, OnceInv, Settled
    <2>. QED  BY <2>1
  <1>. QED
    BY <1>1, <1>2
    DEF Next, MainStep, Execute, TimerStep, RetryStep, StartCommand, SendAccepted,
        ScheduleShutdown, CommitResult, PostResult, Receive, Recover, CancelTimer, TimerCommit,
        TimerPost, RetryList, RetryPost, Stop, Crash, Boot, Serve, vars

\* A step of the daemon is a run, an answer or nothing.
LEMMA ExecutionStep ==
    ASSUME TypeOK, [Next]_vars, OnceInv, MainCovered, AnswerInv
    PROVE  [Execution!ExecutionNext]_<<executed, server>>
  <1>t. executed \in [ID -> Nat] /\ server \in [ID -> Outcome \cup {NoAck}] /\ NoAck \notin Outcome
    BY LedgerNames DEF TypeOK
  <1>1. ASSUME NEW x \in ID, NEW o \in Outcome, Claims(x, o), server[x] = NoAck,
               UNCHANGED executed, server' = [server EXCEPT ![x] = o]
        PROVE  Execution!Report(x, o)
    <2>1. Justified(x, o) /\ executed[x] \in Nat
      BY <1>1, <1>t DEF AnswerInv
    <2>. QED  BY <1>1, <2>1 DEF Execution!Report, Execution!MayReport, Justified
  <1>2. ASSUME NEW x \in ID, executed' = [executed EXCEPT ![x] = @ + 1], UNCHANGED server,
               x \notin BadID, x \in ShutdownID => executed[x] = 0 /\ ~Settled(x)
        PROVE  Execution!Run(x)
    <2>1. x \in ShutdownID => server[x] \notin Outcome \ {"uncertain"}
      BY <1>2, <1>t DEF AnswerInv, Claims, Justified
    <2>. QED  BY <1>2, <2>1 DEF Execution!Run, Execution!MayRun, Execution!Definite
  <1>3. CASE UNCHANGED <<executed, server>>
    BY <1>3
  <1>. QED
    BY <1>1, <1>2, <1>3, ServerLearns, SideEffects DEF Execution!ExecutionNext

\* Before the first command nobody claims anything.
LEMMA ExecutionStart == Init => AnswerInv /\ Execution!ExecutionInit
  <1>1. Init => Execution!ExecutionInit
    BY DEF Init, Execution!ExecutionInit
  <1>2. Init => AnswerInv
    BY LedgerNames DEF Init, AnswerInv, Claims, IdleMain, IdleTimer, Outcome
  <1>. QED  BY <1>1, <1>2

\* Whatever is delivered twice, fails to be written, is lost or dies: the daemon runs and
\* reports as CommandExecution says.  A shutdown that was reported as done or as
\* failed does not run afterwards (ledger.go, client.go, shutdown.go).
THEOREM ExecutionRefined == Spec => ImplementsExecution
  <1>1. CoverInv => MainCovered
    BY CoverParts
  <1>2. LedgerInv /\ LedgerInv' /\ CoverInv /\ AnswerInv /\ [Next]_vars
          => AnswerInv' /\ [Execution!ExecutionNext]_<<executed, server>>
    BY <1>1, AnswerStep, ExecutionStep DEF LedgerInv
  <1>. QED
    BY <1>2, ExecutionStart, LedgerInvariant, CoverInvariant, PTL
    DEF Spec, ImplementsExecution, Execution!ExecutionSpec
=============================================================================

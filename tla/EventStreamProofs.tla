------------------------- MODULE EventStreamProofs -------------------------
(***************************************************************************)
(* Proofs about the broker and the SSE handlers, for any number of devices *)
(* and connections and every size of channels and histories.               *)
(*                                                                         *)
(*   StreamInv  what the map of subscribers holds is open and owned, and   *)
(*              who left it is closed; inductive by itself                 *)
(*   ResumeInv  whatever a connection that resumed does not hold is not    *)
(*              behind its cursor; inductive with the type invariant       *)
(***************************************************************************)
EXTENDS EventStream, SequenceTheorems, WellFoundedInduction, TLAPS

Shape ==
    /\ subscribers \in [Device -> SUBSET Conn]
    /\ phase \in [Conn -> Phase] /\ dev \in [Conn -> Device]
    /\ closed \subseteq Conn

\* The channel of a connection that has not subscribed yet is not closed.
FreshOpen == \A c \in Conn : phase[c] \in {"free", "checked"} => c \notin closed

StreamInv == Shape /\ FreshOpen /\ SubscribersOpen /\ NoOrphan

\* The state the broker's invariants are about.
chanVars == <<subscribers, phase, dev, closed>>

\* Each step keeps the map of subscribers and the channels in agreement.
LEMMA StreamStep == StreamInv /\ [Next]_vars => StreamInv'
  <1>. SUFFICES ASSUME StreamInv, [Next]_vars PROVE StreamInv'
    OBVIOUS
  <1>. USE DEF StreamInv, Shape, FreshOpen, SubscribersOpen, NoOrphan, Phase
  <1>u. ASSUME UNCHANGED chanVars PROVE StreamInv'
    BY <1>u DEF chanVars
  <1>1. ASSUME NEW c \in Conn, Connect(c) PROVE StreamInv'
    BY <1>1 DEF Connect, brokerVars
  <1>2. ASSUME NEW c \in Conn, Subscribe(c) PROVE StreamInv'
    BY <1>2 DEF Subscribe
  <1>3. ASSUME NEW c \in Conn, Resume(c) PROVE StreamInv'
    BY <1>3 DEF Resume, brokerVars
  <1>4. ASSUME NEW c \in Conn, Leave(c) PROVE StreamInv'
    BY <1>4 DEF Leave, brokerVars
  <1>5. ASSUME NEW c \in Conn, Return(c) PROVE StreamInv'
    <2>1. CASE subscribers[dev[c]] # {}
      <3>1. /\ subscribers' = [subscribers EXCEPT ![dev[c]] = @ \ {c}]
            /\ closed' = closed \cup {c} /\ dev' = dev
            /\ phase[c] = "leaving" /\ phase' = [phase EXCEPT ![c] = "gone"]
        BY <1>5, <2>1 DEF Return, Unsubscribe
      <3>. QED  BY <3>1
    <2>2. CASE subscribers[dev[c]] = {}
      <3>1. /\ UNCHANGED <<subscribers, closed, dev>>
            /\ phase[c] = "leaving" /\ phase' = [phase EXCEPT ![c] = "gone"]
        BY <1>5, <2>2 DEF Return, Unsubscribe
      <3>. QED  BY <2>2, <3>1
    <2>. QED  BY <2>1, <2>2
  <1>6. ASSUME NEW d \in Device, CloseClient(d) PROVE StreamInv'
    <2>1. /\ closed' = closed \cup subscribers[d]
          /\ subscribers' = [subscribers EXCEPT ![d] = {}]
          /\ UNCHANGED <<phase, dev>>
      BY <1>6 DEF CloseClient, handlerVars
    <2>. QED  BY <2>1
  <1>7. ASSUME Restart PROVE StreamInv'
    BY <1>7 DEF Restart
  <1>8. ASSUME NEW d \in Device,
               \/ \E id \in CommandID \cup {NoID} : Publish(d, id)
               \/ Register(d) \/ DeleteDevice(d)
               \/ Disconnect(d) \/ Receive(d) \/ HandleEvent(d) \/ AgentCrash(d)
        PROVE  UNCHANGED chanVars
    BY <1>8 DEF Publish, Register, DeleteDevice, Disconnect, Receive, HandleEvent, AgentCrash,
       handlerVars, brokerVars, chanVars
  <1>9. ASSUME NEW c \in Conn, Forward(c) PROVE UNCHANGED chanVars
    BY <1>9 DEF Forward, handlerVars, chanVars
  <1>10. ASSUME UNCHANGED vars PROVE UNCHANGED chanVars
    BY <1>10 DEF vars, brokerVars, handlerVars, chanVars
  <1>. HIDE DEF StreamInv
  <1>. QED
    BY <1>u, <1>1, <1>2, <1>3, <1>4, <1>5, <1>6, <1>7, <1>8, <1>9, <1>10 DEF Next

\* The stream invariant holds in every reachable state.
LEMMA StreamInvariant == Spec => []StreamInv
  <1>1. Init => StreamInv
    BY DEF Init, StreamInv, Shape, FreshOpen, SubscribersOpen, NoOrphan, Phase
  <1>. QED  BY <1>1, StreamStep, PTL DEF Spec

\* Publish never sends on a closed channel, in any interleaving of
\* connections, disconnections, deletions and restarts.
THEOREM PublishIsSafe == Spec => []SubscribersOpen
  <1>1. StreamInv => SubscribersOpen
    BY DEF StreamInv
  <1>. QED  BY <1>1, StreamInvariant, PTL

\* No SSE handler waits on a channel that nobody will send on or close.
THEOREM HandlersAreTold == Spec => []NoOrphan
  <1>1. StreamInv => NoOrphan
    BY DEF StreamInv
  <1>. QED  BY <1>1, StreamInvariant, PTL

-----------------------------------------------------------------------------
(* The types.                                                              *)

\* What Publish retains is a tail of what it was given.
LEMMA RetainEffect ==
    ASSUME NEW S, NEW h \in Seq(S)
    PROVE  /\ Retain(h) \in Seq(S) /\ Len(Retain(h)) <= HistorySize
           /\ \E k \in Nat : /\ Len(Retain(h)) + k = Len(h)
                             /\ \A i \in 1 .. Len(Retain(h)) : Retain(h)[i] = h[i + k]
  <1>1. HistorySize \in Nat \ {0} /\ Len(h) \in Nat
    BY StreamBounds
  <1>2. CASE Len(h) <= HistorySize
    <2>1. Retain(h) = h
      BY <1>1, <1>2 DEF Retain
    <2>. QED  BY <1>1, <1>2, <2>1
  <1>3. CASE Len(h) > HistorySize
    <2>. DEFINE k == Len(h) - HistorySize
    <2>1. Retain(h) = SubSeq(h, k + 1, Len(h)) /\ k \in Nat
      BY <1>1, <1>3 DEF Retain
    <2>2. /\ SubSeq(h, k + 1, Len(h)) \in Seq(S)
          /\ Len(SubSeq(h, k + 1, Len(h))) = HistorySize
          /\ \A i \in 1 .. HistorySize : SubSeq(h, k + 1, Len(h))[i] = h[i + k]
      BY <1>1, <1>3
    <2>3. HistorySize + k = Len(h)
      BY <1>1
    <2>4. /\ Len(Retain(h)) + k = Len(h)
          /\ \A i \in 1 .. Len(Retain(h)) : Retain(h)[i] = h[i + k]
      BY <2>1, <2>2, <2>3
    <2>5. k \in Nat
      BY <2>1
    <2>6. \E m \in Nat : /\ Len(Retain(h)) + m = Len(h)
                         /\ \A i \in 1 .. Len(Retain(h)) : Retain(h)[i] = h[i + m]
      <3>. WITNESS k \in Nat
      <3>. QED  BY <2>4
    <2>7. Retain(h) \in Seq(S) /\ Len(Retain(h)) <= HistorySize
      BY <1>1, <2>1, <2>2
    <2>. QED  BY <2>6, <2>7
  <1>. QED  BY <1>1, <1>2, <1>3

\* A wire stays one of events.
LEMMA WriteTypes ==
    ASSUME TypeOK, NEW c \in Conn, NEW events \in Seq(Event), Write(c, events)
    PROVE  wire' \in [Conn -> Seq(Event)]
  <1>1. wire \in [Conn -> Seq(Event)]
    BY DEF TypeOK
  <1>2. wire[c] \o events \in Seq(Event)
    BY <1>1
  <1>. QED  BY <1>1, <1>2 DEF Write

\* A replay is a tail of the history.
LEMMA ReplayEffect ==
    ASSUME NEW h \in Seq(Event), NEW i \in DOMAIN h
    PROVE  /\ ReplayFrom(h, i) \in Seq(Event)
           /\ \A k \in DOMAIN h : k > i => \E n \in DOMAIN ReplayFrom(h, i) : ReplayFrom(h, i)[n] = h[k]
  <1>1. /\ ReplayFrom(h, i) \in Seq(Event) /\ Len(ReplayFrom(h, i)) = Len(h) - i
        /\ \A n \in 1 .. Len(h) - i : ReplayFrom(h, i)[n] = h[n + i]
    BY DEF ReplayFrom
  <1>2. ASSUME NEW k \in DOMAIN h, k > i
        PROVE  \E n \in DOMAIN ReplayFrom(h, i) : ReplayFrom(h, i)[n] = h[k]
    <2>1. k - i \in 1 .. Len(h) - i /\ k - i \in DOMAIN ReplayFrom(h, i) /\ (k - i) + i = k
      BY <1>1, <1>2
    <2>. QED  BY <1>1, <2>1
  <1>. QED  BY <1>1, <1>2

\* The position a cursor is found at names it, and no earlier one does.
LEMMA CursorFound ==
    ASSUME NEW h \in Seq(Event), NEW id, CursorAt(h, id) # 0
    PROVE  /\ CursorAt(h, id) \in DOMAIN h /\ h[CursorAt(h, id)].id = id
           /\ \A j \in DOMAIN h : h[j].id = id => CursorAt(h, id) <= j
  <1>. DEFINE at == {i \in DOMAIN h : h[i].id = id}
  <1>1. at # {} /\ CursorAt(h, id) = CHOOSE i \in at : \A j \in at : i <= j
    BY DEF CursorAt
  <1>2. at \subseteq Nat
    OBVIOUS
  <1>3. PICK i \in at : \A j \in at : ~(<<j, i>> \in OpToRel(<, Nat))
    BY <1>1, <1>2, NatLessThanWellFounded, WFMin, Zenon
  <1>4. \A j \in at : i <= j
    <2>1. SUFFICES ASSUME NEW j \in at, j < i PROVE FALSE
      BY <1>2
    <2>2. <<j, i>> \notin {ss \in Nat \X Nat : ss[1] < ss[2]}
      BY <1>3, Zenon DEF OpToRel
    <2>. QED  BY <1>2, <2>1, <2>2
  <1>. QED  BY <1>1, <1>4

\* Publishing keeps the types.
LEMMA PublishTypes ==
    ASSUME TypeOK, NEW d \in Device, NEW id \in CommandID \cup {NoID}, Publish(d, id)
    PROVE  TypeOK'
  <1>. DEFINE seq == IF id = NoID THEN sequence[d] + 1 ELSE sequence[d]
              ev == [id |-> IF id = NoID THEN seq ELSE id, serial |-> serial + 1]
              room == {c \in subscribers[d] : Len(buf[c]) < ChanCap}
  <1>1. /\ serial < MaxPublish /\ serial' = serial + 1
        /\ sequence' = [sequence EXCEPT ![d] = seq]
        /\ history' = [history EXCEPT ![d] = Retain(Append(history[d], ev))]
        /\ buf' = [c \in Conn |-> IF c \in room THEN Append(buf[c], ev) ELSE buf[c]]
        /\ dropped' = dropped \cup (subscribers[d] \ room)
        /\ UNCHANGED <<registered, deleting, subscribers, closed, phase, dev, header, resumed, mistaken,
                       wire, broken, reading, cursor, inHand, begun, received>>
    BY DEF Publish, handlerVars, agentVars
  <1>2. /\ seq \in 0 .. MaxPublish /\ seq <= serial + 1 /\ serial + 1 \in 1 .. MaxPublish
        /\ id = NoID => seq \in 1 .. MaxPublish
    BY <1>1, StreamBounds DEF TypeOK
  <1>3. ev \in Event
    BY <1>2 DEF Event, EventID
  <1>. HIDE DEF ev
  <1>4. /\ history' \in [Device -> Seq(Event)]
        /\ \A x \in Device : Len(history'[x]) <= HistorySize
    <2>1. history \in [Device -> Seq(Event)] /\ Append(history[d], ev) \in Seq(Event)
      BY <1>3 DEF TypeOK
    <2>2. /\ Retain(Append(history[d], ev)) \in Seq(Event)
          /\ Len(Retain(Append(history[d], ev))) <= HistorySize
      BY <2>1, RetainEffect
    <2>. QED  BY <1>1, <2>1, <2>2 DEF TypeOK
  <1>5. /\ buf' \in [Conn -> Seq(Event)]
        /\ \A c \in Conn : Len(buf'[c]) <= ChanCap
    BY <1>1, <1>3, StreamBounds DEF TypeOK
  <1>6. dropped' \subseteq Conn
    BY <1>1 DEF TypeOK
  <1>7. /\ sequence' \in [Device -> 0 .. MaxPublish] /\ serial' \in 0 .. MaxPublish
        /\ \A x \in Device : sequence'[x] <= serial'
    BY <1>1, <1>2 DEF TypeOK
  <1>. QED  BY <1>1, <1>4, <1>5, <1>6, <1>7 DEF TypeOK

\* The handler's steps keep the types.
LEMMA HandlerTypes ==
    ASSUME TypeOK, NEW c \in Conn,
           Connect(c) \/ Subscribe(c) \/ Resume(c) \/ Forward(c) \/ Leave(c) \/ Return(c)
    PROVE  TypeOK'
  <1>0. dev[c] \in Device
    BY DEF TypeOK
  <1>1. CASE Connect(c)
    BY <1>0, <1>1 DEF TypeOK, Connect, brokerVars, Phase
  <1>2. CASE Subscribe(c)
    BY <1>0, <1>2 DEF TypeOK, Subscribe, agentVars, Phase
  <1>3. CASE Resume(c)
    <2>. DEFINE h == history[dev[c]]
                i == IF header[c] = NoEvent THEN 0 ELSE CursorAt(h, header[c].id)
                snapshot == [id |-> NoID, serial |-> serial]
    <2>1. /\ phase' = [phase EXCEPT ![c] = "streaming"]
          /\ UNCHANGED <<registered, deleting, subscribers, history, sequence, serial, buf, closed,
                         dropped, dev, header, broken, reading, cursor, inHand, begun, received>>
          /\ resumed' \subseteq resumed \cup {c} /\ mistaken' \subseteq mistaken \cup {c}
          /\ (i # 0 /\ Write(c, ReplayFrom(h, i))) \/ Write(c, <<snapshot>>)
      BY <1>3 DEF Resume, brokerVars, agentVars
    <2>2. h \in Seq(Event) /\ <<snapshot>> \in Seq(Event)
      <3>1. snapshot \in Event
        BY DEF TypeOK, Event
      <3>. QED  BY <1>0, <3>1 DEF TypeOK
    <2>3. i # 0 => ReplayFrom(h, i) \in Seq(Event)
      BY <2>2, CursorFound, ReplayEffect
    <2>4. wire' \in [Conn -> Seq(Event)]
      BY <2>1, <2>2, <2>3, WriteTypes
    <2>. QED  BY <2>1, <2>4 DEF TypeOK, Phase
  <1>4. CASE Forward(c)
    <2>1. /\ buf[c] # <<>> /\ Write(c, <<Head(buf[c])>>) /\ buf' = [buf EXCEPT ![c] = Tail(buf[c])]
          /\ UNCHANGED <<registered, deleting, subscribers, history, sequence, serial, closed,
                         dropped, phase, dev, header, resumed, mistaken, broken, reading, cursor, inHand,
                         begun, received>>
      BY <1>4 DEF Forward, handlerVars, agentVars
    <2>2. /\ <<Head(buf[c])>> \in Seq(Event) /\ Tail(buf[c]) \in Seq(Event)
          /\ Len(Tail(buf[c])) <= ChanCap
      BY <2>1, StreamBounds DEF TypeOK
    <2>3. wire' \in [Conn -> Seq(Event)]
      BY <2>1, <2>2, WriteTypes
    <2>4. buf' \in [Conn -> Seq(Event)] /\ \A x \in Conn : Len(buf'[x]) <= ChanCap
      BY <2>1, <2>2 DEF TypeOK
    <2>. QED  BY <2>1, <2>3, <2>4 DEF TypeOK
  <1>5. CASE Leave(c)
    BY <1>5 DEF TypeOK, Leave, brokerVars, agentVars, Phase
  <1>6. CASE Return(c)
    <2>1. /\ subscribers' \in [Device -> SUBSET Conn] /\ closed' \subseteq Conn
      <3>1. CASE subscribers[dev[c]] # {}
        <4>1. /\ subscribers' = [subscribers EXCEPT ![dev[c]] = subscribers[dev[c]] \ {c}]
              /\ closed' = closed \cup {c}
          BY <1>6, <3>1 DEF Return, Unsubscribe
        <4>. QED  BY <1>0, <4>1 DEF TypeOK
      <3>2. CASE subscribers[dev[c]] = {}
        BY <1>6, <3>2 DEF TypeOK, Return, Unsubscribe
      <3>. QED  BY <3>1, <3>2
    <2>2. /\ phase' = [phase EXCEPT ![c] = "gone"] /\ buf' = [buf EXCEPT ![c] = <<>>]
          /\ resumed' \subseteq resumed /\ dropped' \subseteq dropped /\ mistaken' \subseteq mistaken
          /\ UNCHANGED <<registered, deleting, history, sequence, serial, dev, header, wire,
                         broken, reading, cursor, inHand, begun, received>>
      BY <1>6 DEF Return, agentVars
    <2>3. buf' \in [Conn -> Seq(Event)] /\ \A x \in Conn : Len(buf'[x]) <= ChanCap
      BY <2>2, StreamBounds DEF TypeOK
    <2>. QED  BY <2>1, <2>2, <2>3 DEF TypeOK, Phase
  <1>. QED  BY <1>1, <1>2, <1>3, <1>4, <1>5, <1>6

\* The steps of a device and of its agent keep the types.
LEMMA DeviceTypes ==
    ASSUME TypeOK, NEW d \in Device,
           \/ Register(d) \/ DeleteDevice(d) \/ CloseClient(d)
           \/ Disconnect(d) \/ Receive(d) \/ HandleEvent(d) \/ AgentCrash(d)
    PROVE  TypeOK'
  <1>0. reading[d] # NoConn => reading[d] \in Conn
    BY DEF TypeOK
  <1>1. CASE Register(d)
    BY <1>1 DEF TypeOK, Register, brokerVars, handlerVars, agentVars
  <1>2. CASE DeleteDevice(d)
    BY <1>2 DEF TypeOK, DeleteDevice, brokerVars, handlerVars, agentVars
  <1>3. CASE CloseClient(d)
    BY <1>3 DEF TypeOK, CloseClient, handlerVars, agentVars
  <1>4. ASSUME HangUp(d)
        PROVE  /\ reading' \in [Device -> Conn \cup {NoConn}] /\ broken' \subseteq Conn
               /\ wire' \in [Conn -> Seq(Event)]
    <2>1. reading' = [reading EXCEPT ![d] = NoConn]
      BY <1>4 DEF HangUp
    <2>2. CASE reading[d] = NoConn
      BY <1>4, <2>1, <2>2 DEF HangUp, TypeOK
    <2>3. CASE reading[d] # NoConn
      <3>1. /\ broken' = broken \cup {reading[d]} /\ wire' = [wire EXCEPT ![reading[d]] = <<>>]
        BY <1>4, <2>3 DEF HangUp
      <3>. QED  BY <1>0, <2>1, <2>3, <3>1 DEF TypeOK
    <2>. QED  BY <2>2, <2>3
  <1>5. CASE Disconnect(d)
    BY <1>4, <1>5 DEF TypeOK, Disconnect, brokerVars, handlerVars
  <1>6. CASE Receive(d)
    <2>. DEFINE c == reading[d]
                ev == Head(wire[c])
    <2>1. /\ c \in Conn /\ wire[c] # <<>>
          /\ wire' = [wire EXCEPT ![c] = Tail(wire[c])]
          /\ cursor' = IF ev.id = NoID THEN cursor ELSE [cursor EXCEPT ![d] = ev]
          /\ inHand' = [inHand EXCEPT ![d] = ev]
          /\ UNCHANGED <<registered, deleting, subscribers, history, sequence, serial, buf, closed,
                         dropped, phase, dev, header, resumed, mistaken, broken, reading, begun, received>>
      BY <1>0, <1>6 DEF Receive, brokerVars, handlerVars
    <2>2. ev \in Event /\ Tail(wire[c]) \in Seq(Event)
      BY <2>1 DEF TypeOK
    <2>3. wire' \in [Conn -> Seq(Event)]
      BY <2>1, <2>2 DEF TypeOK
    <2>4. ev.id \in EventID \cup {NoID}
      BY <2>2 DEF Event
    <2>. HIDE DEF ev
    <2>. QED  BY <2>1, <2>2, <2>3, <2>4 DEF TypeOK
  <1>7. CASE HandleEvent(d)
    <2>. DEFINE ev == inHand[d]
    <2>1. /\ ev # NoEvent
          /\ inHand' = [inHand EXCEPT ![d] = NoEvent]
          /\ received' = [received EXCEPT ![d] = received[d] \cup {ev}]
          /\ begun' = IF ev.id = NoID THEN begun ELSE [begun EXCEPT ![d] = begun[d] \cup {ev.id}]
          /\ UNCHANGED <<registered, deleting, subscribers, history, sequence, serial, buf, closed,
                         dropped, phase, dev, header, resumed, mistaken, wire, broken, reading, cursor>>
      BY <1>7 DEF HandleEvent, brokerVars, handlerVars
    <2>2. ev \in Event /\ ev.id \in EventID \cup {NoID}
      BY <2>1 DEF TypeOK, Event
    <2>. HIDE DEF ev
    <2>. QED  BY <2>1, <2>2 DEF TypeOK
  <1>8. CASE AgentCrash(d)
    BY <1>4, <1>8 DEF TypeOK, AgentCrash, brokerVars, handlerVars
  <1>. QED  BY <1>1, <1>2, <1>3, <1>5, <1>6, <1>7, <1>8

\* Every variable keeps its type; a channel and a history never outgrow their limits.
THEOREM StreamTypes == Spec => []TypeOK
  <1>1. Init => TypeOK
    BY StreamBounds DEF Init, TypeOK, Phase
  <1>2. TypeOK /\ [Next]_vars => TypeOK'
    <2>1. SUFFICES ASSUME TypeOK, [Next]_vars PROVE TypeOK'
      OBVIOUS
    <2>2. CASE UNCHANGED vars
      BY <2>1, <2>2 DEF TypeOK, vars, brokerVars, handlerVars, agentVars
    <2>3. CASE Restart
      <3>1. buf' \in [Conn -> Seq(Event)] /\ (\A c \in Conn : Len(buf'[c]) <= ChanCap)
            /\ wire' \in [Conn -> Seq(Event)]
        BY <2>3, StreamBounds DEF Restart
      <3>2. history' \in [Device -> Seq(Event)] /\ \A d \in Device : Len(history'[d]) <= HistorySize
        BY <2>3, StreamBounds DEF Restart
      <3>3. /\ sequence' \in [Device -> 0 .. MaxPublish] /\ serial' \in 0 .. MaxPublish
            /\ \A d \in Device : sequence'[d] <= serial'
        BY <2>1, <2>3, StreamBounds DEF Restart, TypeOK
      <3>4. /\ subscribers' \in [Device -> SUBSET Conn] /\ phase' \in [Conn -> Phase]
            /\ broken' \subseteq Conn /\ resumed' \subseteq Conn /\ dropped' \subseteq Conn
            /\ mistaken' \subseteq Conn
            /\ deleting' \subseteq Device /\ reading' \in [Device -> Conn \cup {NoConn}]
        BY <2>3 DEF Restart, Phase
      <3>5. UNCHANGED <<registered, closed, dev, header, cursor, inHand, begun, received>>
        BY <2>3 DEF Restart
      <3>. QED  BY <2>1, <3>1, <3>2, <3>3, <3>4, <3>5 DEF TypeOK
    <2>4. ASSUME NEW d \in Device, NEW id \in CommandID \cup {NoID}, Publish(d, id) PROVE TypeOK'
      BY <2>1, <2>4, PublishTypes
    <2>. QED  BY <2>1, <2>2, <2>3, <2>4, HandlerTypes, DeviceTypes DEF Next
  <1>. QED  BY <1>1, <1>2, PTL DEF Spec

-----------------------------------------------------------------------------
(* Nothing is missed by a connection that resumed.                         *)

\* A connection whose handler runs and that was not given up is the one its device reads;
\* only a handler that streams has resumed.
ReaderOK ==
    /\ \A d \in Device : reading[d] # NoConn => dev[reading[d]] = d
    /\ \A c \in Conn : phase[c] \notin {"free", "gone"} /\ c \notin broken => reading[dev[c]] = c
    /\ \A c \in resumed : phase[c] \in {"streaming", "leaving"}

\* The event is with the agent, or on its way to it.
Held(c, ev) ==
    \/ ev \in received[dev[c]] \cup {inHand[dev[c]]}
    \/ \E i \in DOMAIN wire[c] : wire[c][i] = ev
    \/ \E i \in DOMAIN buf[c] : buf[c][i] = ev

\* A connection that began with a replay from its own event and lost nothing since.
Following(c) ==
    c \in resumed \ (dropped \cup broken \cup mistaken) /\ phase[c] = "streaming" /\ c \in subscribers[dev[c]]

\* A history has the events in the order of their publication.
HistoryOK ==
    \A d \in Device : \A j \in DOMAIN history[d] :
        /\ history[d][j].serial <= serial
        /\ \A i \in DOMAIN history[d] : i < j => history[d][i].serial < history[d][j].serial

\* What such a connection does not hold was not published after its cursor's event.
NothingMissed ==
    \A c \in Conn : Following(c) =>
        \A i \in DOMAIN history[dev[c]] :
            history[dev[c]][i].serial > header[c].serial => Held(c, history[dev[c]][i])

ResumeInv == TypeOK /\ ReaderOK /\ HistoryOK /\ NothingMissed

\* A step that leaves the histories alone and loses nothing a connection holds.
LEMMA NothingLost ==
    ASSUME ResumeInv, UNCHANGED <<history, dev, header>>,
           \A c \in Conn : Following(c)' =>
              Following(c) /\ \A ev \in Event : Held(c, ev) => Held(c, ev)'
    PROVE  NothingMissed'
  <1>1. \A c \in Conn : \A i \in DOMAIN history[dev[c]] : history[dev[c]][i] \in Event
    BY DEF ResumeInv, TypeOK
  <1>2. NothingMissed
    BY DEF ResumeInv
  <1>. QED  BY <1>1, <1>2 DEF NothingMissed

\* Publishing: a connection with room gets the event, and one without no longer counts.
LEMMA PublishMisses ==
    ASSUME ResumeInv, NEW d \in Device, NEW id \in CommandID \cup {NoID}, Publish(d, id)
    PROVE  ReaderOK' /\ NothingMissed'
  <1>. DEFINE seq == IF id = NoID THEN sequence[d] + 1 ELSE sequence[d]
              ev == [id |-> IF id = NoID THEN seq ELSE id, serial |-> serial + 1]
              room == {c \in subscribers[d] : Len(buf[c]) < ChanCap}
              HeldNext(c, x) == \/ x \in received'[dev'[c]] \cup {inHand'[dev'[c]]}
                                \/ \E i \in DOMAIN wire'[c] : wire'[c][i] = x
                                \/ \E i \in DOMAIN buf'[c] : buf'[c][i] = x
  <1>1. /\ serial < MaxPublish /\ serial' = serial + 1
        /\ history' = [history EXCEPT ![d] = Retain(Append(history[d], ev))]
        /\ buf' = [c \in Conn |-> IF c \in room THEN Append(buf[c], ev) ELSE buf[c]]
        /\ dropped' = dropped \cup (subscribers[d] \ room)
        /\ UNCHANGED <<registered, deleting, subscribers, closed, phase, dev, header, resumed, mistaken,
                       wire, broken, reading, cursor, inHand, begun, received>>
    BY DEF Publish, handlerVars, agentVars
  <1>2. ReaderOK'
    BY <1>1 DEF ResumeInv, ReaderOK
  <1>3. ev \in Event
    <2>1. /\ serial + 1 \in 0 .. MaxPublish /\ (id = NoID => seq \in 1 .. MaxPublish)
      BY <1>1, StreamBounds DEF ResumeInv, TypeOK
    <2>. QED  BY <2>1 DEF Event, EventID
  <1>. HIDE DEF ev
  <1>4. history \in [Device -> Seq(Event)] /\ buf \in [Conn -> Seq(Event)] /\ dev \in [Conn -> Device]
    BY DEF ResumeInv, TypeOK
  <1>5. ASSUME NEW c \in Conn, NEW x, Held(c, x)
        PROVE  HeldNext(c, x)
    <2>1. CASE \E i \in DOMAIN buf[c] : buf[c][i] = x
      <3>1. PICK i \in DOMAIN buf[c] : buf[c][i] = x
        BY <2>1
      <3>2. buf[c] \in Seq(Event) /\ i \in 1 .. Len(buf[c])
        BY <1>4, <3>1
      <3>3. buf'[c] \in {buf[c], Append(buf[c], ev)}
        BY <1>1
      <3>4. i \in DOMAIN buf'[c] /\ buf'[c][i] = x
        BY <1>3, <3>1, <3>2, <3>3
      <3>. QED  BY <3>4
    <2>2. CASE ~\E i \in DOMAIN buf[c] : buf[c][i] = x
      BY <1>1, <1>5, <2>2 DEF Held
    <2>. QED  BY <2>1, <2>2
  <1>6. ASSUME NEW c \in Conn, Following(c)', dev[c] = d
        PROVE  HeldNext(c, ev)
    <2>1. c \in room
      BY <1>1, <1>6 DEF Following
    <2>2. buf'[c] = Append(buf[c], ev)
      BY <1>1, <2>1
    <2>3. buf[c] \in Seq(Event)
      BY <1>4
    <2>4. Len(buf[c]) + 1 \in DOMAIN buf'[c] /\ buf'[c][Len(buf[c]) + 1] = ev
      BY <1>3, <2>2, <2>3
    <2>. QED  BY <2>4
  <1>7. ASSUME NEW c \in Conn, Following(c)'
        PROVE  \A i \in DOMAIN history'[dev[c]] :
                  history'[dev[c]][i].serial > header[c].serial => HeldNext(c, history'[dev[c]][i])
    <2>1. Following(c)
      BY <1>1, <1>7 DEF Following
    <2>2. \A i \in DOMAIN history[dev[c]] :
             history[dev[c]][i].serial > header[c].serial => Held(c, history[dev[c]][i])
      BY <2>1 DEF ResumeInv, NothingMissed
    <2>3. CASE dev[c] # d
      <3>1. history'[dev[c]] = history[dev[c]]
        BY <1>1, <1>4, <2>3
      <3>. QED  BY <1>5, <2>2, <3>1
    <2>4. CASE dev[c] = d
      <3>. DEFINE h == history[d]
                  g == Append(h, ev)
      <3>1. h \in Seq(Event) /\ g \in Seq(Event) /\ Len(g) = Len(h) + 1 /\ g[Len(h) + 1] = ev
            /\ \A i \in 1 .. Len(h) : g[i] = h[i]
        BY <1>3, <1>4
      <3>2. PICK k \in Nat : /\ Len(Retain(g)) + k = Len(g)
                             /\ \A i \in 1 .. Len(Retain(g)) : Retain(g)[i] = g[i + k]
        BY <3>1, RetainEffect
      <3>3. history'[dev[c]] = Retain(g) /\ Retain(g) \in Seq(Event)
        BY <1>1, <1>4, <2>4, <3>1, RetainEffect
      <3>. HIDE DEF g
      <3>4. SUFFICES ASSUME NEW i \in 1 .. Len(Retain(g)), Retain(g)[i].serial > header[c].serial
                     PROVE  HeldNext(c, Retain(g)[i])
        BY <3>3
      <3>5. Retain(g)[i] = g[i + k] /\ i + k \in 1 .. Len(h) + 1
        BY <3>1, <3>2, <3>3
      <3>6. CASE i + k = Len(h) + 1
        <4>1. HeldNext(c, ev)
          BY <1>6, <1>7, <2>4
        <4>2. Retain(g)[i] = ev
          BY <3>1, <3>5, <3>6
        <4>. QED  BY <4>1, <4>2
      <3>7. CASE i + k \in 1 .. Len(h)
        <4>1. Retain(g)[i] = h[i + k]
          BY <3>1, <3>5, <3>7
        <4>2. \A n \in 1 .. Len(h) : h[n].serial > header[c].serial => Held(c, h[n])
          <5>1. \A n \in DOMAIN h : h[n].serial > header[c].serial => Held(c, h[n])
            BY <2>2, <2>4, Zenon
          <5>2. DOMAIN h = 1 .. Len(h)
            BY <3>1
          <5>. HIDE DEF h
          <5>. QED  BY <5>1, <5>2, Zenon
        <4>3. h[i + k].serial > header[c].serial
          BY <3>4, <4>1
        <4>4. Held(c, h[i + k])
          BY <3>7, <4>2, <4>3
        <4>5. HeldNext(c, h[i + k])
          BY <1>5, <4>4
        <4>. QED  BY <4>1, <4>5
      <3>. QED  BY <3>1, <3>5, <3>6, <3>7
    <2>. QED  BY <2>3, <2>4
  <1>8. NothingMissed'
    <2>1. SUFFICES ASSUME NEW c \in Conn, Following(c)', NEW i \in DOMAIN history'[dev'[c]],
                          history'[dev'[c]][i].serial > header'[c].serial
                   PROVE  HeldNext(c, history'[dev'[c]][i])
      BY DEF NothingMissed, Held
    <2>2. dev' = dev /\ header' = header
      BY <1>1
    <2>. HIDE DEF HeldNext
    <2>. QED  BY <1>7, <2>1, <2>2
  <1>. QED  BY <1>2, <1>8

\* What the handler writes to a connection that was not given up is on its wire.
LEMMA WriteEffect ==
    ASSUME TypeOK, NEW c \in Conn, NEW events \in Seq(Event), Write(c, events)
    PROVE  /\ \A x \in Conn \ {c} : wire'[x] = wire[x]
           /\ \A x : (\E i \in DOMAIN wire[c] : wire[c][i] = x) => \E i \in DOMAIN wire'[c] : wire'[c][i] = x
           /\ c \notin broken => \A x : (\E i \in DOMAIN events : events[i] = x) =>
                                    \E i \in DOMAIN wire'[c] : wire'[c][i] = x
  <1>1. wire \in [Conn -> Seq(Event)] /\ wire[c] \in Seq(Event)
    BY DEF TypeOK
  <1>2. CASE c \in broken
    BY <1>1, <1>2 DEF Write
  <1>3. CASE c \notin broken
    <2>1. wire' = [wire EXCEPT ![c] = wire[c] \o events]
      BY <1>3 DEF Write
    <2>2. wire'[c] = wire[c] \o events
      BY <1>1, <2>1
    <2>3. ASSUME NEW i \in DOMAIN wire[c]
          PROVE  i \in DOMAIN wire'[c] /\ wire'[c][i] = wire[c][i]
      BY <1>1, <2>2
    <2>4. ASSUME NEW i \in DOMAIN events
          PROVE  Len(wire[c]) + i \in DOMAIN wire'[c] /\ wire'[c][Len(wire[c]) + i] = events[i]
      BY <1>1, <2>2
    <2>. QED  BY <1>1, <2>1, <2>3, <2>4
  <1>. QED  BY <1>2, <1>3

\* A connection that resumes with a known cursor gets what is behind it.
LEMMA ResumeMisses ==
    ASSUME ResumeInv, NEW c \in Conn, Resume(c)
    PROVE  ReaderOK' /\ NothingMissed'
  <1>. DEFINE h == history[dev[c]]
              i0 == IF header[c] = NoEvent THEN 0 ELSE CursorAt(h, header[c].id)
              known == \E k \in DOMAIN h : h[k] = header[c]
              snapshot == [id |-> NoID, serial |-> serial]
  <1>0. /\ phase[c] = "subscribed" /\ phase' = [phase EXCEPT ![c] = "streaming"]
        /\ UNCHANGED <<registered, deleting, subscribers, history, sequence, serial, buf, closed,
                       dropped, dev, header, broken, reading, cursor, inHand, begun, received>>
        /\ mistaken \subseteq mistaken'
        /\ \/ /\ i0 # 0 /\ Write(c, ReplayFrom(h, i0)) /\ resumed' = resumed \cup {c}
              /\ mistaken' = IF known THEN mistaken ELSE mistaken \cup {c}
           \/ i0 = 0 /\ Write(c, <<snapshot>>) /\ UNCHANGED <<resumed, mistaken>>
    BY DEF Resume, brokerVars, agentVars
  <1>t. TypeOK /\ phase \in [Conn -> Phase] /\ h \in Seq(Event) /\ <<snapshot>> \in Seq(Event)
    <2>1. snapshot \in Event
      BY DEF ResumeInv, TypeOK, Event
    <2>. QED  BY <2>1 DEF ResumeInv, TypeOK
  <1>1. ReaderOK'
    BY <1>0, <1>t DEF ResumeInv, ReaderOK
  <1>2. i0 # 0 => /\ i0 \in DOMAIN h
                  /\ \A j \in DOMAIN h : h[j].id = header[c].id => i0 <= j
                  /\ ReplayFrom(h, i0) \in Seq(Event)
                  /\ \A k \in DOMAIN h : k > i0 =>
                        \E n \in DOMAIN ReplayFrom(h, i0) : ReplayFrom(h, i0)[n] = h[k]
    BY <1>t, CursorFound, ReplayEffect
  <1>3. /\ \A x \in Conn \ {c} : wire'[x] = wire[x]
        /\ \A x : (\E i \in DOMAIN wire[c] : wire[c][i] = x) => \E i \in DOMAIN wire'[c] : wire'[c][i] = x
    BY <1>0, <1>t, <1>2, WriteEffect
  <1>4. i0 # 0 /\ c \notin broken =>
           \A k \in DOMAIN h : k > i0 => \E n \in DOMAIN wire'[c] : wire'[c][n] = h[k]
    <2>1. SUFFICES ASSUME i0 # 0, c \notin broken, NEW k \in DOMAIN h, k > i0
                   PROVE  \E n \in DOMAIN wire'[c] : wire'[c][n] = h[k]
      OBVIOUS
    <2>. DEFINE rest == ReplayFrom(h, i0)
    <2>2. rest \in Seq(Event) /\ Write(c, rest) /\ \E n \in DOMAIN rest : rest[n] = h[k]
      BY <1>0, <1>2, <2>1
    <2>. HIDE DEF rest
    <2>3. \A x : (\E i \in DOMAIN rest : rest[i] = x) => \E i \in DOMAIN wire'[c] : wire'[c][i] = x
      BY <1>t, <2>1, <2>2, WriteEffect
    <2>. QED  BY <2>2, <2>3
  <1>. HIDE DEF i0, snapshot
  <1>5. ASSUME NEW x \in Conn, Following(x)', NEW i \in DOMAIN history'[dev'[x]],
               history'[dev'[x]][i].serial > header'[x].serial
        PROVE  \/ history'[dev'[x]][i] \in received'[dev'[x]] \cup {inHand'[dev'[x]]}
               \/ \E n \in DOMAIN wire'[x] : wire'[x][n] = history'[dev'[x]][i]
               \/ \E n \in DOMAIN buf'[x] : buf'[x][n] = history'[dev'[x]][i]
    <2>1. CASE x # c
      <3>1. Following(x)
        BY <1>0, <1>5, <1>t, <2>1 DEF Following
      <3>2. Held(x, history[dev[x]][i])
        BY <1>0, <1>5, <3>1 DEF ResumeInv, NothingMissed
      <3>3. wire'[x] = wire[x]
        BY <1>3, <2>1
      <3>. QED  BY <1>0, <3>2, <3>3 DEF Held
    <2>2. CASE x = c /\ i0 # 0
      <3>1. c \notin broken /\ i \in DOMAIN h /\ history'[dev'[x]] = h /\ header'[x] = header[c]
        BY <1>0, <1>5, <2>2 DEF Following
      <3>2. c \notin mistaken' /\ known
        BY <1>0, <1>5, <2>2 DEF Following
      <3>3. PICK k \in 1 .. Len(h) : h[k] = header[c]
        BY <1>t, <3>2
      <3>4. i0 <= k
        BY <1>2, <1>t, <2>2, <3>3
      <3>5. h[i].serial > h[k].serial /\ h[i] \in Event /\ h[k] \in Event /\ i \in 1 .. Len(h)
        BY <1>0, <1>5, <1>t, <2>2, <3>1, <3>3
      <3>6. i > k
        <4>1. dev[c] \in Device /\ h[i].serial \in Nat /\ h[k].serial \in Nat
          BY <1>t, <3>5 DEF TypeOK, Event
        <4>2. i < k => h[i].serial < h[k].serial
          BY <1>t, <3>3, <3>5, <4>1 DEF ResumeInv, HistoryOK
        <4>. QED  BY <3>3, <3>5, <4>1, <4>2
      <3>7. i > i0
        BY <1>2, <1>t, <2>2, <3>3, <3>4, <3>5, <3>6
      <3>. QED  BY <1>4, <2>2, <3>1, <3>7
    <2>3. CASE x = c /\ i0 = 0
      <3>1. c \in resumed
        BY <1>0, <1>5, <2>3 DEF Following
      <3>. QED  BY <1>0, <3>1 DEF ResumeInv, ReaderOK
    <2>. QED  BY <2>1, <2>2, <2>3
  <1>6. NothingMissed'
    BY <1>5 DEF NothingMissed, Held
  <1>. QED  BY <1>1, <1>6

\* The other steps of a handler lose nothing.
LEMMA HandlerMisses ==
    ASSUME ResumeInv, NEW c \in Conn,
           Connect(c) \/ Subscribe(c) \/ Forward(c) \/ Leave(c) \/ Return(c)
    PROVE  ReaderOK' /\ NothingMissed'
  <1>0. /\ TypeOK /\ dev[c] \in Device /\ phase \in [Conn -> Phase] /\ resumed \subseteq Conn
        /\ reading \in [Device -> Conn \cup {NoConn}] /\ subscribers \in [Device -> SUBSET Conn]
        /\ buf \in [Conn -> Seq(Event)] /\ dev \in [Conn -> Device] /\ broken \subseteq Conn
        /\ header \in [Conn -> Event \cup {NoEvent}]
    BY DEF ResumeInv, TypeOK
  <1>1. CASE Connect(c)
    <2>1. /\ phase[c] = "free" /\ reading[dev[c]] = NoConn
          /\ phase' = [phase EXCEPT ![c] = "checked"]
          /\ header' = [header EXCEPT ![c] = cursor[dev[c]]]
          /\ reading' = [reading EXCEPT ![dev[c]] = c]
          /\ UNCHANGED <<registered, deleting, subscribers, history, sequence, serial, buf, closed,
                         dropped, dev, resumed, mistaken, wire, broken, cursor, inHand, begun, received>>
      BY <1>1 DEF Connect, brokerVars
    <2>2. ReaderOK'
      <3>1. \A x \in Conn : phase'[x] \notin {"free", "gone"} /\ x \notin broken' => reading'[dev'[x]] = x
        BY <1>0, <2>1, StreamNames DEF ResumeInv, ReaderOK
      <3>2. \A d \in Device : reading'[d] # NoConn => dev'[reading'[d]] = d
        BY <1>0, <2>1 DEF ResumeInv, ReaderOK
      <3>3. \A x \in resumed' : phase'[x] \in {"streaming", "leaving"}
        BY <1>0, <2>1 DEF ResumeInv, ReaderOK
      <3>. QED  BY <3>1, <3>2, <3>3 DEF ReaderOK
    <2>3. NothingMissed'
      <3>1. SUFFICES ASSUME NEW x \in Conn, Following(x)', NEW i \in DOMAIN history'[dev'[x]],
                            history'[dev'[x]][i].serial > header'[x].serial
                     PROVE  \/ history'[dev'[x]][i] \in received'[dev'[x]] \cup {inHand'[dev'[x]]}
                            \/ \E n \in DOMAIN wire'[x] : wire'[x][n] = history'[dev'[x]][i]
                            \/ \E n \in DOMAIN buf'[x] : buf'[x][n] = history'[dev'[x]][i]
        BY DEF NothingMissed, Held
      <3>2. x # c /\ Following(x)
        BY <1>0, <2>1, <3>1 DEF Following
      <3>3. header'[x] = header[x]
        BY <1>0, <2>1, <3>2
      <3>4. Held(x, history[dev[x]][i])
        BY <2>1, <3>1, <3>2, <3>3 DEF ResumeInv, NothingMissed
      <3>. QED  BY <2>1, <3>4 DEF Held
    <2>. QED  BY <2>2, <2>3
  <1>2. CASE Subscribe(c)
    <2>1. /\ phase[c] = "checked" /\ phase' = [phase EXCEPT ![c] = "subscribed"]
          /\ subscribers' = [subscribers EXCEPT ![dev[c]] = subscribers[dev[c]] \cup {c}]
          /\ UNCHANGED <<history, buf, dropped, dev, header, resumed, mistaken, wire, broken, reading, cursor,
                         inHand, begun, received>>
      BY <1>2 DEF Subscribe, agentVars
    <2>2. ReaderOK'
      BY <1>0, <2>1 DEF ResumeInv, ReaderOK
    <2>3. \A x \in Conn : Following(x)' => Following(x) /\ \A ev \in Event : Held(x, ev) => Held(x, ev)'
      BY <1>0, <2>1 DEF Following, Held
    <2>. QED  BY <2>1, <2>2, <2>3, NothingLost
  <1>3. CASE Forward(c)
    <2>1. /\ buf[c] # <<>> /\ Write(c, <<Head(buf[c])>>) /\ buf' = [buf EXCEPT ![c] = Tail(buf[c])]
          /\ UNCHANGED <<registered, deleting, subscribers, history, sequence, serial, closed,
                         dropped, phase, dev, header, resumed, mistaken, broken, reading, cursor, inHand,
                         begun, received>>
      BY <1>3 DEF Forward, handlerVars, agentVars
    <2>2. ReaderOK'
      BY <2>1 DEF ResumeInv, ReaderOK
    <2>3. <<Head(buf[c])>> \in Seq(Event) /\ buf[c] \in Seq(Event)
      BY <1>0, <2>1
    <2>4. /\ \A x \in Conn \ {c} : wire'[x] = wire[x] /\ buf'[x] = buf[x]
          /\ \A e : (\E i \in DOMAIN wire[c] : wire[c][i] = e) => \E i \in DOMAIN wire'[c] : wire'[c][i] = e
          /\ c \notin broken => \E i \in DOMAIN wire'[c] : wire'[c][i] = Head(buf[c])
      <3>. DEFINE first == <<Head(buf[c])>>
      <3>1. /\ \E i \in DOMAIN first : first[i] = Head(buf[c])
            /\ first \in Seq(Event) /\ Write(c, first)
        BY <2>1, <2>3
      <3>. HIDE DEF first
      <3>2. /\ \A x \in Conn \ {c} : wire'[x] = wire[x]
            /\ \A e : (\E i \in DOMAIN wire[c] : wire[c][i] = e) => \E i \in DOMAIN wire'[c] : wire'[c][i] = e
            /\ c \notin broken => \A e : (\E i \in DOMAIN first : first[i] = e) =>
                                    \E i \in DOMAIN wire'[c] : wire'[c][i] = e
        BY <1>0, <3>1, WriteEffect
      <3>3. \A x \in Conn \ {c} : buf'[x] = buf[x]
        BY <1>0, <2>1
      <3>. QED  BY <3>1, <3>2, <3>3
    <2>5. \A i \in DOMAIN buf[c] :
             \/ buf[c][i] = Head(buf[c])
             \/ \E j \in DOMAIN buf'[c] : buf'[c][j] = buf[c][i]
      <3>1. SUFFICES ASSUME NEW i \in 1 .. Len(buf[c]), i # 1
                     PROVE  \E j \in DOMAIN buf'[c] : buf'[c][j] = buf[c][i]
        BY <2>3
      <3>2. buf'[c] = Tail(buf[c])
        BY <1>0, <2>1
      <3>3. i - 1 \in DOMAIN Tail(buf[c]) /\ Tail(buf[c])[i - 1] = buf[c][i]
        BY <2>1, <2>3, <3>1
      <3>. QED  BY <3>2, <3>3
    <2>6. \A x \in Conn : Following(x)' => Following(x) /\ \A ev \in Event : Held(x, ev) => Held(x, ev)'
      <3>1. SUFFICES ASSUME NEW x \in Conn, Following(x)', NEW ev \in Event, Held(x, ev)
                     PROVE  Held(x, ev)'
        BY <2>1 DEF Following
      <3>2. CASE x = c
        <4>1. c \notin broken
          BY <2>1, <3>1, <3>2 DEF Following
        <4>2. CASE \E i \in DOMAIN buf[c] : buf[c][i] = ev
          BY <2>4, <2>5, <3>2, <4>1, <4>2 DEF Held
        <4>3. CASE ~\E i \in DOMAIN buf[c] : buf[c][i] = ev
          BY <2>1, <2>4, <3>1, <3>2, <4>3 DEF Held
        <4>. QED  BY <4>2, <4>3
      <3>3. CASE x # c
        BY <2>1, <2>4, <3>1, <3>3 DEF Held
      <3>. QED  BY <3>2, <3>3
    <2>. QED  BY <2>1, <2>2, <2>6, NothingLost
  <1>4. CASE Leave(c)
    <2>1. /\ phase[c] = "streaming" /\ phase' = [phase EXCEPT ![c] = "leaving"]
          /\ UNCHANGED <<subscribers, history, buf, dropped, dev, header, resumed, mistaken, wire, broken,
                         reading, cursor, inHand, begun, received>>
      BY <1>4 DEF Leave, brokerVars, agentVars
    <2>2. ReaderOK'
      BY <1>0, <2>1 DEF ResumeInv, ReaderOK
    <2>3. \A x \in Conn : Following(x)' => Following(x) /\ \A ev \in Event : Held(x, ev) => Held(x, ev)'
      BY <1>0, <2>1 DEF Following, Held
    <2>. QED  BY <2>1, <2>2, <2>3, NothingLost
  <1>5. CASE Return(c)
    <2>1. /\ phase[c] = "leaving" /\ phase' = [phase EXCEPT ![c] = "gone"]
          /\ buf' = [buf EXCEPT ![c] = <<>>]
          /\ resumed' = resumed \ {c} /\ dropped' = dropped \ {c} /\ mistaken' = mistaken \ {c}
          /\ UNCHANGED <<history, dev, header, wire, broken, reading, cursor, inHand, begun, received>>
      BY <1>5 DEF Return, agentVars
    <2>2. \A d \in Device : subscribers'[d] \subseteq subscribers[d]
      <3>1. CASE subscribers[dev[c]] # {}
        <4>1. subscribers' = [subscribers EXCEPT ![dev[c]] = subscribers[dev[c]] \ {c}]
          BY <1>5, <3>1 DEF Return, Unsubscribe
        <4>. QED  BY <1>0, <4>1
      <3>2. CASE subscribers[dev[c]] = {}
        BY <1>5, <3>2 DEF Return, Unsubscribe
      <3>. QED  BY <3>1, <3>2
    <2>3. ReaderOK'
      BY <1>0, <2>1 DEF ResumeInv, ReaderOK
    <2>4. \A x \in Conn : Following(x)' => Following(x) /\ \A ev \in Event : Held(x, ev) => Held(x, ev)'
      <3>1. SUFFICES ASSUME NEW x \in Conn, Following(x)'
                     PROVE  Following(x) /\ \A ev \in Event : Held(x, ev) => Held(x, ev)'
        OBVIOUS
      <3>2. x # c /\ dev[x] \in Device
        BY <1>0, <2>1, <3>1 DEF Following
      <3>3. Following(x)
        BY <1>0, <2>1, <2>2, <3>1, <3>2 DEF Following
      <3>4. buf'[x] = buf[x]
        BY <1>0, <2>1, <3>2
      <3>. QED  BY <2>1, <3>3, <3>4 DEF Held
    <2>. QED  BY <2>1, <2>3, <2>4, NothingLost
  <1>. QED  BY <1>1, <1>2, <1>3, <1>4, <1>5

\* The steps of the devices and of their agents lose nothing: what leaves the wire is in
\* the agent's hand, and what an agent loses it loses with its connection.
LEMMA DeviceMisses ==
    ASSUME ResumeInv, NEW d \in Device,
           \/ Register(d) \/ DeleteDevice(d) \/ CloseClient(d)
           \/ Disconnect(d) \/ Receive(d) \/ HandleEvent(d) \/ AgentCrash(d)
    PROVE  ReaderOK' /\ NothingMissed'
  <1>0. /\ TypeOK /\ ReaderOK /\ phase \in [Conn -> Phase] /\ resumed \subseteq Conn
        /\ reading \in [Device -> Conn \cup {NoConn}] /\ subscribers \in [Device -> SUBSET Conn]
        /\ wire \in [Conn -> Seq(Event)] /\ dev \in [Conn -> Device] /\ broken \subseteq Conn
        /\ inHand \in [Device -> Event \cup {NoEvent}] /\ received \in [Device -> SUBSET Event]
        /\ NoEvent \notin Event
    BY StreamNames DEF ResumeInv, TypeOK
  <1>f. ASSUME NEW x \in Conn, Following(x)
        PROVE  phase[x] = "streaming" /\ x \notin broken /\ reading[dev[x]] = x
    BY <1>0, <1>f DEF Following, ReaderOK
  <1>1. CASE Register(d) \/ DeleteDevice(d)
    <2>1. UNCHANGED <<subscribers, history, buf, dropped, phase, dev, header, resumed, mistaken, wire, broken,
                      reading, cursor, inHand, begun, received>>
      BY <1>1 DEF Register, DeleteDevice, brokerVars, handlerVars, agentVars
    <2>2. ReaderOK'
      BY <1>0, <2>1 DEF ReaderOK
    <2>3. \A x \in Conn : Following(x)' => Following(x) /\ \A ev \in Event : Held(x, ev) => Held(x, ev)'
      BY <2>1 DEF Following, Held
    <2>. QED  BY <2>1, <2>2, <2>3, NothingLost
  <1>2. CASE CloseClient(d)
    <2>1. /\ subscribers' = [subscribers EXCEPT ![d] = {}]
          /\ UNCHANGED <<history, buf, dropped, phase, dev, header, resumed, mistaken, wire, broken,
                         reading, cursor, inHand, begun, received>>
      BY <1>2 DEF CloseClient, handlerVars, agentVars
    <2>2. ReaderOK'
      BY <1>0, <2>1 DEF ReaderOK
    <2>3. \A x \in Conn : Following(x)' => Following(x) /\ \A ev \in Event : Held(x, ev) => Held(x, ev)'
      BY <1>0, <2>1 DEF Following, Held
    <2>. QED  BY <2>1, <2>2, <2>3, NothingLost
  <1>3. CASE Disconnect(d) \/ AgentCrash(d)
    <2>1. /\ HangUp(d) /\ inHand' \in {inHand, [inHand EXCEPT ![d] = NoEvent]}
          /\ UNCHANGED <<subscribers, history, buf, dropped, phase, dev, header, resumed, mistaken, received>>
      BY <1>3 DEF Disconnect, AgentCrash, brokerVars, handlerVars
    <2>2. /\ reading' = [reading EXCEPT ![d] = NoConn]
          /\ broken \subseteq broken' /\ (reading[d] # NoConn => reading[d] \in broken')
          /\ \A x \in Conn : x # reading[d] => wire'[x] = wire[x]
      BY <1>0, <2>1 DEF HangUp
    <2>3. ReaderOK'
      BY <1>0, <2>1, <2>2, StreamNames DEF ReaderOK
    <2>4. \A x \in Conn : Following(x)' => Following(x) /\ \A ev \in Event : Held(x, ev) => Held(x, ev)'
      <3>1. SUFFICES ASSUME NEW x \in Conn, Following(x)'
                     PROVE  Following(x) /\ \A ev \in Event : Held(x, ev) => Held(x, ev)'
        OBVIOUS
      <3>2. Following(x) /\ x \notin broken'
        BY <2>1, <2>2, <3>1 DEF Following
      <3>3. reading[dev[x]] = x /\ x # NoConn
        BY <1>f, <3>2, StreamNames
      <3>4. dev[x] # d
        BY <2>2, <3>2, <3>3
      <3>5. x # reading[d] /\ inHand'[dev[x]] = inHand[dev[x]]
        BY <1>0, <2>1, <2>2, <3>2, <3>3, <3>4 DEF ReaderOK
      <3>. QED  BY <2>1, <2>2, <3>2, <3>5 DEF Held
    <2>. QED  BY <2>1, <2>3, <2>4, NothingLost
  <1>4. CASE Receive(d)
    <2>. DEFINE c == reading[d]
                e == Head(wire[c])
    <2>1. /\ c # NoConn /\ inHand[d] = NoEvent /\ wire[c] # <<>>
          /\ wire' = [wire EXCEPT ![c] = Tail(wire[c])]
          /\ inHand' = [inHand EXCEPT ![d] = e]
          /\ UNCHANGED <<registered, deleting, subscribers, history, sequence, serial, buf, closed,
                         dropped, phase, dev, header, resumed, mistaken, broken, reading, begun, received>>
      BY <1>4 DEF Receive, brokerVars, handlerVars
    <2>2. /\ c \in Conn /\ dev[c] = d /\ wire[c] \in Seq(Event)
          /\ inHand'[d] = e /\ wire'[c] = Tail(wire[c])
          /\ \A x \in Conn \ {c} : wire'[x] = wire[x]
          /\ \A f \in Device \ {d} : inHand'[f] = inHand[f]
      BY <1>0, <2>1 DEF ReaderOK
    <2>3. ReaderOK'
      BY <1>0, <2>1 DEF ReaderOK
    <2>4. \A i \in DOMAIN wire[c] : wire[c][i] = e \/ \E j \in DOMAIN wire'[c] : wire'[c][j] = wire[c][i]
      <3>1. SUFFICES ASSUME NEW i \in 1 .. Len(wire[c]), i # 1
                     PROVE  \E j \in DOMAIN wire'[c] : wire'[c][j] = wire[c][i]
        BY <2>2
      <3>2. i - 1 \in DOMAIN Tail(wire[c]) /\ Tail(wire[c])[i - 1] = wire[c][i]
        BY <2>1, <2>2, <3>1
      <3>. QED  BY <2>2, <3>2
    <2>. HIDE DEF e
    <2>5. \A x \in Conn : Following(x)' => Following(x) /\ \A ev \in Event : Held(x, ev) => Held(x, ev)'
      <3>1. SUFFICES ASSUME NEW x \in Conn, Following(x)', NEW ev \in Event, Held(x, ev)
                     PROVE  Held(x, ev)'
        BY <2>1 DEF Following
      <3>2. Following(x)
        BY <2>1, <3>1 DEF Following
      <3>3. CASE dev[x] = d
        <4>1. x = c /\ inHand[dev[x]] # ev
          BY <1>0, <1>f, <2>1, <3>2, <3>3
        <4>2. CASE \E i \in DOMAIN wire[c] : wire[c][i] = ev
          <5>1. ev = e \/ \E j \in DOMAIN wire'[c] : wire'[c][j] = ev
            BY <2>4, <4>2
          <5>. QED  BY <2>1, <2>2, <4>1, <5>1 DEF Held
        <4>3. CASE ~\E i \in DOMAIN wire[c] : wire[c][i] = ev
          BY <2>1, <3>1, <4>1, <4>3 DEF Held
        <4>. QED  BY <4>2, <4>3
      <3>4. CASE dev[x] # d
        <4>1. x # c /\ dev[x] \in Device
          BY <1>0, <2>2, <3>4
        <4>. QED  BY <2>1, <2>2, <3>1, <3>4, <4>1 DEF Held
      <3>. QED  BY <3>3, <3>4
    <2>. QED  BY <2>1, <2>3, <2>5, NothingLost
  <1>5. CASE HandleEvent(d)
    <2>1. /\ inHand' = [inHand EXCEPT ![d] = NoEvent]
          /\ received' = [received EXCEPT ![d] = received[d] \cup {inHand[d]}]
          /\ UNCHANGED <<registered, deleting, subscribers, history, sequence, serial, buf, closed,
                         dropped, phase, dev, header, resumed, mistaken, wire, broken, reading, cursor>>
      BY <1>5 DEF HandleEvent, brokerVars, handlerVars
    <2>2. ReaderOK'
      BY <1>0, <2>1 DEF ReaderOK
    <2>3. \A x \in Conn : Following(x)' => Following(x) /\ \A ev \in Event : Held(x, ev) => Held(x, ev)'
      <3>1. SUFFICES ASSUME NEW x \in Conn, Following(x)'
                     PROVE  Following(x) /\ \A ev \in Event : Held(x, ev) => Held(x, ev)'
        OBVIOUS
      <3>2. Following(x) /\ dev[x] \in Device
        BY <1>0, <2>1, <3>1 DEF Following
      <3>3. received[dev[x]] \cup {inHand[dev[x]]} \subseteq received'[dev[x]] \cup {inHand'[dev[x]]}
        BY <1>0, <2>1, <3>2
      <3>. QED  BY <2>1, <3>2, <3>3 DEF Held
    <2>. QED  BY <2>1, <2>2, <2>3, NothingLost
  <1>. QED  BY <1>1, <1>2, <1>3, <1>4, <1>5

\* A history stays one in the order of publication.
LEMMA HistoryStep == TypeOK /\ HistoryOK /\ [Next]_vars => HistoryOK'
  <1>. SUFFICES ASSUME TypeOK, HistoryOK, [Next]_vars PROVE HistoryOK'
    OBVIOUS
  <1>1. ASSUME UNCHANGED <<history, serial>> PROVE HistoryOK'
    BY <1>1 DEF HistoryOK
  <1>2. CASE Restart
    BY <1>2 DEF Restart, HistoryOK
  <1>3. ASSUME NEW d \in Device, NEW id \in CommandID \cup {NoID}, Publish(d, id)
        PROVE  HistoryOK'
    <2>. DEFINE seq == IF id = NoID THEN sequence[d] + 1 ELSE sequence[d]
                ev == [id |-> IF id = NoID THEN seq ELSE id, serial |-> serial + 1]
                h == history[d]
                g == Append(h, ev)
    <2>1. /\ serial < MaxPublish /\ serial' = serial + 1
          /\ history' = [history EXCEPT ![d] = Retain(g)]
      BY <1>3 DEF Publish
    <2>2. /\ serial \in Nat /\ h \in Seq(Event) /\ ev.serial = serial + 1
          /\ history \in [Device -> Seq(Event)]
      BY DEF TypeOK
    <2>3. ev \in Event
      <3>1. /\ serial + 1 \in 0 .. MaxPublish /\ (id = NoID => seq \in 1 .. MaxPublish)
        BY <2>1, StreamBounds DEF TypeOK
      <3>. QED  BY <3>1 DEF Event, EventID
    <2>. HIDE DEF ev
    <2>4. /\ g \in Seq(Event) /\ Len(g) = Len(h) + 1 /\ g[Len(h) + 1] = ev
          /\ \A i \in 1 .. Len(h) : g[i] = h[i]
      BY <2>2, <2>3
    <2>. HIDE DEF g
    <2>5. \A x \in Event : x.serial \in Nat
      BY StreamBounds DEF Event
    <2>6. \A j \in 1 .. Len(h) : /\ h[j].serial <= serial
                                 /\ \A i \in 1 .. Len(h) : i < j => h[i].serial < h[j].serial
      BY <2>2 DEF HistoryOK
    <2>7. \A j \in 1 .. Len(g) : /\ g[j].serial <= serial + 1
                                 /\ \A i \in 1 .. Len(g) : i < j => g[i].serial < g[j].serial
      <3>1. SUFFICES ASSUME NEW j \in 1 .. Len(h) + 1
                     PROVE  /\ g[j].serial <= serial + 1
                            /\ \A i \in 1 .. Len(h) + 1 : i < j => g[i].serial < g[j].serial
        BY <2>4
      <3>2. CASE j \in 1 .. Len(h)
        <4>1. g[j] = h[j] /\ h[j].serial <= serial /\ h[j].serial \in Nat /\ Len(h) \in Nat
          BY <2>2, <2>4, <2>5, <2>6, <3>2
        <4>2. ASSUME NEW i \in 1 .. Len(h) + 1, i < j PROVE g[i].serial < g[j].serial
          <5>1. i \in 1 .. Len(h)
            BY <3>2, <4>1, <4>2
          <5>. QED  BY <2>4, <2>6, <3>2, <4>1, <4>2, <5>1
        <4>. QED  BY <2>2, <4>1, <4>2
      <3>3. CASE j = Len(h) + 1
        <4>1. g[j].serial = serial + 1 /\ Len(h) \in Nat
          BY <2>2, <2>4, <3>3
        <4>2. ASSUME NEW i \in 1 .. Len(h) + 1, i < j PROVE g[i].serial < g[j].serial
          <5>1. i \in 1 .. Len(h)
            BY <3>3, <4>1, <4>2
          <5>2. g[i] = h[i] /\ h[i].serial <= serial /\ h[i].serial \in Nat
            BY <2>2, <2>4, <2>5, <2>6, <5>1
          <5>. QED  BY <2>2, <4>1, <5>2
        <4>. QED  BY <2>2, <4>1, <4>2
      <3>. QED  BY <2>2, <3>1, <3>2, <3>3
    <2>8. PICK k \in Nat : /\ Len(Retain(g)) + k = Len(g)
                           /\ \A i \in 1 .. Len(Retain(g)) : Retain(g)[i] = g[i + k]
      BY <2>4, RetainEffect
    <2>9. Retain(g) \in Seq(Event) /\ Len(Retain(g)) \in Nat
      BY <2>4, RetainEffect
    <2>10. \A j \in 1 .. Len(Retain(g)) :
              /\ Retain(g)[j].serial <= serial + 1
              /\ \A i \in 1 .. Len(Retain(g)) : i < j => Retain(g)[i].serial < Retain(g)[j].serial
      <3>1. SUFFICES ASSUME NEW j \in 1 .. Len(Retain(g))
                     PROVE  /\ Retain(g)[j].serial <= serial + 1
                            /\ \A i \in 1 .. Len(Retain(g)) : i < j =>
                                  Retain(g)[i].serial < Retain(g)[j].serial
        OBVIOUS
      <3>2. \A i \in 1 .. Len(Retain(g)) : i + k \in 1 .. Len(g)
        BY <2>8, <2>9
      <3>. QED  BY <2>7, <2>8, <2>9, <3>1, <3>2
    <2>11. \A f \in Device \ {d} : history'[f] = history[f]
      BY <2>1, <2>2
    <2>12. history'[d] = Retain(g)
      BY <2>1, <2>2
    <2>13. ASSUME NEW f \in Device, NEW j \in DOMAIN history'[f]
           PROVE  /\ history'[f][j].serial <= serial'
                  /\ \A i \in DOMAIN history'[f] : i < j => history'[f][i].serial < history'[f][j].serial
      <3>1. CASE f = d
        BY <2>1, <2>9, <2>10, <2>12, <2>13, <3>1
      <3>2. CASE f # d
        <4>1. history'[f] = history[f] /\ history[f] \in Seq(Event)
          BY <2>2, <2>11, <3>2
        <4>2. /\ history[f][j].serial <= serial /\ history[f][j] \in Event
              /\ \A i \in DOMAIN history[f] : i < j => history[f][i].serial < history[f][j].serial
          BY <2>13, <4>1 DEF HistoryOK
        <4>. QED  BY <2>1, <2>2, <2>5, <4>1, <4>2
      <3>. QED  BY <3>1, <3>2
    <2>. QED  BY <2>13 DEF HistoryOK
  <1>4. ASSUME NEW d \in Device,
               \/ Register(d) \/ DeleteDevice(d) \/ CloseClient(d)
               \/ Disconnect(d) \/ Receive(d) \/ HandleEvent(d) \/ AgentCrash(d)
        PROVE  UNCHANGED <<history, serial>>
    BY <1>4 DEF Register, DeleteDevice, CloseClient, Disconnect, Receive, HandleEvent, AgentCrash,
                brokerVars
  <1>5. ASSUME NEW c \in Conn,
               Connect(c) \/ Subscribe(c) \/ Resume(c) \/ Forward(c) \/ Leave(c) \/ Return(c)
        PROVE  UNCHANGED <<history, serial>>
    BY <1>5 DEF Connect, Subscribe, Resume, Forward, Leave, Return, brokerVars
  <1>6. CASE UNCHANGED vars
    BY <1>1, <1>6 DEF vars, brokerVars
  <1>. QED  BY <1>1, <1>2, <1>3, <1>4, <1>5, <1>6 DEF Next

\* Every step keeps it.
LEMMA ResumeStep == TypeOK' /\ ResumeInv /\ [Next]_vars => ResumeInv'
  <1>0. TypeOK' /\ ResumeInv /\ [Next]_vars => HistoryOK'
    BY HistoryStep DEF ResumeInv
  <1>1. SUFFICES ASSUME TypeOK', ResumeInv, [Next]_vars PROVE ReaderOK' /\ NothingMissed'
    BY <1>0 DEF ResumeInv
  <1>2. CASE UNCHANGED vars
    BY <1>1, <1>2 DEF vars, brokerVars, handlerVars, agentVars, ResumeInv, ReaderOK, NothingMissed,
                      Following, Held
  <1>3. CASE Restart
    <2>1. /\ reading' = [d \in Device |-> NoConn] /\ resumed' = {} /\ dev' = dev
          /\ history' = [d \in Device |-> <<>>]
          /\ phase' = [c \in Conn |-> IF phase[c] = "free" THEN "free" ELSE "gone"]
      BY <1>3 DEF Restart
    <2>. QED  BY <2>1 DEF ReaderOK, NothingMissed, Following
  <1>4. ASSUME NEW c \in Conn,
               Connect(c) \/ Subscribe(c) \/ Resume(c) \/ Forward(c) \/ Leave(c) \/ Return(c)
        PROVE  ReaderOK' /\ NothingMissed'
    BY <1>1, <1>4, ResumeMisses, HandlerMisses
  <1>5. ASSUME NEW d \in Device,
               \/ \E id \in CommandID \cup {NoID} : Publish(d, id)
               \/ Register(d) \/ DeleteDevice(d) \/ CloseClient(d)
               \/ Disconnect(d) \/ Receive(d) \/ HandleEvent(d) \/ AgentCrash(d)
        PROVE  ReaderOK' /\ NothingMissed'
    BY <1>1, <1>5, PublishMisses, DeviceMisses
  <1>. QED  BY <1>1, <1>2, <1>3, <1>4, <1>5 DEF Next

\* A connection that began with a replay from the event its agent had seen misses nothing
\* that was published after that event unless its channel was full, for every size of
\* channels and histories and any number of connections and deletions.  It says nothing of a
\* connection whose cursor names an event that is no longer retained and was found all the
\* same, by its ID (after a restart, or when a command was published twice).
THEOREM ResumesMissNothing == Spec => []ResumeMissesNothing
  <1>1. Init => ReaderOK /\ HistoryOK /\ NothingMissed
    BY DEF Init, ReaderOK, HistoryOK, NothingMissed, Following
  <1>2. Spec => []ResumeInv
    <2>1. Init /\ TypeOK => ResumeInv
      BY <1>1 DEF ResumeInv
    <2>. QED  BY <2>1, ResumeStep, StreamTypes, PTL DEF Spec
  <1>3. ResumeInv => ResumeMissesNothing
    <2>1. SUFFICES ASSUME ResumeInv, NEW c \in Conn, Following(c), NEW ev \in AfterCursor(c)
                   PROVE  Held(c, ev)
      BY DEF ResumeMissesNothing, Following, Held, ResumeInv, TypeOK
    <2>2. PICK i \in DOMAIN history[dev[c]] :
             ev = history[dev[c]][i] /\ history[dev[c]][i].serial > header[c].serial
      BY <2>1 DEF AfterCursor
    <2>. QED  BY <2>1, <2>2 DEF ResumeInv, NothingMissed
  <1>. QED  BY <1>2, <1>3, PTL
=============================================================================

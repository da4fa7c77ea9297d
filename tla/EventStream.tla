---------------------------- MODULE EventStream ----------------------------
(***************************************************************************)
(* The event stream from the server to the agents: the broker              *)
(* (internal/broker/broker.go), the SSE handler that drains it (deviceEvents *)
(* in internal/api/api.go), device deletion, and the reader in the agent   *)
(* (readStream and the first lines of handleEvent in                       *)
(* internal/daemon/client.go).                                             *)
(*                                                                         *)
(* A connection c is one run of deviceEvents, with the channel that        *)
(* Subscribe makes for it.  b.mu makes each broker method one step; the    *)
(* handler's steps between them interleave with everything else.  The      *)
(* entry b.subscribers[d] exists exactly when its set is not empty.        *)
(***************************************************************************)
EXTENDS Naturals, Sequences, FiniteSets

CONSTANTS
    Device,
    CommandID,      \* IDs of events that carry a command
    Conn,           \* connections, each used once
    NoID, NoConn, NoEvent,
    ChanCap,        \* capacity of a subscriber's channel (16)
    HistorySize,    \* events retained per device (64)
    MaxPublish      \* bound: number of publications

\* Publish numbers the events that have no ID of their own.
EventID == CommandID \cup 1..MaxPublish

\* serial tells publications apart; the payload is abstracted to it.
Event == [id : EventID \cup {NoID}, serial : 0..MaxPublish]

ASSUME StreamBounds ==
    ChanCap \in Nat \ {0} /\ HistorySize \in Nat \ {0} /\ MaxPublish \in Nat
ASSUME StreamNames ==
    /\ NoID \notin EventID /\ NoConn \notin Conn /\ NoEvent \notin Event
    /\ CommandID \cap Nat = {}

VARIABLES
    registered,     \* devices in the registry
    deleting,       \* deleteDevice is between Registry.Delete and CloseClient
    subscribers,    \* Broker.subscribers
    history,        \* Broker.history
    sequence,       \* Broker.sequence
    serial,         \* how many events were published (tells them apart)
    phase,          \* where the handler of a connection is
    dev,            \* the device of a connection
    header,         \* the event whose ID a connection was opened with (Last-Event-ID)
    buf, closed,    \* the channel of a connection
    wire,           \* what was written to a connection and not yet read
    broken,         \* connections the agent has given up
    resumed,        \* connections that began with a replay
    mistaken,       \* history: those of them whose event was not there to resume from
    dropped,        \* connections whose full channel missed an event
    reading,        \* the connection an agent reads
    cursor,         \* the event whose ID the agent's ledger has as LastEventID
    inHand,         \* the event between recordEventID and handleEvent
    begun,          \* the event IDs the agent's ledger knows
    received        \* the events the agent is done with

brokerVars == <<subscribers, history, sequence, serial, buf, closed, dropped>>
handlerVars == <<phase, dev, header, resumed, mistaken>>
agentVars == <<reading, cursor, inHand, begun, received>>
vars == <<registered, deleting, brokerVars, handlerVars, wire, broken, agentVars>>

\* free; checked: Registry.Get succeeded; subscribed: Subscribe returned;
\* streaming: in the select loop; leaving: returning, the deferred
\* unsubscribe still to run; gone.
Phase == {"free", "checked", "subscribed", "streaming", "leaving", "gone"}

TypeOK ==
    /\ registered \subseteq Device /\ deleting \subseteq Device
    /\ subscribers \in [Device -> SUBSET Conn]
    /\ history \in [Device -> Seq(Event)]
    /\ \A d \in Device : Len(history[d]) <= HistorySize
    /\ sequence \in [Device -> 0..MaxPublish] /\ serial \in 0..MaxPublish
    /\ \A d \in Device : sequence[d] <= serial
    /\ phase \in [Conn -> Phase] /\ dev \in [Conn -> Device]
    /\ header \in [Conn -> Event \cup {NoEvent}]
    /\ buf \in [Conn -> Seq(Event)]
    /\ \A c \in Conn : Len(buf[c]) <= ChanCap
    /\ closed \subseteq Conn /\ broken \subseteq Conn /\ resumed \subseteq Conn
    /\ mistaken \subseteq Conn /\ dropped \subseteq Conn
    /\ wire \in [Conn -> Seq(Event)]
    /\ reading \in [Device -> Conn \cup {NoConn}]
    /\ cursor \in [Device -> Event \cup {NoEvent}]
    /\ inHand \in [Device -> Event \cup {NoEvent}]
    /\ begun \in [Device -> SUBSET EventID]
    /\ received \in [Device -> SUBSET Event]

Init ==
    /\ registered = Device /\ deleting = {}
    /\ subscribers = [d \in Device |-> {}]
    /\ history = [d \in Device |-> <<>>]
    /\ sequence = [d \in Device |-> 0] /\ serial = 0
    /\ phase = [c \in Conn |-> "free"] /\ dev \in [Conn -> Device]
    /\ header = [c \in Conn |-> NoEvent]
    /\ buf = [c \in Conn |-> <<>>] /\ wire = [c \in Conn |-> <<>>]
    /\ closed = {} /\ broken = {} /\ resumed = {} /\ mistaken = {} /\ dropped = {}
    /\ reading = [d \in Device |-> NoConn]
    /\ cursor = [d \in Device |-> NoEvent]
    /\ inHand = [d \in Device |-> NoEvent]
    /\ begun = [d \in Device |-> {}]
    /\ received = [d \in Device |-> {}]

-----------------------------------------------------------------------------
(* The broker *)

\* The retained tail of a history (Publish).
Retain(h) == IF Len(h) > HistorySize THEN SubSeq(h, Len(h) - HistorySize + 1, Len(h)) ELSE h

\* Publish(d, event): id is the command's, or NoID for an event the broker
\* numbers itself.  A full channel misses the event.
Publish(d, id) ==
    LET seq == IF id = NoID THEN sequence[d] + 1 ELSE sequence[d]
        ev  == [id |-> IF id = NoID THEN seq ELSE id, serial |-> serial + 1]
        room == {c \in subscribers[d] : Len(buf[c]) < ChanCap}
    IN  /\ serial < MaxPublish
        /\ serial' = serial + 1
        /\ sequence' = [sequence EXCEPT ![d] = seq]
        /\ history' = [history EXCEPT ![d] = Retain(Append(@, ev))]
        /\ buf' = [c \in Conn |-> IF c \in room THEN Append(buf[c], ev) ELSE buf[c]]
        /\ dropped' = dropped \cup (subscribers[d] \ room)
        /\ UNCHANGED <<registered, deleting, subscribers, closed, handlerVars,
                       wire, broken, agentVars>>

\* The position of the event the cursor names in a history, 0 when unknown.
CursorAt(h, id) ==
    LET at == {i \in DOMAIN h : h[i].id = id}
    IN  IF at = {} THEN 0 ELSE CHOOSE i \in at : \A j \in at : i <= j

ReplayFrom_SkipOne(h, i) == SubSeq(h, i + 2, Len(h))

\* The events Replay returns for a cursor found at i.
ReplayFrom(h, i) == SubSeq(h, i + 1, Len(h))

-----------------------------------------------------------------------------
(* The SSE handler *)

\* The handler writes events to its connection; a broken one swallows them.
Write(c, events) ==
    wire' = IF c \in broken THEN wire ELSE [wire EXCEPT ![c] = @ \o events]

\* The agent opens a connection (connectAndListen) and the handler finds the
\* device in the registry.
Connect(c) ==
    LET d == dev[c] IN
    /\ phase[c] = "free" /\ reading[d] = NoConn /\ inHand[d] = NoEvent
    /\ d \in registered
    /\ phase' = [phase EXCEPT ![c] = "checked"]
    /\ header' = [header EXCEPT ![c] = cursor[d]]
    /\ reading' = [reading EXCEPT ![d] = c]
    /\ UNCHANGED <<registered, deleting, brokerVars, dev, resumed, mistaken, wire, broken,
                   cursor, inHand, begun, received>>

Subscribe(c) ==
    /\ phase[c] = "checked"
    /\ phase' = [phase EXCEPT ![c] = "subscribed"]
    /\ subscribers' = [subscribers EXCEPT ![dev[c]] = @ \cup {c}]
    /\ UNCHANGED <<registered, deleting, history, sequence, serial, buf, closed, dropped,
                   dev, header, resumed, mistaken, wire, broken, agentVars>>

\* Replay, or a snapshot that carries no ID when it refuses.  (The commands
\* that recoverQueuedCommands publishes before this are Publish steps.)  Replay
\* knows the ID only: it takes for the agent's event another one of the same ID,
\* of an earlier run of the server or of a command published twice.
Resume(c) ==
    LET h == history[dev[c]]
        i == IF header[c] = NoEvent THEN 0 ELSE CursorAt(h, header[c].id)
    IN  /\ phase[c] = "subscribed"
        /\ phase' = [phase EXCEPT ![c] = "streaming"]
        /\ IF i # 0
           THEN /\ Write(c, ReplayFrom(h, i))
                /\ resumed' = resumed \cup {c}
                /\ mistaken' = IF \E k \in DOMAIN h : h[k] = header[c] THEN mistaken
                               ELSE mistaken \cup {c}
           ELSE /\ Write(c, <<[id |-> NoID, serial |-> serial]>>)
                /\ UNCHANGED <<resumed, mistaken>>
        /\ UNCHANGED <<registered, deleting, brokerVars, dev, header, broken, agentVars>>

Forward(c) ==
    /\ phase[c] = "streaming" /\ buf[c] # <<>>
    /\ Write(c, <<Head(buf[c])>>)
    /\ buf' = [buf EXCEPT ![c] = Tail(@)]
    /\ UNCHANGED <<registered, deleting, subscribers, history, sequence, serial, closed,
                   dropped, handlerVars, broken, agentVars>>

\* The loop ends: the client is gone, or the channel is closed and drained.
Leave(c) ==
    /\ phase[c] = "streaming"
    /\ c \in broken \/ (c \in closed /\ buf[c] = <<>>)
    /\ phase' = [phase EXCEPT ![c] = "leaving"]
    /\ UNCHANGED <<registered, deleting, brokerVars, dev, header, resumed, mistaken, wire,
                   broken, agentVars>>

Unsubscribe_KeepEntry(c) ==
    IF subscribers[dev[c]] # {}
    THEN closed' = closed \cup {c} /\ UNCHANGED subscribers
    ELSE UNCHANGED <<subscribers, closed>>

\* The closure Subscribe returned.  It looks the device up, not the channel:
\* after CloseClient and a new Subscribe for the device it closes its channel
\* a second time.  That panics after the map was updated; net/http recovers
\* the handler's goroutine.
Unsubscribe(c) ==
    IF subscribers[dev[c]] # {}
    THEN /\ subscribers' = [subscribers EXCEPT ![dev[c]] = @ \ {c}]
         /\ closed' = closed \cup {c}
    ELSE UNCHANGED <<subscribers, closed>>

\* The deferred unsubscribe, and the handler is gone with its channel.
Return(c) ==
    /\ phase[c] = "leaving"
    /\ phase' = [phase EXCEPT ![c] = "gone"]
    /\ Unsubscribe(c)
    /\ buf' = [buf EXCEPT ![c] = <<>>]
    /\ resumed' = resumed \ {c} /\ mistaken' = mistaken \ {c}
    /\ dropped' = dropped \ {c}
    /\ UNCHANGED <<registered, deleting, history, sequence, serial, dev, header, wire,
                   broken, agentVars>>

-----------------------------------------------------------------------------
(* Devices come and go *)

Register(d) ==
    /\ d \notin registered
    /\ registered' = registered \cup {d}
    /\ UNCHANGED <<deleting, brokerVars, handlerVars, wire, broken, agentVars>>

\* deleteDevice, first half
DeleteDevice(d) ==
    /\ d \in registered /\ d \notin deleting
    /\ registered' = registered \ {d}
    /\ deleting' = deleting \cup {d}
    /\ UNCHANGED <<brokerVars, handlerVars, wire, broken, agentVars>>

CloseClient_KeepOpen(d) ==
    /\ d \in deleting
    /\ deleting' = deleting \ {d}
    /\ subscribers' = [subscribers EXCEPT ![d] = {}]
    /\ UNCHANGED <<registered, closed, history, sequence, serial, buf, dropped,
                   handlerVars, wire, broken, agentVars>>

\* deleteDevice, second half
CloseClient(d) ==
    /\ d \in deleting
    /\ deleting' = deleting \ {d}
    /\ closed' = closed \cup subscribers[d]
    /\ subscribers' = [subscribers EXCEPT ![d] = {}]
    /\ UNCHANGED <<registered, history, sequence, serial, buf, dropped,
                   handlerVars, wire, broken, agentVars>>

\* The server process dies; the broker starts empty and counts from 1 again.
Restart ==
    /\ subscribers' = [d \in Device |-> {}]
    /\ history' = [d \in Device |-> <<>>]
    /\ sequence' = [d \in Device |-> 0]
    /\ phase' = [c \in Conn |-> IF phase[c] = "free" THEN "free" ELSE "gone"]
    /\ buf' = [c \in Conn |-> <<>>] /\ wire' = [c \in Conn |-> <<>>]
    /\ broken' = {c \in Conn : phase[c] # "free"}
    /\ resumed' = {} /\ mistaken' = {} /\ dropped' = {} /\ deleting' = {}
    /\ reading' = [d \in Device |-> NoConn]
    /\ UNCHANGED <<registered, serial, closed, dev, header, cursor, inHand, begun, received>>

-----------------------------------------------------------------------------
(* The agent *)

\* The agent's side of its connection is gone, and what it has not read.
HangUp(d) ==
    /\ reading' = [reading EXCEPT ![d] = NoConn]
    /\ IF reading[d] = NoConn THEN UNCHANGED <<broken, wire>>
       ELSE /\ broken' = broken \cup {reading[d]}
            /\ wire' = [wire EXCEPT ![reading[d]] = <<>>]

Disconnect(d) ==
    /\ reading[d] # NoConn /\ inHand[d] = NoEvent
    /\ HangUp(d)
    /\ UNCHANGED <<registered, deleting, brokerVars, handlerVars, cursor, inHand, begun,
                   received>>

\* readStream: the cursor is stored before the event is handled.
Receive(d) ==
    LET c  == reading[d]
        ev == Head(wire[c])
    IN  /\ c # NoConn /\ inHand[d] = NoEvent /\ wire[c] # <<>>
        /\ wire' = [wire EXCEPT ![c] = Tail(@)]
        /\ cursor' = IF ev.id = NoID THEN cursor ELSE [cursor EXCEPT ![d] = ev]
        /\ inHand' = [inHand EXCEPT ![d] = ev]
        /\ UNCHANGED <<registered, deleting, brokerVars, handlerVars, broken, reading,
                       begun, received>>

\* handleEvent: an ID that the ledger knows is taken for a duplicate.
HandleEvent(d) ==
    LET ev == inHand[d] IN
    /\ ev # NoEvent
    /\ inHand' = [inHand EXCEPT ![d] = NoEvent]
    /\ received' = [received EXCEPT ![d] = @ \cup {ev}]
    /\ begun' = IF ev.id = NoID THEN begun ELSE [begun EXCEPT ![d] = @ \cup {ev.id}]
    /\ UNCHANGED <<registered, deleting, brokerVars, handlerVars, wire, broken, reading,
                   cursor>>

\* The agent dies with the event in hand: the cursor is already past it.
AgentCrash(d) ==
    /\ inHand[d] # NoEvent
    /\ inHand' = [inHand EXCEPT ![d] = NoEvent]
    /\ HangUp(d)
    /\ UNCHANGED <<registered, deleting, brokerVars, handlerVars, cursor, begun, received>>

-----------------------------------------------------------------------------

Next ==
    \/ \E d \in Device :
          \/ \E id \in CommandID \cup {NoID} : Publish(d, id)
          \/ Register(d) \/ DeleteDevice(d) \/ CloseClient(d)
          \/ Disconnect(d) \/ Receive(d) \/ HandleEvent(d) \/ AgentCrash(d)
    \/ \E c \in Conn :
          Connect(c) \/ Subscribe(c) \/ Resume(c) \/ Forward(c) \/ Leave(c) \/ Return(c)
    \/ Restart

Spec == Init /\ [][Next]_vars

-----------------------------------------------------------------------------
(* Properties *)

\* Publish never sends on a closed channel: what the map holds is open, and
\* belongs to a handler that has not returned (unsubscribe and CloseClient
\* remove a channel in the step that closes it).
SubscribersOpen ==
    \A d \in Device : \A c \in subscribers[d] :
        /\ c \notin closed
        /\ dev[c] = d
        /\ phase[c] \in {"subscribed", "streaming", "leaving"}

\* No handler waits on a channel that nobody will send on or close: once its
\* channel has left the map it finds it closed (CloseClient against a handler
\* that is anywhere between Subscribe and its loop).
NoOrphan ==
    \A c \in Conn :
        phase[c] \in {"subscribed", "streaming"} =>
            c \in subscribers[dev[c]] \/ c \in closed

\* What an agent that resumes has to see: the retained events that were
\* published after the one its cursor names.
AfterCursor(c) ==
    LET h == history[dev[c]]
    IN  {h[i] : i \in {k \in DOMAIN h : h[k].serial > header[c].serial}}

\* A connection that began with a replay from the agent's own event misses
\* nothing that was published after it: not while the agent was away, and not
\* between Subscribe and Replay (deviceEvents subscribes first).  Only a full
\* channel loses an event, and only an event that was no longer retained can be
\* mistaken for another one.
ResumeMissesNothing ==
    \A c \in resumed \ (dropped \cup broken \cup mistaken) :
        phase[c] = "streaming" /\ c \in subscribers[dev[c]] =>
            \A ev \in AfterCursor(c) :
                \/ ev \in received[dev[c]] \cup {inHand[dev[c]]}
                \/ \E i \in DOMAIN wire[c] : wire[c][i] = ev
                \/ \E i \in DOMAIN buf[c] : buf[c][i] = ev

\* broker.go:104: Replay refuses when it cannot replay safely, so what it resumes
\* from is the event the agent has seen.
\* The code does not keep it: an event with a re-used ID (the numbers begin again
\* with a restart, a command is published again) is taken for the agent's, and
\* what was published between the two is skipped.
ReplayIsSafe == mistaken = {}

\* P1 section 5.1: an event has a stable ID, so the agent takes for a
\* duplicate only what it has handled before.
\* The code does not keep it: the broker counts from 1 again after a restart.
OnlyDuplicatesSuppressed ==
    \A d \in Device :
        inHand[d] # NoEvent /\ inHand[d].id \in Nat /\ inHand[d].id \in begun[d]
        => \E ev \in received[d] : ev.serial = inHand[d].serial
=============================================================================

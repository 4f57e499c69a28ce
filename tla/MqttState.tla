------------------------------ MODULE MqttState ------------------------------
(***************************************************************************)
(* State of the embedded MQTT broker (protocol/mqtt/server): one router    *)
(* thread, and for every network connection a link, a task that moves      *)
(* packets between a socket and two buffers it shares with the router. A   *)
(* link of this model is one network connection from its CONNECT to its    *)
(* end; a client may use several, one after the other or at once. The      *)
(* router numbers connections by the slots of a slab, and slots are reused.*)
(***************************************************************************)
EXTENDS CommitLog, FiniteSets

CONSTANTS
    Links,          \* network connections
    Clients,        \* client identifiers
    ClientOf,       \* the client of a link
    Clean,          \* links that ask for a clean session
    Local,          \* links read by MessageProcessor instead of Link::start
    Filters,
    Topics,
    Matching,       \* the filters that match a topic
    Publishers,     \* clients that publish
    Subscribers,    \* clients that subscribe
    PublishQos,     \* qualities of service publishers use ...
    SubscribeQos,   \* ... and subscribers ask for
    Retained,       \* messages published with the retain flag ...
    Empty,          \* ... with an empty payload ...
    Expiring,       \* ... and with an expiry interval
    Controls,       \* kinds of packet a client sends of its own accord
    MaxConnections, \* max_connections
    BufferLimit,    \* MAX_CHANNEL_CAPACITY - 1
    MaxInflight,    \* MAX_INFLIGHT, and the largest packet id
    MaxRead,        \* max_outgoing_packet_count
    ChannelSize,    \* bound of the channel into the router
    MaxDrain,       \* events handled before connections are polled: 500
    MaxPoll,        \* polls before events are handled: 100
    MaxIterations,  \* MAX_SCHEDULE_ITERATIONS
    MaxPublish,     \* bound of the model: messages published
    MaxControls,    \* bound of the model: other packets clients send
    None

Ids == 0 .. MaxConnections - 1
Messages == 1 .. MaxPublish

ASSUME BrokerAssumption ==
    /\ ClientOf \in [Links -> Clients]
    /\ Clean \subseteq Links /\ Local \subseteq Links
    /\ IsFiniteSet(Filters) /\ IsFiniteSet(Topics)
    /\ Matching \in [Topics -> SUBSET Filters]
    /\ PublishQos \subseteq 0 .. 2 /\ SubscribeQos \subseteq 0 .. 2
    /\ {MaxConnections, BufferLimit, MaxInflight, MaxRead, ChannelSize, MaxDrain,
        MaxPoll, MaxIterations} \subseteq Nat \ {0}
    /\ {MaxPublish, MaxControls} \subseteq Nat
    /\ None \notin Links \cup Clients \cup Filters \cup Topics \cup Nat

VARIABLES
    slab,       \* the link behind each connection id
    free,       \* vacant ids, the next one to be given out first
    conn,       \* tracker, ack log, inflight buffer and subscriptions of a link
    submap,     \* subscription_map: connection ids per filter
    data,       \* datalog: per filter its log and parked requests
    routes,     \* publish_filters: filters remembered for a topic
    retain,     \* retained_publishes
    ready,      \* readyqueue of the scheduler
    grave,      \* graveyard: sessions kept for their clients
    chan,       \* the channel into the router
    phase,      \* where run_inner is
    task,       \* the event or poll the router is busy with
    link,       \* link tasks
    inbuf,      \* packets a link has read
    outbuf,     \* notifications for a link
    owes,       \* answers a client has yet to send
    npub,       \* messages published
    nctl,       \* other packets clients have sent of their own accord
    owed        \* offsets a client was sent on a subscription and has not acknowledged

routerVars == <<slab, free, conn, submap, data, routes, retain, ready, grave, phase, task, owed>>
linkVars == <<link, owes, npub, nctl>>
vars == <<routerVars, linkVars, chan, inbuf, outbuf>>

-----------------------------------------------------------------------------
(* Connections *)

Live(l) == \E id \in Ids : slab[id] = l
Used(id) == slab[id] # None
ConnectionOf(c) == {id \in Ids : Used(id) /\ ClientOf[slab[id]] = c}

NoSession == [reqs |-> <<>>, subs |-> {}, pubrels |-> <<>>]

\* A link the router does not know has this in conn.
Fresh == [status |-> "Busy", reqs |-> <<>>, subs |-> {}, acks |-> <<>>, recorded |-> <<>>,
          inflight |-> <<>>, pubrels |-> <<>>, pkid |-> 0]

\* A DataRequest: cur is where reading goes on.
Request(f, q, cur) == [f |-> f, qos |-> q, cur |-> cur, ret |-> TRUE]

\* Acks and notifications; pkid is the connection id in a ConnAck.
Ack(k, n) == [k |-> k, pkid |-> n]
Forward(f, q, n, m, at) == [k |-> "Forward", f |-> f, qos |-> q, pkid |-> n, m |-> m, at |-> at]
Unschedule == [k |-> "Unschedule"]
IsForward(n) == n.k = "Forward"

-----------------------------------------------------------------------------
(* Scheduler *)

\* try_ready: which events wake a connection paused for which reason.
Wakes(status, reason) ==
    \/ reason \in {"Init", "Ready"} /\ status # "Ready"
    \/ reason \in {"NewFilter", "FreshData"} /\ status = "Caughtup"
    \/ reason = "IncomingAck" /\ status \in {"Caughtup", "InflightFull"}

\* reschedule: what becomes of the connection c with this id ...
Woken(c, reason) == IF Wakes(c.status, reason) THEN [c EXCEPT !.status = "Ready"] ELSE c
\* ... and of the ready queue.
Queued(queue, id, c, reason) == IF Wakes(c.status, reason) THEN Append(queue, id) ELSE queue

\* pause: the connection that was polled last is at the back of the queue.
Paused(c, reason) == [c EXCEPT !.status = reason]
Unqueued == Front(ready)

-----------------------------------------------------------------------------
(* Waiters and inflight messages *)

\* The members of s that are in T, in their order.
Where(s, T) ==
    LET kept[i \in 0 .. Len(s)] ==
            IF i = 0 THEN <<>>
            ELSE IF s[i] \in T THEN Append(kept[i - 1], s[i])
            ELSE kept[i - 1]
    IN  kept[Len(s)]

RequestsOf(waiters, id) == Where(waiters, {w \in Range(waiters) : w.id = id})
WithoutId(waiters, id) == Where(waiters, {w \in Range(waiters) : w.id # id})
OnFilter(reqs, f) == Where(reqs, {q \in Range(reqs) : q.f = f})
NotOnFilter(reqs, f) == Where(reqs, {q \in Range(reqs) : q.f # f})

\* Mutant of ParkedOf: the parked requests are lost.
ParkedForgotten(id) == {}

\* clean: the requests of connection id that are parked.
ParkedOf(id) ==
    UNION {{w.req : w \in {w \in Range(data[f].waiters) : w.id = id}} : f \in Filters}

\* retransmission_map: where a client's unacknowledged messages of a filter
\* start; retained messages have no position.
Unacked(inflight, f) == Where(inflight, {e \in Range(inflight) : e.f = f /\ e.at # None})
\* Mutant of Retransmit: the latest unacknowledged message is taken.
RetransmitLast(inflight, req) ==
    IF Unacked(inflight, req.f) = <<>> THEN req
    ELSE [req EXCEPT !.cur = Last(Unacked(inflight, req.f)).at]

Retransmit(inflight, req) ==
    IF Unacked(inflight, req.f) = <<>> THEN req
    ELSE [req EXCEPT !.cur = Head(Unacked(inflight, req.f)).at]

\* The packet ids of the next n messages: 1 to MaxInflight, then from 1 again.
NextPkid(last, n) == ((last + n - 1) % MaxInflight) + 1

-----------------------------------------------------------------------------
(* The loop of run_inner *)

NoTask == [step |-> "none", id |-> 0, link |-> None, cache |-> <<>>, force |-> FALSE,
           new |-> FALSE, bad |-> FALSE, notes |-> <<>>, reqs |-> <<>>, left |-> 0]

Idle == task.step = "none"
At(p, n) == [at |-> p, left |-> n]
Handling == phase.at \in {"recv", "drain"}
Polling == phase.at \in {"first", "poll"}

AfterEvent ==
    IF phase.at = "recv" THEN At("drain", MaxDrain)
    ELSE IF phase.left = 1 THEN At("poll", MaxPoll)
    ELSE [phase EXCEPT !.left = @ - 1]

\* some: whether consume() found a connection.
AfterPoll(some) ==
    IF phase.at = "first" THEN (IF some THEN At("drain", MaxDrain) ELSE At("recv", 0))
    ELSE IF phase.left = 1 THEN At("first", 0)
    ELSE [phase EXCEPT !.left = @ - 1]

=============================================================================

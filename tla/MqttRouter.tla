----------------------------- MODULE MqttRouter -----------------------------
(***************************************************************************)
(* The router of the MQTT broker (router.rs, with scheduler.rs, log.rs,    *)
(* iobufs.rs, graveyard.rs). The router is one thread: an event or a poll  *)
(* it has begun (task) is finished before the next, but links take from    *)
(* and put into the shared buffers and the channel between its steps.      *)
(* Left out: shared subscriptions, which no client can ask for (network.rs *)
(* prefixes every filter), meters, alerts, topic aliases, the notice a     *)
(* link gets of the reason it is disconnected for, the expiry of retained  *)
(* messages, and the publishes append_to_commitlog refuses, which end the  *)
(* connection as a Disconnect packet does. The order among the parked      *)
(* requests of a log is that of parking; log.rs puts the last one in the   *)
(* place of one it takes out.                                              *)
(***************************************************************************)
EXTENDS MqttState

Begin(e) ==
    /\ Idle /\ Handling
    /\ chan # <<>> /\ e = Head(chan)
    /\ chan' = Tail(chan)
    /\ phase' = AfterEvent

-----------------------------------------------------------------------------
(* handle_disconnection *)

\* What is kept of connection id in the graveyard: its requests, the parked
\* ones included, start again at the first message not acknowledged.
Session(id) ==
    LET c == conn[slab[id]]
    IN  [reqs    |-> [i \in 1 .. Len(c.reqs \o SetToSeq(ParkedOf(id))) |->
                        Retransmit(c.inflight, (c.reqs \o SetToSeq(ParkedOf(id)))[i])],
         subs    |-> c.subs,
         pubrels |-> c.pubrels]

\* The id stays in the ready queue; consume() is to deal with it.
Disconnection(id) ==
    LET l == slab[id] c == ClientOf[l]
    IN  /\ slab' = [slab EXCEPT ![id] = None]
        /\ free' = <<id>> \o free
        /\ conn' = [conn EXCEPT ![l] = Fresh]
        /\ data' = [f \in Filters |-> [data[f] EXCEPT !.waiters = WithoutId(@, id)]]
        /\ submap' = [f \in Filters |-> IF f \in conn[l].subs THEN submap[f] \ {id}
                                        ELSE submap[f]]
        /\ grave' = [grave EXCEPT ![c] = IF l \in Clean THEN None ELSE Session(id)]
        /\ owed' = IF l \in Clean THEN [owed EXCEPT ![c] = [f \in Filters |-> {}]] ELSE owed

\* Event::Disconnect of a link; the connection may be gone already.
HandleDisconnect(e) ==
    /\ Begin(e) /\ e.k = "Disconnect"
    /\ IF Used(e.id) THEN Disconnection(e.id)
       ELSE UNCHANGED <<slab, free, conn, data, submap, grave, owed>>
    /\ UNCHANGED <<routes, retain, ready, task, inbuf, outbuf, linkVars>>

\* Event::Ready of a link: reschedule unwraps the tracker of the id.
HandleReady(e) ==
    /\ Begin(e) /\ e.k = "Ready"
    /\ IF Used(e.id)
       THEN /\ conn' = [conn EXCEPT ![slab[e.id]] = Woken(@, "Ready")]
            /\ ready' = Queued(ready, e.id, conn[slab[e.id]], "Ready")
            /\ UNCHANGED task
       ELSE /\ task' = [NoTask EXCEPT !.step = "panicked"]
            /\ UNCHANGED <<conn, ready>>
    /\ UNCHANGED <<slab, free, data, submap, grave, owed, routes, retain, inbuf, outbuf, linkVars>>

-----------------------------------------------------------------------------
(* handle_new_connection *)

HandleConnect(e) ==
    /\ Begin(e) /\ e.k = "Connect"
    /\ task' = [NoTask EXCEPT !.step = "connect", !.link = e.link]
    /\ UNCHANGED <<slab, free, conn, data, submap, grave, owed, routes, retain, ready, inbuf,
                   outbuf, linkVars>>

\* Mutant of Rivals: connections are looked up by link.
RivalsByLink == {id \in Ids : slab[id] = task.link}

\* connection_map: the connection the client of a new link has already.
Rivals == ConnectionOf(ClientOf[task.link])

\* A connection with the same client id is dropped first.
DropDuplicate(id) ==
    /\ task.step = "connect" /\ id \in Rivals
    /\ Disconnection(id)
    /\ UNCHANGED <<routes, retain, ready, phase, task, chan, inbuf, outbuf, linkVars>>

\* max_connections: the link learns of it by its dropped channel.
Refuse ==
    /\ task.step = "connect" /\ Rivals = {}
    /\ free = <<>>
    /\ task' = NoTask
    /\ UNCHANGED <<slab, free, conn, data, submap, grave, owed, routes, retain, ready, phase,
                   chan, inbuf, outbuf, linkVars>>

\* The saved session is taken out of the graveyard and used unless the new
\* one is clean; subscription_map does not get its subscriptions back.
Admit ==
    LET l == task.link
        c == ClientOf[l]
        saved == IF grave[c] = None \/ l \in Clean THEN NoSession ELSE grave[c]
        id == Head(free)
    IN  /\ task.step = "connect" /\ Rivals = {} /\ free # <<>>
        /\ slab' = [slab EXCEPT ![id] = l]
        /\ free' = Tail(free)
        /\ conn' = [conn EXCEPT ![l] =
                      [Fresh EXCEPT !.status = "Ready", !.reqs = saved.reqs, !.subs = saved.subs,
                                    !.pubrels = saved.pubrels,
                                    !.acks = <<Ack("ConnAck", id)>> \o
                                       [i \in 1 .. Len(saved.pubrels) |->
                                          Ack("PubRel", saved.pubrels[i])]]]
        /\ grave' = [grave EXCEPT ![c] = None]
        /\ owed' = IF l \in Clean THEN [owed EXCEPT ![c] = [f \in Filters |-> {}]] ELSE owed
        /\ ready' = Append(ready, id)
        /\ task' = NoTask
        /\ UNCHANGED <<data, submap, routes, retain, phase, chan, inbuf, outbuf, linkVars>>

-----------------------------------------------------------------------------
(* handle_device_payload: the packets a link has read, one after the other *)

HandleDeviceData(e) ==
    /\ Begin(e) /\ e.k = "DeviceData"
    /\ IF Used(e.id)
       THEN /\ task' = [NoTask EXCEPT !.step = "packets", !.id = e.id, !.link = slab[e.id],
                                      !.cache = inbuf[slab[e.id]]]
            /\ inbuf' = [inbuf EXCEPT ![slab[e.id]] = <<>>]
       ELSE UNCHANGED <<task, inbuf>>
    /\ UNCHANGED <<slab, free, conn, data, submap, grave, owed, routes, retain, ready, outbuf,
                   linkVars>>

Packet(p, kinds) ==
    /\ task.step = "packets" /\ ~task.bad
    /\ task.cache # <<>> /\ p = Head(task.cache) /\ p.k \in kinds

Taken == [task EXCEPT !.cache = Tail(@)]
TakenForced == [task EXCEPT !.cache = Tail(@), !.force = TRUE]
TakenBad == [task EXCEPT !.cache = <<>>, !.bad = TRUE]

InPayload == UNCHANGED <<slab, free, grave, phase, chan, inbuf, outbuf, linkVars>>

\* append_to_commitlog: the filters of the topic are looked up once and then
\* remembered, unless there are none. What is parked on them is taken out.
Routed(t) == IF routes[t] # {} THEN routes[t] ELSE {f \in Matching[t] : data[f].known}
WaitersOf(fs) == FlattenSeq([i \in 1 .. Len(fs) |-> data[fs[i]].waiters])
AppendToLog(m, t, next) ==
    /\ routes' = [routes EXCEPT ![t] = Routed(t)]
    /\ data' = [f \in Filters |->
                  IF f \in Routed(t) THEN [data[f] EXCEPT !.log = LogAppend(@, m), !.waiters = <<>>]
                  ELSE data[f]]
    /\ retain' = [retain EXCEPT ![t] = IF m \in Empty THEN None ELSE IF m \in Retained THEN m ELSE @]
    /\ task' = [next EXCEPT !.new = TRUE, !.notes = @ \o WaitersOf(SetToSeq(Routed(t)))]

\* Quality of service 0 and 1: appended at once, 1 with a PubAck.
PublishPacket(p) ==
    /\ Packet(p, {"Publish"}) /\ p.qos < 2
    /\ conn' = IF p.qos = 1
               THEN [conn EXCEPT ![task.link].acks = Append(@, Ack("PubAck", p.m))] ELSE conn
    /\ AppendToLog(p.m, p.topic, IF p.qos = 1 THEN TakenForced ELSE Taken)
    /\ UNCHANGED <<submap, ready, owed>> /\ InPayload

\* Quality of service 2: recorded until its PubRel.
RecordPacket(p) ==
    /\ Packet(p, {"Publish"}) /\ p.qos = 2
    /\ conn' = [conn EXCEPT ![task.link].acks = Append(@, Ack("PubRec", p.m)),
                            ![task.link].recorded = Append(@, p)]
    /\ task' = TakenForced
    /\ UNCHANGED <<data, submap, owed, routes, retain, ready>> /\ InPayload

\* The oldest recorded message is appended, whichever the PubRel is for; a
\* PubRel without one ends the connection.
PubRelPacket(p) ==
    LET c == conn[task.link]
    IN  /\ Packet(p, {"PubRel"})
        /\ IF c.recorded = <<>>
           THEN /\ conn' = [conn EXCEPT ![task.link].acks = Append(@, Ack("PubComp", p.pkid))]
                /\ task' = TakenBad
                /\ UNCHANGED <<data, routes, retain, ready>>
           ELSE /\ conn' = [conn EXCEPT ![task.link] =
                              Woken([c EXCEPT !.acks = Append(@, Ack("PubComp", p.pkid)),
                                              !.recorded = Tail(@)], "IncomingAck")]
                /\ ready' = Queued(ready, task.id, c, "IncomingAck")
                /\ AppendToLog(Head(c.recorded).m, Head(c.recorded).topic, Taken)
        /\ UNCHANGED <<submap, owed>> /\ InPayload

\* Mutant of Joined: remembered topics do not learn a new filter.
JoinedNever(f) == routes

\* next_native_offset: a new filter joins the topics that are remembered.
Joined(f) ==
    IF data[f].known THEN routes
    ELSE [t \in Topics |-> IF routes[t] # {} /\ f \in Matching[t] THEN routes[t] \cup {f}
                           ELSE routes[t]]

\* The log of a new filter is created; prepare_filter leaves the request of a
\* subscription that is there already as it is.
SubscribePacket(p) ==
    LET l == task.link
        f == p.filter
        fresh == f \notin conn[l].subs
        req == Request(f, p.qos, NextOffset(data[f].log))
        c == [conn[l] EXCEPT !.acks = Append(@, Ack("SubAck", 0)),
                             !.subs = @ \cup {f},
                             !.reqs = IF fresh THEN Append(@, req) ELSE @]
    IN  /\ Packet(p, {"Subscribe"})
        /\ data' = [data EXCEPT ![f].known = TRUE]
        /\ routes' = Joined(f)
        /\ submap' = [submap EXCEPT ![f] = @ \cup {task.id}]
        /\ conn' = [conn EXCEPT ![l] = IF fresh THEN Woken(c, "NewFilter") ELSE c]
        /\ ready' = IF fresh THEN Queued(ready, task.id, c, "NewFilter") ELSE ready
        /\ task' = TakenForced
        /\ UNCHANGED <<owed, retain>> /\ InPayload

\* A connection subscription_map does not know under the filter gets neither
\* an answer nor its subscription removed. log.rs takes out the first parked
\* request of the id only: there is a second one only where OneRequest fails,
\* for a client that publishes to its own subscription and unsubscribes.
UnsubscribePacket(p) ==
    LET l == task.link f == p.filter
    IN  /\ Packet(p, {"Unsubscribe"})
        /\ IF task.id \in submap[f]
           THEN /\ submap' = [submap EXCEPT ![f] = @ \ {task.id}]
                /\ conn' = [conn EXCEPT ![l].subs = @ \ {f},
                                        ![l].reqs = NotOnFilter(@, f),
                                        ![l].acks = Append(@, Ack("UnsubAck", 0))]
                /\ data' = [data EXCEPT ![f].waiters = WithoutId(@, task.id)]
                /\ owed' = [owed EXCEPT ![ClientOf[l]][f] = {}]
                /\ task' = TakenForced
           ELSE /\ task' = Taken
                /\ UNCHANGED <<submap, conn, data, owed>>
        /\ UNCHANGED <<routes, retain, ready>> /\ InPayload

\* register_ack: only the oldest inflight message may be acknowledged; it is
\* taken out whether or not it is the one.
AckPacket(p) ==
    LET c == conn[task.link]
        head == Head(c.inflight)
        rest == [c EXCEPT !.inflight = Tail(@)]
        acked == IF p.k = "PubAck" THEN rest
                 ELSE [rest EXCEPT !.pubrels = Append(@, p.pkid),
                                   !.acks = Append(@, Ack("PubRel", p.pkid))]
    IN  /\ Packet(p, {"PubAck", "PubRec"})
        /\ IF c.inflight # <<>> /\ head.pkid = p.pkid
           THEN /\ conn' = [conn EXCEPT ![task.link] = Woken(acked, "IncomingAck")]
                /\ ready' = Queued(ready, task.id, c, "IncomingAck")
                /\ task' = Taken
                /\ owed' = IF head.at = None THEN owed
                           ELSE [owed EXCEPT ![ClientOf[task.link]][head.f] = @ \ {head.at[2]}]
           ELSE /\ conn' = IF c.inflight = <<>> THEN conn ELSE [conn EXCEPT ![task.link] = rest]
                /\ task' = TakenBad
                /\ UNCHANGED <<ready, owed>>
        /\ UNCHANGED <<data, submap, routes, retain>> /\ InPayload

\* register_pubcomp
PubCompPacket(p) ==
    LET c == conn[task.link]
        known == c.pubrels # <<>> /\ Head(c.pubrels) = p.pkid
    IN  /\ Packet(p, {"PubComp"})
        /\ conn' = IF c.pubrels = <<>> THEN conn ELSE [conn EXCEPT ![task.link].pubrels = Tail(@)]
        /\ task' = IF known THEN Taken ELSE TakenBad
        /\ UNCHANGED <<data, submap, owed, routes, retain, ready>> /\ InPayload

PingPacket(p) ==
    /\ Packet(p, {"PingReq"})
    /\ conn' = [conn EXCEPT ![task.link].acks = Append(@, Ack("PingResp", 0))]
    /\ task' = TakenForced
    /\ UNCHANGED <<data, submap, owed, routes, retain, ready>> /\ InPayload

DisconnectPacket(p) ==
    /\ Packet(p, {"Disconnect"})
    /\ task' = TakenBad
    /\ UNCHANGED <<conn, data, submap, owed, routes, retain, ready>> /\ InPayload

\* After the packets: acks that must go out wake the connection ...
ForceAcks ==
    /\ task.step = "packets" /\ task.cache = <<>>
    /\ conn' = IF task.force THEN [conn EXCEPT ![task.link] = Woken(@, "FreshData")] ELSE conn
    /\ ready' = IF task.force THEN Queued(ready, task.id, conn[task.link], "FreshData") ELSE ready
    /\ task' = [task EXCEPT !.step = "notify"]
    /\ UNCHANGED <<data, submap, owed, routes, retain>> /\ InPayload

\* Mutant of NotifyWaiter: the request is tracked, its connection not woken.
NotifyWaiterOnlyTracks ==
    LET w == Head(task.notes) l == slab[w.id]
    IN  /\ task.step = "notify" /\ task.notes # <<>>
        /\ conn' = [conn EXCEPT ![l].reqs = Append(@, w.req)]
        /\ task' = [task EXCEPT !.notes = Tail(@)]
        /\ UNCHANGED <<ready, data, submap, owed, routes, retain>> /\ InPayload

\* ... new data wakes those whose requests were parked on it ...
NotifyWaiter ==
    LET w == Head(task.notes) l == slab[w.id]
    IN  /\ task.step = "notify" /\ task.notes # <<>>
        /\ conn' = [conn EXCEPT ![l] = Woken([conn[l] EXCEPT !.reqs = Append(@, w.req)],
                                                "FreshData")]
        /\ ready' = Queued(ready, w.id, conn[l], "FreshData")
        /\ task' = [task EXCEPT !.notes = Tail(@)]
        /\ UNCHANGED <<data, submap, owed, routes, retain>> /\ InPayload

\* ... and only then is a connection in error ended.
EndPayload ==
    /\ task.step = "notify" /\ task.notes = <<>>
    /\ IF task.bad THEN Disconnection(task.id)
       ELSE UNCHANGED <<slab, free, conn, data, submap, grave, owed>>
    /\ task' = NoTask
    /\ UNCHANGED <<routes, retain, ready, phase, chan, inbuf, outbuf, linkVars>>

-----------------------------------------------------------------------------
(* consume: the next connection of the ready queue *)

\* Nothing is ready, and the polls that are left change nothing.
PollNothing ==
    /\ Idle /\ Polling
    /\ ready = <<>>
    /\ phase' = IF phase.at = "first" THEN At("recv", 0) ELSE At("first", 0)
    /\ UNCHANGED <<slab, free, conn, data, submap, grave, owed, routes, retain, ready, task, chan,
                   inbuf, outbuf, linkVars>>

\* The id at the front has no tracker any more: consume() finds nothing, as
\* if the queue were empty.
PollStale ==
    /\ Idle /\ Polling
    /\ ready # <<>> /\ ~Used(Head(ready))
    /\ ready' = Tail(ready)
    /\ phase' = AfterPoll(FALSE)
    /\ UNCHANGED <<slab, free, conn, data, submap, grave, owed, routes, retain, task, chan,
                   inbuf, outbuf, linkVars>>

\* poll and ack_device_data: the connection goes to the back of the queue,
\* all its acks go out, and its requests are drained.
Poll ==
    LET id == Head(ready) l == slab[id]
    IN  /\ Idle /\ Polling
        /\ ready # <<>> /\ Used(id)
        /\ ready' = Append(Tail(ready), id)
        /\ conn' = [conn EXCEPT ![l].acks = <<>>, ![l].reqs = <<>>]
        /\ outbuf' = [outbuf EXCEPT ![l] = @ \o conn[l].acks]
        /\ task' = [NoTask EXCEPT !.step = "requests", !.id = id, !.link = l,
                                  !.reqs = conn[l].reqs, !.left = MaxIterations]
        /\ phase' = AfterPoll(TRUE)
        /\ UNCHANGED <<slab, free, data, submap, grave, owed, routes, retain, chan, inbuf, linkVars>>

InConsume == UNCHANGED <<slab, free, submap, grave, routes, retain, phase, chan, inbuf, linkVars>>

\* Mutant of Slots: messages in flight are not counted.
SlotsUncounted(req) == IF req.qos # 0 THEN MaxInflight ELSE MaxRead

\* How many messages may be read for a request.
Slots(req) ==
    IF req.qos # 0 THEN MaxInflight - Len(conn[task.link].inflight) ELSE MaxRead

\* Retained messages of a filter, in the order the hash map gives them.
RetainedFor(f) == {t \in Topics : retain[t] # None /\ f \in Matching[t]}

\* The notifications for the messages ms; e is [m, at], at None if retained.
Forwards(req, ms) ==
    [i \in 1 .. Len(ms) |->
        Forward(req.f, req.qos,
                IF req.qos = 0 THEN 0 ELSE NextPkid(conn[task.link].pkid, i), ms[i].m, ms[i].at)]

\* push_forwards
Inflight(c, req, fs) ==
    IF req.qos = 0 THEN c
    ELSE [c EXCEPT !.inflight = @ \o [i \in 1 .. Len(fs) |->
                      [pkid |-> fs[i].pkid, f |-> req.f, at |-> fs[i].at]],
                   !.pkid = (@ + Len(fs)) % MaxInflight]

RequestInflightFull ==
    LET req == Head(task.reqs) c == conn[task.link]
    IN  /\ task.step = "requests" /\ task.left > 0 /\ task.reqs # <<>>
        /\ req.qos # 0 /\ Slots(req) = 0
        /\ conn' = [conn EXCEPT ![task.link] =
                      Paused([c EXCEPT !.reqs = @ \o Tail(task.reqs) \o <<req>>], "InflightFull")]
        /\ ready' = Unqueued
        /\ task' = NoTask
        /\ UNCHANGED <<data, owed, outbuf>> /\ InConsume

\* What the log holds for a request; messages that have expired are left out.
Readings(req, n) ==
    {[ReadV(data[req.f].log, req.cur, n) EXCEPT
        !.out = Where(@, {e \in Range(@) : e.m \notin expired})] : expired \in SUBSET Expiring}

\* Mutant of Serve: a request is parked when its slots are used up.
ServeParksEarly(order, read) ==
    LET req  == Head(task.reqs)
        n    == Len(order)
        fs   == Forwards(req, [i \in 1 .. n |-> [m |-> retain[order[i]], at |-> None]] \o read.out)
        c    == ClientOf[task.link]
        next == [req EXCEPT !.cur = read.end, !.ret = FALSE]
    IN  /\ outbuf' = [outbuf EXCEPT ![task.link] = @ \o fs]
        /\ owed' = IF req.qos = 0 THEN owed
                   ELSE [owed EXCEPT ![c][req.f] = @ \cup {read.out[i].at[2] : i \in 1 .. Len(read.out)}]
        /\ conn' = [conn EXCEPT ![task.link] = Inflight(@, req, fs)]
        /\ data' = [data EXCEPT ![req.f].waiters = Append(@, [id |-> task.id, req |-> next])]
        /\ task' = [task EXCEPT !.reqs = Tail(@), !.left = @ - 1]
        /\ UNCHANGED ready /\ InConsume

\* forward_device_data: what is read goes out after the retained messages,
\* as far as there are slots. The request is parked at the end of the log,
\* or when nothing was read.
Serve(order, read) ==
    LET req  == Head(task.reqs)
        n    == Len(order)
        fs   == Forwards(req, [i \in 1 .. n |-> [m |-> retain[order[i]], at |-> None]] \o read.out)
        c    == ClientOf[task.link]
        next == [req EXCEPT !.cur = read.end, !.ret = FALSE]
        rest == Tail(task.reqs)
        full == Len(outbuf[task.link]) + Len(fs) >= BufferLimit
        served == Inflight(conn[task.link], req, fs)
    IN  /\ outbuf' = [outbuf EXCEPT ![task.link] =
                        @ \o fs \o (IF fs # <<>> /\ full THEN <<Unschedule>> ELSE <<>>)]
        /\ owed' = IF req.qos = 0 THEN owed
                   ELSE [owed EXCEPT ![c][req.f] = @ \cup {read.out[i].at[2] : i \in 1 .. Len(read.out)}]
        /\ IF fs # <<>> /\ full
           THEN /\ conn' = [conn EXCEPT ![task.link] =
                              Paused([served EXCEPT !.reqs = @ \o rest \o <<next>>], "Busy")]
                /\ ready' = Unqueued
                /\ task' = NoTask
                /\ UNCHANGED data
           ELSE /\ conn' = [conn EXCEPT ![task.link] = served]
                /\ UNCHANGED ready
                /\ IF fs = <<>> \/ read.done
                   THEN /\ data' = [data EXCEPT ![req.f].waiters =
                                      Append(@, [id |-> task.id, req |-> next])]
                        /\ task' = [task EXCEPT !.reqs = rest, !.left = @ - 1]
                   ELSE /\ task' = [task EXCEPT !.reqs = Append(rest, next), !.left = @ - 1]
                        /\ UNCHANGED data
        /\ InConsume

ServeRequest ==
    LET req == Head(task.reqs)
        topics == IF req.ret THEN RetainedFor(req.f) ELSE {}
        room == IF Cardinality(topics) < Slots(req) THEN Cardinality(topics) ELSE Slots(req)
    IN  /\ task.step = "requests" /\ task.left > 0 /\ task.reqs # <<>>
        /\ req.qos = 0 \/ Slots(req) > 0
        /\ \E order \in UNION {SetToSeqs(T) : T \in kSubset(room, topics)},
              read \in Readings(req, Slots(req) - room) : Serve(order, read)

\* All requests are parked: the connection has caught up.
CaughtUp ==
    /\ task.step = "requests" /\ task.left > 0 /\ task.reqs = <<>>
    /\ conn' = [conn EXCEPT ![task.link] = Paused(@, "Caughtup")]
    /\ ready' = Unqueued
    /\ task' = NoTask
    /\ UNCHANGED <<data, owed, outbuf>> /\ InConsume

\* The iterations of this turn are used up; the connection stays ready.
TurnEnds ==
    /\ task.step = "requests" /\ task.left = 0
    /\ conn' = [conn EXCEPT ![task.link].reqs = @ \o task.reqs]
    /\ task' = NoTask
    /\ UNCHANGED <<ready, data, owed, outbuf>> /\ InConsume

\* There are no more events for now.
Drained ==
    /\ Idle /\ phase.at = "drain" /\ chan = <<>>
    /\ phase' = At("poll", MaxPoll)
    /\ UNCHANGED <<slab, free, conn, data, submap, grave, owed, routes, retain, ready, task,
                   chan, inbuf, outbuf, linkVars>>

HandleEvent(e) ==
    HandleConnect(e) \/ HandleDeviceData(e) \/ HandleDisconnect(e) \/ HandleReady(e)

HandlePacket(p) ==
    \/ PublishPacket(p) \/ RecordPacket(p) \/ PubRelPacket(p) \/ SubscribePacket(p)
    \/ UnsubscribePacket(p) \/ AckPacket(p) \/ PubCompPacket(p) \/ PingPacket(p)
    \/ DisconnectPacket(p)

RouterStep ==
    \/ chan # <<>> /\ HandleEvent(Head(chan))
    \/ \E id \in Ids : DropDuplicate(id)
    \/ Refuse \/ Admit
    \/ task.cache # <<>> /\ HandlePacket(Head(task.cache))
    \/ ForceAcks \/ NotifyWaiter \/ EndPayload
    \/ PollNothing \/ PollStale \/ Poll \/ RequestInflightFull \/ ServeRequest \/ CaughtUp \/ TurnEnds
    \/ Drained

=============================================================================

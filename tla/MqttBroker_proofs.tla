------------------------- MODULE MqttBroker_proofs --------------------------
(***************************************************************************)
(* What holds of the MQTT broker for every value of its constants: topics  *)
(* that are remembered know all their filters, what is parked has caught up,*)
(* messages in flight have packet ids of their own, and no connection is   *)
(* left asleep.                                                            *)
(***************************************************************************)
EXTENDS MqttTypes_proofs

-----------------------------------------------------------------------------
(* Topics that are remembered *)

Serves == \E order, read : ServeOK(order, read) /\ Serve(order, read)

\* What may become of the logs in a step.
DataSteps ==
    \/ data' = data /\ routes' = routes
    \/ routes' = routes /\ \E id \in Ids : Used(id) /\ Disconnection(id)
    \/ \E m \in Messages, t \in Topics : \E next : AppendToLog(m, t, next)
    \/ \E p \in Packets : SubscribePacket(p)
    \/ \E p \in Packets : UnsubscribePacket(p)
    \/ Serves /\ task.step = "requests" /\ task.left > 0 /\ task.reqs # <<>>

\* No other step touches the logs or the remembered topics.
LEMMA DataStepsAll ==
    ASSUME BrokerType, [Next]_vars
    PROVE  DataSteps
<1> USE DEF BrokerType
<1>1. CASE chan # <<>> /\ HandleEvent(Head(chan))
  <2> DEFINE e == Head(chan)
  <2>1. Begin(e)
    BY <1>1 DEF HandleEvent, HandleConnect, HandleDeviceData, HandleDisconnect, HandleReady
  <2>2. e \in Events
    BY <2>1, BeginFacts
  <2>3. CASE HandleDisconnect(e) /\ Used(e.id)
    BY <2>2, <2>3 DEF HandleDisconnect, DataSteps, Events
  <2>4. CASE HandleConnect(e) \/ HandleDeviceData(e) \/ HandleReady(e) \/ (HandleDisconnect(e) /\ ~Used(e.id))
    BY <2>4 DEF HandleConnect, HandleDeviceData, HandleReady, HandleDisconnect, DataSteps
  <2> QED
    BY <1>1, <2>3, <2>4 DEF HandleEvent
<1>2. CASE \E id \in Ids : DropDuplicate(id)
  BY <1>2 DEF DropDuplicate, Rivals, ConnectionOf, DataSteps
<1>3. CASE Refuse \/ PollNothing \/ PollStale \/ Drained \/ Admit
  BY <1>3 DEF Refuse, PollNothing, PollStale, Drained, Admit, DataSteps
<1>4. CASE task.cache # <<>> /\ HandlePacket(Head(task.cache))
  <2> DEFINE p == Head(task.cache)
  <2>1. \E kinds : Packet(p, kinds)
    BY <1>4, Zenon DEF HandlePacket, PublishPacket, RecordPacket, PubRelPacket, SubscribePacket,
       UnsubscribePacket, AckPacket, PubCompPacket, PingPacket, DisconnectPacket
  <2>2. p \in Packets
    BY <2>1, PacketOn
  <2>3. CASE SubscribePacket(p) \/ UnsubscribePacket(p)
    BY <2>2, <2>3 DEF DataSteps
  <2>4. CASE PublishPacket(p)
    <3>1. \E next : AppendToLog(p.m, p.topic, next)
      BY <2>4, Zenon DEF PublishPacket
    <3>2. p.k = "Publish"
      BY <2>4 DEF PublishPacket, Packet
    <3>3. p.m \in Messages /\ p.topic \in Topics
      BY <2>2, <3>2 DEF Packets, Publishes, Replies, ControlPackets
    <3> QED
      BY <3>1, <3>3 DEF DataSteps
  <2>5. CASE PubRelPacket(p)
    <3> DEFINE c == conn[task.link]
               h == Head(c.recorded)
    <3>1. CASE c.recorded = <<>>
      BY <2>5, <3>1 DEF PubRelPacket, DataSteps
    <3>2. CASE c.recorded # <<>>
      <4>1. AppendToLog(h.m, h.topic, Taken)
        BY <2>5, <3>2 DEF PubRelPacket
      <4>2. c.recorded \in Seq(Publishes)
        BY <2>1, PacketOn, ConnFields
      <4>3. h \in Publishes
        <5> DEFINE r == c.recorded
                   P == Publishes
        <5>1. r \in Seq(P) /\ r # <<>>
          BY <3>2, <4>2
        <5> HIDE DEF r, P
        <5>2. Head(r) \in P
          BY <5>1
        <5> QED
          BY <5>2 DEF r, P
      <4>4. h.m \in Messages /\ h.topic \in Topics
        BY <4>3 DEF Publishes
      <4> QED
        BY <4>1, <4>4 DEF DataSteps
    <3> QED
      BY <3>1, <3>2
  <2>6. CASE RecordPacket(p) \/ AckPacket(p) \/ PubCompPacket(p) \/ PingPacket(p) \/ DisconnectPacket(p)
    BY <2>6 DEF RecordPacket, AckPacket, PubCompPacket, PingPacket, DisconnectPacket, DataSteps
  <2> QED
    BY <1>4, <2>3, <2>4, <2>5, <2>6 DEF HandlePacket
<1>5. CASE ForceAcks \/ NotifyWaiter
  BY <1>5 DEF ForceAcks, NotifyWaiter, DataSteps
<1>6. CASE EndPayload
  <2>1. CASE task.bad
    <3>1. task.step = "notify" /\ Disconnection(task.id) /\ routes' = routes
      BY <1>6, <2>1 DEF EndPayload
    <3>2. Used(task.id) /\ task.id \in Ids
      BY <3>1, TaskFields, BrokerAssumption DEF TaskHolds, TaskOK, Used
    <3> QED
      BY <3>1, <3>2 DEF DataSteps
  <2>2. CASE ~task.bad
    BY <1>6, <2>2 DEF EndPayload, DataSteps
  <2> QED
    BY <2>1, <2>2
<1>7. CASE Poll \/ RequestInflightFull \/ CaughtUp \/ TurnEnds
  BY <1>7 DEF Poll, RequestInflightFull, CaughtUp, TurnEnds, InConsume, DataSteps
<1>8. CASE ServeRequest
  BY <1>8, ServeRequestOK DEF ServeRequest, DataSteps, Serves
<1>9. CASE \E l \in Links : LinkStep(l) \/ ClientStep(l) \/ ClientAnswer(l)
  <2>1. NoRouter
    BY <1>9 DEF LinkStep, ClientStep, ClientAnswer, Dial, Established, Refused, Exchange, Wake,
              Dropped, Fail, GreetFails, ClientPublish, ClientControl, Read
  <2> QED
    BY <2>1 DEF NoRouter, routerVars, DataSteps
<1>10. CASE UNCHANGED vars
  BY <1>10 DEF vars, routerVars, DataSteps
<1> QED
  BY <1>1, <1>2, <1>3, <1>4, <1>5, <1>6, <1>7, <1>8, <1>9, <1>10 DEF Next, RouterStep

\* A new filter joins the topics that are remembered (next_native_offset).
LEMMA RoutesKeep ==
    ASSUME BrokerType, RoutesComplete, [Next]_vars
    PROVE  RoutesComplete'
<1> USE DEF BrokerType
<1> DEFINE Kept == \A f \in Filters : data'[f].known = data[f].known
<1>1. data \in [Filters -> FilterData(data)] /\ Matching \in [Topics -> SUBSET Filters]
      /\ routes \in [Topics -> SUBSET Filters]
  BY BrokerAssumption DEF DataOK, TablesOK
<1>2. ASSUME routes' = routes, Kept PROVE RoutesComplete'
  BY <1>1, <1>2 DEF RoutesComplete
<1>3. CASE data' = data /\ routes' = routes
  BY <1>2, <1>3
<1>4. ASSUME NEW id \in Ids, Disconnection(id), routes' = routes PROVE RoutesComplete'
  <2>1. Kept
    BY <1>1, <1>4 DEF Disconnection, FilterData
  <2> QED
    BY <1>2, <1>4, <2>1
<1>5. ASSUME NEW m \in Messages, NEW t \in Topics, NEW next, AppendToLog(m, t, next)
      PROVE  RoutesComplete'
  <2>1. routes' = [routes EXCEPT ![t] = Routed(t)]
    BY <1>5 DEF AppendToLog
  <2>2. Kept
    BY <1>1, <1>5 DEF AppendToLog, FilterData
  <2>3. Routed(t) = {f \in Matching[t] : data[f].known}
    BY DEF Routed, RoutesComplete
  <2> QED
    BY <1>1, <2>1, <2>2, <2>3 DEF RoutesComplete
<1>6. ASSUME NEW p \in Packets, SubscribePacket(p) PROVE RoutesComplete'
  <2> DEFINE f == p.filter
  <2>1. p.k = "Subscribe" /\ routes' = Joined(f) /\ data' = [data EXCEPT ![f].known = TRUE]
    BY <1>6 DEF SubscribePacket, Packet
  <2>2. f \in Filters
    BY <1>6, <2>1 DEF Packets, Publishes, Replies, ControlPackets
  <2>3. data'[f].known /\ \A g \in Filters : g # f => data'[g].known = data[g].known
    BY <1>1, <2>1, <2>2 DEF FilterData
  <2> HIDE DEF f
  <2>4. CASE data[f].known
    <3>1. routes' = routes
      BY <2>1, <2>4 DEF Joined
    <3>2. Kept
      BY <2>3, <2>4, <1>1, <2>1, <2>2 DEF FilterData
    <3> QED
      BY <1>2, <3>1, <3>2
  <2>5. CASE ~data[f].known
    <3>1. \A t \in Topics : routes'[t] = IF routes[t] # {} /\ f \in Matching[t] THEN routes[t] \cup {f}
                                         ELSE routes[t]
      BY <2>1, <2>5 DEF Joined
    <3> QED
      BY <1>1, <2>3, <2>5, <3>1 DEF RoutesComplete
  <2> QED
    BY <2>4, <2>5
<1>7. ASSUME NEW p \in Packets, UnsubscribePacket(p) PROVE RoutesComplete'
  <2>1. routes' = routes
    BY <1>7 DEF UnsubscribePacket
  <2>2. Kept
    <3> DEFINE W == WithoutId(data[p.filter].waiters, task.id)
    <3>1. data' = data \/ data' = [data EXCEPT ![p.filter].waiters = W]
      BY <1>7, Zenon DEF UnsubscribePacket
    <3> HIDE DEF W
    <3> QED
      BY <1>1, <3>1 DEF FilterData
  <2> QED
    BY <1>2, <2>1, <2>2
<1>8. ASSUME NEW order, NEW read, Serve(order, read) PROVE RoutesComplete'
  <2>1. routes' = routes
    BY <1>8, ServeParts DEF InConsume
  <2>2. Kept
    <3> DEFINE f == Head(task.reqs).f
               w == [id |-> task.id, req |-> Following(read)]
    <3>1. data' = data \/ data' = [data EXCEPT ![f].waiters = Append(@, w)]
      BY <1>8, ServeParts DEF TurnBusy, TurnParks, TurnAgain
    <3> HIDE DEF f, w
    <3> QED
      BY <1>1, <3>1 DEF FilterData
  <2> QED
    BY <1>2, <2>1, <2>2
<1> HIDE DEF BrokerType
<1>9. DataSteps
  BY DataStepsAll
<1> QED
  BY <1>3, <1>4, <1>5, <1>6, <1>7, <1>8, <1>9 DEF DataSteps, Serves

\* No topic is remembered at the start.
LEMMA RoutesInit == Init => RoutesComplete
BY DEF Init, RoutesComplete

\* A remembered topic keeps all filters that match it (publish_filters).
THEOREM RoutesCorrect == Spec => []RoutesComplete
<1>1. Init => RoutesComplete
  BY RoutesInit
<1>2. BrokerType /\ RoutesComplete /\ [Next]_vars => RoutesComplete'
  BY RoutesKeep
<1> QED
  BY <1>1, <1>2, BrokerTypeInvariant, PTL DEF Spec

-----------------------------------------------------------------------------
(* Requests that are parked *)

\* A request is parked only at the end of its log.
LEMMA ParksAtEnd ==
    ASSUME BrokerType, task.step = "requests", task.reqs # <<>>, Expiring = {},
           NEW order, NEW read, ServeOK(order, read), TurnParks(order, read)
    PROVE  Following(read).cur[2] = NextOffset(data[Head(task.reqs).f].log)[2]
<1> DEFINE req == Head(task.reqs)
           ms == Sending(order, read)
<1>1. req \in RequestsIn(data)
  BY ServingFacts
<1>2. ms \in Seq(Sendable(req.f)) /\ Len(ms) = Len(order) + Len(read.out)
      /\ Len(order) \in Nat /\ Len(read.out) \in Nat
  BY SendingType
<1>3. read.done
  <2>1. SUFFICES ASSUME ~read.done PROVE FALSE
    OBVIOUS
  <2>2. Forwards(req, ms) = <<>>
    BY <2>1 DEF TurnParks, TurnOut
  <2>3. Len(Forwards(req, ms)) = Len(ms)
    BY <1>1, <1>2, ForwardsType
  <2>4. Len(ms) = 0
    BY <2>2, <2>3
  <2>5. Len(order) = 0 /\ Len(read.out) = 0
    <3> DEFINE a == Len(order)
               b == Len(read.out)
    <3>1. a \in Nat /\ b \in Nat /\ a + b = 0
      <4>1. Len(ms) = a + b /\ a \in Nat /\ b \in Nat
        BY <1>2
      <4> HIDE DEF ms, a, b
      <4> QED
        BY <2>4, <4>1
    <3> HIDE DEF a, b
    <3>2. a = 0 /\ b = 0
      BY <3>1
    <3> QED
      BY <3>2 DEF a, b
  <2>6. Slots(req) \in Nat /\ Slots(req) > 0 /\ (Len(order) < Slots(req) => Len(read.out) > 0)
    BY <2>1 DEF ServeOK
  <2> HIDE DEF req, ms
  <2> QED
    BY <2>5, <2>6
<1>4. Following(read).cur = read.end
  BY FollowingType
<1> QED
  BY <1>3, <1>4 DEF ServeOK

\* Appending empties the waiters of the log, and parking needs its end.
LEMMA ParkedKeep ==
    ASSUME BrokerType, ParkedIsCaughtUp, Expiring = {}, [Next]_vars
    PROVE  ParkedIsCaughtUp'
<1> USE DEF BrokerType
<1> DEFINE Less == \A f \in Filters : /\ data'[f].log = data[f].log
                                      /\ Range(data'[f].waiters) \subseteq Range(data[f].waiters)
<1>1. data \in [Filters -> FilterData(data)]
  BY DEF DataOK
<1>2. ASSUME Less PROVE ParkedIsCaughtUp'
  BY <1>2 DEF ParkedIsCaughtUp
<1>3. CASE data' = data /\ routes' = routes
  BY <1>2, <1>3
<1>4. ASSUME NEW id \in Ids, Disconnection(id) PROVE ParkedIsCaughtUp'
  <2>1. data' = [f \in Filters |-> [data[f] EXCEPT !.waiters = WithoutId(@, id)]]
    BY <1>4 DEF Disconnection
  <2>2. ASSUME NEW f \in Filters
        PROVE  /\ data'[f].log = data[f].log
               /\ Range(data'[f].waiters) \subseteq Range(data[f].waiters)
    <3>1. data[f].waiters \in Seq(WaitersIn(data))
      BY <1>1 DEF FilterData
    <3>2. Range(WithoutId(data[f].waiters, id)) \subseteq Range(data[f].waiters)
      BY <3>1, WithoutIdFacts
    <3>3. data'[f].log = data[f].log /\ data'[f].waiters = WithoutId(data[f].waiters, id)
      BY <1>1, <2>1 DEF FilterData
    <3> QED
      BY <3>2, <3>3
  <2> QED
    BY <1>2, <2>2
<1>5. ASSUME NEW m \in Messages, NEW t \in Topics, NEW next, AppendToLog(m, t, next)
      PROVE  ParkedIsCaughtUp'
  <2>1. data' = [f \in Filters |->
                    IF f \in Routed(t) THEN [data[f] EXCEPT !.log = LogAppend(@, m), !.waiters = <<>>]
                    ELSE data[f]]
    BY <1>5 DEF AppendToLog
  <2>2. ASSUME NEW f \in Filters, f \in Routed(t) PROVE Range(data'[f].waiters) = {}
    <3>1. data'[f].waiters = <<>>
      BY <1>1, <2>1, <2>2 DEF FilterData
    <3> QED
      BY <3>1, NilRange
  <2>3. ASSUME NEW f \in Filters, f \notin Routed(t) PROVE data'[f] = data[f]
    BY <2>1, <2>3
  <2> QED
    BY <2>2, <2>3 DEF ParkedIsCaughtUp
<1>6. ASSUME NEW p \in Packets, SubscribePacket(p) PROVE ParkedIsCaughtUp'
  <2>1. data' = [data EXCEPT ![p.filter].known = TRUE]
    BY <1>6 DEF SubscribePacket
  <2>2. Less
    BY <1>1, <2>1 DEF FilterData
  <2> QED
    BY <1>2, <2>2
<1>7. ASSUME NEW p \in Packets, UnsubscribePacket(p) PROVE ParkedIsCaughtUp'
  <2> DEFINE f == p.filter
             W == WithoutId(data[f].waiters, task.id)
  <2>1. data' = data \/ data' = [data EXCEPT ![f].waiters = W]
    BY <1>7, Zenon DEF UnsubscribePacket
  <2>2. ASSUME f \in Filters PROVE Range(W) \subseteq Range(data[f].waiters)
    <3>1. data[f].waiters \in Seq(WaitersIn(data))
      BY <1>1, <2>2 DEF FilterData
    <3> QED
      BY <3>1, WithoutIdFacts
  <2> HIDE DEF W
  <2>3. Less
    BY <1>1, <2>1, <2>2, ZenonT(40) DEF FilterData
  <2> QED
    BY <1>2, <2>3
<1>8. ASSUME NEW order, NEW read, ServeOK(order, read), Serve(order, read), task.step = "requests",
             task.reqs # <<>>
      PROVE  ParkedIsCaughtUp'
  <2> DEFINE f == Head(task.reqs).f
             w == [id |-> task.id, req |-> Following(read)]
             ws == data[f].waiters
             W == Append(ws, w)
  <2>1. CASE TurnBusy(order, read) \/ TurnAgain(order, read)
    <3>1. data' = data
      BY <2>1 DEF TurnBusy, TurnAgain
    <3>2. Less
      BY <3>1
    <3> QED
      BY <1>2, <3>2
  <2>2. CASE TurnParks(order, read)
    <3>1. data' = [data EXCEPT ![f].waiters = W]
      BY <2>2 DEF TurnParks
    <3>2. f \in Filters /\ w \in WaitersIn(data)
      BY <1>8, FollowingType, ServingFacts DEF RequestsIn
    <3>3. ws \in Seq(WaitersIn(data))
      BY <1>1, <3>2 DEF FilterData
    <3>4. Range(W) = Range(ws) \cup {w}
      <4> DEFINE S == WaitersIn(data)
      <4>1. ws \in Seq(S) /\ w \in S
        BY <3>2, <3>3
      <4> HIDE DEF S, w, ws
      <4> QED
        BY <4>1, AppendFacts
    <3>5. w.req.cur[2] = NextOffset(data[f].log)[2]
      <4>1. w.req = Following(read)
        OBVIOUS
      <4> QED
        BY <1>8, <2>2, <4>1, ParksAtEnd
    <3> HIDE DEF W, f, w
    <3>6. /\ data'[f].log = data[f].log /\ data'[f].waiters = W
          /\ \A g \in Filters : g # f => data'[g] = data[g]
      BY <1>1, <3>1, <3>2 DEF FilterData
    <3>7. ASSUME NEW g \in Filters, NEW v \in Range(data'[g].waiters)
          PROVE  v.req.cur[2] = NextOffset(data'[g].log)[2]
      BY <3>2, <3>4, <3>5, <3>6, <3>7 DEF ParkedIsCaughtUp
    <3> QED
      BY <3>7 DEF ParkedIsCaughtUp
  <2> QED
    BY <1>8, <2>1, <2>2, ServeParts
<1> HIDE DEF BrokerType
<1>9. DataSteps
  BY DataStepsAll
<1> QED
  BY <1>3, <1>4, <1>5, <1>6, <1>7, <1>8, <1>9 DEF DataSteps, Serves

\* Nothing is parked at the start.
LEMMA ParkedInit == Init => ParkedIsCaughtUp
<1> SUFFICES ASSUME Init PROVE ParkedIsCaughtUp
  OBVIOUS
<1>1. ASSUME NEW f \in Filters PROVE Range(data[f].waiters) = {}
  <2>1. data[f].waiters = <<>>
    BY DEF Init
  <2> QED
    BY <2>1, NilRange
<1> QED
  BY <1>1 DEF ParkedIsCaughtUp

\* A parked request is at the end of its log, if no message expires.
THEOREM ParkedCorrect ==
    ASSUME Expiring = {}
    PROVE  Spec => []ParkedIsCaughtUp
<1>1. Init => ParkedIsCaughtUp
  BY ParkedInit
<1>2. BrokerType /\ ParkedIsCaughtUp /\ [Next]_vars => ParkedIsCaughtUp'
  BY ParkedKeep
<1> QED
  BY <1>1, <1>2, BrokerTypeInvariant, PTL DEF Spec

-----------------------------------------------------------------------------
(* Messages in flight *)

\* The packet id k messages before the last one given out; ids start over.
PkidBefore(last, k) == IF last - k >= 1 THEN last - k ELSE last - k + MaxInflight
\* The messages in flight have the last packet ids, one after the other.
Numbered(c) ==
    /\ Len(c.inflight) <= MaxInflight
    /\ \A i \in 1 .. Len(c.inflight) : c.inflight[i].pkid = PkidBefore(c.pkid, Len(c.inflight) - i)
AllNumbered == \A l \in Links : Numbered(conn[l])

\* A remainder is found by at most one subtraction below twice the modulus.
LEMMA ModOnce ==
    ASSUME NEW n \in Nat \ {0}, NEW a \in Nat, a < n + n
    PROVE  a % n = IF a < n THEN a ELSE a - n
<1>1. CASE a < n
  BY <1>1
<1>2. CASE a >= n
  <2>1. a - n \in 0 .. n - 1
    BY <1>2
  <2> DEFINE b == a - n
  <2> HIDE DEF b
  <2>2. b \in 0 .. n - 1 /\ b % n = b /\ a = b + n
    BY <2>1 DEF b
  <2>3. (b + n) % n = b
    BY <2>2
  <2> QED
    BY <1>2, <2>2, <2>3
<1> QED
  BY <1>1, <1>2

\* Messages are added behind those in flight.
LEMMA NumberedMore ==
    ASSUME NEW c, NEW d, NEW S, c.inflight \in Seq(S), NEW more \in Seq(S),
           c.pkid \in 0 .. MaxInflight - 1, Numbered(c),
           Len(c.inflight) + Len(more) <= MaxInflight,
           d.inflight = c.inflight \o more,
           \A i \in 1 .. Len(more) : more[i].pkid = NextPkid(c.pkid, i),
           d.pkid = (c.pkid + Len(more)) % MaxInflight
    PROVE  Numbered(d)
<1> DEFINE N == MaxInflight
           old == c.inflight
           all == old \o more
           L == Len(old)
           n == Len(more)
           p == c.pkid
           q == d.pkid
<1>1. /\ L \in Nat /\ n \in Nat /\ Len(all) = L + n
      /\ \A i \in 1 .. L : all[i] = old[i]
      /\ \A i \in 1 .. n : all[L + i] = more[i]
  OBVIOUS
<1>2. N \in Nat \ {0} /\ p \in 0 .. N - 1 /\ L + n <= N
  BY BrokerAssumption
<1>3. /\ \A i \in 1 .. L : old[i].pkid = PkidBefore(p, L - i)
      /\ \A i \in 1 .. n : more[i].pkid = ((p + i - 1) % N) + 1
      /\ q = (p + n) % N
  BY DEF Numbered, NextPkid
<1>4. d.inflight = all
  OBVIOUS
<1> HIDE DEF all, old, L, n, p, q, N
<1>5. q = IF p + n < N THEN p + n ELSE p + n - N
  <2> DEFINE a == p + n
  <2>1. a \in Nat /\ a < N + N
    BY <1>1, <1>2
  <2> HIDE DEF a
  <2>2. a % N = IF a < N THEN a ELSE a - N
    BY <1>2, <2>1, ModOnce
  <2> QED
    <3>1. q = a % N
      BY <1>3, Zenon DEF a
    <3>2. q = IF a < N THEN a ELSE a - N
      BY <2>2, <3>1
    <3> QED
      BY <1>1, <1>2, <3>2 DEF a
<1>6. ASSUME NEW i \in 1 .. L PROVE all[i].pkid = PkidBefore(q, L + n - i)
  <2>1. all[i].pkid = IF p - (L - i) >= 1 THEN p - (L - i) ELSE p - (L - i) + N
    BY <1>1, <1>3 DEF PkidBefore, N
  <2>2. PkidBefore(q, L + n - i) = IF q - (L + n - i) >= 1 THEN q - (L + n - i) ELSE q - (L + n - i) + N
    BY DEF PkidBefore, N
  <2>3. (IF p - (L - i) >= 1 THEN p - (L - i) ELSE p - (L - i) + N)
            = IF q - (L + n - i) >= 1 THEN q - (L + n - i) ELSE q - (L + n - i) + N
    <3>1. CASE p + n < N
      BY <1>1, <1>2, <1>5, <3>1
    <3>2. CASE p + n >= N
      BY <1>1, <1>2, <1>5, <3>2
    <3> QED
      BY <1>1, <1>2, <3>1, <3>2
  <2> QED
    BY <2>1, <2>2, <2>3
<1>7. ASSUME NEW j \in 1 .. n PROVE all[L + j].pkid = PkidBefore(q, L + n - (L + j))
  <2> DEFINE a == p + j - 1
  <2>1. a \in Nat /\ a < N + N
    BY <1>1, <1>2, SMTT(40)
  <2>2. a % N = IF a < N THEN a ELSE a - N
    <3> HIDE DEF a
    <3> QED
      BY <1>2, <2>1, ModOnce
  <2>3. all[L + j].pkid = (a % N) + 1
    BY <1>1, <1>3
  <2>4. PkidBefore(q, L + n - (L + j)) = IF q - (L + n - (L + j)) >= 1 THEN q - (L + n - (L + j))
                                         ELSE q - (L + n - (L + j)) + N
    BY DEF PkidBefore, N
  <2>5. (IF a < N THEN a ELSE a - N) + 1
          = IF q - (L + n - (L + j)) >= 1 THEN q - (L + n - (L + j)) ELSE q - (L + n - (L + j)) + N
    <3>1. CASE p + n < N
      BY <1>1, <1>2, <1>5, <3>1
    <3>2. CASE p + n >= N
      BY <1>1, <1>2, <1>5, <3>2
    <3> QED
      BY <1>1, <1>2, <3>1, <3>2
  <2> QED
    BY <2>2, <2>3, <2>4, <2>5
<1>8. \A i \in 1 .. L + n : all[i].pkid = PkidBefore(q, L + n - i)
  <2> SUFFICES ASSUME NEW i \in 1 .. L + n PROVE all[i].pkid = PkidBefore(q, L + n - i)
    OBVIOUS
  <2>1. CASE i <= L
    BY <1>1, <1>6, <2>1
  <2>2. CASE i > L
    <3>1. i - L \in 1 .. n /\ L + (i - L) = i
      BY <1>1, <2>2
    <3> QED
      BY <1>7, <3>1
  <2> QED
    BY <1>1, <2>1, <2>2
<1> QED
  <2> DEFINE in == d.inflight
  <2>1. Len(in) = L + n /\ Len(in) <= N /\ \A i \in 1 .. Len(in) : in[i].pkid = PkidBefore(q, Len(in) - i)
    BY <1>1, <1>2, <1>4, <1>8
  <2> QED
    BY <2>1 DEF Numbered, q, N

\* The oldest message is taken out.
LEMMA NumberedTail ==
    ASSUME NEW c, NEW d, NEW S, c.inflight \in Seq(S), c.inflight # <<>>, Numbered(c),
           d.inflight = Tail(c.inflight), d.pkid = c.pkid
    PROVE  Numbered(d)
<1> DEFINE old == c.inflight
           tl == Tail(old)
           L == Len(old)
<1>1. L \in Nat /\ L > 0 /\ Len(tl) = L - 1 /\ \A i \in 1 .. L - 1 : tl[i] = old[i + 1]
  <2>1. old \in Seq(S) /\ old # <<>>
    OBVIOUS
  <2> HIDE DEF old
  <2> QED
    BY <2>1
<1>2. d.inflight = tl /\ MaxInflight \in Nat
  BY BrokerAssumption
<1>3. L <= MaxInflight /\ \A i \in 1 .. L : old[i].pkid = PkidBefore(c.pkid, L - i)
  BY DEF Numbered
<1> HIDE DEF old, tl, L
<1>4. ASSUME NEW i \in 1 .. L - 1 PROVE tl[i].pkid = PkidBefore(c.pkid, L - 1 - i)
  <2>1. i + 1 \in 1 .. L /\ L - (i + 1) = L - 1 - i
    BY <1>1
  <2> QED
    BY <1>1, <1>3, <2>1
<1> QED
  BY <1>1, <1>2, <1>3, <1>4 DEF Numbered

\* Numbers one after the other differ.
LEMMA NumberedDiffer ==
    ASSUME NEW c, NEW S, c.inflight \in Seq(S), c.pkid \in 0 .. MaxInflight - 1, Numbered(c)
    PROVE  IsInjective([i \in 1 .. Len(c.inflight) |-> c.inflight[i].pkid])
<1> DEFINE N == MaxInflight
           p == c.pkid
           in == c.inflight
           L == Len(in)
           f == [i \in 1 .. L |-> in[i].pkid]
<1>1. N \in Nat \ {0} /\ p \in 0 .. N - 1 /\ L \in Nat /\ L <= N
  BY BrokerAssumption DEF Numbered
<1>2. \A i \in 1 .. L : in[i].pkid = PkidBefore(p, L - i)
  BY DEF Numbered
<1> HIDE DEF N, p, in, L
<1>3. ASSUME NEW i \in 1 .. L, NEW j \in 1 .. L, f[i] = f[j] PROVE i = j
  <2>1. PkidBefore(p, L - i) = PkidBefore(p, L - j)
    BY <1>2, <1>3
  <2>2. /\ PkidBefore(p, L - i) = IF p - (L - i) >= 1 THEN p - (L - i) ELSE p - (L - i) + N
        /\ PkidBefore(p, L - j) = IF p - (L - j) >= 1 THEN p - (L - j) ELSE p - (L - j) + N
    BY DEF PkidBefore, N
  <2> QED
    BY <1>1, <2>1, <2>2
<1>4. \A i, j \in DOMAIN f : f[i] = f[j] => i = j
  BY <1>3
<1> QED
  BY <1>4 DEF IsInjective, in, L

\* With nothing in flight there is nothing to number.
LEMMA FreshNumbered == ASSUME NEW c, c.inflight = <<>> PROVE Numbered(c)
<1>1. Len(<<>>) = 0 /\ MaxInflight \in Nat
  BY BrokerAssumption
<1> QED
  BY <1>1 DEF Numbered

\* Only the messages in flight and the last packet id matter.
LEMMA SameNumbered ==
    ASSUME NEW c, NEW d, Numbered(c), d.inflight = c.inflight, d.pkid = c.pkid
    PROVE  Numbered(d)
BY DEF Numbered

\* One connection is replaced.
LEMMA NumberedPut ==
    ASSUME ConnOK, AllNumbered, NEW l, NEW d, l \in Links => Numbered(d), conn' = [conn EXCEPT ![l] = d]
    PROVE  AllNumbered'
<1>1. \A m \in Links : m # l => conn'[m] = conn[m]
  BY DEF ConnOK
<1>2. l \in Links => conn'[l] = d
  BY DEF ConnOK
<1> QED
  BY <1>1, <1>2 DEF AllNumbered, Numbered

\* Nothing becomes of what is in flight.
InflightSame ==
    \A l \in Links : conn'[l].inflight = conn[l].inflight /\ conn'[l].pkid = conn[l].pkid

\* What leaves both alone keeps the numbers.
LEMMA InflightSameNumbered ==
    ASSUME AllNumbered, InflightSame
    PROVE  AllNumbered'
BY DEF AllNumbered, InflightSame, Numbered

\* Most steps leave what is in flight alone.
LEMMA InflightStays ==
    ASSUME BrokerType,
           \/ \E e : HandleConnect(e) \/ HandleDeviceData(e) \/ HandleReady(e)
           \/ Refuse \/ PollNothing \/ PollStale \/ Drained
           \/ \E p : PublishPacket(p) \/ RecordPacket(p) \/ PubRelPacket(p) \/ SubscribePacket(p)
                     \/ UnsubscribePacket(p) \/ PubCompPacket(p) \/ PingPacket(p) \/ DisconnectPacket(p)
           \/ ForceAcks \/ NotifyWaiter
           \/ Poll \/ RequestInflightFull \/ CaughtUp \/ TurnEnds
           \/ \E l \in Links : LinkStep(l) \/ ClientStep(l) \/ ClientAnswer(l)
           \/ UNCHANGED vars
    PROVE  InflightSame
<1> USE DEF InflightSame
<1>1. \A l \in Links : DOMAIN conn[l] = {"status", "reqs", "subs", "acks", "recorded", "inflight",
                                         "pubrels", "pkid"}
  BY ConnFields DEF BrokerType, ConnOK
<1>2. DOMAIN conn = Links /\ conn = [l \in Links |-> conn[l]]
  BY DEF BrokerType, ConnOK
<1>3. ASSUME NEW e, HandleConnect(e) \/ HandleDeviceData(e) PROVE InflightSame
  BY <1>3 DEF HandleConnect, HandleDeviceData
<1>4. ASSUME NEW e, HandleReady(e) PROVE InflightSame
  <2>1. conn' = conn \/ \E l : conn' = [conn EXCEPT ![l] = Woken(@, "Ready")]
    BY <1>4 DEF HandleReady
  <2> QED
    BY <1>1, <1>2, <2>1 DEF Woken
<1>5. CASE Refuse \/ PollNothing \/ PollStale \/ Drained
  BY <1>5 DEF Refuse, PollNothing, PollStale, Drained
<1>6. ASSUME NEW p, PublishPacket(p) \/ PingPacket(p) PROVE InflightSame
  <2> DEFINE l == task.link
  <2>1. conn' = conn \/ \E a : conn' = [conn EXCEPT ![l].acks = Append(@, a)]
    BY <1>6, Zenon DEF PublishPacket, PingPacket
  <2>2. CASE conn' # conn
    <3>1. PICK a : conn' = [conn EXCEPT ![l].acks = Append(@, a)]
      BY <2>1, <2>2
    <3> DEFINE as == Append(conn[l].acks, a)
    <3>2. conn' = [conn EXCEPT ![l] = [conn[l] EXCEPT !.acks = as]]
      BY <3>1
    <3> HIDE DEF as, l
    <3> QED
      BY <1>1, <1>2, <3>2
  <2> QED
    BY <2>1, <2>2
<1>7. ASSUME NEW p, RecordPacket(p) PROVE InflightSame
  <2> DEFINE l == task.link
             a == Ack("PubRec", p.m)
  <2>1. conn' = [conn EXCEPT ![l].acks = Append(@, a), ![l].recorded = Append(@, p)]
    BY <1>7 DEF RecordPacket
  <2> HIDE DEF l, a
  <2>2. ASSUME NEW m \in Links
        PROVE  conn'[m].inflight = conn[m].inflight /\ conn'[m].pkid = conn[m].pkid
    BY <1>1, <1>2, <2>1
  <2> QED
    BY <2>2
<1>8. ASSUME NEW p, PubRelPacket(p) PROVE InflightSame
  <2> DEFINE l == task.link
             c == conn[l]
             a == Append(c.acks, Ack("PubComp", p.pkid))
             r == Tail(c.recorded)
             d == [c EXCEPT !.acks = a, !.recorded = r]
  <2>1. conn' = [conn EXCEPT ![l].acks = a] \/ conn' = [conn EXCEPT ![l] = Woken(d, "IncomingAck")]
    BY <1>8 DEF PubRelPacket
  <2> HIDE DEF a, r, l
  <2>2. CASE conn' = [conn EXCEPT ![l].acks = a]
    BY <1>1, <1>2, <2>2
  <2>3. CASE conn' = [conn EXCEPT ![l] = Woken(d, "IncomingAck")]
    <3>1. ASSUME l \in Links PROVE /\ Woken(d, "IncomingAck").inflight = c.inflight
                                   /\ Woken(d, "IncomingAck").pkid = c.pkid
      BY <1>1, <3>1 DEF Woken
    <3> DEFINE w == Woken(d, "IncomingAck")
    <3> HIDE DEF w
    <3> QED
      BY <1>2, <2>3, <3>1 DEF w
  <2> QED
    BY <2>1, <2>2, <2>3
<1>9. ASSUME NEW p, SubscribePacket(p) PROVE InflightSame
  <2> DEFINE l == task.link
             c0 == conn[l]
             fresh == p.filter \notin c0.subs
             a == Append(c0.acks, Ack("SubAck", 0))
             s == c0.subs \cup {p.filter}
             r == IF fresh THEN Append(c0.reqs, Request(p.filter, p.qos, NextOffset(data[p.filter].log)))
                  ELSE c0.reqs
             c == [c0 EXCEPT !.acks = a, !.subs = s, !.reqs = r]
             d == IF fresh THEN Woken(c, "NewFilter") ELSE c
  <2>1. conn' = [conn EXCEPT ![l] = d]
    BY <1>9 DEF SubscribePacket
  <2> HIDE DEF a, s, r, fresh, l
  <2>2. ASSUME l \in Links PROVE d.inflight = c0.inflight /\ d.pkid = c0.pkid
    BY <1>1, <2>2 DEF Woken
  <2> HIDE DEF d
  <2> QED
    BY <1>2, <2>1, <2>2
<1>10. ASSUME NEW p, UnsubscribePacket(p) PROVE InflightSame
  <2> DEFINE l == task.link
             a == Ack("UnsubAck", 0)
             f == p.filter
  <2>1. conn' = conn \/ conn' = [conn EXCEPT ![l].subs = @ \ {f}, ![l].reqs = NotOnFilter(@, f),
                                             ![l].acks = Append(@, a)]
    BY <1>10 DEF UnsubscribePacket
  <2> HIDE DEF l, a, f
  <2> DEFINE d == [conn[l] EXCEPT !.subs = @ \ {f}, !.reqs = NotOnFilter(@, f),
                                  !.acks = Append(@, a)]
  <2>2. ASSUME l \in Links PROVE d.inflight = conn[l].inflight /\ d.pkid = conn[l].pkid
    BY <1>1, <2>2
  <2>3. CASE l \in Links /\ conn' # conn
    <3>1. conn' = [conn EXCEPT ![l] = d]
      BY <1>1, <1>2, <2>1, <2>3
    <3> HIDE DEF d
    <3> QED
      BY <1>2, <2>2, <2>3, <3>1
  <2>4. CASE l \notin Links /\ conn' # conn
    <3>1. \A m \in Links : conn'[m] = conn[m]
      BY <1>2, <2>1, <2>4
    <3> QED
      BY <3>1
  <2> QED
    BY <2>3, <2>4
<1>11. ASSUME NEW p, PubCompPacket(p) \/ DisconnectPacket(p) PROVE InflightSame
  <2>1. conn' = conn \/ \E l, a : conn' = [conn EXCEPT ![l].pubrels = a]
    BY <1>11, Zenon DEF PubCompPacket, DisconnectPacket
  <2> QED
    BY <1>1, <1>2, <2>1
<1>12. CASE ForceAcks
  <2>1. conn' = conn \/ \E l : conn' = [conn EXCEPT ![l] = Woken(@, "FreshData")]
    BY <1>12 DEF ForceAcks
  <2> QED
    BY <1>1, <1>2, <2>1 DEF Woken
<1>13. CASE NotifyWaiter
  <2> DEFINE l == slab[Head(task.notes).id]
             a == Append(conn[l].reqs, Head(task.notes).req)
             d == Woken([conn[l] EXCEPT !.reqs = a], "FreshData")
  <2>1. conn' = [conn EXCEPT ![l] = d]
    BY <1>13 DEF NotifyWaiter
  <2> HIDE DEF a, l
  <2>2. ASSUME l \in Links PROVE d.inflight = conn[l].inflight /\ d.pkid = conn[l].pkid
    BY <1>1, <2>2 DEF Woken
  <2> HIDE DEF d
  <2> QED
    BY <1>2, <2>1, <2>2
<1>14. CASE Poll
  <2>1. \E l : conn' = [conn EXCEPT ![l].acks = <<>>, ![l].reqs = <<>>]
    BY <1>14 DEF Poll
  <2> QED
    BY <1>1, <1>2, <2>1
<1>15. CASE RequestInflightFull \/ CaughtUp
  <2> DEFINE l == task.link
             r == conn[l].reqs \o Tail(task.reqs) \o <<Head(task.reqs)>>
             d == [[conn[l] EXCEPT !.reqs = r] EXCEPT !.status = "InflightFull"]
             e == [conn[l] EXCEPT !.status = "Caughtup"]
  <2>1. conn' = [conn EXCEPT ![l] = d] \/ conn' = [conn EXCEPT ![l] = e]
    BY <1>15 DEF RequestInflightFull, CaughtUp, Paused
  <2> HIDE DEF r, l
  <2>2. ASSUME l \in Links
        PROVE  /\ d.inflight = conn[l].inflight /\ d.pkid = conn[l].pkid
               /\ e.inflight = conn[l].inflight /\ e.pkid = conn[l].pkid
    BY <1>1, <2>2
  <2> HIDE DEF d, e
  <2> QED
    BY <1>2, <2>1, <2>2
<1>16. CASE TurnEnds
  <2>1. \E l, a : conn' = [conn EXCEPT ![l].reqs = a]
    BY <1>16, Zenon DEF TurnEnds
  <2> QED
    BY <1>1, <1>2, <2>1
<1>17. CASE \E l \in Links : LinkStep(l) \/ ClientStep(l) \/ ClientAnswer(l)
  <2>1. NoRouter
    BY <1>17 DEF LinkStep, ClientStep, ClientAnswer, Dial, Established, Refused, Exchange, Wake,
              Dropped, Fail, GreetFails, ClientPublish, ClientControl, Read
  <2> QED
    BY <2>1 DEF NoRouter, routerVars
<1>18. CASE UNCHANGED vars
  BY <1>18 DEF vars, routerVars
<1> QED
  BY <1>3, <1>4, <1>5, <1>6, <1>7, <1>8, <1>9, <1>10, <1>11, <1>12, <1>13, <1>14, <1>15, <1>16,
     <1>17, <1>18

\* Every step of the broker keeps the numbers of what is in flight.
LEMMA NumberedKeeps ==
    ASSUME BrokerType, AllNumbered, [Next]_vars
    PROVE  AllNumbered'
<1>1. ConnOK /\ conn \in [Links -> ConnectionsIn(data)]
  BY DEF BrokerType, ConnOK
<1>2. ASSUME NEW id, Disconnection(id) PROVE AllNumbered'
  <2>1. conn' = [conn EXCEPT ![slab[id]] = Fresh]
    BY <1>2 DEF Disconnection
  <2>2. Numbered(Fresh)
    <3>1. Fresh.inflight = <<>>
      BY DEF Fresh
    <3> QED
      BY <3>1, FreshNumbered
  <2> HIDE DEF Fresh
  <2> QED
    BY <1>1, <2>1, <2>2, NumberedPut
<1>3. ASSUME UNCHANGED conn PROVE AllNumbered'
  BY <1>3 DEF AllNumbered, Numbered
<1>4. CASE chan # <<>> /\ HandleEvent(Head(chan))
  <2>1. CASE HandleDisconnect(Head(chan))
    BY <1>2, <1>3, <2>1 DEF HandleDisconnect
  <2>2. CASE ~HandleDisconnect(Head(chan))
    BY <1>4, <2>2, InflightStays, InflightSameNumbered DEF HandleEvent
  <2> QED
    BY <2>1, <2>2
<1>5. CASE \E id \in Ids : DropDuplicate(id)
  BY <1>2, <1>5 DEF DropDuplicate
<1>6. CASE Admit
  <2> DEFINE l == task.link
             saved == IF grave[ClientOf[l]] = None \/ l \in Clean THEN NoSession ELSE grave[ClientOf[l]]
             acks == <<Ack("ConnAck", Head(free))>> \o
                        [i \in 1 .. Len(saved.pubrels) |-> Ack("PubRel", saved.pubrels[i])]
             d == [Fresh EXCEPT !.status = "Ready", !.reqs = saved.reqs, !.subs = saved.subs,
                                !.pubrels = saved.pubrels, !.acks = acks]
  <2>1. conn' = [conn EXCEPT ![l] = d]
    BY <1>6, Zenon DEF Admit
  <2> HIDE DEF acks, saved
  <2>2. d.inflight = <<>>
    BY DEF Fresh
  <2>3. Numbered(d)
    BY <2>2, FreshNumbered
  <2> HIDE DEF d, l
  <2> QED
    BY <1>1, <2>1, <2>3, NumberedPut
<1>7. ASSUME NEW p, AckPacket(p) PROVE AllNumbered'
  <2> DEFINE l == task.link
             c == conn[l]
             rest == [c EXCEPT !.inflight = Tail(@)]
             acked == IF p.k = "PubAck" THEN rest
                      ELSE [rest EXCEPT !.pubrels = Append(@, p.pkid),
                                        !.acks = Append(@, Ack("PubRel", p.pkid))]
  <2>1. l \in Links /\ c \in ConnectionsIn(data)
    <3>1. Packet(p, {"PubAck", "PubRec"})
      BY <1>7 DEF AckPacket
    <3> QED
      BY <3>1, PacketOn
  <2>2. Numbered(c)
    BY <2>1 DEF AllNumbered
  <2>3. c.inflight \in Seq(InflightsIn(data))
    BY <2>1, ConnFields
  <2>4. CASE c.inflight # <<>> /\ Head(c.inflight).pkid = p.pkid
    <3> DEFINE d == Woken(acked, "IncomingAck")
    <3>1. conn' = [conn EXCEPT ![l] = d]
      BY <1>7, <2>4 DEF AckPacket
    <3>2. d.inflight = Tail(c.inflight) /\ d.pkid = c.pkid
      <4>1. acked.inflight = Tail(c.inflight) /\ acked.pkid = c.pkid
            /\ DOMAIN acked = {"status", "reqs", "subs", "acks", "recorded", "inflight", "pubrels", "pkid"}
        <5> HIDE DEF c
        <5> QED
          BY <2>1, ConnFields
      <4> HIDE DEF acked
      <4> QED
        BY <4>1 DEF Woken
    <3> HIDE DEF d, l, c
    <3>3. Numbered(d)
      BY <2>2, <2>3, <2>4, <3>2, NumberedTail
    <3> QED
      BY <1>1, <3>1, <3>3, NumberedPut
  <2>5. CASE c.inflight # <<>> /\ Head(c.inflight).pkid # p.pkid
    <3>1. conn' = [conn EXCEPT ![l] = rest]
      BY <1>7, <2>5 DEF AckPacket
    <3>2. rest.inflight = Tail(c.inflight) /\ rest.pkid = c.pkid
      <4> HIDE DEF c
      <4> QED
        BY <2>1, ConnFields
    <3> HIDE DEF rest, l, c
    <3>3. Numbered(rest)
      BY <2>2, <2>3, <2>5, <3>2, NumberedTail
    <3> QED
      BY <1>1, <3>1, <3>3, NumberedPut
  <2>6. CASE c.inflight = <<>>
    <3>1. conn' = conn
      BY <1>7, <2>6 DEF AckPacket
    <3> QED
      BY <1>3, <3>1
  <2> QED
    BY <2>4, <2>5, <2>6
<1>8. CASE task.cache # <<>> /\ HandlePacket(Head(task.cache))
  <2>1. CASE AckPacket(Head(task.cache))
    BY <1>7, <2>1
  <2>2. CASE ~AckPacket(Head(task.cache))
    BY <1>8, <2>2, InflightStays, InflightSameNumbered DEF HandlePacket
  <2> QED
    BY <2>1, <2>2
<1>9. CASE EndPayload
  BY <1>2, <1>3, <1>9 DEF EndPayload
<1>10. CASE ServeRequest
  <2>1. PICK order, read : ServeOK(order, read) /\ Serve(order, read)
    BY <1>10, ServeRequestOK
  <2>2. task.step = "requests" /\ task.left > 0 /\ task.reqs # <<>>
    BY <1>10 DEF ServeRequest
  <2> DEFINE l == task.link
             c == conn[l]
             req == Head(task.reqs)
             ms == Sending(order, read)
             fs == Forwards(req, ms)
             more == [i \in 1 .. Len(fs) |-> [pkid |-> fs[i].pkid, f |-> req.f, at |-> fs[i].at]]
             d == Inflight(c, req, fs)
  <2>3. l \in Links /\ req \in RequestsIn(data) /\ c \in ConnectionsIn(data)
    BY <2>2, ServingFacts
  <2>4. ms \in Seq(Sendable(req.f)) /\ Len(ms) = Len(order) + Len(read.out)
    BY <2>1, SendingType
  <2>5. /\ Len(fs) = Len(ms) /\ more \in Seq(InflightsIn(data)) /\ Len(more) = Len(ms)
        /\ \A i \in 1 .. Len(ms) : more[i].pkid = IF req.qos = 0 THEN 0 ELSE NextPkid(c.pkid, i)
    <3>1. /\ Len(fs) = Len(ms) /\ more \in Seq(InflightsIn(data)) /\ Len(more) = Len(ms)
          /\ \A i \in 1 .. Len(ms) :
                /\ fs[i].pkid = IF req.qos = 0 THEN 0 ELSE NextPkid(c.pkid, i)
                /\ more[i] = [pkid |-> fs[i].pkid, f |-> req.f, at |-> fs[i].at]
      BY <2>2, <2>3, <2>4, ForwardsType
    <3>2. ASSUME NEW i \in 1 .. Len(ms)
          PROVE  more[i].pkid = IF req.qos = 0 THEN 0 ELSE NextPkid(c.pkid, i)
      <4>1. /\ fs[i].pkid = IF req.qos = 0 THEN 0 ELSE NextPkid(c.pkid, i)
            /\ more[i] = [pkid |-> fs[i].pkid, f |-> req.f, at |-> fs[i].at]
        BY <3>1
      <4> DEFINE a == more[i]
                 b == fs[i]
                 n == NextPkid(c.pkid, i)
                 q == req.qos
                 h == req.f
      <4>2. b.pkid = (IF q = 0 THEN 0 ELSE n) /\ a = [pkid |-> b.pkid, f |-> h, at |-> b.at]
        BY <4>1
      <4> HIDE DEF a, b, n, q, h
      <4>3. a.pkid = IF q = 0 THEN 0 ELSE n
        BY <4>2
      <4> QED
        BY <4>3 DEF a, b, n, q, h
    <3> HIDE DEF fs, more, ms, c, req
    <3> QED
      BY <3>1, <3>2
  <2>6. /\ d \in ConnectionsIn(data) /\ (req.qos = 0 => d = c)
        /\ (req.qos # 0 => d.inflight = c.inflight \o more /\ d.pkid = (c.pkid + Len(ms)) % MaxInflight)
    BY <2>2, <2>3, <2>4, InflightType
  <2>7. Numbered(c) /\ c.inflight \in Seq(InflightsIn(data)) /\ c.pkid \in 0 .. MaxInflight - 1
    BY <2>3, ConnFields DEF AllNumbered
  <2>8. Len(ms) <= Slots(req)
    BY <2>1, <2>4 DEF ServeOK
  <2>9. req.qos # 0 => Len(c.inflight) + Len(ms) <= MaxInflight
    <3>1. Len(c.inflight) \in Nat /\ Len(ms) \in Nat /\ MaxInflight \in Nat
      <4>1. Len(ms) \in Nat /\ Len(c.inflight) \in Nat
        <5> DEFINE S == Sendable(req.f)
                   I == InflightsIn(data)
        <5>1. ms \in Seq(S) /\ c.inflight \in Seq(I)
          BY <2>4, <2>7
        <5> HIDE DEF S, I, ms, c
        <5> QED
          BY <5>1
      <4> QED
        BY <4>1, BrokerAssumption
    <3>2. req.qos # 0 => Slots(req) = MaxInflight - Len(c.inflight)
      BY DEF Slots
    <3> HIDE DEF ms, c, req, l
    <3> QED
      BY <2>8, <3>1, <3>2
  <2>10. Numbered(d)
    <3>1. CASE req.qos = 0
      <4>1. d = c
        BY <2>6, <3>1
      <4> HIDE DEF d, c
      <4> QED
        BY <2>7, <4>1
    <3>2. CASE req.qos # 0
      <4>1. /\ d.inflight = c.inflight \o more /\ d.pkid = (c.pkid + Len(more)) % MaxInflight
            /\ Len(c.inflight) + Len(more) <= MaxInflight
            /\ \A i \in 1 .. Len(more) : more[i].pkid = NextPkid(c.pkid, i)
        BY <2>5, <2>6, <2>9, <3>2
      <4>2. more \in Seq(InflightsIn(data))
        BY <2>5
      <4> HIDE DEF d, c, more
      <4> QED
        BY <2>7, <4>1, <4>2, NumberedMore
    <3> QED
      BY <3>1, <3>2
  <2>11. conn' = [conn EXCEPT ![l] = d] \/ \E x : conn' = [conn EXCEPT ![l] =
                                              [[d EXCEPT !.reqs = x] EXCEPT !.status = "Busy"]]
    <3>1. TurnBusy(order, read) \/ TurnParks(order, read) \/ TurnAgain(order, read)
      BY <2>1, ServeParts
    <3> QED
      BY <3>1, Zenon DEF TurnBusy, TurnParks, TurnAgain, TurnLeaves, TurnOut, Paused
  <2> HIDE DEF d
  <2>12. CASE conn' = [conn EXCEPT ![l] = d]
    <3> HIDE DEF l
    <3> QED
      BY <1>1, <2>10, <2>12, NumberedPut
  <2>13. ASSUME NEW x, conn' = [conn EXCEPT ![l] = [[d EXCEPT !.reqs = x] EXCEPT !.status = "Busy"]]
         PROVE  AllNumbered'
    <3> DEFINE e == [[d EXCEPT !.reqs = x] EXCEPT !.status = "Busy"]
    <3>1. e.inflight = d.inflight /\ e.pkid = d.pkid
      BY <2>6, ConnFields
    <3> HIDE DEF e
    <3>2. Numbered(e)
      BY <2>10, <3>1, SameNumbered
    <3>3. conn' = [conn EXCEPT ![l] = e]
      BY <2>13 DEF e
    <3> HIDE DEF l
    <3> QED
      BY <1>1, <3>2, <3>3, NumberedPut
  <2> QED
    BY <2>11, <2>12, <2>13
<1> QED
  BY <1>4, <1>5, <1>6, <1>8, <1>9, <1>10, InflightStays, InflightSameNumbered DEF Next, RouterStep

\* Nothing is in flight at the start.
LEMMA NumberedInit == Init => AllNumbered
<1> SUFFICES ASSUME Init, NEW l \in Links PROVE Numbered(conn[l])
  BY DEF AllNumbered
<1>1. conn[l].inflight = <<>>
  BY DEF Init, Fresh
<1> QED
  BY <1>1, FreshNumbered

\* Numbers in a row, fewer than there are ids, do not meet.
LEMMA NumberedFollows == BrokerType /\ AllNumbered => InflightDistinct
<1> SUFFICES ASSUME BrokerType, AllNumbered, NEW l \in Links
             PROVE  /\ Len(conn[l].inflight) <= MaxInflight
                    /\ IsInjective([i \in 1 .. Len(conn[l].inflight) |-> conn[l].inflight[i].pkid])
  BY DEF InflightDistinct
<1> DEFINE c == conn[l]
<1>1. c.inflight \in Seq(InflightsIn(data)) /\ c.pkid \in 0 .. MaxInflight - 1 /\ Numbered(c)
  BY ConnFields DEF BrokerType, ConnOK, AllNumbered
<1> HIDE DEF c
<1>2. Len(c.inflight) <= MaxInflight
      /\ IsInjective([i \in 1 .. Len(c.inflight) |-> c.inflight[i].pkid])
  BY <1>1, NumberedDiffer DEF Numbered
<1> QED
  BY <1>2 DEF c

\* Messages in flight never share a packet id, and are never too many.
THEOREM InflightCorrect == Spec => []InflightDistinct
<1>1. Init => AllNumbered
  BY NumberedInit
<1>2. BrokerType /\ AllNumbered /\ [Next]_vars => AllNumbered'
  BY NumberedKeeps
<1> QED
  BY <1>1, <1>2, BrokerTypeInvariant, NumberedFollows, PTL DEF Spec

-----------------------------------------------------------------------------
(* What packets make of their connection *)

\* What the handling of a packet p makes of its connection: d.
Effect(p, d) ==
    LET c == conn[task.link]
    IN  /\ conn' = [conn EXCEPT ![task.link] = d]
        /\ \/ ready' = ready /\ d.status = c.status
           \/ ready' = Append(ready, task.id) /\ d.status = "Ready"
        /\ AcksKeep(c, d)
        /\ p.k \notin {"Subscribe", "Unsubscribe"} => d.reqs = c.reqs /\ d.subs = c.subs
        /\ d.status = "Caughtup" /\ c.reqs = <<>> => d.reqs = <<>>
        /\ d.status = "Caughtup" => d.acks = c.acks \/ task'.force \/ task'.bad
        /\ d.status = "InflightFull" => d.inflight = c.inflight \/ task'.bad
        /\ task'.step = "packets" /\ task'.link = task.link /\ task'.id = task.id
        /\ task.force => task'.force \/ task'.bad

\* try_ready and the ready queue agree.
LEMMA QueuedStatus ==
    ASSUME NEW e, NEW c \in ConnectionsIn(e), NEW b, b.status = c.status, NEW q, NEW id, NEW reason
    PROVE  /\ \/ Queued(q, id, b, reason) = q /\ Woken(c, reason).status = c.status
              \/ Queued(q, id, b, reason) = Append(q, id) /\ Woken(c, reason).status = "Ready"
           /\ reason \in {"NewFilter", "FreshData", "IncomingAck"} => Woken(c, reason).status # "Caughtup"
           /\ reason = "IncomingAck" => Woken(c, reason).status # "InflightFull"
<1>1. Woken(c, reason).status = IF Wakes(c.status, reason) THEN "Ready" ELSE c.status
  BY WokenFacts
<1> DEFINE w == Woken(c, reason).status
<1> HIDE DEF w
<1>2. w = IF Wakes(c.status, reason) THEN "Ready" ELSE c.status
  BY <1>1 DEF w
<1>3. \/ Queued(q, id, b, reason) = q /\ w = c.status
      \/ Queued(q, id, b, reason) = Append(q, id) /\ w = "Ready"
  BY <1>2 DEF Queued
<1>4. /\ reason \in {"NewFilter", "FreshData", "IncomingAck"} => w # "Caughtup"
      /\ reason = "IncomingAck" => w # "InflightFull"
  BY <1>2 DEF Wakes
<1> QED
  BY <1>3, <1>4 DEF w

\* Acknowledgements are added, or not.
LEMMA AcksKeepFacts ==
    ASSUME NEW e, NEW c \in ConnectionsIn(e), NEW d, NEW a \in Acks,
           d.acks = c.acks \/ d.acks = Append(c.acks, a)
    PROVE  AcksKeep(c, d)
<1> DEFINE old == c.acks
<1>1. old \in Seq(Acks)
  BY ConnFields
<1> HIDE DEF old
<1>2. old # <<>> => Append(old, a) # <<>> /\ Head(Append(old, a)) = Head(old)
  BY <1>1
<1>3. d.acks = old \/ d.acks = Append(old, a)
  BY DEF old
<1> QED
  BY <1>2, <1>3 DEF AcksKeep, old

\* The task, one packet on.
LEMMA TakenFacts ==
    ASSUME BrokerType
    PROVE  /\ Taken.force = task.force /\ Taken.bad = task.bad /\ Taken.step = task.step
           /\ Taken.link = task.link /\ Taken.id = task.id
           /\ TakenForced.force = TRUE /\ TakenForced.bad = task.bad /\ TakenForced.step = task.step
           /\ TakenForced.link = task.link /\ TakenForced.id = task.id
           /\ TakenBad.bad = TRUE /\ TakenBad.step = task.step
           /\ TakenBad.link = task.link /\ TakenBad.id = task.id
<1>1. DOMAIN task = {"step", "id", "link", "cache", "force", "new", "bad", "notes", "reqs", "left"}
  BY TaskFields DEF BrokerType, TaskOK
<1>2. /\ Taken.force = task.force /\ Taken.bad = task.bad /\ Taken.step = task.step
      /\ Taken.link = task.link /\ Taken.id = task.id
  BY <1>1 DEF Taken
<1>3. /\ TakenForced.force = TRUE /\ TakenForced.bad = task.bad /\ TakenForced.step = task.step
      /\ TakenForced.link = task.link /\ TakenForced.id = task.id
  BY <1>1 DEF TakenForced
<1>4. /\ TakenBad.bad = TRUE /\ TakenBad.step = task.step
      /\ TakenBad.link = task.link /\ TakenBad.id = task.id
  BY <1>1 DEF TakenBad
<1> QED
  BY <1>2, <1>3, <1>4

\* append_to_commitlog does not decide what becomes of the batch.
LEMMA AppendedTask ==
    ASSUME NEW next \in TasksIn(data), NEW m, NEW t, AppendToLog(m, t, next)
    PROVE  /\ task'.force = next.force /\ task'.bad = next.bad /\ task'.step = next.step
           /\ task'.link = next.link /\ task'.id = next.id
<1>1. DOMAIN next = {"step", "id", "link", "cache", "force", "new", "bad", "notes", "reqs", "left"}
  BY TaskFields
<1> DEFINE ns == next.notes \o WaitersOf(SetToSeq(Routed(t)))
<1>2. task' = [next EXCEPT !.new = TRUE, !.notes = ns]
  BY DEF AppendToLog
<1> HIDE DEF ns
<1> QED
  BY <1>1, <1>2

\* Packet::Publish of quality of service 0 or 1 leaves the connection as it
\* is, but for its PubAck.
LEMMA PublishEffect ==
    ASSUME BrokerType, NEW p, PublishPacket(p)
    PROVE  \E d \in ConnectionsIn(data) : Effect(p, d)
<1> DEFINE next == IF p.qos = 1 THEN TakenForced ELSE Taken
           c == conn[task.link]
           a == Ack("PubAck", p.m)
           d == [c EXCEPT !.acks = Append(@, a)]
<1>1. /\ Packet(p, {"Publish"}) /\ UNCHANGED ready
      /\ conn' = IF p.qos = 1 THEN [conn EXCEPT ![task.link].acks = Append(@, a)] ELSE conn
      /\ AppendToLog(p.m, p.topic, next)
  BY DEF PublishPacket
<1>2. /\ p \in Packets /\ p.k \in {"Publish"} /\ task.link \in Links /\ task.step = "packets"
      /\ Onward(Taken) /\ Onward(TakenForced) /\ c \in ConnectionsIn(data) /\ ~task.bad
  BY <1>1, PacketOn
<1>3. p \in Publishes
  BY <1>2 DEF Packets, Replies, ControlPackets
<1>4. a \in Acks
  BY <1>3, BrokerAssumption DEF Publishes, Messages, Ack, Acks
<1>5. next \in TasksIn(data) /\ next.step = "packets" /\ next.link = task.link /\ next.id = task.id
      /\ (task.force => next.force) /\ (p.qos = 1 => next.force)
  BY <1>2, TakenFacts DEF Onward
<1> HIDE DEF next, a
<1>6. /\ task'.force = next.force /\ task'.step = next.step /\ task'.link = next.link /\ task'.id = next.id
  BY <1>1, <1>5, AppendedTask
<1>7. conn \in [Links -> ConnectionsIn(data)]
  BY DEF BrokerType, ConnOK
<1>8. CASE p.qos = 1
  <2>1. conn' = [conn EXCEPT ![task.link] = d]
    BY <1>1, <1>2, <1>7, <1>8
  <2>2. d \in ConnectionsIn(data) /\ AcksKeep(c, d)
    BY <1>2, <1>4, Acknowledges
  <2>3. d.status = c.status /\ d.reqs = c.reqs /\ d.subs = c.subs /\ d.inflight = c.inflight
    BY <1>2, ConnFields
  <2> HIDE DEF d
  <2>4. Effect(p, d)
    BY <1>1, <1>2, <1>5, <1>6, <1>8, <2>1, <2>2, <2>3 DEF Effect
  <2> QED
    BY <2>2, <2>4
<1>9. CASE p.qos # 1
  <2>1. conn' = [conn EXCEPT ![task.link] = c]
    BY <1>1, <1>2, <1>7, <1>9
  <2> HIDE DEF d
  <2>2. Effect(p, c)
    BY <1>1, <1>2, <1>5, <1>6, <2>1 DEF Effect, AcksKeep
  <2> QED
    BY <1>2, <2>2
<1> QED
  BY <1>8, <1>9

\* Packet::Publish of quality of service 2 forces its PubRec out.
LEMMA RecordEffect ==
    ASSUME BrokerType, NEW p, RecordPacket(p)
    PROVE  \E d \in ConnectionsIn(data) : Effect(p, d)
<1> DEFINE c == conn[task.link]
           a == Ack("PubRec", p.m)
           d == [c EXCEPT !.acks = Append(@, a)]
           rec == Append(d.recorded, p)
           e == [d EXCEPT !.recorded = rec]
<1>1. /\ Packet(p, {"Publish"}) /\ UNCHANGED ready
      /\ conn' = [conn EXCEPT ![task.link].acks = Append(@, a),
                              ![task.link].recorded = Append(@, p)]
      /\ task' = TakenForced
  BY DEF RecordPacket
<1>2. /\ p \in Packets /\ p.k \in {"Publish"} /\ task.link \in Links /\ task.step = "packets"
      /\ c \in ConnectionsIn(data) /\ ~task.bad
  BY <1>1, PacketOn
<1>3. p \in Publishes
  BY <1>2 DEF Packets, Replies, ControlPackets
<1>4. a \in Acks
  BY <1>3, BrokerAssumption DEF Ack, Acks, Publishes, Messages
<1> HIDE DEF a
<1>5. d \in ConnectionsIn(data) /\ AcksKeep(c, d)
  BY <1>2, <1>4, Acknowledges
<1>6. conn' = [conn EXCEPT ![task.link] = e]
  BY <1>1, <1>2, ConnFields, ZenonT(40) DEF BrokerType, ConnOK
<1>7. d.status = c.status /\ d.reqs = c.reqs /\ d.subs = c.subs /\ d.inflight = c.inflight
  BY <1>2, ConnFields
<1> HIDE DEF d
<1>8. rec \in Seq(Publishes)
  <2>1. d.recorded \in Seq(Publishes)
    BY <1>5, ConnFields
  <2> QED
    BY <1>3, <2>1
<1> HIDE DEF rec
<1>9. /\ e \in ConnectionsIn(data) /\ e.acks = d.acks
      /\ e.status = d.status /\ e.reqs = d.reqs /\ e.subs = d.subs /\ e.inflight = d.inflight
  BY <1>5, <1>8, ConnEdits, ConnFields
<1> HIDE DEF e
<1>10. Effect(p, e)
  BY <1>1, <1>2, <1>5, <1>6, <1>7, <1>9, TakenFacts DEF Effect, AcksKeep
<1> QED
  BY <1>9, <1>10

\* Packet::PubRel wakes the connection, or ends it.
LEMMA PubRelEffect ==
    ASSUME BrokerType, NEW p, PubRelPacket(p)
    PROVE  \E d \in ConnectionsIn(data) : Effect(p, d)
<1> DEFINE c == conn[task.link]
           a == Ack("PubComp", p.pkid)
           d == [c EXCEPT !.acks = Append(@, a)]
<1>1. Packet(p, {"PubRel"})
  BY DEF PubRelPacket
<1>2. /\ p \in Packets /\ p.k \in {"PubRel"} /\ task.link \in Links /\ task.step = "packets"
      /\ Onward(Taken) /\ Onward(TakenBad) /\ c \in ConnectionsIn(data) /\ task.id \in Ids /\ ~task.bad
  BY <1>1, PacketOn
<1>3. p \in Replies
  BY <1>2 DEF Packets, Publishes, ControlPackets
<1>4. a \in Acks
  BY <1>3 DEF Ack, Acks, Replies
<1> HIDE DEF a
<1>5. /\ d \in ConnectionsIn(data) /\ AcksKeep(c, d) /\ d.recorded = c.recorded
      /\ d.status = c.status /\ d.reqs = c.reqs /\ d.subs = c.subs /\ d.inflight = c.inflight
  <2>1. d \in ConnectionsIn(data) /\ AcksKeep(c, d)
    BY <1>2, <1>4, Acknowledges
  <2> QED
    BY <1>2, <2>1, ConnFields
<1>6. CASE c.recorded = <<>>
  <2>1. /\ conn' = [conn EXCEPT ![task.link].acks = Append(@, a)]
        /\ task' = TakenBad /\ UNCHANGED <<data, routes, retain, ready>>
    BY <1>6 DEF PubRelPacket, a
  <2>2. conn' = [conn EXCEPT ![task.link] = d]
    BY <1>2, <2>1
  <2> HIDE DEF d
  <2>3. Effect(p, d)
    BY <1>2, <1>5, <2>1, <2>2, TakenFacts DEF Effect
  <2> QED
    BY <1>5, <2>3
<1>7. CASE c.recorded # <<>>
  <2> DEFINE rec == Tail(c.recorded)
             e == [d EXCEPT !.recorded = rec]
             g == Woken(e, "IncomingAck")
             h == Head(c.recorded)
  <2>1. /\ conn' = [conn EXCEPT ![task.link] =
                              Woken([c EXCEPT !.acks = Append(@, Ack("PubComp", p.pkid)),
                                              !.recorded = Tail(@)], "IncomingAck")]
        /\ ready' = Queued(ready, task.id, c, "IncomingAck")
        /\ AppendToLog(h.m, h.topic, Taken)
    BY <1>7 DEF PubRelPacket
  <2>2. conn' = [conn EXCEPT ![task.link] = g]
    <3>1. [c EXCEPT !.acks = Append(@, Ack("PubComp", p.pkid)), !.recorded = Tail(@)] = e
      BY <1>2, ConnFields DEF a
    <3>2. conn' = [conn EXCEPT ![task.link] = Woken([c EXCEPT !.acks = Append(@, Ack("PubComp", p.pkid)),
                                              !.recorded = Tail(@)], "IncomingAck")]
      BY <2>1
    <3> QED
      BY <3>1, <3>2
  <2>3. c.recorded \in Seq(Publishes)
    BY <1>2, ConnFields
  <2>4. rec \in Seq(Publishes)
    BY <1>7, <2>3
  <2> HIDE DEF rec, d, h
  <2>5. /\ e \in ConnectionsIn(data) /\ e.acks = d.acks
        /\ e.status = d.status /\ e.reqs = d.reqs /\ e.subs = d.subs /\ e.inflight = d.inflight
    BY <1>5, <2>4, ConnEdits, ConnFields
  <2> HIDE DEF e
  <2>6. /\ g \in ConnectionsIn(data) /\ g.acks = e.acks
        /\ g.reqs = e.reqs /\ g.subs = e.subs /\ g.inflight = e.inflight
    BY <2>5, WokenFacts
  <2>7. /\ \/ Queued(ready, task.id, c, "IncomingAck") = ready /\ g.status = e.status
           \/ Queued(ready, task.id, c, "IncomingAck") = Append(ready, task.id) /\ g.status = "Ready"
        /\ g.status # "Caughtup" /\ g.status # "InflightFull"
    <3>1. c.status = e.status
      BY <1>5, <2>5
    <3> HIDE DEF c
    <3> QED
      BY <2>5, <3>1, QueuedStatus
  <2> HIDE DEF g
  <2>8. AcksKeep(c, g)
    BY <1>5, <2>5, <2>6 DEF AcksKeep
  <2> HIDE DEF c
  <2>9. task'.force = Taken.force /\ task'.step = Taken.step /\ task'.link = Taken.link /\ task'.id = Taken.id
    BY <1>2, <2>1, AppendedTask DEF Onward
  <2>10. conn[task.link] = c
    BY DEF c
  <2>11. Effect(p, g)
    BY <1>2, <1>5, <2>1, <2>2, <2>5, <2>6, <2>7, <2>8, <2>9, <2>10, TakenFacts, ZenonT(40) DEF
              Effect
  <2> QED
    BY <2>6, <2>11
<1> QED
  BY <1>6, <1>7

\* Packet::Subscribe: a new request wakes the connection.
LEMMA SubscribeEffect ==
    ASSUME BrokerType, NEW p, SubscribePacket(p)
    PROVE  \E d \in ConnectionsIn(data) : Effect(p, d)
<1> DEFINE l == task.link
           f == p.filter
           fresh == f \notin conn[l].subs
           req == Request(f, p.qos, NextOffset(data[f].log))
           c0 == conn[l]
           a == Ack("SubAck", 0)
           c1 == [c0 EXCEPT !.acks = Append(@, a)]
           subs == c0.subs \cup {f}
           c2 == [c1 EXCEPT !.subs = subs]
           reqs == IF fresh THEN Append(c0.reqs, req) ELSE c0.reqs
           c == [c2 EXCEPT !.reqs = reqs]
           d == IF fresh THEN Woken(c, "NewFilter") ELSE c
<1>1. Packet(p, {"Subscribe"}) /\ task' = TakenForced
  BY DEF SubscribePacket
<1>2. /\ p \in Packets /\ p.k \in {"Subscribe"} /\ l \in Links /\ task.step = "packets"
      /\ c0 \in ConnectionsIn(data) /\ task.id \in Ids /\ ~task.bad
  BY <1>1, PacketOn
<1>3. /\ ready' = IF fresh THEN Queued(ready, task.id, c, "NewFilter") ELSE ready
      /\ conn' = [conn EXCEPT ![l] = d]
  <2>1. [conn[l] EXCEPT !.acks = Append(@, Ack("SubAck", 0)), !.subs = @ \cup {f},
                        !.reqs = IF fresh THEN Append(@, req) ELSE @] = c
    <3> HIDE DEF req, fresh
    <3> QED
      BY <1>2, ConnFields DEF a
  <2> HIDE DEF c1, c2, c
  <2> QED
    BY <2>1 DEF SubscribePacket
<1>4. f \in Filters /\ p.qos \in 0 .. 2
  <2>1. p \in [k : {"Subscribe"}, filter : Filters, qos : SubscribeQos]
    BY <1>2 DEF Packets, Publishes, Replies, ControlPackets
  <2> QED
    BY <2>1, BrokerAssumption
<1>5. req \in RequestsIn(data)
  <2>1. DataOK
    BY DEF BrokerType
  <2> QED
    BY <1>4, <2>1, FreshRequest
<1>6. a \in Acks
  BY DEF Ack, Acks
<1> HIDE DEF a
<1>7. /\ c1 \in ConnectionsIn(data) /\ AcksKeep(c0, c1)
      /\ c1.status = c0.status /\ c1.inflight = c0.inflight
  BY <1>2, <1>6, Acknowledges, ConnFields, ZenonT(40)
<1>8. c0.subs \in SUBSET Filters /\ c0.reqs \in Seq(RequestsIn(data))
  BY <1>2, ConnFields
<1>9. subs \in SUBSET Filters /\ reqs \in Seq(RequestsIn(data))
  <2> HIDE DEF c0, req
  <2> QED
    BY <1>4, <1>5, <1>8
<1> HIDE DEF subs, reqs, c1
<1>10. /\ c2 \in ConnectionsIn(data) /\ c2.acks = c1.acks
       /\ c2.status = c1.status /\ c2.inflight = c1.inflight
  BY <1>7, <1>9, ConnEdits, ConnFields
<1> HIDE DEF c2
<1>11. /\ c \in ConnectionsIn(data) /\ c.acks = c2.acks /\ c.reqs = reqs
       /\ c.status = c2.status /\ c.inflight = c2.inflight
  BY <1>9, <1>10, ConnEdits, ConnFields
<1> HIDE DEF c
<1>12. /\ d \in ConnectionsIn(data) /\ d.acks = c.acks /\ d.inflight = c.inflight /\ d.reqs = c.reqs
       /\ \/ ready' = ready /\ d.status = c.status
          \/ ready' = Append(ready, task.id) /\ d.status = "Ready"
       /\ d.status = "Caughtup" => d.reqs = c0.reqs
  <2>1. CASE fresh
    <3> HIDE DEF fresh
    <3> DEFINE w == Woken(c, "NewFilter")
    <3>1. d = w /\ ready' = Queued(ready, task.id, c, "NewFilter")
      BY <1>3, <2>1
    <3>2. w \in ConnectionsIn(data) /\ w.acks = c.acks /\ w.inflight = c.inflight /\ w.reqs = c.reqs
      BY <1>11, WokenFacts
    <3>3. /\ \/ Queued(ready, task.id, c, "NewFilter") = ready /\ w.status = c.status
             \/ Queued(ready, task.id, c, "NewFilter") = Append(ready, task.id) /\ w.status = "Ready"
          /\ w.status # "Caughtup"
      BY <1>11, QueuedStatus, SMTT(40)
    <3> HIDE DEF w, d
    <3> QED
      BY <3>1, <3>2, <3>3
  <2>2. CASE ~fresh
    <3>1. d = c /\ ready' = ready /\ reqs = c0.reqs
      <4> HIDE DEF c0
      <4> QED
        BY <1>3, <2>2 DEF reqs, c0
    <3> QED
      BY <1>11, <3>1
  <2> QED
    BY <2>1, <2>2
<1> HIDE DEF d, c0
<1>13. c0 = conn[task.link]
  BY DEF c0
<1>14. AcksKeep(c0, d)
  BY <1>7, <1>10, <1>11, <1>12 DEF AcksKeep
<1>15. Effect(p, d)
  BY <1>1, <1>2, <1>3, <1>7, <1>10, <1>11, <1>12, <1>13, <1>14, TakenFacts DEF Effect
<1> QED
  BY <1>12, <1>15

\* Packet::Unsubscribe takes requests away and forces its answer out.
LEMMA UnsubscribeEffect ==
    ASSUME BrokerType, NEW p, UnsubscribePacket(p)
    PROVE  \E d \in ConnectionsIn(data) : Effect(p, d)
<1> DEFINE l == task.link
           f == p.filter
           c0 == conn[l]
           subs == c0.subs \ {f}
           c1 == [c0 EXCEPT !.subs = subs]
           reqs == NotOnFilter(c0.reqs, f)
           c2 == [c1 EXCEPT !.reqs = reqs]
           a == Ack("UnsubAck", 0)
           c == [c2 EXCEPT !.acks = Append(@, a)]
<1>1. Packet(p, {"Unsubscribe"}) /\ UNCHANGED <<ready>>
  BY DEF UnsubscribePacket
<1>2. /\ p \in Packets /\ p.k \in {"Unsubscribe"} /\ l \in Links /\ task.step = "packets"
      /\ c0 \in ConnectionsIn(data) /\ task.id \in Ids /\ ~task.bad
  BY <1>1, PacketOn
<1>3. conn \in [Links -> ConnectionsIn(data)]
  BY DEF BrokerType, ConnOK
<1>4. CASE task.id \notin submap[f]
  <2>1. task' = Taken /\ conn' = conn
    BY <1>4 DEF UnsubscribePacket
  <2>2. conn' = [conn EXCEPT ![task.link] = c0]
    BY <1>2, <1>3, <2>1
  <2>3. Effect(p, c0)
    BY <1>1, <1>2, <2>1, <2>2, TakenFacts DEF Effect, AcksKeep
  <2> QED
    BY <1>2, <2>3
<1>5. CASE task.id \in submap[f]
  <2>1. /\ conn' = [conn EXCEPT ![l].subs = @ \ {f}, ![l].reqs = NotOnFilter(@, f),
                                ![l].acks = Append(@, Ack("UnsubAck", 0))]
        /\ task' = TakenForced
    BY <1>5 DEF UnsubscribePacket
  <2>2. conn' = [conn EXCEPT ![l] = c]
    <3>1. conn' = [conn EXCEPT ![l] = [c0 EXCEPT !.subs = @ \ {f}, !.reqs = NotOnFilter(@, f),
                                                 !.acks = Append(@, Ack("UnsubAck", 0))]]
      BY <1>2, <1>3, <2>1, ConnFields
    <3>2. [c0 EXCEPT !.subs = @ \ {f}, !.reqs = NotOnFilter(@, f),
                     !.acks = Append(@, Ack("UnsubAck", 0))] = c
      <4> HIDE DEF c0
      <4> QED
        BY <1>2, ConnFields DEF a
    <3> HIDE DEF c
    <3> QED
      BY <3>1, <3>2
  <2>3. c0.subs \in SUBSET Filters /\ c0.reqs \in Seq(RequestsIn(data))
    BY <1>2, ConnFields
  <2>4. /\ subs \in SUBSET Filters /\ reqs \in Seq(RequestsIn(data))
        /\ c0.reqs = <<>> => reqs = <<>>
    <3> DEFINE T == {q \in Range(c0.reqs) : q.f # f}
               old == c0.reqs
    <3>1. reqs = Where(old, T)
      BY DEF NotOnFilter
    <3> HIDE DEF T, reqs, old
    <3>2. old \in Seq(RequestsIn(data))
      BY <2>3 DEF old
    <3>3. reqs \in Seq(RequestsIn(data))
      BY <3>1, <3>2, WhereRange
    <3>4. old = <<>> => reqs = <<>>
      BY <3>1, WhereNil
    <3> QED
      BY <2>3, <3>3, <3>4 DEF old
  <2> HIDE DEF subs, reqs, c0
  <2>5. c1 \in ConnectionsIn(data) /\ c1.acks = c0.acks /\ c1.status = c0.status /\ c1.inflight = c0.inflight
    BY <1>2, <2>4, ConnEdits, ConnFields, ZenonT(40)
  <2> HIDE DEF c1
  <2>6. /\ c2 \in ConnectionsIn(data) /\ c2.acks = c0.acks /\ c2.status = c0.status
        /\ c2.inflight = c0.inflight /\ c2.reqs = reqs
    BY <2>4, <2>5, ConnEdits, ConnFields
  <2> HIDE DEF c2
  <2>7. a \in Acks
    BY DEF Ack, Acks
  <2> HIDE DEF a
  <2>8. /\ c \in ConnectionsIn(data) /\ AcksKeep(c2, c) /\ c.status = c2.status
        /\ c.inflight = c2.inflight /\ c.reqs = c2.reqs
    BY <2>6, <2>7, Acknowledges, ConnFields
  <2> HIDE DEF c
  <2>9. AcksKeep(c0, c) /\ c0 = conn[task.link]
    BY <2>6, <2>8 DEF AcksKeep, c0
  <2>10. Effect(p, c)
    BY <1>1, <1>2, <2>1, <2>2, <2>4, <2>6, <2>8, <2>9, TakenFacts DEF Effect
  <2> QED
    BY <2>8, <2>10
<1> QED
  BY <1>4, <1>5

\* Packet::PubAck and PubRec wake who is out of slots, or end the connection.
LEMMA AckEffect ==
    ASSUME BrokerType, NEW p, AckPacket(p)
    PROVE  \E d \in ConnectionsIn(data) : Effect(p, d)
<1> DEFINE c == conn[task.link]
           tl == Tail(c.inflight)
           rest == [c EXCEPT !.inflight = tl]
           a == Ack("PubRel", p.pkid)
           r1 == [rest EXCEPT !.pubrels = Append(@, p.pkid)]
           r2 == [r1 EXCEPT !.acks = Append(@, a)]
           acked == IF p.k = "PubAck" THEN rest ELSE r2
<1>1. /\ Packet(p, {"PubAck", "PubRec"})
      /\ IF c.inflight # <<>> /\ Head(c.inflight).pkid = p.pkid
         THEN /\ conn' = [conn EXCEPT ![task.link] =
                   Woken(IF p.k = "PubAck" THEN rest
                         ELSE [rest EXCEPT !.pubrels = Append(@, p.pkid),
                                           !.acks = Append(@, Ack("PubRel", p.pkid))], "IncomingAck")]
              /\ ready' = Queued(ready, task.id, c, "IncomingAck")
              /\ task' = Taken
         ELSE /\ conn' = IF c.inflight = <<>> THEN conn ELSE [conn EXCEPT ![task.link] = rest]
              /\ task' = TakenBad
              /\ UNCHANGED ready
  BY DEF AckPacket
<1>2. /\ p \in Packets /\ p.k \in {"PubAck", "PubRec"} /\ task.link \in Links /\ task.step = "packets"
      /\ c \in ConnectionsIn(data) /\ task.id \in Ids /\ ~task.bad
  BY <1>1, PacketOn
<1>3. p.pkid \in Nat
  BY <1>2 DEF Packets, Publishes, Replies, ControlPackets
<1>4. a \in Acks
  BY <1>3 DEF Ack, Acks
<1>5. CASE c.inflight = <<>>
  <2>1. conn' = conn /\ task' = TakenBad /\ UNCHANGED <<ready>>
    BY <1>1, <1>5
  <2>2. conn' = [conn EXCEPT ![task.link] = c]
    BY <1>2, <2>1 DEF BrokerType, ConnOK
  <2>3. Effect(p, c)
    BY <1>2, <2>1, <2>2, TakenFacts DEF Effect, AcksKeep
  <2> QED
    BY <1>2, <2>3
<1>6. CASE c.inflight # <<>>
  <2>1. c.inflight \in Seq(InflightsIn(data)) /\ c.pubrels \in Seq(Nat)
    BY <1>2, ConnFields
  <2>2. tl \in Seq(InflightsIn(data))
    BY <1>6, <2>1, TailFacts
  <2>3. [rest EXCEPT !.pubrels = Append(@, p.pkid), !.acks = Append(@, Ack("PubRel", p.pkid))] = r2
    BY <1>2, ConnFields DEF a
  <2> HIDE DEF tl
  <2>4. /\ rest \in ConnectionsIn(data) /\ rest.acks = c.acks /\ rest.pubrels = c.pubrels
        /\ rest.status = c.status /\ rest.reqs = c.reqs /\ rest.subs = c.subs
    BY <1>2, <2>2, ConnEdits, ConnFields
  <2>5. CASE ~(Head(c.inflight).pkid = p.pkid)
    <3>1. conn' = [conn EXCEPT ![task.link] = rest] /\ task' = TakenBad /\ UNCHANGED <<ready>>
      BY <1>1, <1>6, <2>5
    <3> HIDE DEF rest
    <3>2. Effect(p, rest)
      BY <1>2, <2>4, <3>1, TakenFacts DEF Effect, AcksKeep
    <3> QED
      BY <2>4, <3>2
  <2>6. CASE Head(c.inflight).pkid = p.pkid
    <3> DEFINE d == Woken(acked, "IncomingAck")
    <3>1. /\ conn' = [conn EXCEPT ![task.link] = d]
          /\ ready' = Queued(ready, task.id, c, "IncomingAck") /\ task' = Taken
      <4> HIDE DEF r2, rest
      <4> QED
        BY <1>1, <1>6, <2>3, <2>6
    <3> HIDE DEF a, rest
    <3>2. Append(rest.pubrels, p.pkid) \in Seq(Nat)
      BY <1>3, <2>1, <2>4
    <3> DEFINE pr == Append(rest.pubrels, p.pkid)
    <3>3. r1 = [rest EXCEPT !.pubrels = pr]
      OBVIOUS
    <3> HIDE DEF pr, r1
    <3>4. /\ r1 \in ConnectionsIn(data) /\ r1.acks = rest.acks
          /\ r1.status = rest.status /\ r1.reqs = rest.reqs /\ r1.subs = rest.subs
      BY <2>4, <3>2, <3>3, ConnEdits, ConnFields DEF pr
    <3>5. /\ r2 \in ConnectionsIn(data) /\ AcksKeep(r1, r2)
          /\ r2.status = r1.status /\ r2.reqs = r1.reqs /\ r2.subs = r1.subs
      BY <1>4, <3>4, Acknowledges, ConnFields
    <3> HIDE DEF r2
    <3>6. /\ acked \in ConnectionsIn(data) /\ AcksKeep(c, acked)
          /\ acked.status = c.status /\ acked.reqs = c.reqs /\ acked.subs = c.subs
      BY <2>4, <3>4, <3>5 DEF AcksKeep
    <3> HIDE DEF acked
    <3>7. /\ d \in ConnectionsIn(data) /\ d.acks = acked.acks /\ d.reqs = acked.reqs /\ d.subs = acked.subs
      BY <3>6, WokenFacts
    <3>8. /\ \/ Queued(ready, task.id, c, "IncomingAck") = ready /\ d.status = acked.status
             \/ Queued(ready, task.id, c, "IncomingAck") = Append(ready, task.id) /\ d.status = "Ready"
          /\ d.status # "Caughtup" /\ d.status # "InflightFull"
      <4>1. c.status = acked.status
        BY <3>6
      <4> HIDE DEF c
      <4> QED
        BY <3>6, <4>1, QueuedStatus
    <3> HIDE DEF d
    <3>9. AcksKeep(c, d)
      BY <3>6, <3>7 DEF AcksKeep
    <3>10. Effect(p, d)
      BY <1>2, <3>1, <3>6, <3>7, <3>8, <3>9, TakenFacts DEF Effect
    <3> QED
      BY <3>7, <3>10
  <2> QED
    BY <2>5, <2>6
<1> QED
  BY <1>5, <1>6

\* Packet::PubComp, PingReq and Disconnect.
LEMMA OtherEffect ==
    ASSUME BrokerType, NEW p, PubCompPacket(p) \/ PingPacket(p) \/ DisconnectPacket(p)
    PROVE  \E d \in ConnectionsIn(data) : Effect(p, d)
<1> DEFINE c == conn[task.link]
<1>1. /\ UNCHANGED <<data, ready>>
      /\ \E k \in {"PubComp", "PingReq", "Disconnect"} : Packet(p, {k})
  BY DEF PubCompPacket, PingPacket, DisconnectPacket
<1>2. PICK k \in {"PubComp", "PingReq", "Disconnect"} : Packet(p, {k})
  BY <1>1
<1>3. /\ task.link \in Links /\ task.step = "packets" /\ c \in ConnectionsIn(data) /\ ~task.bad
      /\ p.k \notin {"Subscribe", "Unsubscribe"}
  BY <1>2, PacketOn
<1>4. conn \in [Links -> ConnectionsIn(data)]
  BY DEF BrokerType, ConnOK
<1>5. CASE DisconnectPacket(p)
  <2>1. task' = TakenBad /\ UNCHANGED conn
    BY <1>5 DEF DisconnectPacket
  <2>2. conn' = [conn EXCEPT ![task.link] = c]
    BY <1>3, <1>4, <2>1
  <2>3. Effect(p, c)
    BY <1>1, <1>3, <2>1, <2>2, TakenFacts DEF Effect, AcksKeep
  <2> QED
    BY <1>3, <2>3
<1>6. CASE PingPacket(p)
  <2> DEFINE a == Ack("PingResp", 0)
             d == [c EXCEPT !.acks = Append(@, a)]
  <2>1. conn' = [conn EXCEPT ![task.link] = d] /\ task' = TakenForced
    BY <1>3, <1>4, <1>6 DEF PingPacket
  <2>2. a \in Acks
    BY DEF Ack, Acks
  <2> HIDE DEF a
  <2>3. /\ d \in ConnectionsIn(data) /\ AcksKeep(c, d)
        /\ d.status = c.status /\ d.reqs = c.reqs /\ d.subs = c.subs /\ d.inflight = c.inflight
    BY <1>3, <2>2, Acknowledges, ConnFields, ZenonT(40)
  <2> HIDE DEF d
  <2>4. Effect(p, d)
    BY <1>1, <1>3, <2>1, <2>3, TakenFacts DEF Effect
  <2> QED
    BY <2>3, <2>4
<1>7. CASE PubCompPacket(p)
  <2> DEFINE tl == Tail(c.pubrels)
             d == [c EXCEPT !.pubrels = tl]
  <2>1. conn' = IF c.pubrels = <<>> THEN conn ELSE [conn EXCEPT ![task.link] = d]
    BY <1>3, <1>4, <1>7 DEF PubCompPacket
  <2>2. task' = Taken \/ task' = TakenBad
    BY <1>7 DEF PubCompPacket
  <2>3. CASE c.pubrels = <<>>
    <3>1. conn' = [conn EXCEPT ![task.link] = c]
      BY <1>3, <1>4, <2>1, <2>3
    <3> HIDE DEF d
    <3>2. Effect(p, c)
      BY <1>1, <1>3, <2>2, <3>1, TakenFacts DEF Effect, AcksKeep
    <3> QED
      BY <1>3, <3>2
  <2>4. CASE c.pubrels # <<>>
    <3>1. c.pubrels \in Seq(Nat)
      BY <1>3, ConnFields
    <3>2. tl \in Seq(Nat)
      BY <2>4, <3>1
    <3> HIDE DEF tl
    <3>3. /\ d \in ConnectionsIn(data) /\ d.acks = c.acks
          /\ d.status = c.status /\ d.reqs = c.reqs /\ d.subs = c.subs /\ d.inflight = c.inflight
      BY <1>3, <3>2, ConnEdits, ConnFields
    <3> HIDE DEF d
    <3>4. Effect(p, d)
      BY <1>1, <1>3, <2>1, <2>2, <2>4, <3>3, TakenFacts DEF Effect, AcksKeep
    <3> QED
      BY <3>3, <3>4
  <2> QED
    BY <2>3, <2>4
<1> QED
  BY <1>5, <1>6, <1>7

\* What handling a packet may do to its connection.
LEMMA PacketEffect ==
    ASSUME BrokerType, NEW p, HandlePacket(p)
    PROVE  \E d \in ConnectionsIn(data) : Effect(p, d)
BY PublishEffect, RecordEffect, PubRelEffect, SubscribeEffect, UnsubscribeEffect, AckEffect,
   OtherEffect DEF HandlePacket

-----------------------------------------------------------------------------
(* Sleeping connections *)

\* The batch of packets a link has sent is being handled, or its turn to be
\* sent messages.
InBatch(t, l) == t.step \in {"packets", "notify"} /\ t.link = l
InTurn(t, l) == t.step = "requests" /\ t.link = l

\* A connection c of link l that sleeps may do so while the task is t: one
\* that has caught up has nothing to send unless its batch will wake it, one
\* out of slots has messages in flight unless it is about to be dropped.
Resting(l, c, t) ==
    /\ c.status = "Caughtup" =>
          /\ c.reqs = <<>>
          /\ InTurn(t, l) => t.reqs = <<>>
          /\ c.acks # <<>> => InBatch(t, l) /\ (t.bad \/ (t.step = "packets" /\ t.force))
    /\ c.status = "InflightFull" /\ c.inflight = <<>> => InBatch(t, l) /\ t.bad
    /\ InTurn(t, l) => c.reqs = <<>> /\ c.acks = <<>>

\* Who is ready is queued, whoever has its turn at the back.
QueueOK ==
    /\ \A id \in Ids : Used(id) /\ conn[slab[id]].status = "Ready" => id \in Range(ready)
    /\ task.step = "requests" => ready # <<>> /\ Last(ready) = task.id

SleepOK == QueueOK /\ \A l \in Links : Resting(l, conn[l], task)

\* A step that replaces one connection.
LEMMA SleepPut ==
    ASSUME BrokerType, SleepOK, slab' = slab, NEW l \in Links, NEW d,
           conn' = [conn EXCEPT ![l] = d],
           Resting(l, d, task'),
           \A k \in Links : k # l /\ Resting(k, conn[k], task) => Resting(k, conn[k], task'),
           \A id \in Ids : slab[id] # l /\ id \in Range(ready) => id \in Range(ready'),
           d.status = "Ready" => \A id \in Ids : slab[id] = l => id \in Range(ready'),
           task'.step = "requests" => ready' # <<>> /\ Last(ready') = task'.id
    PROVE  SleepOK'
<1>1. conn'[l] = d /\ \A k \in Links : k # l => conn'[k] = conn[k]
  BY DEF BrokerType, ConnOK
<1>2. \A k \in Links : Resting(k, conn'[k], task')
  BY <1>1 DEF SleepOK
<1>3. ASSUME NEW id \in Ids, Used(id)', conn'[slab'[id]].status = "Ready"
      PROVE  id \in Range(ready')
  <2>1. Used(id) /\ slab[id] \in Links /\ slab'[id] = slab[id]
    BY <1>3 DEF Used, BrokerType, SlabOK
  <2>2. CASE slab[id] = l
    BY <1>1, <1>3, <2>1, <2>2
  <2>3. CASE slab[id] # l
    <3>1. conn[slab[id]].status = "Ready"
      BY <1>1, <1>3, <2>1, <2>3
    <3>2. id \in Range(ready)
      BY <2>1, <3>1 DEF SleepOK, QueueOK
    <3> QED
      BY <2>3, <3>2
  <2> QED
    BY <2>2, <2>3
<1>4. QueueOK'
  BY <1>3 DEF QueueOK
<1>5. (\A k \in Links : Resting(k, conn[k], task))'
  BY <1>2
<1> QED
  BY <1>4, <1>5 DEF SleepOK

\* What is queued stays queued when an id is added.
LEMMA QueueGrows ==
    ASSUME BrokerType, NEW id \in Ids, ready' = ready \/ ready' = Append(ready, id)
    PROVE  /\ \A i \in Ids : i \in Range(ready) => i \in Range(ready')
           /\ ready' = Append(ready, id) => id \in Range(ready')
<1>1. ready \in Seq(Ids)
  BY DEF BrokerType, TablesOK
<1>2. Range(Append(ready, id)) = Range(ready) \cup {id}
  BY <1>1, AppendFacts
<1> QED
  BY <1>2

\* The id of a link, if it has one.
LEMMA OneId ==
    ASSUME BrokerType, NEW id \in Ids, NEW i \in Ids, Used(i), slab[id] = slab[i]
    PROVE  id = i
BY DEF BrokerType, SlabOK, Used

\* A packet lets nobody sleep who should not.
LEMMA PacketSleeps ==
    ASSUME BrokerType, SleepOK, NEW p, HandlePacket(p)
    PROVE  SleepOK'
<1>1. PICK d \in ConnectionsIn(data) : Effect(p, d)
  BY PacketEffect
<1>2. PICK kinds : Packet(p, kinds)
  BY DEF HandlePacket, PublishPacket, RecordPacket, PubRelPacket, SubscribePacket,
         UnsubscribePacket, AckPacket, PubCompPacket, PingPacket, DisconnectPacket
<1>3. /\ task.step = "packets" /\ task.link \in Links /\ task.id \in Ids /\ Used(task.id)
      /\ slab[task.id] = task.link /\ ~task.bad
  BY <1>2, PacketOn
<1>4. slab' = slab
  BY DEF HandlePacket, PublishPacket, RecordPacket, PubRelPacket, SubscribePacket,
         UnsubscribePacket, AckPacket, PubCompPacket, PingPacket, DisconnectPacket, InPayload
<1> DEFINE l == task.link
           c == conn[l]
<1>5. Resting(l, c, task)
  BY <1>3 DEF SleepOK
<1>6. Resting(l, d, task')
  BY <1>1, <1>3, <1>5 DEF Effect, Resting, InBatch, InTurn
<1>7. \A k \in Links : k # l /\ Resting(k, conn[k], task) => Resting(k, conn[k], task')
  BY <1>1, <1>3 DEF Effect, Resting, InBatch, InTurn
<1>8. ready' = ready \/ ready' = Append(ready, task.id)
  BY <1>1 DEF Effect
<1>9. /\ \A i \in Ids : i \in Range(ready) => i \in Range(ready')
      /\ ready' = Append(ready, task.id) => task.id \in Range(ready')
  BY <1>3, <1>8, QueueGrows
<1>10. ASSUME d.status = "Ready", NEW id \in Ids, slab[id] = l PROVE id \in Range(ready')
  <2>1. id = task.id
    BY <1>3, <1>10, OneId
  <2>2. CASE d.status = c.status
    <3>1. task.id \in Range(ready)
      BY <1>3, <1>10, <2>2 DEF SleepOK, QueueOK
    <3> QED
      BY <1>3, <1>9, <2>1, <3>1
  <2>3. CASE ready' = Append(ready, task.id)
    BY <1>9, <2>1, <2>3
  <2> QED
    BY <1>1, <2>2, <2>3 DEF Effect
<1>11. task'.step # "requests" /\ conn' = [conn EXCEPT ![l] = d]
  BY <1>1 DEF Effect
<1> HIDE DEF l, c
<1> QED
  BY <1>3, <1>4, <1>6, <1>7, <1>9, <1>10, <1>11, SleepPut DEF l

\* After the packets, who has an acknowledgement to send is woken.
LEMMA ForceAcksSleeps ==
    ASSUME BrokerType, SleepOK, ForceAcks
    PROVE  SleepOK'
<1> DEFINE l == task.link
           c == conn[l]
           w == Woken(c, "FreshData")
           d == IF task.force THEN w ELSE c
<1>1. /\ task.step = "packets" /\ slab' = slab
      /\ conn' = IF task.force THEN [conn EXCEPT ![l] = Woken(@, "FreshData")] ELSE conn
      /\ ready' = IF task.force THEN Queued(ready, task.id, c, "FreshData") ELSE ready
      /\ task' = [task EXCEPT !.step = "notify"]
  BY DEF ForceAcks, InPayload
<1>2. /\ task \in TasksIn(data) /\ l \in Links /\ task.id \in Ids /\ slab[task.id] = l
      /\ Used(task.id)
  <2>1. task \in TasksIn(data) /\ l \in Links /\ slab[task.id] = l
    BY <1>1 DEF BrokerType, TaskOK, TaskHolds
  <2> QED
    BY <2>1, TaskFields, BrokerAssumption DEF Used
<1>3. c \in ConnectionsIn(data) /\ conn \in [Links -> ConnectionsIn(data)]
  BY <1>2 DEF BrokerType, ConnOK
<1>4. conn' = [conn EXCEPT ![l] = d]
  BY <1>1, <1>2, <1>3
<1>5. /\ w.reqs = c.reqs /\ w.acks = c.acks /\ w.inflight = c.inflight
      /\ w.status # "Caughtup"
      /\ \/ Queued(ready, task.id, c, "FreshData") = ready /\ w.status = c.status
         \/ Queued(ready, task.id, c, "FreshData") = Append(ready, task.id) /\ w.status = "Ready"
  <2> HIDE DEF c
  <2> QED
    BY <1>3, WokenFacts, QueuedStatus
<1> HIDE DEF w
<1>6. /\ d.reqs = c.reqs /\ d.acks = c.acks /\ d.inflight = c.inflight
      /\ d.status = "Caughtup" => ~task.force
      /\ \/ ready' = ready /\ d.status = c.status
         \/ ready' = Append(ready, task.id) /\ d.status = "Ready"
  BY <1>1, <1>5
<1> HIDE DEF d
<1>7. task'.step = "notify" /\ task'.link = l /\ task'.bad = task.bad
  BY <1>1, <1>2, TaskFields
<1>8. Resting(l, c, task)
  BY <1>2 DEF SleepOK
<1>9. Resting(l, d, task')
  BY <1>1, <1>6, <1>7, <1>8 DEF Resting, InBatch, InTurn
<1>10. \A k \in Links : k # l /\ Resting(k, conn[k], task) => Resting(k, conn[k], task')
  BY <1>1, <1>7 DEF Resting, InBatch, InTurn
<1>11. /\ \A i \in Ids : i \in Range(ready) => i \in Range(ready')
       /\ ready' = Append(ready, task.id) => task.id \in Range(ready')
  BY <1>2, <1>6, QueueGrows
<1>12. ASSUME d.status = "Ready", NEW id \in Ids, slab[id] = l PROVE id \in Range(ready')
  <2>1. id = task.id
    BY <1>2, <1>12, OneId
  <2>2. CASE d.status = c.status
    <3>1. task.id \in Range(ready)
      BY <1>2, <1>12, <2>2 DEF SleepOK, QueueOK
    <3> QED
      BY <1>2, <1>11, <2>1, <3>1
  <2>3. CASE ready' = Append(ready, task.id)
    BY <1>11, <2>1, <2>3
  <2> QED
    BY <1>6, <2>2, <2>3
<1>13. task'.step # "requests"
  BY <1>7
<1> HIDE DEF l, c
<1> QED
  BY <1>1, <1>2, <1>4, <1>9, <1>10, <1>11, <1>12, <1>13, SleepPut

\* New data wakes the connection it comes with.
LEMMA NotifySleeps ==
    ASSUME BrokerType, SleepOK, NotifyWaiter
    PROVE  SleepOK'
<1> DEFINE w == Head(task.notes)
           l == slab[w.id]
           c == conn[l]
           reqs == Append(c.reqs, w.req)
           c1 == [c EXCEPT !.reqs = reqs]
           d == Woken(c1, "FreshData")
<1>1. /\ task.step = "notify" /\ task.notes # <<>> /\ slab' = slab
      /\ conn' = [conn EXCEPT ![l] = Woken([conn[l] EXCEPT !.reqs = Append(@, w.req)], "FreshData")]
      /\ ready' = Queued(ready, w.id, conn[l], "FreshData")
      /\ task' = [task EXCEPT !.notes = Tail(@)]
  BY DEF NotifyWaiter, InPayload
<1>2. task \in TasksIn(data) /\ task.notes \in Seq(WaitersIn(data))
  <2>1. task \in TasksIn(data)
    BY DEF BrokerType, TaskOK
  <2> QED
    BY <1>1, <2>1, TaskFields
<1>3. w \in WaitersIn(data) /\ w \in Range(task.notes)
  <2> DEFINE ns == task.notes
             W == WaitersIn(data)
  <2>1. ns \in Seq(W) /\ ns # <<>>
    BY <1>1, <1>2
  <2> HIDE DEF ns, W
  <2>2. Head(ns) \in W /\ Head(ns) \in Range(ns)
    BY <2>1, TailFacts
  <2> QED
    BY <2>2 DEF ns, W
<1>4. conn' = [conn EXCEPT ![l] = d]
  BY <1>1
<1> HIDE DEF w
<1>5. w.id \in Ids /\ w.req \in RequestsIn(data) /\ Used(w.id)
  BY <1>3 DEF WaitersIn, BrokerType, TaskHolds
<1>6. l \in Links
  BY <1>5 DEF BrokerType, SlabOK, Used
<1>7. c \in ConnectionsIn(data)
  BY <1>6 DEF BrokerType, ConnOK
<1>8. Resting(l, c, task)
  BY <1>6 DEF SleepOK
<1>9. c = conn[l] /\ ready' = Queued(ready, w.id, c, "FreshData")
  BY <1>1
<1> HIDE DEF c
<1>10. reqs \in Seq(RequestsIn(data))
  <2>1. c.reqs \in Seq(RequestsIn(data))
    BY <1>7, ConnFields
  <2> QED
    BY <1>5, <2>1
<1> HIDE DEF reqs
<1>11. c1 \in ConnectionsIn(data) /\ c1.status = c.status /\ c1.inflight = c.inflight
  BY <1>7, <1>10, ConnEdits, ConnFields
<1> HIDE DEF c1
<1>12. /\ d.inflight = c1.inflight /\ d.status # "Caughtup"
       /\ \/ ready' = ready /\ d.status = c.status
          \/ ready' = Append(ready, w.id) /\ d.status = "Ready"
  <2>1. d.inflight = c1.inflight
    BY <1>11, WokenFacts
  <2>2. /\ \/ Queued(ready, w.id, c, "FreshData") = ready /\ d.status = c1.status
           \/ Queued(ready, w.id, c, "FreshData") = Append(ready, w.id) /\ d.status = "Ready"
        /\ d.status # "Caughtup"
    BY <1>11, QueuedStatus, SMTT(40)
  <2> HIDE DEF d
  <2> QED
    BY <1>9, <1>11, <2>1, <2>2
<1> HIDE DEF d
<1>13. task'.step = "notify" /\ task'.link = task.link /\ task'.bad = task.bad
  BY <1>1, <1>2, TaskFields
<1>14. Resting(l, d, task')
  BY <1>1, <1>8, <1>11, <1>12, <1>13 DEF Resting, InBatch, InTurn
<1>15. \A k \in Links : k # l /\ Resting(k, conn[k], task) => Resting(k, conn[k], task')
  BY <1>1, <1>13 DEF Resting, InBatch, InTurn
<1>16. /\ \A i \in Ids : i \in Range(ready) => i \in Range(ready')
       /\ ready' = Append(ready, w.id) => w.id \in Range(ready')
  BY <1>5, <1>12, QueueGrows
<1>17. ASSUME d.status = "Ready", NEW id \in Ids, slab[id] = l PROVE id \in Range(ready')
  <2>1. id = w.id
    BY <1>5, <1>17, OneId
  <2>2. CASE d.status = c.status
    <3>1. w.id \in Range(ready)
      BY <1>5, <1>9, <1>17, <2>2 DEF SleepOK, QueueOK
    <3> QED
      BY <1>5, <1>16, <2>1, <3>1
  <2>3. CASE ready' = Append(ready, w.id)
    BY <1>16, <2>1, <2>3
  <2> QED
    BY <1>12, <2>2, <2>3
<1>18. task'.step # "requests"
  BY <1>13
<1> HIDE DEF l
<1> QED
  BY <1>1, <1>4, <1>6, <1>14, <1>15, <1>16, <1>17, <1>18, SleepPut

\* Dropping a connection wakes no one, and no one waits for it.
LEMMA DisconnectionSleeps ==
    ASSUME BrokerType, SleepOK, NEW id \in Ids, Used(id), Disconnection(id), ready' = ready,
           task'.step # "requests",
           \A k \in Links : k # slab[id] /\ Resting(k, conn[k], task) => Resting(k, conn[k], task')
    PROVE  SleepOK'
<1> DEFINE l == slab[id]
<1>1. slab' = [slab EXCEPT ![id] = None] /\ conn' = [conn EXCEPT ![l] = Fresh]
  BY DEF Disconnection
<1>2. l \in Links /\ slab \in [Ids -> Links \cup {None}] /\ conn \in [Links -> ConnectionsIn(data)]
  BY DEF BrokerType, SlabOK, ConnOK, Used
<1>3. conn'[l] = Fresh /\ \A k \in Links : k # l => conn'[k] = conn[k]
  BY <1>1, <1>2
<1>4. Resting(l, Fresh, task')
  BY DEF Resting, Fresh, InTurn
<1>5. ASSUME NEW k \in Links PROVE Resting(k, conn'[k], task')
  <2>1. CASE k = l
    BY <1>3, <1>4, <2>1
  <2>2. CASE k # l
    <3>1. Resting(k, conn[k], task)
      BY DEF SleepOK
    <3> QED
      BY <1>3, <2>2, <3>1
  <2> QED
    BY <2>1, <2>2
<1>6. ASSUME NEW i \in Ids, Used(i)', conn'[slab'[i]].status = "Ready" PROVE i \in Range(ready')
  <2>1. i # id /\ slab'[i] = slab[i] /\ Used(i)
    BY <1>1, <1>2, <1>6 DEF Used
  <2>2. slab[i] # l /\ slab[i] \in Links
    BY <1>2, <2>1, OneId DEF Used
  <2>3. conn[slab[i]].status = "Ready"
    BY <1>3, <1>6, <2>1, <2>2
  <2> QED
    BY <2>1, <2>3 DEF SleepOK, QueueOK
<1>7. QueueOK'
  BY <1>6 DEF QueueOK
<1>8. (\A k \in Links : Resting(k, conn[k], task))'
  BY <1>5
<1> QED
  BY <1>7, <1>8 DEF SleepOK

\* A step that leaves the connections alone.
LEMMA SleepSame ==
    ASSUME BrokerType, SleepOK, slab' = slab, conn' = conn,
           \A k \in Links : Resting(k, conn[k], task) => Resting(k, conn[k], task'),
           \A id \in Ids : Used(id) /\ id \in Range(ready) => id \in Range(ready'),
           task'.step # "requests"
    PROVE  SleepOK'
<1>1. (\A k \in Links : Resting(k, conn[k], task))'
  BY DEF SleepOK
<1>2. QueueOK'
  BY DEF SleepOK, QueueOK, Used
<1> QED
  BY <1>1, <1>2 DEF SleepOK

\* A batch that ends with its connection in error drops it.
LEMMA EndPayloadSleeps ==
    ASSUME BrokerType, SleepOK, EndPayload
    PROVE  SleepOK'
<1>1. /\ task.step = "notify" /\ task' = NoTask /\ ready' = ready
      /\ IF task.bad THEN Disconnection(task.id) ELSE UNCHANGED <<slab, conn>>
  BY DEF EndPayload
<1>2. task.id \in Ids /\ Used(task.id) /\ slab[task.id] = task.link /\ task.link \in Links
  BY <1>1, BrokerAssumption DEF BrokerType, TaskOK, TasksIn, TaskHolds, Used
<1>3. task'.step = "none"
  BY <1>1 DEF NoTask
<1>4. \A k \in Links : (k # task.link \/ ~task.bad) /\ Resting(k, conn[k], task)
                          => Resting(k, conn[k], task')
  BY <1>1, <1>3 DEF Resting, InBatch, InTurn
<1>5. CASE task.bad
  <2>1. Disconnection(task.id)
    BY <1>1, <1>5
  <2> QED
    BY <1>1, <1>2, <1>3, <1>4, <2>1, DisconnectionSleeps
<1>6. CASE ~task.bad
  <2>1. slab' = slab /\ conn' = conn
    BY <1>1, <1>6
  <2> QED
    BY <1>1, <1>3, <1>4, <1>6, <2>1, SleepSame
<1> QED
  BY <1>5, <1>6

\* Events wake connections, drop them, or begin a task.
LEMMA EventSleeps ==
    ASSUME BrokerType, SleepOK, NEW e, HandleEvent(e)
    PROVE  SleepOK'
<1>1. Begin(e)
  BY DEF HandleEvent, HandleConnect, HandleDeviceData, HandleDisconnect, HandleReady
<1>2. e.id \in Ids /\ e.link \in Links /\ task.step = "none"
  <2>1. e \in Events /\ Idle
    BY <1>1, BeginFacts
  <2> QED
    BY <2>1 DEF Events, Idle
<1>3. ASSUME task'.step \in {"none", "connect", "packets", "panicked"}
      PROVE  \A k \in Links : Resting(k, conn[k], task) => Resting(k, conn[k], task')
  BY <1>2, <1>3 DEF Resting, InBatch, InTurn
<1>4. CASE HandleConnect(e)
  <2>1. task'.step = "connect"
    BY <1>4 DEF HandleConnect, NoTask
  <2>2. slab' = slab /\ conn' = conn /\ ready' = ready
    BY <1>4 DEF HandleConnect
  <2> QED
    BY <1>3, <2>1, <2>2, SleepSame
<1>5. CASE HandleDeviceData(e)
  <2>1. task' = [NoTask EXCEPT !.step = "packets", !.id = e.id, !.link = slab[e.id],
                               !.cache = inbuf[slab[e.id]]] \/ task' = task
    BY <1>5 DEF HandleDeviceData
  <2>2. task'.step = "packets" \/ task'.step = "none"
    BY <1>2, <2>1 DEF NoTask
  <2>3. slab' = slab /\ conn' = conn /\ ready' = ready
    BY <1>5 DEF HandleDeviceData
  <2> QED
    BY <1>3, <2>2, <2>3, SleepSame
<1>6. CASE HandleDisconnect(e)
  <2>1. /\ ready' = ready /\ task' = task
        /\ IF Used(e.id) THEN Disconnection(e.id) ELSE UNCHANGED <<slab, conn>>
    BY <1>6 DEF HandleDisconnect
  <2>2. CASE Used(e.id)
    <3>1. Disconnection(e.id)
      BY <2>1, <2>2
    <3> QED
      BY <1>2, <2>1, <2>2, <3>1, DisconnectionSleeps
  <2>3. CASE ~Used(e.id)
    <3>1. slab' = slab /\ conn' = conn
      BY <2>1, <2>3
    <3> QED
      BY <1>2, <2>1, <3>1, SleepSame
  <2> QED
    BY <2>2, <2>3
<1>7. CASE HandleReady(e)
  <2> DEFINE l == slab[e.id]
             c == conn[l]
             d == Woken(c, "Ready")
  <2>1. CASE ~Used(e.id)
    <3>1. task' = [NoTask EXCEPT !.step = "panicked"] /\ conn' = conn /\ slab' = slab /\ ready' = ready
      BY <1>7, <2>1 DEF HandleReady
    <3>2. task'.step = "panicked"
      BY <3>1 DEF NoTask
    <3> QED
      BY <1>3, <3>1, <3>2, SleepSame
  <2>2. CASE Used(e.id)
    <3>1. /\ conn' = [conn EXCEPT ![l] = d] /\ ready' = Queued(ready, e.id, c, "Ready")
          /\ task' = task /\ slab' = slab
      BY <1>7, <2>2 DEF HandleReady
    <3>2. l \in Links
      BY <1>2, <2>2 DEF BrokerType, SlabOK, Used
    <3>3. c \in ConnectionsIn(data) /\ c = conn[l] /\ Resting(l, c, task)
      BY <3>2 DEF BrokerType, ConnOK, SleepOK
    <3> HIDE DEF c
    <3>4. /\ d.reqs = c.reqs /\ d.acks = c.acks /\ d.inflight = c.inflight
          /\ \/ ready' = ready /\ d.status = c.status
             \/ ready' = Append(ready, e.id) /\ d.status = "Ready"
      BY <3>1, <3>3, WokenFacts, QueuedStatus
    <3> HIDE DEF d
    <3>5. Resting(l, d, task')
      BY <1>2, <3>1, <3>3, <3>4 DEF Resting, InBatch, InTurn
    <3>6. /\ \A i \in Ids : i \in Range(ready) => i \in Range(ready')
          /\ ready' = Append(ready, e.id) => e.id \in Range(ready')
      BY <1>2, <3>4, QueueGrows
    <3>7. ASSUME d.status = "Ready", NEW id \in Ids, slab[id] = l PROVE id \in Range(ready')
      <4>1. id = e.id
        BY <1>2, <2>2, <3>7, OneId
      <4>2. CASE d.status = c.status
        <5>1. e.id \in Range(ready)
          BY <1>2, <2>2, <3>3, <3>7, <4>2 DEF SleepOK, QueueOK
        <5> QED
          BY <1>2, <3>6, <4>1, <5>1
      <4>3. CASE ready' = Append(ready, e.id)
        BY <3>6, <4>1, <4>3
      <4> QED
        BY <3>4, <4>2, <4>3
    <3> HIDE DEF l
    <3> QED
      BY <1>2, <3>1, <3>2, <3>5, <3>6, <3>7, SleepPut
  <2> QED
    BY <2>1, <2>2
<1> QED
  BY <1>4, <1>5, <1>6, <1>7 DEF HandleEvent

\* The connection of a client that comes again sleeps no more.
LEMMA DropDuplicateSleeps ==
    ASSUME BrokerType, SleepOK, NEW id \in Ids, DropDuplicate(id)
    PROVE  SleepOK'
<1>1. task.step = "connect" /\ id \in Rivals /\ Disconnection(id) /\ ready' = ready /\ task' = task
  BY DEF DropDuplicate
<1>2. Used(id)
  BY <1>1 DEF Rivals, ConnectionOf
<1> QED
  BY <1>1, <1>2, DisconnectionSleeps

\* Polls that find nothing take only ids without connection off the queue.
LEMMA NothingSleeps ==
    ASSUME BrokerType, SleepOK, Refuse \/ PollNothing \/ PollStale \/ Drained
    PROVE  SleepOK'
<1>1. /\ slab' = slab /\ conn' = conn
      /\ task.step \in {"none", "connect"} /\ task'.step = "none"
  <2>1. CASE Refuse
    BY <2>1 DEF Refuse, NoTask
  <2>2. CASE PollNothing
    BY <2>2 DEF PollNothing, Idle
  <2>3. CASE PollStale
    BY <2>3 DEF PollStale, Idle
  <2>4. CASE Drained
    BY <2>4 DEF Drained, Idle
  <2> QED
    BY <2>1, <2>2, <2>3, <2>4
<1>2. \A k \in Links : Resting(k, conn[k], task) => Resting(k, conn[k], task')
  BY <1>1 DEF Resting, InBatch, InTurn
<1>3. \A id \in Ids : Used(id) /\ id \in Range(ready) => id \in Range(ready')
  <2>1. CASE PollStale
    <3>1. ready' = Tail(ready) /\ ready # <<>> /\ ~Used(Head(ready)) /\ ready \in Seq(Ids)
      BY <2>1 DEF PollStale, BrokerType, TablesOK
    <3>2. Range(ready) = {Head(ready)} \cup Range(Tail(ready))
      BY <3>1, TailFacts
    <3> QED
      BY <3>1, <3>2
  <2>2. CASE Refuse \/ PollNothing \/ Drained
    BY <2>2 DEF Refuse, PollNothing, Drained
  <2> QED
    BY <2>1, <2>2
<1> QED
  BY <1>1, <1>2, <1>3, SleepSame

\* A new connection is ready and queued.
LEMMA AdmitSleeps ==
    ASSUME BrokerType, SleepOK, Admit
    PROVE  SleepOK'
<1> DEFINE l == task.link
           id == Head(free)
<1>1. /\ task.step = "connect" /\ Rivals = {} /\ free # <<>>
      /\ slab' = [slab EXCEPT ![id] = l]
      /\ ready' = Append(ready, id) /\ task' = NoTask
  BY DEF Admit
<1>2. \E d : d.status = "Ready" /\ conn' = [conn EXCEPT ![l] = d]
  <2> DEFINE c == ClientOf[l]
             saved == IF grave[c] = None \/ l \in Clean THEN NoSession ELSE grave[c]
             acks == <<Ack("ConnAck", id)>> \o
                       [i \in 1 .. Len(saved.pubrels) |-> Ack("PubRel", saved.pubrels[i])]
             d == [Fresh EXCEPT !.status = "Ready", !.reqs = saved.reqs, !.subs = saved.subs,
                                !.pubrels = saved.pubrels, !.acks = acks]
  <2>1. conn' = [conn EXCEPT ![l] = d]
    BY DEF Admit
  <2> HIDE DEF saved, acks, id, l
  <2>2. d.status = "Ready"
    BY DEF Fresh
  <2> QED
    BY <2>1, <2>2 DEF l
<1>3. PICK d : d.status = "Ready" /\ conn' = [conn EXCEPT ![l] = d]
  BY <1>2
<1>4. /\ l \in Links /\ slab \in [Ids -> Links \cup {None}] /\ conn \in [Links -> ConnectionsIn(data)]
      /\ ready \in Seq(Ids)
  BY <1>1 DEF BrokerType, TaskHolds, SlabOK, ConnOK, TablesOK
<1>5. id \in Ids
  <2>1. free \in Seq(Ids)
    BY DEF BrokerType, SlabOK
  <2> QED
    BY <1>1, <2>1
<1> HIDE DEF id
<1>6. \A i \in Ids : slab[i] # l
  BY <1>1, <1>4, BrokerAssumption DEF Rivals, ConnectionOf, Used
<1>7. conn'[l] = d /\ \A k \in Links : k # l => conn'[k] = conn[k]
  BY <1>3, <1>4
<1>8. task'.step = "none"
  BY <1>1 DEF NoTask
<1>9. ASSUME NEW k \in Links PROVE Resting(k, conn'[k], task')
  <2>1. CASE k = l
    BY <1>3, <1>7, <1>8, <2>1 DEF Resting, InTurn
  <2>2. CASE k # l
    <3>1. Resting(k, conn[k], task)
      BY DEF SleepOK
    <3> QED
      BY <1>1, <1>7, <1>8, <2>2, <3>1 DEF Resting, InBatch, InTurn
  <2> QED
    BY <2>1, <2>2
<1>10. Range(ready') = Range(ready) \cup {id}
  BY <1>1, <1>4, <1>5, AppendFacts
<1>11. ASSUME NEW i \in Ids, Used(i)', conn'[slab'[i]].status = "Ready" PROVE i \in Range(ready')
  <2>1. CASE i = id
    BY <1>10, <2>1
  <2>2. CASE i # id
    <3>1. slab'[i] = slab[i] /\ Used(i) /\ slab[i] \in Links /\ slab[i] # l
      BY <1>1, <1>4, <1>6, <1>11, <2>2 DEF Used
    <3>2. conn[slab[i]].status = "Ready"
      BY <1>7, <1>11, <3>1
    <3>3. i \in Range(ready)
      BY <3>1, <3>2 DEF SleepOK, QueueOK
    <3> QED
      BY <1>10, <3>3
  <2> QED
    BY <2>1, <2>2
<1>12. QueueOK'
  BY <1>8, <1>11 DEF QueueOK
<1>13. (\A k \in Links : Resting(k, conn[k], task))'
  BY <1>9
<1> QED
  BY <1>12, <1>13 DEF SleepOK

\* The first of a queue goes to the back of it.
LEMMA QueueTurns ==
    ASSUME NEW S, NEW q \in Seq(S), q # <<>>
    PROVE  LET r == Append(Tail(q), Head(q))
           IN  Range(r) = Range(q) /\ r # <<>> /\ Last(r) = Head(q)
<1> DEFINE t == Tail(q)
           h == Head(q)
           r == Append(t, h)
<1>1. h \in S /\ t \in Seq(S) /\ Range(q) = {h} \cup Range(t)
  BY TailFacts
<1> HIDE DEF t, h
<1>2. Range(r) = Range(t) \cup {h} /\ r \in Seq(S) /\ Len(t) \in Nat /\ Len(r) = Len(t) + 1
      /\ r[Len(t) + 1] = h
  BY <1>1, AppendFacts
<1>3. r # <<>>
  BY <1>1
<1> HIDE DEF r
<1>4. Last(r) = h
  BY <1>2 DEF Last
<1> QED
  BY <1>1, <1>2, <1>3, <1>4 DEF r, h, t

\* Taking the last of a queue takes no other.
LEMMA QueueShrinks ==
    ASSUME NEW S, NEW q \in Seq(S), q # <<>>
    PROVE  Range(q) \subseteq Range(Front(q)) \cup {Last(q)}
<1> DEFINE f == SubSeq(q, 1, Len(q) - 1)
<1>1. Len(q) \in Nat /\ Len(q) > 0 /\ DOMAIN q = 1 .. Len(q)
  OBVIOUS
<1>2. f \in Seq(S) /\ Len(f) = Len(q) - 1 /\ DOMAIN f = 1 .. Len(q) - 1
      /\ \A i \in 1 .. Len(q) - 1 : f[i] = q[i]
  BY <1>1
<1>3. Front(q) = f
  BY DEF Front
<1> HIDE DEF f
<1>4. ASSUME NEW i \in 1 .. Len(q) PROVE q[i] \in Range(f) \cup {Last(q)}
  <2>1. CASE i = Len(q)
    BY <2>1 DEF Last
  <2>2. CASE i # Len(q)
    <3>1. i \in 1 .. Len(q) - 1
      <4> DEFINE n == Len(q)
      <4>1. n \in Nat /\ i \in 1 .. n /\ i # n
        BY <1>1, <2>2
      <4> HIDE DEF n
      <4>2. i \in 1 .. n - 1
        BY <4>1
      <4> QED
        BY <4>2 DEF n
    <3> QED
      BY <1>2, <3>1 DEF Range
  <2> QED
    BY <2>1, <2>2
<1> QED
  BY <1>1, <1>3, <1>4 DEF Range

\* A polled connection goes to the back of the queue with nothing of its own.
LEMMA PollSleeps ==
    ASSUME BrokerType, SleepOK, Poll
    PROVE  SleepOK'
<1> DEFINE id == Head(ready)
           l == slab[id]
           c == conn[l]
           e == <<>>
           c1 == [c EXCEPT !.acks = e]
           d == [c1 EXCEPT !.reqs = e]
<1>1. /\ ready # <<>> /\ Used(id) /\ slab' = slab /\ Idle
      /\ ready' = Append(Tail(ready), id)
      /\ conn' = [conn EXCEPT ![l].acks = <<>>, ![l].reqs = <<>>]
      /\ task' = [NoTask EXCEPT !.step = "requests", !.id = id, !.link = l,
                                !.reqs = c.reqs, !.left = MaxIterations]
  BY DEF Poll
<1>2. /\ id \in Ids /\ ready \in Seq(Ids)
      /\ Range(ready') = Range(ready) /\ ready' # <<>> /\ Last(ready') = id
  <2>1. ready \in Seq(Ids)
    BY DEF BrokerType, TablesOK
  <2>2. Head(ready) \in Ids
    BY <1>1, <2>1
  <2> QED
    BY <1>1, <2>1, <2>2, QueueTurns
<1> HIDE DEF id
<1>3. l \in Links
  BY <1>1, <1>2 DEF BrokerType, SlabOK, Used
<1>4. c \in ConnectionsIn(data) /\ conn \in [Links -> ConnectionsIn(data)] /\ Resting(l, c, task)
  BY <1>3 DEF BrokerType, ConnOK, SleepOK
<1>5. conn' = [conn EXCEPT ![l] = d]
  BY <1>1, <1>3, <1>4, ConnFields
<1>6. task'.step = "requests" /\ task'.id = id /\ task'.link = l /\ task'.reqs = c.reqs
  BY <1>1 DEF NoTask
<1>7. /\ d.acks = e /\ d.reqs = e /\ d.status = c.status /\ d.inflight = c.inflight /\ e = <<>>
  <2>1. DOMAIN c = {"status", "reqs", "subs", "acks", "recorded", "inflight", "pubrels", "pkid"}
    BY <1>4, ConnFields
  <2> HIDE DEF c
  <2>2. /\ d.acks = e /\ d.reqs = e /\ d.status = c.status /\ d.inflight = c.inflight
    <3> HIDE DEF e
    <3> QED
      BY <2>1
  <2> QED
    BY <2>2
<1>8. c = conn[l]
  OBVIOUS
<1> HIDE DEF c, d, e
<1>9. Resting(l, d, task')
  BY <1>1, <1>4, <1>6, <1>7 DEF Resting, InBatch, InTurn, Idle
<1>10. \A k \in Links : k # l /\ Resting(k, conn[k], task) => Resting(k, conn[k], task')
  BY <1>1, <1>6 DEF Resting, InBatch, InTurn, Idle
<1>11. ASSUME d.status = "Ready", NEW i \in Ids, slab[i] = l PROVE i \in Range(ready')
  <2>1. Used(i) /\ conn[slab[i]].status = "Ready"
    BY <1>3, <1>7, <1>8, <1>11, BrokerAssumption DEF Used
  <2> QED
    BY <1>2, <2>1 DEF SleepOK, QueueOK
<1> HIDE DEF l
<1> QED
  BY <1>1, <1>2, <1>3, <1>5, <1>6, <1>9, <1>10, <1>11, SleepPut

\* The turn of a connection ends, or goes on.
LEMMA TurnSleeps ==
    ASSUME BrokerType, SleepOK, task.step = "requests", slab' = slab, NEW d,
           conn' = [conn EXCEPT ![task.link] = d],
           Resting(task.link, d, task'),
           \/ task' = NoTask
           \/ task'.step = "requests" /\ task'.link = task.link /\ task'.id = task.id /\ ready' = ready,
           \/ ready' = ready /\ d.status = conn[task.link].status
           \/ ready' = Unqueued /\ d.status # "Ready"
    PROVE  SleepOK'
<1> DEFINE l == task.link
<1>1. /\ l \in Links /\ task.id \in Ids /\ slab[task.id] = l /\ Used(task.id)
  BY ServingFacts
<1>2. ready \in Seq(Ids) /\ ready # <<>> /\ Last(ready) = task.id
  BY DEF BrokerType, TablesOK, SleepOK, QueueOK
<1>3. Range(ready) \subseteq Range(Unqueued) \cup {task.id}
  BY <1>2, QueueShrinks DEF Unqueued
<1>4. \A id \in Ids : slab[id] # l /\ id \in Range(ready) => id \in Range(ready')
  BY <1>1, <1>3
<1>5. \A k \in Links : k # l /\ Resting(k, conn[k], task) => Resting(k, conn[k], task')
  BY DEF Resting, InBatch, InTurn, NoTask
<1>6. ASSUME d.status = "Ready", NEW i \in Ids, slab[i] = l PROVE i \in Range(ready')
  <2>1. Used(i) /\ conn[slab[i]].status = "Ready" /\ ready' = ready
    BY <1>1, <1>6, BrokerAssumption DEF Used
  <2> QED
    BY <2>1 DEF SleepOK, QueueOK
<1>7. task'.step = "requests" => ready' # <<>> /\ Last(ready') = task'.id
  BY <1>2 DEF NoTask
<1>8. Resting(l, d, task') /\ conn' = [conn EXCEPT ![l] = d]
  OBVIOUS
<1> HIDE DEF l
<1> QED
  BY <1>1, <1>4, <1>5, <1>6, <1>7, <1>8, SleepPut

\* When a turn ends: there is no task.
LEMMA TurnOver ==
    ASSUME NEW l, NEW d, task' = NoTask,
           d.status = "Caughtup" => d.reqs = <<>> /\ d.acks = <<>>,
           d.status = "InflightFull" => d.inflight # <<>>
    PROVE  Resting(l, d, task')
BY DEF Resting, InTurn, NoTask

\* A turn ends for a reason, and the reason is true.
LEMMA TurnEndSleeps ==
    ASSUME BrokerType, SleepOK, RequestInflightFull \/ CaughtUp \/ TurnEnds
    PROVE  SleepOK'
<1> DEFINE c == conn[task.link]
           req == Head(task.reqs)
<1>1. task.step = "requests" /\ slab' = slab /\ task' = NoTask
  BY DEF RequestInflightFull, CaughtUp, TurnEnds, InConsume
<1>2. /\ task.link \in Links /\ c \in ConnectionsIn(data)
      /\ task.reqs \in Seq(RequestsIn(data)) /\ Resting(task.link, c, task)
  BY <1>1, ServingFacts DEF SleepOK
<1>3. /\ c.reqs = <<>> /\ c.acks = <<>> /\ (c.status = "Caughtup" => task.reqs = <<>>)
      /\ (c.status = "InflightFull" => c.inflight # <<>>)
  BY <1>1, <1>2 DEF Resting, InTurn, InBatch
<1>4. CASE RequestInflightFull
  <2> DEFINE rs == c.reqs \o Tail(task.reqs) \o <<req>>
             c1 == [c EXCEPT !.reqs = rs]
             d == [c1 EXCEPT !.status = "InflightFull"]
  <2>1. conn' = [conn EXCEPT ![task.link] = d] /\ ready' = Unqueued /\ req.qos # 0 /\ Slots(req) = 0
    BY <1>4 DEF RequestInflightFull, Paused
  <2>2. c.inflight # <<>>
    <3>1. MaxInflight - Len(c.inflight) = 0 /\ MaxInflight \in Nat \ {0}
      BY <2>1, BrokerAssumption DEF Slots
    <3> DEFINE in == c.inflight
    <3>2. in \in Seq(InflightsIn(data))
      BY <1>2, ConnFields
    <3> HIDE DEF in
    <3>3. Len(in) # 0
      BY <3>1, <3>2 DEF in
    <3>4. in # <<>>
      BY <3>2, <3>3
    <3> QED
      BY <3>4 DEF in
  <2> HIDE DEF rs, req
  <2>3. d.status = "InflightFull" /\ d.inflight = c.inflight
    BY <1>2, ConnFields
  <2> HIDE DEF d, c
  <2>4. Resting(task.link, d, task')
    BY <1>1, <2>2, <2>3, TurnOver
  <2> QED
    BY <1>1, <2>1, <2>3, <2>4, TurnSleeps
<1>5. CASE CaughtUp
  <2> DEFINE d == [c EXCEPT !.status = "Caughtup"]
  <2>1. conn' = [conn EXCEPT ![task.link] = d] /\ ready' = Unqueued
    BY <1>5 DEF CaughtUp, Paused
  <2>2. d.status = "Caughtup" /\ d.reqs = c.reqs /\ d.acks = c.acks
    BY <1>2, ConnFields
  <2> HIDE DEF d, c
  <2>3. Resting(task.link, d, task')
    BY <1>1, <1>3, <2>2, TurnOver
  <2> QED
    BY <1>1, <2>1, <2>2, <2>3, TurnSleeps
<1>6. CASE TurnEnds
  <2> DEFINE ts == task.reqs
             old == c.reqs
             rs == old \o ts
             d == [c EXCEPT !.reqs = rs]
  <2>1. conn' = [conn EXCEPT ![task.link] = d] /\ ready' = ready
    BY <1>2, <1>6 DEF TurnEnds, BrokerType, ConnOK
  <2>2. c.status = "Caughtup" => rs = <<>>
    <3>1. ts = <<>> /\ old = <<>> => rs = <<>>
      OBVIOUS
    <3> HIDE DEF ts, old, rs, c
    <3> QED
      BY <1>3, <3>1 DEF ts, old
  <2> HIDE DEF rs
  <2>3. d.status = c.status /\ d.reqs = rs /\ d.acks = c.acks /\ d.inflight = c.inflight
    BY <1>2, ConnFields
  <2>4. c = conn[task.link]
    OBVIOUS
  <2> HIDE DEF d, c
  <2>5. Resting(task.link, d, task')
    BY <1>1, <1>3, <2>2, <2>3, TurnOver
  <2> QED
    BY <1>1, <2>1, <2>3, <2>4, <2>5, TurnSleeps
<1> QED
  BY <1>4, <1>5, <1>6

\* What a turn leaves of the connection.
LEMMA LeavesFacts ==
    ASSUME BrokerType, task.step = "requests", task.reqs # <<>>,
           NEW order, NEW read, ServeOK(order, read)
    PROVE  LET c == conn[task.link]
               d == TurnLeaves(order, read)
           IN  /\ d \in ConnectionsIn(data) /\ d.acks = c.acks /\ d.reqs = c.reqs
               /\ d.subs = c.subs /\ d.status = c.status
               /\ c.inflight # <<>> => d.inflight # <<>>
<1> DEFINE c == conn[task.link]
           req == Head(task.reqs)
           fs == TurnOut(order, read)
           d == TurnLeaves(order, read)
           ms == Sending(order, read)
           in == [i \in 1 .. Len(fs) |-> [pkid |-> fs[i].pkid, f |-> req.f, at |-> fs[i].at]]
<1>1. req \in RequestsIn(data) /\ c \in ConnectionsIn(data)
  BY ServingFacts
<1>2. ms \in Seq(Sendable(req.f))
  BY SendingType
<1>3. fs = Forwards(req, ms) /\ d = Inflight(c, req, fs)
  BY DEF TurnOut, TurnLeaves
<1> HIDE DEF req, ms
<1>4. /\ d \in ConnectionsIn(data) /\ d.acks = c.acks /\ d.reqs = c.reqs
      /\ d.subs = c.subs /\ d.status = c.status
      /\ (req.qos = 0 => d = c)
      /\ (req.qos # 0 => d.inflight = c.inflight \o in)
  BY <1>1, <1>2, <1>3, InflightType
<1>5. in \in Seq(InflightsIn(data))
  <2>1. [i \in 1 .. Len(Forwards(req, ms)) |->
            [pkid |-> Forwards(req, ms)[i].pkid, f |-> req.f, at |-> Forwards(req, ms)[i].at]]
           \in Seq(InflightsIn(data))
    BY <1>1, <1>2, ForwardsType
  <2> QED
    BY <1>3, <2>1
<1>6. c.inflight \in Seq(InflightsIn(data))
  BY <1>1, ConnFields
<1> DEFINE old == c.inflight
           I == InflightsIn(data)
<1>7. old \in Seq(I) /\ in \in Seq(I)
  BY <1>5, <1>6
<1> HIDE DEF old, I, in
<1>8. old # <<>> => old \o in # <<>>
  BY <1>7
<1> HIDE DEF c, d
<1>9. c.inflight # <<>> => d.inflight # <<>>
  BY <1>4, <1>8 DEF old
<1> QED
  BY <1>4, <1>9 DEF c, d

\* forward_device_data pauses a connection only as busy.
LEMMA ServeSleeps ==
    ASSUME BrokerType, SleepOK, ServeRequest
    PROVE  SleepOK'
<1>1. task.step = "requests" /\ task.left > 0 /\ task.reqs # <<>>
  BY DEF ServeRequest
<1>2. PICK order, read : ServeOK(order, read) /\ Serve(order, read)
  BY ServeRequestOK
<1>3. slab' = slab /\ (TurnBusy(order, read) \/ TurnParks(order, read) \/ TurnAgain(order, read))
  BY <1>2, ServeParts DEF InConsume
<1> DEFINE c == conn[task.link]
           d == TurnLeaves(order, read)
<1>4. /\ d \in ConnectionsIn(data) /\ d.acks = c.acks /\ d.reqs = c.reqs
      /\ d.status = c.status /\ (c.inflight # <<>> => d.inflight # <<>>)
  BY <1>1, <1>2, LeavesFacts
<1>5. task.link \in Links /\ c \in ConnectionsIn(data) /\ task \in TasksIn(data)
  BY <1>1, ServingFacts
<1>6. Resting(task.link, c, task)
  BY <1>5 DEF SleepOK
<1>7. /\ c.reqs = <<>> /\ c.acks = <<>> /\ c.status # "Caughtup"
      /\ (c.status = "InflightFull" => c.inflight # <<>>)
  BY <1>1, <1>6 DEF Resting, InTurn, InBatch
<1>8. CASE TurnBusy(order, read)
  <2> DEFINE rs == d.reqs \o Tail(task.reqs) \o <<Following(read)>>
             d1 == [d EXCEPT !.reqs = rs]
             g == [d1 EXCEPT !.status = "Busy"]
  <2>1. conn' = [conn EXCEPT ![task.link] = g] /\ ready' = Unqueued /\ task' = NoTask
    BY <1>8 DEF TurnBusy, Paused
  <2>2. DOMAIN d = {"status", "reqs", "subs", "acks", "recorded", "inflight", "pubrels", "pkid"}
    BY <1>4, ConnFields
  <2> HIDE DEF rs, d
  <2>3. g.status = "Busy"
    BY <2>2
  <2> HIDE DEF g
  <2>4. Resting(task.link, g, task')
    BY <2>1, <2>3, TurnOver
  <2> QED
    BY <1>1, <1>3, <2>1, <2>3, <2>4, TurnSleeps
<1>9. CASE TurnParks(order, read) \/ TurnAgain(order, read)
  <2>1. conn' = [conn EXCEPT ![task.link] = d] /\ ready' = ready
    BY <1>9 DEF TurnParks, TurnAgain
  <2>2. \E rs : task' = [task EXCEPT !.reqs = rs, !.left = task.left - 1]
    BY <1>9 DEF TurnParks, TurnAgain
  <2>3. task'.step = "requests" /\ task'.link = task.link /\ task'.id = task.id
    BY <1>1, <1>5, <2>2, TaskFields
  <2> HIDE DEF d
  <2>4. Resting(task.link, d, task')
    BY <1>4, <1>7, <2>3 DEF Resting
  <2> QED
    BY <1>1, <1>3, <1>4, <2>1, <2>3, <2>4, TurnSleeps
<1> QED
  BY <1>3, <1>8, <1>9

\* Links and clients do not touch the router.
LEMMA LinksLeaveRouter ==
    ASSUME NEW l \in Links, LinkStep(l) \/ ClientStep(l) \/ ClientAnswer(l)
    PROVE  UNCHANGED routerVars
<1>1. CASE LinkStep(l)
  BY <1>1 DEF LinkStep, Established, Refused, Exchange, Wake, Dropped, NoRouter
<1>2. CASE ClientStep(l)
  BY <1>2 DEF ClientStep, Dial, Fail, GreetFails, ClientPublish, ClientControl, Read, NoRouter
<1>3. CASE ClientAnswer(l)
  BY <1>3 DEF ClientAnswer, Read, NoRouter
<1> QED
  BY <1>1, <1>2, <1>3

\* Every step of the broker.
LEMMA SleepKeeps ==
    ASSUME BrokerType, SleepOK, [Next]_vars
    PROVE  SleepOK'
<1>1. CASE chan # <<>> /\ HandleEvent(Head(chan))
  BY <1>1, EventSleeps
<1>2. CASE \E id \in Ids : DropDuplicate(id)
  BY <1>2, DropDuplicateSleeps
<1>3. CASE Refuse \/ PollNothing \/ PollStale \/ Drained
  BY <1>3, NothingSleeps
<1>4. CASE Admit
  BY <1>4, AdmitSleeps
<1>5. CASE task.cache # <<>> /\ HandlePacket(Head(task.cache))
  BY <1>5, PacketSleeps
<1>6. CASE ForceAcks
  BY <1>6, ForceAcksSleeps
<1>7. CASE NotifyWaiter
  BY <1>7, NotifySleeps
<1>8. CASE EndPayload
  BY <1>8, EndPayloadSleeps
<1>9. CASE Poll
  BY <1>9, PollSleeps
<1>10. CASE ServeRequest
  BY <1>10, ServeSleeps
<1>11. CASE RequestInflightFull \/ CaughtUp \/ TurnEnds
  BY <1>11, TurnEndSleeps
<1>12. CASE UNCHANGED routerVars
  <2>1. slab' = slab /\ conn' = conn /\ task' = task /\ ready' = ready
    BY <1>12 DEF routerVars
  <2> QED
    BY <2>1 DEF SleepOK, QueueOK, Used
<1>13. CASE \E l \in Links : LinkStep(l) \/ ClientStep(l) \/ ClientAnswer(l)
  BY <1>12, <1>13, LinksLeaveRouter
<1>14. CASE UNCHANGED vars
  BY <1>12, <1>14 DEF vars
<1> QED
  BY <1>1, <1>2, <1>3, <1>4, <1>5, <1>6, <1>7, <1>8, <1>9, <1>10, <1>11, <1>13, <1>14
     DEF Next, RouterStep

\* At the start there is nobody to sleep.
LEMMA SleepInit == Init => SleepOK
<1> SUFFICES ASSUME Init PROVE SleepOK
  OBVIOUS
<1>1. slab = [id \in Ids |-> None] /\ conn = [l \in Links |-> Fresh] /\ task = NoTask
  BY DEF Init
<1>2. \A l \in Links : Resting(l, conn[l], task)
  BY <1>1 DEF Resting, InTurn, Fresh, NoTask
<1>3. QueueOK
  BY <1>1 DEF QueueOK, Used, NoTask
<1> QED
  BY <1>2, <1>3 DEF SleepOK

-----------------------------------------------------------------------------
\* The link a client is to have next ...
Coming(l) ==
    \/ task.step = "connect" /\ task.link = l
    \/ \E i \in 1 .. Len(chan) : chan[i].k = "Connect" /\ chan[i].link = l
\* ... comes once, and has been told nothing yet.
ComesOK ==
    /\ \A l \in Links : Coming(l) => link[l].pc = "connecting" /\ outbuf[l] = <<>> /\ ~Live(l)
    /\ \A i, j \in 1 .. Len(chan) :
          chan[i].k = "Connect" /\ chan[j].k = "Connect" /\ chan[i].link = chan[j].link => i = j
    /\ task.step = "connect" =>
          \A i \in 1 .. Len(chan) : chan[i].k = "Connect" => chan[i].link # task.link

\* What has been sent to a new link begins with its id.
Knows(l, id) ==
    /\ link[l].pc \in {"up", "wake"} => link[l].id = id
    /\ link[l].pc = "connecting" =>
          IF outbuf[l] # <<>> THEN Head(outbuf[l]).pkid = id ELSE Head(conn[l].acks).pkid = id
KnowsOK == \A id \in Ids : Used(id) => Knows(slab[id], id)

LinkOK == ComesOK /\ KnowsOK

-----------------------------------------------------------------------------
(* Links have the ids of their connections *)

\* A step of the router that admits no link and sends nothing; k events are
\* taken out of the channel.
LEMMA LinksUntold ==
    ASSUME LinkOK, link' = link, outbuf' = outbuf, NEW k \in Nat,
           \A i \in 1 .. Len(chan') : i + k \in 1 .. Len(chan) /\ chan'[i] = chan[i + k],
           \A id \in Ids : Used(id)' => /\ Used(id) /\ slab'[id] = slab[id]
                                        /\ AcksKeep(conn[slab[id]], conn'[slab[id]])
                                        /\ link[slab[id]].pc = "connecting" /\ outbuf[slab[id]] = <<>>
                                              => conn[slab[id]].acks # <<>>,
           None \notin Links,
           task'.step = "connect" => task' = task
    PROVE  LinkOK'
<1>1. \A l \in Links : Coming(l)' => Coming(l)
  BY DEF Coming
<1>2. \A l \in Links : Live(l)' => Live(l)
  BY DEF Live, Used
<1>3. \A l \in Links : Coming(l)' => link'[l].pc = "connecting" /\ outbuf'[l] = <<>> /\ ~Live(l)'
  BY <1>1, <1>2 DEF LinkOK, ComesOK
<1>4. ASSUME NEW i \in 1 .. Len(chan'), NEW j \in 1 .. Len(chan'),
             chan'[i].k = "Connect", chan'[j].k = "Connect", chan'[i].link = chan'[j].link
      PROVE  i = j
  <2>1. i + k = j + k
    BY <1>4, SMTT(40) DEF LinkOK, ComesOK
  <2> QED
    BY <2>1
<1>5. ASSUME task'.step = "connect", NEW i \in 1 .. Len(chan'), chan'[i].k = "Connect"
      PROVE  chan'[i].link # task'.link
  <2>1. i + k \in 1 .. Len(chan) /\ chan'[i] = chan[i + k] /\ task' = task
    BY <1>5
  <2> QED
    BY <1>5, <2>1 DEF LinkOK, ComesOK
<1>6. ComesOK'
  BY <1>3, <1>4, <1>5 DEF ComesOK
<1>7. ASSUME NEW id \in Ids, Used(id)' PROVE Knows(slab[id], id)' /\ slab'[id] = slab[id]
  BY <1>7 DEF LinkOK, KnowsOK, Knows, AcksKeep
<1>8. KnowsOK'
  BY <1>7 DEF KnowsOK, Knows
<1> QED
  BY <1>6, <1>8 DEF LinkOK

\* The same, of links there are.
LEMMA RouterUntold ==
    ASSUME BrokerType, LinkOK, link' = link, outbuf' = outbuf, NEW k \in Nat,
           \A i \in 1 .. Len(chan') : i + k \in 1 .. Len(chan) /\ chan'[i] = chan[i + k],
           \A id \in Ids : slab'[id] = slab[id] \/ slab'[id] = None,
           \A l \in Links : Live(l)' => AcksKeep(conn[l], conn'[l]),
           task'.step = "connect" => task' = task
    PROVE  LinkOK'
<1>1. None \notin Links
  BY BrokerAssumption
<1>2. ASSUME NEW id \in Ids, Used(id)'
      PROVE  /\ Used(id) /\ slab'[id] = slab[id] /\ AcksKeep(conn[slab[id]], conn'[slab[id]])
             /\ link[slab[id]].pc = "connecting" /\ outbuf[slab[id]] = <<>>
                   => conn[slab[id]].acks # <<>>
  <2>1. slab'[id] = slab[id] /\ Used(id) /\ slab[id] \in Links
    BY <1>2 DEF Used, BrokerType, SlabOK
  <2>2. Live(slab[id])' /\ Live(slab[id])
    BY <2>1 DEF Live
  <2>3. Greeted(slab[id])
    BY <2>1 DEF BrokerType, GreetingOK
  <2> QED
    BY <2>1, <2>2, <2>3 DEF Greeted
<1> QED
  BY <1>1, <1>2, LinksUntold

\* No event is taken.
LEMMA RouterQuiet ==
    ASSUME BrokerType, LinkOK, UNCHANGED <<link, outbuf, chan>>,
           \A id \in Ids : slab'[id] = slab[id] \/ slab'[id] = None,
           \A l \in Links : Live(l)' => AcksKeep(conn[l], conn'[l]),
           task'.step = "connect" => task' = task
    PROVE  LinkOK'
<1>1. 0 \in Nat /\ \A i \in 1 .. Len(chan') : i + 0 \in 1 .. Len(chan) /\ chan'[i] = chan[i + 0]
  OBVIOUS
<1> QED
  BY <1>1, RouterUntold

\* One connection is replaced by one with the same to say first.
LEMMA PutQuiet ==
    ASSUME BrokerType, LinkOK, UNCHANGED <<link, outbuf, chan, slab>>, NEW l \in Links, NEW d,
           conn' = [conn EXCEPT ![l] = d], AcksKeep(conn[l], d), task'.step # "connect"
    PROVE  LinkOK'
<1>1. conn'[l] = d /\ \A m \in Links : m # l => conn'[m] = conn[m]
  BY DEF BrokerType, ConnOK
<1>2. \A m \in Links : AcksKeep(conn[m], conn'[m])
  BY <1>1 DEF AcksKeep
<1> QED
  BY <1>2, RouterQuiet

\* Packets admit no link.
LEMMA PacketQuiet ==
    ASSUME BrokerType, LinkOK, NEW p, HandlePacket(p)
    PROVE  LinkOK'
<1>1. PICK d \in ConnectionsIn(data) : Effect(p, d)
  BY PacketEffect
<1>2. PICK kinds : Packet(p, kinds)
  BY DEF HandlePacket, PublishPacket, RecordPacket, PubRelPacket, SubscribePacket,
         UnsubscribePacket, AckPacket, PubCompPacket, PingPacket, DisconnectPacket
<1>3. task.link \in Links
  BY <1>2, PacketOn
<1>4. UNCHANGED <<link, outbuf, chan, slab>>
  <2>1. InPayload
    BY DEF HandlePacket, PublishPacket, RecordPacket, PubRelPacket, SubscribePacket,
           UnsubscribePacket, AckPacket, PubCompPacket, PingPacket, DisconnectPacket
  <2> QED
    BY <2>1 DEF InPayload, linkVars
<1>5. conn' = [conn EXCEPT ![task.link] = d] /\ AcksKeep(conn[task.link], d) /\ task'.step # "connect"
  BY <1>1 DEF Effect
<1> QED
  BY <1>3, <1>4, <1>5, PutQuiet

\* The connection a step replaces has kept its acks.
LEMMA SameAcksQuiet ==
    ASSUME BrokerType, LinkOK, UNCHANGED <<link, outbuf, chan, slab>>, NEW l \in Links, NEW d,
           conn' = [conn EXCEPT ![l] = d], d.acks = conn[l].acks, task'.step # "connect"
    PROVE  LinkOK'
<1>1. AcksKeep(conn[l], d)
  BY DEF AcksKeep
<1> QED
  BY <1>1, PutQuiet

\* Waking a connection tells its link nothing.
LEMMA ForceAcksQuiet ==
    ASSUME BrokerType, LinkOK, ForceAcks
    PROVE  LinkOK'
<1> DEFINE c == conn[task.link]
           d == IF task.force THEN Woken(c, "FreshData") ELSE c
<1>1. /\ task.step = "packets" /\ UNCHANGED <<link, outbuf, chan, slab>>
      /\ conn' = IF task.force THEN [conn EXCEPT ![task.link] = Woken(@, "FreshData")] ELSE conn
      /\ task' = [task EXCEPT !.step = "notify"]
  BY DEF ForceAcks, InPayload, linkVars
<1>2. task.link \in Links /\ task \in TasksIn(data) /\ conn \in [Links -> ConnectionsIn(data)]
  BY <1>1 DEF BrokerType, TaskHolds, TaskOK, ConnOK
<1>3. conn' = [conn EXCEPT ![task.link] = d] /\ c \in ConnectionsIn(data)
  BY <1>1, <1>2
<1>4. Woken(c, "FreshData").acks = c.acks
  BY <1>3, WokenFacts
<1>5. d.acks = c.acks
  BY <1>4
<1>6. task'.step = "notify"
  BY <1>1, <1>2, TaskFields
<1> HIDE DEF d
<1> QED
  BY <1>1, <1>2, <1>3, <1>5, <1>6, SameAcksQuiet

\* Nor does a request it gets back.
LEMMA NotifyQuiet ==
    ASSUME BrokerType, LinkOK, NotifyWaiter
    PROVE  LinkOK'
<1> DEFINE w == Head(task.notes)
           l == slab[w.id]
           c == conn[l]
           reqs == Append(c.reqs, w.req)
           c1 == [c EXCEPT !.reqs = reqs]
           d == Woken(c1, "FreshData")
<1>1. /\ task.step = "notify" /\ task.notes # <<>> /\ UNCHANGED <<link, outbuf, chan, slab>>
      /\ conn' = [conn EXCEPT ![l] = Woken([conn[l] EXCEPT !.reqs = Append(@, w.req)], "FreshData")]
      /\ task' = [task EXCEPT !.notes = Tail(@)]
  BY DEF NotifyWaiter, InPayload, linkVars
<1>2. task \in TasksIn(data) /\ task.notes \in Seq(WaitersIn(data))
  <2>1. task \in TasksIn(data)
    BY DEF BrokerType, TaskOK
  <2> QED
    BY <1>1, <2>1, TaskFields
<1>3. w \in WaitersIn(data) /\ w \in Range(task.notes)
  <2> DEFINE ns == task.notes
             W == WaitersIn(data)
  <2>1. ns \in Seq(W) /\ ns # <<>>
    BY <1>1, <1>2
  <2> HIDE DEF ns, W
  <2>2. Head(ns) \in W /\ Head(ns) \in Range(ns)
    BY <2>1, TailFacts
  <2> QED
    BY <2>2 DEF ns, W
<1>4. conn' = [conn EXCEPT ![l] = d]
  BY <1>1
<1> HIDE DEF w
<1>5. w.id \in Ids /\ w.req \in RequestsIn(data) /\ Used(w.id)
  BY <1>3 DEF WaitersIn, BrokerType, TaskHolds
<1>6. l \in Links
  BY <1>5 DEF BrokerType, SlabOK, Used
<1>7. c \in ConnectionsIn(data) /\ c = conn[l]
  BY <1>6 DEF BrokerType, ConnOK
<1> HIDE DEF c
<1>8. reqs \in Seq(RequestsIn(data))
  <2>1. c.reqs \in Seq(RequestsIn(data))
    BY <1>7, ConnFields
  <2> QED
    BY <1>5, <2>1
<1> HIDE DEF reqs
<1>9. c1 \in ConnectionsIn(data) /\ c1.acks = c.acks
  BY <1>7, <1>8, ConnEdits, ConnFields
<1> HIDE DEF c1
<1>10. d.acks = c1.acks
  BY <1>9, WokenFacts
<1> HIDE DEF d
<1>11. task'.step = "notify"
  BY <1>1, <1>2, TaskFields
<1> HIDE DEF l
<1> QED
  BY <1>1, <1>4, <1>6, <1>7, <1>9, <1>10, <1>11, SameAcksQuiet

\* A connection is dropped: the others are left as they are.
LEMMA DroppedLinks ==
    ASSUME BrokerType, NEW id \in Ids, Used(id), Disconnection(id)
    PROVE  /\ \A i \in Ids : slab'[i] = slab[i] \/ slab'[i] = None
           /\ \A l \in Links : Live(l)' => Live(l) /\ AcksKeep(conn[l], conn'[l])
<1>1. slab' = [slab EXCEPT ![id] = None] /\ conn' = [conn EXCEPT ![slab[id]] = Fresh]
  BY DEF Disconnection
<1>2. SlabOK /\ slab \in [Ids -> Links \cup {None}] /\ conn \in [Links -> ConnectionsIn(data)]
  BY DEF BrokerType, SlabOK, ConnOK
<1>3. \A l \in Links : l # slab[id] => conn'[l] = conn[l]
  BY <1>1, <1>2
<1>4. \A i \in Ids : slab'[i] = slab[i] \/ slab'[i] = None
  BY <1>1, <1>2
<1> QED
  BY <1>1, <1>2, <1>3, <1>4, DisconnectionLinks

\* handle_device_payload ends: ids are given back, none is given out.
LEMMA EndPayloadQuiet ==
    ASSUME BrokerType, LinkOK, EndPayload
    PROVE  LinkOK'
<1>1. /\ task.step = "notify" /\ task' = NoTask /\ UNCHANGED <<link, outbuf, chan>>
      /\ IF task.bad THEN Disconnection(task.id) ELSE UNCHANGED <<slab, conn>>
  BY DEF EndPayload, linkVars
<1>2. task.id \in Ids /\ Used(task.id)
  BY <1>1, BrokerAssumption DEF BrokerType, TaskOK, TasksIn, TaskHolds, Used
<1>3. task'.step # "connect"
  BY <1>1 DEF NoTask
<1>4. /\ \A i \in Ids : slab'[i] = slab[i] \/ slab'[i] = None
      /\ \A l \in Links : Live(l)' => AcksKeep(conn[l], conn'[l])
  <2>1. CASE task.bad
    BY <1>1, <1>2, <2>1, DroppedLinks
  <2>2. CASE ~task.bad
    BY <1>1, <2>2 DEF AcksKeep
  <2> QED
    BY <2>1, <2>2
<1> QED
  BY <1>1, <1>3, <1>4, RouterQuiet

\* The id of a dropped connection is given back.
LEMMA DropDuplicateQuiet ==
    ASSUME BrokerType, LinkOK, NEW id \in Ids, DropDuplicate(id)
    PROVE  LinkOK'
<1>1. id \in Rivals /\ Disconnection(id) /\ task' = task /\ UNCHANGED <<link, outbuf, chan>>
  BY DEF DropDuplicate, linkVars
<1>2. Used(id)
  BY <1>1 DEF Rivals, ConnectionOf
<1>3. /\ \A i \in Ids : slab'[i] = slab[i] \/ slab'[i] = None
      /\ \A l \in Links : Live(l)' => AcksKeep(conn[l], conn'[l])
  BY <1>1, <1>2, DroppedLinks
<1> QED
  BY <1>1, <1>3, RouterQuiet

\* Refused links and polls that find nothing.
LEMMA NothingQuiet ==
    ASSUME BrokerType, LinkOK, Refuse \/ PollNothing \/ PollStale \/ Drained
    PROVE  LinkOK'
<1>1. UNCHANGED <<link, outbuf, chan, slab, conn>> /\ (task' = task \/ task' = NoTask)
  BY DEF Refuse, PollNothing, PollStale, Drained, linkVars
<1>2. task'.step = "connect" => task' = task
  BY <1>1 DEF NoTask
<1>3. \A l \in Links : AcksKeep(conn[l], conn'[l])
  BY <1>1 DEF AcksKeep
<1> QED
  BY <1>1, <1>2, <1>3, RouterQuiet

\* Turns that serve nothing send nothing.
LEMMA TurnEndQuiet ==
    ASSUME BrokerType, LinkOK, RequestInflightFull \/ CaughtUp \/ TurnEnds
    PROVE  LinkOK'
<1> DEFINE c == conn[task.link]
<1>1. /\ task.step = "requests" /\ task' = NoTask /\ UNCHANGED <<link, outbuf, chan, slab>>
  BY DEF RequestInflightFull, CaughtUp, TurnEnds, InConsume, linkVars
<1>2. task.link \in Links /\ c \in ConnectionsIn(data)
  BY <1>1, ServingFacts
<1>3. \E d : d.acks = c.acks /\ conn' = [conn EXCEPT ![task.link] = d]
  <2>1. CASE RequestInflightFull
    <3> DEFINE rs == c.reqs \o Tail(task.reqs) \o <<Head(task.reqs)>>
               d == [[c EXCEPT !.reqs = rs] EXCEPT !.status = "InflightFull"]
    <3>1. conn' = [conn EXCEPT ![task.link] = d]
      BY <2>1 DEF RequestInflightFull, Paused
    <3> HIDE DEF rs
    <3>2. d.acks = c.acks
      BY <1>2, ConnFields
    <3> QED
      BY <3>1, <3>2
  <2>2. CASE CaughtUp
    <3> DEFINE d == [c EXCEPT !.status = "Caughtup"]
    <3>1. conn' = [conn EXCEPT ![task.link] = d]
      BY <2>2 DEF CaughtUp, Paused
    <3>2. d.acks = c.acks
      BY <1>2, ConnFields
    <3> QED
      BY <3>1, <3>2
  <2>3. CASE TurnEnds
    <3> DEFINE rs == c.reqs \o task.reqs
               d == [c EXCEPT !.reqs = rs]
    <3>1. conn' = [conn EXCEPT ![task.link] = d]
      BY <1>2, <2>3 DEF TurnEnds, BrokerType, ConnOK
    <3> HIDE DEF rs
    <3>2. d.acks = c.acks
      BY <1>2, ConnFields
    <3> QED
      BY <3>1, <3>2
  <2> QED
    BY <2>1, <2>2, <2>3
<1>4. PICK d : d.acks = c.acks /\ conn' = [conn EXCEPT ![task.link] = d]
  BY <1>3
<1>5. task'.step # "connect"
  BY <1>1 DEF NoTask
<1> QED
  BY <1>1, <1>2, <1>4, <1>5, SameAcksQuiet

\* An event is taken out of the channel.
LEMMA BeginTakes ==
    ASSUME BrokerType, NEW e, Begin(e)
    PROVE  /\ \A i \in 1 .. Len(chan') : i + 1 \in 1 .. Len(chan) /\ chan'[i] = chan[i + 1]
           /\ 1 \in 1 .. Len(chan) /\ chan[1] = e
           /\ \A i \in 1 .. Len(chan) : i = 1 \/ (i - 1 \in 1 .. Len(chan') /\ chan'[i - 1] = chan[i])
<1>1. chan \in Seq(Events) /\ chan # <<>> /\ e = Head(chan) /\ chan' = Tail(chan)
  BY DEF BrokerType, ChanOK, Begin
<1> DEFINE t == Tail(chan)
           n == Len(chan)
<1>2. /\ n \in Nat /\ n > 0 /\ Len(t) = n - 1 /\ Head(chan) = chan[1]
      /\ \A i \in 1 .. n - 1 : t[i] = chan[i + 1]
  BY <1>1, TailFacts
<1>3. chan' = t
  BY <1>1
<1> HIDE DEF t, n
<1>4. Len(chan') = n - 1 /\ \A i \in 1 .. n - 1 : chan'[i] = chan[i + 1]
  BY <1>2, <1>3
<1>5. \A i \in 1 .. n - 1 : i + 1 \in 1 .. n
  BY <1>2
<1>6. \A i \in 1 .. n : i = 1 \/ (i - 1 \in 1 .. n - 1 /\ (i - 1) + 1 = i)
  BY <1>2
<1>7. 1 \in 1 .. n /\ chan[1] = e
  BY <1>1, <1>2
<1> QED
  BY <1>4, <1>5, <1>6, <1>7 DEF n

\* A Connect taken from the channel is still to be admitted.
LEMMA ConnectQuiet ==
    ASSUME BrokerType, LinkOK, NEW e, HandleConnect(e)
    PROVE  LinkOK'
<1>1. /\ Begin(e) /\ e.k = "Connect" /\ UNCHANGED <<link, outbuf, slab, conn>>
      /\ task' = [NoTask EXCEPT !.step = "connect", !.link = e.link]
  BY DEF HandleConnect, linkVars
<1>2. /\ \A i \in 1 .. Len(chan') : i + 1 \in 1 .. Len(chan) /\ chan'[i] = chan[i + 1]
      /\ 1 \in 1 .. Len(chan) /\ chan[1] = e
  BY <1>1, BeginTakes
<1>3. task'.step = "connect" /\ task'.link = e.link
  BY <1>1 DEF NoTask
<1>4. \A l \in Links : Coming(l)' => Coming(l)
  BY <1>1, <1>2, <1>3 DEF Coming
<1>5. \A l \in Links : Coming(l)' => link'[l].pc = "connecting" /\ outbuf'[l] = <<>> /\ ~Live(l)'
  BY <1>1, <1>4 DEF LinkOK, ComesOK, Live
<1>6. ASSUME NEW i \in 1 .. Len(chan'), NEW j \in 1 .. Len(chan'),
             chan'[i].k = "Connect", chan'[j].k = "Connect", chan'[i].link = chan'[j].link
      PROVE  i = j
  <2>1. i + 1 = j + 1
    BY <1>2, <1>6 DEF LinkOK, ComesOK
  <2> QED
    BY <2>1
<1>7. ASSUME NEW i \in 1 .. Len(chan'), chan'[i].k = "Connect" PROVE chan'[i].link # task'.link
  <2>1. ASSUME chan'[i].link = task'.link PROVE FALSE
    <3>1. i + 1 = 1
      BY <1>1, <1>2, <1>3, <1>7, <2>1 DEF LinkOK, ComesOK
    <3> QED
      BY <3>1
  <2> QED
    BY <2>1
<1>8. ComesOK'
  BY <1>5, <1>6, <1>7 DEF ComesOK
<1>9. KnowsOK'
  BY <1>1 DEF LinkOK, KnowsOK, Knows, Used
<1> QED
  BY <1>8, <1>9 DEF LinkOK

\* Every event.
LEMMA EventQuiet ==
    ASSUME BrokerType, LinkOK, NEW e, HandleEvent(e)
    PROVE  LinkOK'
<1>1. CASE HandleConnect(e)
  BY <1>1, ConnectQuiet
<1>2. CASE HandleDeviceData(e) \/ HandleDisconnect(e) \/ HandleReady(e)
  <2>1. Begin(e) /\ UNCHANGED <<link, outbuf>>
    BY <1>2 DEF HandleDeviceData, HandleDisconnect, HandleReady, linkVars
  <2>2. 1 \in Nat /\ \A i \in 1 .. Len(chan') : i + 1 \in 1 .. Len(chan) /\ chan'[i] = chan[i + 1]
    BY <2>1, BeginTakes
  <2>3. e.id \in Ids
    <3>1. e \in Events
      BY <2>1, BeginFacts
    <3> QED
      BY <3>1 DEF Events
  <2>4. CASE HandleDeviceData(e)
    <3>1. /\ UNCHANGED <<slab, conn>>
          /\ task' = task \/ task' = [NoTask EXCEPT !.step = "packets", !.id = e.id,
                               !.link = slab[e.id], !.cache = inbuf[slab[e.id]]]
      BY <2>4 DEF HandleDeviceData
    <3>2. task'.step = "connect" => task' = task
      BY <3>1 DEF NoTask
    <3>3. \A l \in Links : AcksKeep(conn[l], conn'[l])
      BY <3>1 DEF AcksKeep
    <3> QED
      BY <2>1, <2>2, <3>1, <3>2, <3>3, RouterUntold
  <2>5. CASE HandleDisconnect(e)
    <3>1. task' = task /\ IF Used(e.id) THEN Disconnection(e.id) ELSE UNCHANGED <<slab, conn>>
      BY <2>5 DEF HandleDisconnect
    <3>2. /\ \A i \in Ids : slab'[i] = slab[i] \/ slab'[i] = None
          /\ \A l \in Links : Live(l)' => AcksKeep(conn[l], conn'[l])
      <4>1. CASE Used(e.id)
        BY <2>3, <3>1, <4>1, DroppedLinks
      <4>2. CASE ~Used(e.id)
        BY <3>1, <4>2 DEF AcksKeep
      <4> QED
        BY <4>1, <4>2
    <3> QED
      BY <2>1, <2>2, <3>1, <3>2, RouterUntold
  <2>6. CASE HandleReady(e)
    <3>1. /\ slab' = slab
          /\ IF Used(e.id)
             THEN conn' = [conn EXCEPT ![slab[e.id]] = Woken(@, "Ready")] /\ UNCHANGED task
             ELSE task' = [NoTask EXCEPT !.step = "panicked"] /\ UNCHANGED conn
      BY <2>6 DEF HandleReady
    <3>2. task'.step = "connect" => task' = task
      BY <3>1 DEF NoTask
    <3>3. \A l \in Links : AcksKeep(conn[l], conn'[l])
      <4>1. CASE Used(e.id)
        <5> DEFINE l == slab[e.id]
        <5>1. l \in Links /\ conn \in [Links -> ConnectionsIn(data)]
          BY <2>3, <4>1 DEF BrokerType, SlabOK, ConnOK, Used
        <5>2. AcksKeep(conn[l], Woken(conn[l], "Ready"))
          BY <5>1, WokenFacts
        <5>3. conn'[l] = Woken(conn[l], "Ready") /\ \A m \in Links : m # l => conn'[m] = conn[m]
          BY <3>1, <4>1, <5>1
        <5> QED
          BY <5>2, <5>3 DEF AcksKeep
      <4>2. CASE ~Used(e.id)
        BY <3>1, <4>2 DEF AcksKeep
      <4> QED
        BY <4>1, <4>2
    <3> QED
      BY <2>1, <2>2, <3>1, <3>2, <3>3, RouterUntold
  <2> QED
    BY <1>2, <2>4, <2>5, <2>6
<1> QED
  BY <1>1, <1>2 DEF HandleEvent

\* The ConnAck of a new connection has the id it is stored under.
LEMMA AdmitQuiet ==
    ASSUME BrokerType, LinkOK, Admit
    PROVE  LinkOK'
<1> DEFINE l == task.link
           id == Head(free)
<1>1. /\ task.step = "connect" /\ Rivals = {} /\ free # <<>>
      /\ slab' = [slab EXCEPT ![id] = l] /\ task' = NoTask
      /\ UNCHANGED <<link, outbuf, chan>>
  BY DEF Admit, linkVars
<1>2. /\ l \in Links /\ slab \in [Ids -> Links \cup {None}] /\ conn \in [Links -> ConnectionsIn(data)]
      /\ None \notin Links
  BY <1>1, BrokerAssumption DEF BrokerType, TaskHolds, SlabOK, ConnOK
<1>3. \E d : Head(d.acks).pkid = id /\ conn' = [conn EXCEPT ![l] = d]
  <2> DEFINE c == ClientOf[l]
             saved == IF grave[c] = None \/ l \in Clean THEN NoSession ELSE grave[c]
             again == [i \in 1 .. Len(saved.pubrels) |-> Ack("PubRel", saved.pubrels[i])]
             acks == <<Ack("ConnAck", id)>> \o again
             d == [Fresh EXCEPT !.status = "Ready", !.reqs = saved.reqs, !.subs = saved.subs,
                                !.pubrels = saved.pubrels, !.acks = acks]
  <2>1. conn' = [conn EXCEPT ![l] = d]
    BY DEF Admit
  <2>2. saved.pubrels \in Seq(Nat)
    <3>1. NoSession \in SessionsIn(data)
      BY FreshOK
    <3>2. grave[c] \in SessionsIn(data) \cup {None}
      BY <1>2, BrokerAssumption DEF BrokerType, GraveOK
    <3>3. saved \in SessionsIn(data)
      BY <3>1, <3>2
    <3> HIDE DEF saved
    <3> QED
      BY <3>3 DEF SessionsIn
  <2>3. Head(acks) = Ack("ConnAck", id)
    <3> DEFINE S == {Ack("ConnAck", id)} \cup {Ack("PubRel", n) : n \in Nat}
               x == Ack("ConnAck", id)
               pr == saved.pubrels
    <3>1. again = [i \in 1 .. Len(pr) |-> Ack("PubRel", pr[i])] /\ pr \in Seq(Nat)
      BY <2>2
    <3> HIDE DEF pr
    <3>2. again \in Seq(S)
      BY <3>1
    <3>3. x \in S
      OBVIOUS
    <3> HIDE DEF again, S, x
    <3>4. <<x>> \o again \in Seq(S) /\ (<<x>> \o again)[1] = x
      BY <3>2, <3>3, ConsFacts
    <3>5. Head(<<x>> \o again) = x
      BY <3>4
    <3> QED
      BY <3>5 DEF x
  <2> HIDE DEF saved, acks, id, l
  <2>4. d.acks = acks
    BY DEF Fresh
  <2>5. Head(acks).pkid = id
    BY <2>3 DEF Ack
  <2> HIDE DEF d
  <2> QED
    BY <2>1, <2>4, <2>5 DEF l
<1>4. PICK d : Head(d.acks).pkid = id /\ conn' = [conn EXCEPT ![l] = d]
  BY <1>3
<1>5. id \in Ids
  <2>1. free \in Seq(Ids)
    BY DEF BrokerType, SlabOK
  <2> QED
    BY <1>1, <2>1
<1> HIDE DEF id
<1>6. Coming(l)
  BY <1>1 DEF Coming
<1>7. link[l].pc = "connecting" /\ outbuf[l] = <<>> /\ ~Live(l)
  BY <1>2, <1>6 DEF LinkOK, ComesOK
<1>8. conn'[l] = d /\ \A k \in Links : k # l => conn'[k] = conn[k]
  BY <1>2, <1>4
<1>9. task'.step # "connect"
  BY <1>1 DEF NoTask
<1>10. ASSUME NEW m \in Links, Coming(m)'
       PROVE  link'[m].pc = "connecting" /\ outbuf'[m] = <<>> /\ ~Live(m)'
  <2>1. PICK i \in 1 .. Len(chan) : chan[i].k = "Connect" /\ chan[i].link = m
    BY <1>1, <1>9, <1>10 DEF Coming
  <2>2. m # l
    BY <1>1, <2>1 DEF LinkOK, ComesOK
  <2>3. link[m].pc = "connecting" /\ outbuf[m] = <<>> /\ ~Live(m)
    BY <2>1 DEF LinkOK, ComesOK, Coming
  <2>4. \A n \in Ids : slab'[n] = slab[n] \/ slab'[n] = l
    BY <1>1, <1>2, <1>5
  <2>5. ~Live(m)'
    BY <2>2, <2>3, <2>4 DEF Live
  <2> QED
    BY <1>1, <2>3, <2>5
<1>11. ComesOK'
  BY <1>1, <1>9, <1>10 DEF LinkOK, ComesOK
<1>12. ASSUME NEW i \in Ids, Used(i)' PROVE Knows(slab[i], i)'
  <2>1. CASE i = id
    <3>1. slab'[i] = l
      BY <1>1, <1>2, <1>5, <2>1
    <3>2. link'[l].pc = "connecting" /\ outbuf'[l] = <<>> /\ Head(conn'[l].acks).pkid = id
      BY <1>1, <1>4, <1>7, <1>8
    <3> HIDE DEF l
    <3> QED
      BY <2>1, <3>1, <3>2 DEF Knows
  <2>2. CASE i # id
    <3>1. slab'[i] = slab[i] /\ Used(i) /\ slab[i] \in Links /\ slab[i] # l
      BY <1>1, <1>2, <1>5, <1>7, <1>12, <2>2 DEF Used, Live
    <3>2. conn'[slab[i]] = conn[slab[i]] /\ Knows(slab[i], i)
      BY <1>8, <3>1 DEF LinkOK, KnowsOK
    <3> QED
      BY <1>1, <3>1, <3>2 DEF Knows
  <2> QED
    BY <2>1, <2>2
<1>13. KnowsOK'
  BY <1>12 DEF KnowsOK
<1> QED
  BY <1>11, <1>13 DEF LinkOK

\* Notifications are put behind those a link of the router has.
LEMMA SentQuiet ==
    ASSUME BrokerType, LinkOK, UNCHANGED <<link, chan, slab>>, NEW l \in Links, Live(l),
           NEW ms \in Seq(Notifications), outbuf' = [outbuf EXCEPT ![l] = outbuf[l] \o ms],
           \A k \in Links : k # l => conn'[k] = conn[k],
           task'.step # "connect",
           link[l].pc = "connecting" /\ outbuf[l] = <<>> => ms = conn[l].acks
    PROVE  LinkOK'
<1>1. /\ outbuf \in [Links -> Seq(Notifications)] /\ slab \in [Ids -> Links \cup {None}]
      /\ None \notin Links /\ outbuf[l] \in Seq(Notifications)
  BY BrokerAssumption DEF BrokerType, BuffersOK, SlabOK
<1>2. ~Coming(l)
  BY DEF LinkOK, ComesOK
<1>3. ASSUME NEW m \in Links, Coming(m)' PROVE Coming(m) /\ m # l
  BY <1>2, <1>3 DEF Coming
<1>4. \A m \in Links : m # l => outbuf'[m] = outbuf[m]
  BY <1>1
<1>5. ASSUME NEW m \in Links, Coming(m)'
      PROVE  link'[m].pc = "connecting" /\ outbuf'[m] = <<>> /\ ~Live(m)'
  BY <1>3, <1>4, <1>5 DEF LinkOK, ComesOK, Live
<1>6. ComesOK'
  BY <1>5 DEF LinkOK, ComesOK
<1>7. ASSUME NEW i \in Ids, Used(i)' PROVE Knows(slab[i], i)'
  <2>1. Used(i) /\ slab'[i] = slab[i] /\ slab[i] \in Links /\ Knows(slab[i], i)
    BY <1>1, <1>7 DEF Used, LinkOK, KnowsOK
  <2>2. CASE slab[i] # l
    BY <1>4, <2>1, <2>2 DEF Knows
  <2>3. CASE slab[i] = l
    <3> DEFINE o == outbuf[l]
               a == conn[l].acks
               p == o \o ms
    <3>1. o \in Seq(Notifications) /\ outbuf'[l] = p
      BY <1>1
    <3>2. link[l].pc = "connecting" /\ o = <<>> => a # <<>> /\ ms = a
      <4>1. Greeted(l)
        BY DEF BrokerType, GreetingOK
      <4> QED
        BY <4>1 DEF Greeted
    <3>3. link[l].pc = "connecting" => IF o # <<>> THEN Head(o).pkid = i ELSE Head(a).pkid = i
      BY <2>1, <2>3 DEF Knows
    <3>4. link[l].pc \in {"up", "wake"} => link[l].id = i
      BY <2>1, <2>3 DEF Knows
    <3> HIDE DEF o, a
    <3>5. o # <<>> => p # <<>> /\ Head(p) = Head(o)
      BY <3>1
    <3>6. o = <<>> => p = ms
      BY <3>1
    <3>7. link[l].pc = "connecting" => p # <<>> /\ Head(p).pkid = i
      BY <3>2, <3>3, <3>5, <3>6
    <3> HIDE DEF p
    <3> QED
      BY <2>1, <2>3, <3>1, <3>4, <3>7 DEF Knows
  <2> QED
    BY <2>2, <2>3
<1>8. KnowsOK'
  BY <1>7 DEF KnowsOK
<1> QED
  BY <1>6, <1>8 DEF LinkOK

\* poll sends the ConnAck first.
LEMMA PollQuiet ==
    ASSUME BrokerType, LinkOK, Poll
    PROVE  LinkOK'
<1> DEFINE id == Head(ready)
           l == slab[id]
           ms == conn[l].acks
<1>1. /\ ready # <<>> /\ Used(id) /\ UNCHANGED <<link, chan, slab>>
      /\ conn' = [conn EXCEPT ![l].acks = <<>>, ![l].reqs = <<>>]
      /\ outbuf' = [outbuf EXCEPT ![l] = outbuf[l] \o ms]
      /\ task' = [NoTask EXCEPT !.step = "requests", !.id = id, !.link = l,
                                !.reqs = conn[l].reqs, !.left = MaxIterations]
  BY DEF Poll, linkVars, BrokerType, BuffersOK
<1>2. id \in Ids
  <2>1. ready \in Seq(Ids)
    BY DEF BrokerType, TablesOK
  <2> QED
    BY <1>1, <2>1
<1> HIDE DEF id
<1>3. l \in Links /\ Live(l)
  BY <1>1, <1>2 DEF BrokerType, SlabOK, Used, Live
<1>4. ms \in Seq(Notifications)
  <2>1. conn[l] \in ConnectionsIn(data)
    BY <1>3 DEF BrokerType, ConnOK
  <2>2. ms \in Seq(Acks)
    BY <2>1, ConnFields
  <2>3. Acks \subseteq Notifications
    BY DEF Notifications
  <2> QED
    BY <2>2, <2>3, SeqMono
<1>5. \A k \in Links : k # l => conn'[k] = conn[k]
  BY <1>1 DEF BrokerType, ConnOK
<1>6. task'.step # "connect"
  BY <1>1 DEF NoTask
<1>7. ms = conn[l].acks
  OBVIOUS
<1> HIDE DEF l, ms
<1> QED
  BY <1>1, <1>3, <1>4, <1>5, <1>6, <1>7, SentQuiet

\* Messages are sent behind the ConnAck.
LEMMA ServeQuiet ==
    ASSUME BrokerType, LinkOK, ServeRequest
    PROVE  LinkOK'
<1> DEFINE l == task.link
<1>1. task.step = "requests" /\ task.left > 0 /\ task.reqs # <<>>
  BY DEF ServeRequest
<1>2. PICK order, read : ServeOK(order, read) /\ Serve(order, read)
  BY ServeRequestOK
<1> DEFINE fs == TurnOut(order, read)
           busy == IF TurnFull(order, read) THEN <<Unschedule>> ELSE <<>>
           ms == fs \o busy
<1>3. /\ outbuf' = [outbuf EXCEPT ![l] = outbuf[l] \o fs \o busy]
      /\ InConsume /\ (TurnBusy(order, read) \/ TurnParks(order, read) \/ TurnAgain(order, read))
  BY <1>2, ServeParts
<1>4. UNCHANGED <<link, chan, slab>>
  BY <1>3 DEF InConsume, linkVars
<1>5. /\ l \in Links /\ task.id \in Ids /\ slab[task.id] = l /\ task \in TasksIn(data)
  BY <1>1, ServingFacts
<1>6. Live(l)
  BY <1>5 DEF Live
<1>7. \A k \in Links : k # l => conn'[k] = conn[k]
  BY <1>3, <1>5 DEF TurnBusy, TurnParks, TurnAgain, BrokerType, ConnOK
<1>8. task'.step # "connect"
  <2>1. task' = NoTask \/ \E rs : task' = [task EXCEPT !.reqs = rs, !.left = task.left - 1]
    BY <1>3 DEF TurnBusy, TurnParks, TurnAgain
  <2>2. CASE task' = NoTask
    BY <2>2 DEF NoTask
  <2>3. CASE \E rs : task' = [task EXCEPT !.reqs = rs, !.left = task.left - 1]
    BY <1>1, <1>5, <2>3, TaskFields
  <2> QED
    BY <2>1, <2>2, <2>3
<1>9. link[l].pc = "connecting" => outbuf[l] # <<>>
  BY <1>1, <1>5, <1>6 DEF BrokerType, GreetingOK, Greeted
<1>10. fs \in Seq(Notifications) /\ busy \in Seq(Notifications) /\ outbuf[l] \in Seq(Notifications)
  <2>1. Head(task.reqs) \in RequestsIn(data)
    BY <1>1, ServingFacts
  <2>2. Sending(order, read) \in Seq(Sendable(Head(task.reqs).f))
    BY <1>1, <1>2, SendingType
  <2> DEFINE req == Head(task.reqs)
             sent == Sending(order, read)
  <2>3. Forwards(req, sent) \in Seq(Notifications)
    <3>1. req \in RequestsIn(data) /\ sent \in Seq(Sendable(req.f))
      BY <2>1, <2>2
    <3> HIDE DEF req, sent, fs, ms
    <3>2. Forwards(req, sent) \in Seq(ForwardsOut)
      BY <1>1, <3>1, ForwardsType
    <3>3. ForwardsOut \subseteq Notifications
      BY DEF Notifications
    <3> QED
      BY <3>2, <3>3, SeqMono
  <2>4. fs \in Seq(Notifications)
    BY <2>3 DEF TurnOut
  <2>5. Unschedule \in Notifications
    BY DEF Notifications
  <2>6. busy \in Seq(Notifications)
    BY <2>5
  <2> QED
    BY <1>5, <2>4, <2>6 DEF BrokerType, BuffersOK
<1> HIDE DEF fs, busy
<1> DEFINE o == outbuf[l]
<1>11. o \in Seq(Notifications)
  BY <1>10
<1>12. outbuf' = [outbuf EXCEPT ![l] = o \o ms]
  <2>1. outbuf' = [outbuf EXCEPT ![l] = o \o fs \o busy]
    BY <1>3
  <2> HIDE DEF o
  <2>2. (o \o fs) \o busy = o \o ms
    BY <1>10, <1>11, ConcatThree
  <2> QED
    BY <2>1, <2>2
<1>13. ms \in Seq(Notifications)
  BY <1>10
<1> HIDE DEF ms, l
<1> QED
  BY <1>4, <1>5, <1>6, <1>7, <1>8, <1>9, <1>12, <1>13, SentQuiet

\* A step of one link that is not to be admitted any more, or was never.
LEMMA LinkQuiet ==
    ASSUME BrokerType, LinkOK, UNCHANGED routerVars, NEW l \in Links,
           \A m \in Links : m # l => link'[m] = link[m] /\ outbuf'[m] = outbuf[m],
           \A i \in 1 .. Len(chan') : chan'[i].k = "Connect" => i \in 1 .. Len(chan) /\ chan[i] = chan'[i],
           ~Coming(l), link'[l].pc # "connecting",
           link'[l].pc \in {"up", "wake"} => \A id \in Ids : slab[id] = l => link'[l].id = id
    PROVE  LinkOK'
<1>1. slab' = slab /\ conn' = conn /\ task' = task /\ None \notin Links
  BY BrokerAssumption DEF routerVars
<1>2. slab \in [Ids -> Links \cup {None}]
  BY DEF BrokerType, SlabOK
<1>3. \A m \in Links : Coming(m)' => Coming(m)
  BY <1>1 DEF Coming
<1>4. \A m \in Links : Coming(m)' => link'[m].pc = "connecting" /\ outbuf'[m] = <<>> /\ ~Live(m)'
  BY <1>1, <1>3 DEF LinkOK, ComesOK, Live
<1>5. ASSUME NEW i \in 1 .. Len(chan'), NEW j \in 1 .. Len(chan'),
             chan'[i].k = "Connect", chan'[j].k = "Connect", chan'[i].link = chan'[j].link
      PROVE  i = j
  BY <1>5 DEF LinkOK, ComesOK
<1>6. task'.step = "connect" =>
        \A i \in 1 .. Len(chan') : chan'[i].k = "Connect" => chan'[i].link # task'.link
  BY <1>1 DEF LinkOK, ComesOK
<1>7. ComesOK'
  BY <1>4, <1>5, <1>6 DEF ComesOK
<1>8. ASSUME NEW i \in Ids, Used(i)' PROVE Knows(slab[i], i)'
  <2>1. slab'[i] = slab[i] /\ slab[i] \in Links /\ Knows(slab[i], i)
    BY <1>1, <1>2, <1>8 DEF Used, LinkOK, KnowsOK
  <2>2. CASE slab[i] = l
    BY <2>1, <2>2 DEF Knows
  <2>3. CASE slab[i] # l
    BY <1>1, <2>1, <2>3 DEF Knows
  <2> QED
    BY <2>2, <2>3
<1>9. KnowsOK'
  BY <1>8 DEF KnowsOK
<1> QED
  BY <1>7, <1>9 DEF LinkOK

\* A link begins: it is to be admitted.
LEMMA DialQuiet ==
    ASSUME BrokerType, LinkOK, NEW l \in Links, Dial(l)
    PROVE  LinkOK'
<1>1. /\ link[l].pc = "idle" /\ Post("Connect", l) /\ UNCHANGED routerVars
      /\ link' = [link EXCEPT ![l].pc = "connecting"] /\ outbuf' = outbuf
  BY DEF Dial, NoRouter
<1> DEFINE n == Len(chan)
           e == Event("Connect", link[l].id, l)
<1>2. /\ Len(chan') = n + 1 /\ n \in Nat /\ \A i \in 1 .. n : chan'[i] = chan[i]
      /\ chan'[n + 1] = e /\ e.link = l
  <2>1. /\ Len(chan') = Len(chan) + 1 /\ Len(chan) \in Nat
        /\ \A i \in 1 .. Len(chan) : chan'[i] = chan[i]
        /\ chan'[Len(chan) + 1] = Event("Connect", link[l].id, l)
    BY <1>1, PostKeeps
  <2> QED
    BY <2>1 DEF Event
<1>3. slab' = slab /\ conn' = conn /\ task' = task /\ slab \in [Ids -> Links \cup {None}]
      /\ None \notin Links /\ link \in [Links -> LinkStates]
  BY <1>1, BrokerAssumption DEF routerVars, BrokerType, SlabOK, BuffersOK
<1>4. ~Known(l)
  BY <1>1 DEF BrokerType, IdleOK
<1>5. ~Coming(l) /\ ~Live(l) /\ outbuf[l] = <<>>
  BY <1>4 DEF Known, Coming
<1>6. link'[l].pc = "connecting" /\ \A m \in Links : m # l => link'[m] = link[m]
  BY <1>1, <1>3 DEF LinkStates
<1>7. \A i \in 1 .. Len(chan') : i = n + 1 \/ (i \in 1 .. n /\ chan'[i] = chan[i])
  <2>1. \A i \in 1 .. n + 1 : i = n + 1 \/ i \in 1 .. n
    <3> HIDE DEF n
    <3> QED
      BY <1>2
  <2> QED
    BY <1>2, <2>1
<1>8. chan'[n + 1].link = l
  BY <1>2
<1>9. \A i \in 1 .. n : chan[i].k = "Connect" => chan[i].link # l
  BY <1>5 DEF Coming
<1> HIDE DEF n, e
<1>10. \A m \in Links : m # l /\ Coming(m)' => Coming(m)
  BY <1>3, <1>7, <1>8 DEF Coming, n
<1>11. ASSUME NEW m \in Links, Coming(m)'
       PROVE  link'[m].pc = "connecting" /\ outbuf'[m] = <<>> /\ ~Live(m)'
  <2>1. CASE m = l
    BY <1>1, <1>3, <1>5, <1>6, <2>1 DEF Live
  <2>2. CASE m # l
    BY <1>1, <1>3, <1>6, <1>10, <1>11, <2>2 DEF Live, LinkOK, ComesOK
  <2> QED
    BY <2>1, <2>2
<1>12. ASSUME NEW i \in 1 .. Len(chan'), NEW j \in 1 .. Len(chan'),
             chan'[i].k = "Connect", chan'[j].k = "Connect", chan'[i].link = chan'[j].link
      PROVE  i = j
  BY <1>7, <1>8, <1>9, <1>12 DEF LinkOK, ComesOK, n
<1>13. ASSUME task'.step = "connect", NEW i \in 1 .. Len(chan'), chan'[i].k = "Connect"
       PROVE  chan'[i].link # task'.link
  BY <1>3, <1>5, <1>7, <1>8, <1>13 DEF LinkOK, ComesOK, Coming, n
<1>14. ComesOK'
  BY <1>11, <1>12, <1>13 DEF ComesOK
<1>15. ASSUME NEW i \in Ids, Used(i)' PROVE Knows(slab[i], i)'
  <2>1. slab'[i] = slab[i] /\ slab[i] \in Links /\ Knows(slab[i], i) /\ slab[i] # l
    BY <1>3, <1>5, <1>15 DEF Used, LinkOK, KnowsOK, Live
  <2> QED
    BY <1>1, <1>3, <1>6, <2>1 DEF Knows
<1>16. KnowsOK'
  BY <1>15 DEF KnowsOK
<1> QED
  BY <1>14, <1>16 DEF LinkOK

\* The events of links that have begun.
LEMMA PostAdds ==
    ASSUME BrokerType, NEW l \in Links, NEW k \in {"DeviceData", "Disconnect", "Ready"}, Post(k, l)
    PROVE  \A i \in 1 .. Len(chan') : chan'[i].k = "Connect" => i \in 1 .. Len(chan) /\ chan[i] = chan'[i]
<1> DEFINE n == Len(chan)
<1>1. /\ Len(chan') = n + 1 /\ n \in Nat /\ \A i \in 1 .. n : chan'[i] = chan[i]
      /\ chan'[n + 1].k = k
  <2>1. /\ Len(chan') = Len(chan) + 1 /\ Len(chan) \in Nat
        /\ \A i \in 1 .. Len(chan) : chan'[i] = chan[i]
        /\ chan'[Len(chan) + 1] = Event(k, link[l].id, l)
    BY PostKeeps
  <2> QED
    BY <2>1 DEF Event
<1>2. \A i \in 1 .. n + 1 : i = n + 1 \/ i \in 1 .. n
  <2> HIDE DEF n
  <2> QED
    BY <1>1
<1> HIDE DEF n
<1>3. \A i \in 1 .. Len(chan') : chan'[i].k = "Connect" => i \in 1 .. n /\ chan[i] = chan'[i]
  BY <1>1, <1>2
<1> QED
  BY <1>3 DEF n

\* A link takes over the id of its connection, and keeps it.
LEMMA OneLinkQuiet ==
    ASSUME BrokerType, LinkOK, NEW l \in Links,
           \/ Established(l) \/ Refused(l) \/ Exchange(l) \/ Wake(l) \/ Dropped(l) \/ Fail(l)
           \/ GreetFails(l)
    PROVE  LinkOK'
<1>1. UNCHANGED routerVars
  BY DEF Established, Refused, Exchange, Wake, Dropped, Fail, GreetFails, NoRouter
<1>2. link \in [Links -> LinkStates] /\ outbuf \in [Links -> Seq(Notifications)]
  BY DEF BrokerType, BuffersOK
<1>3. \A m \in Links : m # l => link'[m] = link[m] /\ outbuf'[m] = outbuf[m]
  BY <1>2 DEF Established, Refused, Exchange, Wake, Dropped, Fail, GreetFails
<1>4. \A i \in 1 .. Len(chan') : chan'[i].k = "Connect" => i \in 1 .. Len(chan) /\ chan[i] = chan'[i]
  <2>1. CASE Established(l) \/ Refused(l) \/ Exchange(l) \/ Dropped(l) \/ GreetFails(l)
    BY <2>1 DEF Established, Refused, Exchange, Dropped, GreetFails
  <2>2. CASE Wake(l)
    BY <2>2, PostAdds DEF Wake
  <2>3. CASE Fail(l)
    BY <2>3, PostAdds DEF Fail
  <2> QED
    BY <2>1, <2>2, <2>3
<1>5. ~Coming(l)
  <2>1. CASE Refused(l)
    BY <2>1 DEF Refused, Coming
  <2>2. CASE Established(l) \/ GreetFails(l)
    BY <2>2 DEF Established, GreetFails, LinkOK, ComesOK
  <2>3. CASE Exchange(l) \/ Wake(l) \/ Dropped(l) \/ Fail(l)
    BY <2>3 DEF Exchange, Wake, Dropped, Fail, LinkOK, ComesOK
  <2> QED
    BY <2>1, <2>2, <2>3
<1>6. ASSUME NEW id \in Ids, slab[id] = l PROVE Knows(l, id)
  BY <1>6, BrokerAssumption DEF LinkOK, KnowsOK, Used
<1>7. CASE Established(l)
  <2>1. link'[l] = [pc |-> "up", id |-> Head(outbuf[l]).pkid] /\ link[l].pc = "connecting"
        /\ outbuf[l] # <<>>
    BY <1>2, <1>7 DEF Established
  <2>2. link'[l].pc = "up" /\ \A id \in Ids : slab[id] = l => link'[l].id = id
    BY <1>6, <2>1 DEF Knows
  <2> QED
    BY <1>1, <1>3, <1>4, <1>5, <2>2, LinkQuiet
<1>8. CASE Refused(l) \/ Dropped(l) \/ Fail(l) \/ GreetFails(l)
  <2>1. link'[l].pc = "closed"
    BY <1>2, <1>8 DEF Refused, Dropped, Fail, GreetFails, LinkStates
  <2> QED
    BY <1>1, <1>3, <1>4, <1>5, <2>1, LinkQuiet
<1>9. CASE Exchange(l) \/ Wake(l)
  <2>1. /\ link[l].pc \in {"up", "wake"} /\ link'[l].pc \in {"up", "wake"} /\ link'[l].id = link[l].id
    BY <1>2, <1>9 DEF Exchange, Wake, LinkStates
  <2>2. \A id \in Ids : slab[id] = l => link'[l].id = id
    BY <1>6, <2>1 DEF Knows
  <2> QED
    BY <1>1, <1>3, <1>4, <1>5, <2>1, <2>2, LinkQuiet
<1> QED
  BY <1>7, <1>8, <1>9

\* Reading packets makes no difference.
LEMMA ReadQuiet ==
    ASSUME BrokerType, LinkOK, NEW l \in Links, NEW p, Read(l, p)
    PROVE  LinkOK'
<1>1. link[l].pc = "up" /\ Post("DeviceData", l) /\ UNCHANGED routerVars /\ UNCHANGED <<link, outbuf>>
  BY DEF Read, NoRouter
<1>2. \A i \in 1 .. Len(chan') : chan'[i].k = "Connect" => i \in 1 .. Len(chan) /\ chan[i] = chan'[i]
  BY <1>1, PostAdds
<1>3. ~Coming(l)
  BY <1>1 DEF LinkOK, ComesOK
<1>4. \A id \in Ids : slab[id] = l => link'[l].id = id
  BY <1>1, BrokerAssumption DEF LinkOK, KnowsOK, Knows, Used
<1> QED
  BY <1>1, <1>2, <1>3, <1>4, LinkQuiet

\* Every step of the broker.
LEMMA LinkKeeps ==
    ASSUME BrokerType, LinkOK, [Next]_vars
    PROVE  LinkOK'
<1>1. CASE chan # <<>> /\ HandleEvent(Head(chan))
  BY <1>1, EventQuiet
<1>2. CASE \E id \in Ids : DropDuplicate(id)
  BY <1>2, DropDuplicateQuiet
<1>3. CASE Refuse \/ PollNothing \/ PollStale \/ Drained
  BY <1>3, NothingQuiet
<1>4. CASE Admit
  BY <1>4, AdmitQuiet
<1>5. CASE task.cache # <<>> /\ HandlePacket(Head(task.cache))
  BY <1>5, PacketQuiet
<1>6. CASE ForceAcks
  BY <1>6, ForceAcksQuiet
<1>7. CASE NotifyWaiter
  BY <1>7, NotifyQuiet
<1>8. CASE EndPayload
  BY <1>8, EndPayloadQuiet
<1>9. CASE Poll
  BY <1>9, PollQuiet
<1>10. CASE ServeRequest
  BY <1>10, ServeQuiet
<1>11. CASE RequestInflightFull \/ CaughtUp \/ TurnEnds
  BY <1>11, TurnEndQuiet
<1>12. ASSUME NEW l \in Links, LinkStep(l) \/ Fail(l) \/ GreetFails(l) PROVE LinkOK'
  BY <1>12, OneLinkQuiet DEF LinkStep
<1>13. ASSUME NEW l \in Links, Dial(l) PROVE LinkOK'
  BY <1>13, DialQuiet
<1>14. ASSUME NEW l \in Links,
              \/ ClientAnswer(l)
              \/ \E t \in Topics, q \in PublishQos : ClientPublish(l, t, q)
              \/ \E p \in ControlPackets : ClientControl(l, p)
       PROVE  LinkOK'
  <2>1. \E p : Read(l, p)
    BY <1>14 DEF ClientAnswer, ClientPublish, ClientControl
  <2> QED
    BY <2>1, ReadQuiet
<1>15. CASE UNCHANGED vars
  BY <1>15 DEF vars, routerVars, linkVars, LinkOK, ComesOK, KnowsOK, Coming, Knows, Live, Used
<1> QED
  BY <1>1, <1>2, <1>3, <1>4, <1>5, <1>6, <1>7, <1>8, <1>9, <1>10, <1>11, <1>12, <1>13, <1>14, <1>15
     DEF Next, RouterStep, ClientStep

\* No link has begun at the start.
LEMMA LinkInit == Init => LinkOK
<1> SUFFICES ASSUME Init PROVE LinkOK
  OBVIOUS
<1>1. slab = [id \in Ids |-> None] /\ task.step = "none"
  BY DEF Init, NoTask
<1>2. Len(chan) = 0
  <2>1. chan = <<>>
    BY DEF Init
  <2> QED
    BY <2>1
<1>3. ~\E i \in 1 .. Len(chan) : TRUE
  BY <1>2
<1> QED
  BY <1>1, <1>3 DEF LinkOK, ComesOK, KnowsOK, Coming, Used

-----------------------------------------------------------------------------
(* Busy connections *)

\* A link has been sent, or has answered, the notice that its connection
\* is busy.
Told(l, id) ==
    \/ Unschedule \in Range(outbuf[l])
    \/ \E i \in 1 .. Len(chan) : chan[i].k = "Ready" /\ chan[i].id = id
BusyOK ==
    \A id \in Ids :
        Used(id) /\ conn[slab[id]].status = "Busy" /\ link[slab[id]].pc \in {"connecting", "up"}
            /\ slab[id] \notin Local
        => Told(slab[id], id)

\* Who is busy after a step of the router was so before, or has been told.
LEMMA BusyStays ==
    ASSUME BusyOK, link' = link,
           \A id \in Ids : Used(id)' /\ conn'[slab'[id]].status = "Busy" =>
              /\ Used(id) /\ slab'[id] = slab[id]
              /\ \/ Unschedule \in Range(outbuf'[slab[id]])
                 \/ /\ conn[slab[id]].status = "Busy"
                    /\ Unschedule \in Range(outbuf[slab[id]]) => Unschedule \in Range(outbuf'[slab[id]])
                    /\ \A i \in 1 .. Len(chan) : chan[i].k = "Ready" /\ chan[i].id = id =>
                          \E j \in 1 .. Len(chan') : chan'[j] = chan[i]
    PROVE  BusyOK'
<1> SUFFICES ASSUME NEW id \in Ids, Used(id)', conn'[slab'[id]].status = "Busy",
                    link'[slab'[id]].pc \in {"connecting", "up"}, slab'[id] \notin Local
             PROVE  Told(slab[id], id)'
  BY DEF BusyOK
<1>1. Used(id) /\ slab'[id] = slab[id] /\ link'[slab[id]] = link[slab[id]]
  OBVIOUS
<1>2. CASE Unschedule \in Range(outbuf'[slab[id]])
  BY <1>1, <1>2 DEF Told
<1>3. CASE /\ conn[slab[id]].status = "Busy"
           /\ Unschedule \in Range(outbuf[slab[id]]) => Unschedule \in Range(outbuf'[slab[id]])
           /\ \A i \in 1 .. Len(chan) : chan[i].k = "Ready" /\ chan[i].id = id =>
                 \E j \in 1 .. Len(chan') : chan'[j] = chan[i]
  <2>1. Told(slab[id], id)
    BY <1>1, <1>3 DEF BusyOK
  <2>2. CASE Unschedule \in Range(outbuf[slab[id]])
    BY <1>1, <1>3, <2>2 DEF Told
  <2>3. CASE \E i \in 1 .. Len(chan) : chan[i].k = "Ready" /\ chan[i].id = id
    <3>1. \E j \in 1 .. Len(chan') : chan'[j].k = "Ready" /\ chan'[j].id = id
      BY <1>3, <2>3
    <3> QED
      BY <3>1 DEF Told
  <2> QED
    BY <2>1, <2>2, <2>3 DEF Told
<1> QED
  BY <1>2, <1>3

\* One connection is replaced by one that is busy only if it was.
LEMMA BusyPut ==
    ASSUME BrokerType, BusyOK, UNCHANGED <<link, outbuf, chan, slab>>, NEW l \in Links, NEW d,
           conn' = [conn EXCEPT ![l] = d], d.status = "Busy" => conn[l].status = "Busy"
    PROVE  BusyOK'
<1>1. conn'[l] = d /\ \A m \in Links : m # l => conn'[m] = conn[m]
  BY DEF BrokerType, ConnOK
<1>2. ASSUME NEW id \in Ids, Used(id)', conn'[slab'[id]].status = "Busy"
      PROVE  Used(id) /\ conn[slab[id]].status = "Busy"
  <2>1. Used(id) /\ slab'[id] = slab[id] /\ slab[id] \in Links
    BY <1>2 DEF Used, BrokerType, SlabOK
  <2> QED
    BY <1>1, <1>2, <2>1
<1> QED
  BY <1>2, BusyStays

\* A connection is dropped.
LEMMA DroppedBusy ==
    ASSUME BrokerType, NEW id \in Ids, Used(id), Disconnection(id), NEW i \in Ids, Used(i)'
    PROVE  Used(i) /\ slab'[i] = slab[i] /\ conn'[slab[i]] = conn[slab[i]]
<1>1. slab' = [slab EXCEPT ![id] = None] /\ conn' = [conn EXCEPT ![slab[id]] = Fresh]
  BY DEF Disconnection
<1>2. SlabOK /\ slab \in [Ids -> Links \cup {None}] /\ conn \in [Links -> ConnectionsIn(data)]
  BY DEF BrokerType, SlabOK, ConnOK
<1>3. i # id /\ slab'[i] = slab[i] /\ Used(i) /\ slab[i] \in Links
  BY <1>1, <1>2 DEF Used
<1>4. slab[i] # slab[id]
  BY <1>2, <1>3 DEF SlabOK
<1> QED
  BY <1>1, <1>2, <1>3, <1>4

\* No packet makes a connection busy.
LEMMA PacketBusy ==
    ASSUME BrokerType, BusyOK, NEW p, HandlePacket(p)
    PROVE  BusyOK'
<1>1. PICK d \in ConnectionsIn(data) : Effect(p, d)
  BY PacketEffect
<1>2. PICK kinds : Packet(p, kinds)
  BY DEF HandlePacket, PublishPacket, RecordPacket, PubRelPacket, SubscribePacket,
         UnsubscribePacket, AckPacket, PubCompPacket, PingPacket, DisconnectPacket
<1>3. task.link \in Links
  BY <1>2 DEF BrokerType, TaskHolds, Packet
<1>4. UNCHANGED <<link, outbuf, chan, slab>>
  <2>1. InPayload
    BY DEF HandlePacket, PublishPacket, RecordPacket, PubRelPacket, SubscribePacket,
           UnsubscribePacket, AckPacket, PubCompPacket, PingPacket, DisconnectPacket
  <2> QED
    BY <2>1 DEF InPayload, linkVars
<1>5. conn' = [conn EXCEPT ![task.link] = d] /\ (d.status = "Busy" => conn[task.link].status = "Busy")
  BY <1>1 DEF Effect
<1> QED
  BY <1>3, <1>4, <1>5, BusyPut

\* Nor does the end of its batch.
LEMMA ForceAcksBusy ==
    ASSUME BrokerType, BusyOK, ForceAcks
    PROVE  BusyOK'
<1> DEFINE c == conn[task.link]
           d == IF task.force THEN Woken(c, "FreshData") ELSE c
<1>1. /\ task.step = "packets" /\ UNCHANGED <<link, outbuf, chan, slab>>
      /\ conn' = IF task.force THEN [conn EXCEPT ![task.link] = Woken(@, "FreshData")] ELSE conn
  BY DEF ForceAcks, InPayload, linkVars
<1>2. task.link \in Links /\ task \in TasksIn(data) /\ conn \in [Links -> ConnectionsIn(data)]
  BY <1>1 DEF BrokerType, TaskOK, TaskHolds, ConnOK
<1>3. conn' = [conn EXCEPT ![task.link] = d] /\ c \in ConnectionsIn(data)
  BY <1>1, <1>2
<1>4. Woken(c, "FreshData").status = "Busy" => c.status = "Busy"
  BY <1>3, WokenFacts
<1>5. d.status = "Busy" => conn[task.link].status = "Busy"
  BY <1>4
<1> HIDE DEF d
<1> QED
  BY <1>1, <1>2, <1>3, <1>5, BusyPut

\* Nor does new data.
LEMMA NotifyBusy ==
    ASSUME BrokerType, BusyOK, NotifyWaiter
    PROVE  BusyOK'
<1> DEFINE w == Head(task.notes)
           l == slab[w.id]
           c == conn[l]
           reqs == Append(c.reqs, w.req)
           c1 == [c EXCEPT !.reqs = reqs]
           d == Woken(c1, "FreshData")
<1>1. /\ task.step = "notify" /\ task.notes # <<>> /\ UNCHANGED <<link, outbuf, chan, slab>>
      /\ conn' = [conn EXCEPT ![l] = Woken([conn[l] EXCEPT !.reqs = Append(@, w.req)], "FreshData")]
  BY DEF NotifyWaiter, InPayload, linkVars
<1>2. task \in TasksIn(data) /\ task.notes \in Seq(WaitersIn(data))
  <2>1. task \in TasksIn(data)
    BY DEF BrokerType, TaskOK
  <2> QED
    BY <2>1, TaskFields
<1>3. w \in WaitersIn(data) /\ w \in Range(task.notes)
  <2> DEFINE ns == task.notes
             W == WaitersIn(data)
  <2>1. ns \in Seq(W) /\ ns # <<>>
    BY <1>1, <1>2
  <2> HIDE DEF ns, W
  <2>2. Head(ns) \in W /\ Head(ns) \in Range(ns)
    BY <2>1, TailFacts
  <2> QED
    BY <2>2 DEF ns, W
<1>4. w.id \in Ids /\ w.req \in RequestsIn(data) /\ Used(w.id)
  BY <1>3 DEF WaitersIn, BrokerType, TaskHolds
<1> HIDE DEF w
<1>5. l \in Links
  BY <1>4 DEF BrokerType, SlabOK, Used
<1>6. c \in ConnectionsIn(data) /\ conn \in [Links -> ConnectionsIn(data)]
  BY <1>5 DEF BrokerType, ConnOK
<1>7. conn' = [conn EXCEPT ![l] = d]
  BY <1>1, <1>5, <1>6, ConnFields
<1>8. c = conn[l]
  OBVIOUS
<1> HIDE DEF c
<1>9. reqs \in Seq(RequestsIn(data))
  <2>1. c.reqs \in Seq(RequestsIn(data))
    BY <1>6, ConnFields
  <2> QED
    BY <1>4, <2>1, AppendFacts
<1> HIDE DEF reqs
<1>10. c1 \in ConnectionsIn(data) /\ c1.status = c.status
  BY <1>6, <1>9, ConnEdits, ConnFields
<1> HIDE DEF c1
<1>11. d.status = "Busy" => c1.status = "Busy"
  BY <1>10, WokenFacts
<1> HIDE DEF d, l
<1> QED
  BY <1>1, <1>5, <1>7, <1>8, <1>10, <1>11, BusyPut

\* Nothing but the slab and the connections is touched, and these as
\* handle_disconnection does it, if at all.
LEMMA QuietBusy ==
    ASSUME BrokerType, BusyOK, UNCHANGED <<link, outbuf, chan>>,
           \A i \in Ids : Used(i)' => Used(i) /\ slab'[i] = slab[i] /\ conn'[slab[i]] = conn[slab[i]]
    PROVE  BusyOK'
<1>1. ASSUME NEW i \in Ids, Used(i)', conn'[slab'[i]].status = "Busy"
      PROVE  Used(i) /\ slab'[i] = slab[i] /\ conn[slab[i]].status = "Busy"
  BY <1>1
<1> QED
  BY <1>1, BusyStays

\* A connection that is dropped leaves the others as they are.
LEMMA EndsBusy ==
    ASSUME BrokerType, BusyOK,
           EndPayload \/ (\E id \in Ids : DropDuplicate(id))
              \/ Refuse \/ PollNothing \/ PollStale \/ Drained
    PROVE  BusyOK'
<1>1. UNCHANGED <<link, outbuf, chan>>
  BY DEF EndPayload, DropDuplicate, Refuse, PollNothing, PollStale, Drained, linkVars
<1>2. CASE EndPayload
  <2>1. task.step = "notify" /\ IF task.bad THEN Disconnection(task.id) ELSE UNCHANGED <<slab, conn>>
    BY <1>2 DEF EndPayload
  <2>2. task.id \in Ids /\ Used(task.id)
    <3>1. task \in TasksIn(data) /\ task.link \in Links /\ slab[task.id] = task.link
      BY <2>1 DEF BrokerType, TaskOK, TaskHolds
    <3> QED
      BY <3>1, TaskFields, BrokerAssumption DEF Used
  <2>3. CASE task.bad
    BY <1>1, <2>1, <2>2, <2>3, DroppedBusy, QuietBusy
  <2>4. CASE ~task.bad
    BY <1>1, <2>1, <2>4, QuietBusy DEF Used
  <2> QED
    BY <2>3, <2>4
<1>3. ASSUME NEW id \in Ids, DropDuplicate(id) PROVE BusyOK'
  <2>1. Used(id) /\ Disconnection(id)
    BY <1>3 DEF DropDuplicate, Rivals, ConnectionOf
  <2> QED
    BY <1>1, <2>1, DroppedBusy, QuietBusy
<1>4. CASE Refuse \/ PollNothing \/ PollStale \/ Drained
  <2>1. UNCHANGED <<slab, conn>>
    BY <1>4 DEF Refuse, PollNothing, PollStale, Drained
  <2> QED
    BY <1>1, <2>1, QuietBusy DEF Used
<1> QED
  BY <1>2, <1>3, <1>4

\* The Ready of a busy connection is taken from the channel only to wake it.
LEMMA EventBusy ==
    ASSUME BrokerType, BusyOK, NEW e, HandleEvent(e)
    PROVE  BusyOK'
<1>1. Begin(e) /\ UNCHANGED <<link, outbuf>>
  BY DEF HandleEvent, HandleConnect, HandleDeviceData, HandleDisconnect, HandleReady, linkVars
<1>2. /\ 1 \in 1 .. Len(chan) /\ chan[1] = e
      /\ \A i \in 1 .. Len(chan) : i = 1 \/ (i - 1 \in 1 .. Len(chan') /\ chan'[i - 1] = chan[i])
  BY <1>1, BeginTakes
<1>3. \A i \in 1 .. Len(chan) : chan[i] # e => \E j \in 1 .. Len(chan') : chan'[j] = chan[i]
  BY <1>2
<1>4. e.id \in Ids
  <2>1. e \in Events
    BY <1>1, BeginFacts
  <2> QED
    BY <2>1 DEF Events
<1>5. CASE HandleConnect(e) \/ HandleDeviceData(e)
  <2>1. UNCHANGED <<slab, conn>> /\ e.k # "Ready"
    BY <1>5 DEF HandleConnect, HandleDeviceData
  <2>2. \A i \in 1 .. Len(chan) : chan[i].k = "Ready" => \E j \in 1 .. Len(chan') : chan'[j] = chan[i]
    BY <1>3, <2>1
  <2> QED
    BY <1>1, <2>1, <2>2, BusyStays DEF Used
<1>6. CASE HandleDisconnect(e)
  <2>1. e.k # "Ready" /\ IF Used(e.id) THEN Disconnection(e.id) ELSE UNCHANGED <<slab, conn>>
    BY <1>6 DEF HandleDisconnect
  <2>2. \A i \in 1 .. Len(chan) : chan[i].k = "Ready" => \E j \in 1 .. Len(chan') : chan'[j] = chan[i]
    BY <1>3, <2>1
  <2>3. ASSUME NEW i \in Ids, Used(i)'
        PROVE  Used(i) /\ slab'[i] = slab[i] /\ conn'[slab[i]] = conn[slab[i]]
    <3>1. CASE Used(e.id)
      BY <1>4, <2>1, <2>3, <3>1, DroppedBusy
    <3>2. CASE ~Used(e.id)
      BY <2>1, <2>3, <3>2 DEF Used
    <3> QED
      BY <3>1, <3>2
  <2>4. ASSUME NEW i \in Ids, Used(i)', conn'[slab'[i]].status = "Busy"
        PROVE  Used(i) /\ slab'[i] = slab[i] /\ conn[slab[i]].status = "Busy"
    BY <2>3, <2>4
  <2> QED
    BY <1>1, <2>2, <2>4, BusyStays
<1>7. CASE HandleReady(e)
  <2>1. /\ slab' = slab
        /\ IF Used(e.id) THEN conn' = [conn EXCEPT ![slab[e.id]] = Woken(@, "Ready")]
           ELSE UNCHANGED conn
    BY <1>7 DEF HandleReady
  <2>2. CASE Used(e.id)
    <3> DEFINE l == slab[e.id]
    <3>1. l \in Links /\ conn \in [Links -> ConnectionsIn(data)]
      BY <1>4, <2>2 DEF BrokerType, SlabOK, Used, ConnOK
    <3>2. Woken(conn[l], "Ready").status = "Ready"
      BY <3>1, WokenFacts DEF Wakes
    <3>3. conn'[l].status = "Ready" /\ \A m \in Links : m # l => conn'[m] = conn[m]
      BY <2>1, <2>2, <3>1, <3>2
    <3>4. ASSUME NEW i \in Ids, Used(i)', conn'[slab'[i]].status = "Busy"
          PROVE  /\ Used(i) /\ slab'[i] = slab[i] /\ conn[slab[i]].status = "Busy"
                 /\ \A k \in 1 .. Len(chan) : chan[k].k = "Ready" /\ chan[k].id = i =>
                       \E j \in 1 .. Len(chan') : chan'[j] = chan[k]
      <4>1. Used(i) /\ slab'[i] = slab[i] /\ slab[i] \in Links
        BY <2>1, <3>4 DEF Used, BrokerType, SlabOK
      <4>2. slab[i] # l
        BY <3>3, <3>4, <4>1
      <4>3. e.id # i
        BY <4>2
      <4> QED
        BY <1>3, <3>3, <3>4, <4>1, <4>2, <4>3
    <3> QED
      BY <1>1, <3>4, BusyStays
  <2>3. CASE ~Used(e.id)
    <3>1. ASSUME NEW i \in Ids, Used(i)', conn'[slab'[i]].status = "Busy"
          PROVE  /\ Used(i) /\ slab'[i] = slab[i] /\ conn[slab[i]].status = "Busy"
                 /\ \A k \in 1 .. Len(chan) : chan[k].k = "Ready" /\ chan[k].id = i =>
                       \E j \in 1 .. Len(chan') : chan'[j] = chan[k]
      <4>1. Used(i) /\ slab'[i] = slab[i] /\ e.id # i
        BY <2>1, <2>3, <3>1 DEF Used
      <4> QED
        BY <1>3, <2>1, <2>3, <3>1, <4>1
    <3> QED
      BY <1>1, <3>1, BusyStays
  <2> QED
    BY <2>2, <2>3
<1> QED
  BY <1>5, <1>6, <1>7 DEF HandleEvent

\* A new connection is not busy.
LEMMA AdmitBusy ==
    ASSUME BrokerType, BusyOK, Admit
    PROVE  BusyOK'
<1> DEFINE l == task.link
           id == Head(free)
<1>1. /\ task.step = "connect" /\ Rivals = {} /\ free # <<>>
      /\ slab' = [slab EXCEPT ![id] = l]
      /\ UNCHANGED <<link, outbuf, chan>>
  BY DEF Admit, linkVars
<1>2. \E d : d.status = "Ready" /\ conn' = [conn EXCEPT ![l] = d]
  <2> DEFINE c == ClientOf[l]
             saved == IF grave[c] = None \/ l \in Clean THEN NoSession ELSE grave[c]
             acks == <<Ack("ConnAck", id)>> \o
                       [i \in 1 .. Len(saved.pubrels) |-> Ack("PubRel", saved.pubrels[i])]
             d == [Fresh EXCEPT !.status = "Ready", !.reqs = saved.reqs, !.subs = saved.subs,
                                !.pubrels = saved.pubrels, !.acks = acks]
  <2>1. conn' = [conn EXCEPT ![l] = d]
    BY DEF Admit
  <2> HIDE DEF saved, acks, id, l
  <2>2. d.status = "Ready"
    BY DEF Fresh
  <2> QED
    BY <2>1, <2>2 DEF l
<1>3. PICK d : d.status = "Ready" /\ conn' = [conn EXCEPT ![l] = d]
  BY <1>2
<1>4. l \in Links /\ slab \in [Ids -> Links \cup {None}] /\ conn \in [Links -> ConnectionsIn(data)]
  BY <1>1 DEF BrokerType, TaskHolds, SlabOK, ConnOK
<1>5. conn'[l].status = "Ready" /\ \A k \in Links : k # l => conn'[k] = conn[k]
  BY <1>3, <1>4
<1>6. ASSUME NEW i \in Ids, Used(i)', conn'[slab'[i]].status = "Busy"
      PROVE  Used(i) /\ slab'[i] = slab[i] /\ conn[slab[i]].status = "Busy"
  <2>1. slab'[i] # l
    BY <1>5, <1>6
  <2>2. slab'[i] = slab[i]
    BY <1>1, <1>4, <2>1
  <2>3. Used(i) /\ slab[i] \in Links
    BY <1>4, <1>6, <2>2 DEF Used
  <2> QED
    BY <1>5, <1>6, <2>1, <2>2, <2>3
<1> QED
  BY <1>1, <1>6, BusyStays

\* A notification is kept when more are put behind it.
LEMMA NotesGrow ==
    ASSUME BrokerType, NEW l \in Links, NEW ms \in Seq(Notifications),
           outbuf' = [outbuf EXCEPT ![l] = outbuf[l] \o ms]
    PROVE  /\ \A m \in Links : \A n : n \in Range(outbuf[m]) => n \in Range(outbuf'[m])
           /\ Range(outbuf'[l]) = Range(outbuf[l]) \cup Range(ms)
<1>1. outbuf \in [Links -> Seq(Notifications)]
  BY DEF BrokerType, BuffersOK
<1> DEFINE o == outbuf[l]
<1>2. o \in Seq(Notifications) /\ outbuf'[l] = o \o ms
  BY <1>1
<1> HIDE DEF o
<1>3. Range(o \o ms) = Range(o) \cup Range(ms)
  BY <1>2, ConcatRange
<1>4. \A m \in Links : m # l => outbuf'[m] = outbuf[m]
  BY <1>1
<1> QED
  BY <1>2, <1>3, <1>4 DEF o

\* poll puts acknowledgements behind the notice.
LEMMA PollBusy ==
    ASSUME BrokerType, BusyOK, Poll
    PROVE  BusyOK'
<1> DEFINE id == Head(ready)
           l == slab[id]
           ms == conn[l].acks
<1>1. /\ ready # <<>> /\ Used(id) /\ UNCHANGED <<link, chan, slab>>
      /\ conn' = [conn EXCEPT ![l].acks = <<>>, ![l].reqs = <<>>]
      /\ outbuf' = [outbuf EXCEPT ![l] = outbuf[l] \o ms]
  BY DEF Poll, linkVars, BrokerType, BuffersOK
<1>2. id \in Ids
  <2>1. ready \in Seq(Ids)
    BY DEF BrokerType, TablesOK
  <2> QED
    BY <1>1, <2>1
<1> HIDE DEF id
<1>3. l \in Links /\ conn \in [Links -> ConnectionsIn(data)] /\ conn[l] \in ConnectionsIn(data)
  BY <1>1, <1>2 DEF BrokerType, SlabOK, Used, ConnOK
<1>4. ms \in Seq(Notifications)
  <2>1. ms \in Seq(Acks)
    BY <1>3, ConnFields
  <2>2. Acks \subseteq Notifications
    BY DEF Notifications
  <2> QED
    BY <2>1, <2>2, SeqMono
<1>5. \A m \in Links : Unschedule \in Range(outbuf[m]) => Unschedule \in Range(outbuf'[m])
  <2> HIDE DEF l, ms
  <2> QED
    BY <1>1, <1>3, <1>4, NotesGrow
<1>6. conn'[l].status = conn[l].status /\ \A k \in Links : k # l => conn'[k] = conn[k]
  <2>1. DOMAIN conn[l] = {"status", "reqs", "subs", "acks", "recorded", "inflight", "pubrels", "pkid"}
    BY <1>3, ConnFields
  <2> QED
    BY <1>1, <1>3, <2>1
<1> HIDE DEF l
<1>7. ASSUME NEW i \in Ids, Used(i)', conn'[slab'[i]].status = "Busy"
      PROVE  Used(i) /\ slab'[i] = slab[i] /\ conn[slab[i]].status = "Busy" /\ slab[i] \in Links
  <2>1. Used(i) /\ slab'[i] = slab[i] /\ slab[i] \in Links
    BY <1>1, <1>7 DEF Used, BrokerType, SlabOK
  <2> QED
    BY <1>6, <1>7, <2>1
<1> QED
  BY <1>1, <1>5, <1>7, BusyStays

\* Turns that serve nothing pause for other reasons.
LEMMA TurnEndBusy ==
    ASSUME BrokerType, BusyOK, RequestInflightFull \/ CaughtUp \/ TurnEnds
    PROVE  BusyOK'
<1> DEFINE c == conn[task.link]
<1>1. /\ task.step = "requests" /\ UNCHANGED <<link, outbuf, chan, slab>>
  BY DEF RequestInflightFull, CaughtUp, TurnEnds, InConsume, linkVars
<1>2. task.link \in Links /\ c \in ConnectionsIn(data)
  BY <1>1, ServingFacts
<1>3. \E d : (d.status = "Busy" => c.status = "Busy") /\ conn' = [conn EXCEPT ![task.link] = d]
  <2>1. CASE RequestInflightFull
    <3> DEFINE rs == c.reqs \o Tail(task.reqs) \o <<Head(task.reqs)>>
               d == [[c EXCEPT !.reqs = rs] EXCEPT !.status = "InflightFull"]
    <3>1. conn' = [conn EXCEPT ![task.link] = d]
      BY <2>1 DEF RequestInflightFull, Paused
    <3> HIDE DEF rs
    <3>2. d.status # "Busy"
      BY <1>2, ConnFields
    <3> QED
      BY <3>1, <3>2
  <2>2. CASE CaughtUp
    <3> DEFINE d == [c EXCEPT !.status = "Caughtup"]
    <3>1. conn' = [conn EXCEPT ![task.link] = d]
      BY <2>2 DEF CaughtUp, Paused
    <3>2. d.status # "Busy"
      BY <1>2, ConnFields
    <3> QED
      BY <3>1, <3>2
  <2>3. CASE TurnEnds
    <3> DEFINE rs == c.reqs \o task.reqs
               d == [c EXCEPT !.reqs = rs]
    <3>1. conn' = [conn EXCEPT ![task.link] = d]
      BY <1>2, <2>3 DEF TurnEnds, BrokerType, ConnOK
    <3> HIDE DEF rs
    <3>2. d.status = c.status
      BY <1>2, ConnFields
    <3> QED
      BY <3>1, <3>2
  <2> QED
    BY <2>1, <2>2, <2>3
<1>4. PICK d : (d.status = "Busy" => c.status = "Busy") /\ conn' = [conn EXCEPT ![task.link] = d]
  BY <1>3
<1> QED
  BY <1>1, <1>2, <1>4, BusyPut

\* A connection is paused as busy together with the notice to its link.
LEMMA ServeBusy ==
    ASSUME BrokerType, BusyOK, ServeRequest
    PROVE  BusyOK'
<1> DEFINE l == task.link
           c == conn[l]
<1>1. task.step = "requests" /\ task.left > 0 /\ task.reqs # <<>>
  BY DEF ServeRequest
<1>2. PICK order, read : ServeOK(order, read) /\ Serve(order, read)
  BY ServeRequestOK
<1> DEFINE fs == TurnOut(order, read)
           busy == IF TurnFull(order, read) THEN <<Unschedule>> ELSE <<>>
           ms == fs \o busy
           o == outbuf[l]
<1>3. /\ outbuf' = [outbuf EXCEPT ![l] = o \o fs \o busy]
      /\ InConsume /\ (TurnBusy(order, read) \/ TurnParks(order, read) \/ TurnAgain(order, read))
  BY <1>2, ServeParts
<1>4. UNCHANGED <<link, chan, slab>>
  BY <1>3 DEF InConsume, linkVars
<1>5. l \in Links /\ conn \in [Links -> ConnectionsIn(data)]
  BY <1>1, ServingFacts DEF BrokerType, ConnOK
<1>6. fs \in Seq(Notifications) /\ busy \in Seq(Notifications) /\ o \in Seq(Notifications)
  <2> DEFINE req == Head(task.reqs)
             sent == Sending(order, read)
  <2>1. req \in RequestsIn(data) /\ sent \in Seq(Sendable(req.f))
    BY <1>1, <1>2, ServingFacts, SendingType
  <2>2. fs \in Seq(Notifications)
    <3>1. fs = Forwards(req, sent)
      BY DEF TurnOut
    <3> HIDE DEF req, sent, fs, ms
    <3>2. Forwards(req, sent) \in Seq(ForwardsOut)
      BY <1>1, <2>1, ForwardsType
    <3>3. ForwardsOut \subseteq Notifications
      BY DEF Notifications
    <3> QED
      BY <3>1, <3>2, <3>3, SeqMono
  <2>3. Unschedule \in Notifications
    BY DEF Notifications
  <2>4. busy \in Seq(Notifications)
    BY <2>3
  <2> QED
    BY <1>5, <2>2, <2>4 DEF BrokerType, BuffersOK
<1>7. ms \in Seq(Notifications)
  <2> HIDE DEF fs, busy
  <2> QED
    BY <1>6
<1>8. outbuf' = [outbuf EXCEPT ![l] = o \o ms]
  <2> HIDE DEF o, fs, busy
  <2>1. (o \o fs) \o busy = o \o ms
    BY <1>6, ConcatThree
  <2> QED
    BY <1>3, <2>1
<1>9. /\ \A m \in Links : Unschedule \in Range(outbuf[m]) => Unschedule \in Range(outbuf'[m])
      /\ Range(outbuf'[l]) = Range(outbuf[l]) \cup Range(ms)
  <2> HIDE DEF ms, l
  <2> QED
    BY <1>5, <1>7, <1>8, NotesGrow DEF o
<1>10. TurnFull(order, read) => Unschedule \in Range(outbuf'[l])
  <2>1. ASSUME TurnFull(order, read) PROVE Unschedule \in Range(ms)
    <3>1. busy = <<Unschedule>>
      BY <2>1
    <3> DEFINE u == Unschedule
               b == <<u>>
    <3>2. DOMAIN b = {1} /\ b[1] = u
      OBVIOUS
    <3>3. u \in Range(b) /\ busy = b
      <4>1. u \in Range(b)
        BY <3>2 DEF Range
      <4> QED
        BY <3>1, <4>1
    <3> HIDE DEF fs, busy, b, u
    <3>4. Range(ms) = Range(fs) \cup Range(busy)
      BY <1>6, ConcatRange
    <3> QED
      BY <3>3, <3>4 DEF u
  <2> QED
    BY <1>9, <2>1
<1>11. \A m \in Links : m # l => conn'[m] = conn[m]
  BY <1>3, <1>5 DEF TurnBusy, TurnParks, TurnAgain
<1>12. ~TurnFull(order, read) => conn'[l].status = c.status
  <2>1. TurnLeaves(order, read).status = c.status
    BY <1>1, <1>2, LeavesFacts
  <2>2. ~TurnFull(order, read) => conn'[l] = TurnLeaves(order, read)
    BY <1>3, <1>5 DEF TurnBusy, TurnParks, TurnAgain
  <2> QED
    BY <2>1, <2>2
<1>13. c = conn[l]
  OBVIOUS
<1> HIDE DEF l, ms, fs, busy, o, c
<1>14. ASSUME NEW i \in Ids, Used(i)', conn'[slab'[i]].status = "Busy"
       PROVE  /\ Used(i) /\ slab'[i] = slab[i] /\ slab[i] \in Links
              /\ Unschedule \in Range(outbuf'[slab[i]]) \/ conn[slab[i]].status = "Busy"
  <2>1. Used(i) /\ slab'[i] = slab[i] /\ slab[i] \in Links
    BY <1>4, <1>14 DEF Used, BrokerType, SlabOK
  <2>2. CASE slab[i] # l
    BY <1>11, <1>14, <2>1, <2>2
  <2>3. CASE slab[i] = l
    BY <1>10, <1>12, <1>13, <1>14, <2>1, <2>3
  <2> QED
    BY <2>1, <2>2, <2>3
<1> QED
  BY <1>4, <1>9, <1>14, BusyStays

\* What links do.
LEMMA LinksBusy ==
    ASSUME BrokerType, BusyOK, UNCHANGED routerVars, NEW l \in Links,
           \A m \in Links : m # l => link'[m] = link[m] /\ outbuf'[m] = outbuf[m],
           \A i \in 1 .. Len(chan) : i \in 1 .. Len(chan') /\ chan'[i] = chan[i],
           \A id \in Ids : slab[id] = l /\ conn[l].status = "Busy" /\ l \notin Local
                           /\ link'[l].pc \in {"connecting", "up"} => Told(l, id)'
    PROVE  BusyOK'
<1> SUFFICES ASSUME NEW id \in Ids, Used(id)', conn'[slab'[id]].status = "Busy",
                    link'[slab'[id]].pc \in {"connecting", "up"}, slab'[id] \notin Local
             PROVE  Told(slab[id], id)'
  BY DEF BusyOK
<1>1. slab' = slab /\ conn' = conn
  BY DEF routerVars
<1>2. slab'[id] = slab[id] /\ Used(id) /\ slab[id] \in Links
  BY <1>1 DEF Used, BrokerType, SlabOK
<1>3. CASE slab[id] = l
  BY <1>1, <1>2, <1>3
<1>4. CASE slab[id] # l
  <2>1. Told(slab[id], id)
    BY <1>1, <1>2, <1>4 DEF BusyOK
  <2>2. outbuf'[slab[id]] = outbuf[slab[id]]
    BY <1>2, <1>4
  <2> QED
    BY <1>2, <2>1, <2>2 DEF Told
<1> QED
  BY <1>3, <1>4

\* What is in the channel stays in it when a link posts an event.
LEMMA PostStays ==
    ASSUME BrokerType, NEW l \in Links, NEW k \in {"Connect", "DeviceData", "Disconnect", "Ready"},
           Post(k, l)
    PROVE  /\ \A i \in 1 .. Len(chan) : i \in 1 .. Len(chan') /\ chan'[i] = chan[i]
           /\ \E i \in 1 .. Len(chan') : chan'[i].k = k /\ chan'[i].id = link[l].id
<1> DEFINE n == Len(chan)
<1>1. /\ Len(chan') = n + 1 /\ n \in Nat /\ \A i \in 1 .. n : chan'[i] = chan[i]
      /\ chan'[n + 1].k = k /\ chan'[n + 1].id = link[l].id
  <2>1. /\ Len(chan') = Len(chan) + 1 /\ Len(chan) \in Nat
        /\ \A i \in 1 .. Len(chan) : chan'[i] = chan[i]
        /\ chan'[Len(chan) + 1] = Event(k, link[l].id, l)
    BY PostKeeps
  <2> QED
    BY <2>1 DEF Event
<1>2. /\ \A i \in 1 .. n : i \in 1 .. n + 1
      /\ n + 1 \in 1 .. n + 1
  <2> HIDE DEF n
  <2> QED
    BY <1>1
<1> HIDE DEF n
<1>3. \A i \in 1 .. n : i \in 1 .. Len(chan') /\ chan'[i] = chan[i]
  BY <1>1, <1>2
<1>4. \E i \in 1 .. Len(chan') : chan'[i].k = k /\ chan'[i].id = link[l].id
  BY <1>1, <1>2
<1> QED
  BY <1>3, <1>4 DEF n

-----------------------------------------------------------------------------
(* No lost wakeup *)

\* A link that takes the notice answers it with the id of its connection.
LEMMA OneLinkBusy ==
    ASSUME BrokerType, LinkOK, BusyOK, NEW l \in Links,
           \/ Established(l) \/ Refused(l) \/ Exchange(l) \/ Wake(l) \/ Dropped(l) \/ Fail(l)
           \/ GreetFails(l) \/ Dial(l)
    PROVE  BusyOK'
<1>1. UNCHANGED routerVars
  BY DEF Established, Refused, Exchange, Wake, Dropped, Fail, GreetFails, Dial, NoRouter
<1>2. link \in [Links -> LinkStates] /\ outbuf \in [Links -> Seq(Notifications)]
  BY DEF BrokerType, BuffersOK
<1>3. \A m \in Links : m # l => link'[m] = link[m] /\ outbuf'[m] = outbuf[m]
  BY <1>2 DEF Established, Refused, Exchange, Wake, Dropped, Fail, GreetFails, Dial
<1>4. \A i \in 1 .. Len(chan) : i \in 1 .. Len(chan') /\ chan'[i] = chan[i]
  <2>1. CASE Established(l) \/ Refused(l) \/ Exchange(l) \/ Dropped(l) \/ GreetFails(l)
    BY <2>1 DEF Established, Refused, Exchange, Dropped, GreetFails
  <2>2. CASE Wake(l)
    BY <2>2, PostStays DEF Wake
  <2>3. CASE Fail(l)
    BY <2>3, PostStays DEF Fail
  <2>4. CASE Dial(l)
    BY <2>4, PostStays DEF Dial
  <2> QED
    BY <2>1, <2>2, <2>3, <2>4
<1>5. ASSUME NEW id \in Ids, slab[id] = l PROVE Used(id) /\ Knows(l, id)
  BY <1>5, BrokerAssumption DEF LinkOK, KnowsOK, Used
<1>6. CASE Refused(l) \/ Dropped(l) \/ Fail(l) \/ GreetFails(l)
  <2>1. link'[l].pc = "closed"
    BY <1>2, <1>6 DEF Refused, Dropped, Fail, GreetFails, LinkStates
  <2> QED
    BY <1>1, <1>3, <1>4, <2>1, LinksBusy
<1>7. CASE Dial(l)
  <2>1. link[l].pc = "idle"
    BY <1>7 DEF Dial
  <2>2. ~Live(l)
    BY <2>1 DEF BrokerType, IdleOK, Known
  <2>3. \A id \in Ids : slab[id] # l
    BY <2>2 DEF Live
  <2> QED
    BY <1>1, <1>3, <1>4, <2>3, LinksBusy
<1>8. CASE Wake(l)
  <2>1. link[l].pc = "wake" /\ Post("Ready", l)
    BY <1>8 DEF Wake
  <2>2. \E i \in 1 .. Len(chan') : chan'[i].k = "Ready" /\ chan'[i].id = link[l].id
    BY <2>1, PostStays
  <2>3. \A id \in Ids : slab[id] = l => link[l].id = id
    BY <1>5, <2>1 DEF Knows
  <2>4. \A id \in Ids : slab[id] = l => Told(l, id)'
    BY <2>2, <2>3 DEF Told
  <2> QED
    BY <1>1, <1>3, <1>4, <2>4, LinksBusy
<1>9. CASE Established(l)
  <2>1. /\ link[l].pc = "connecting" /\ outbuf[l] # <<>> /\ chan' = chan
        /\ outbuf'[l] = Tail(outbuf[l])
    BY <1>2, <1>9 DEF Established
  <2>2. Head(outbuf[l]).k = "ConnAck"
    BY <2>1 DEF BrokerType, GreetingOK, Greeted, Greets
  <2>3. Unschedule # Head(outbuf[l])
    <3>1. Unschedule.k = "Unschedule"
      BY DEF Unschedule
    <3> QED
      BY <2>2, <3>1
  <2>4. Unschedule \in Range(outbuf[l]) => Unschedule \in Range(outbuf'[l])
    <3> DEFINE o == outbuf[l]
    <3>1. o \in Seq(Notifications) /\ o # <<>>
      BY <1>2, <2>1
    <3> HIDE DEF o
    <3>2. Range(o) = {Head(o)} \cup Range(Tail(o))
      BY <3>1, TailFacts
    <3> QED
      BY <2>1, <2>3, <3>2 DEF o
  <2>5. ASSUME NEW id \in Ids, slab[id] = l, conn[l].status = "Busy", l \notin Local
        PROVE  Told(l, id)'
    <3>1. Told(l, id)
      BY <1>5, <2>1, <2>5 DEF BusyOK
    <3> QED
      BY <2>1, <2>4, <3>1 DEF Told
  <2> QED
    BY <1>1, <1>3, <1>4, <2>5, LinksBusy
<1>10. CASE Exchange(l)
  <2>1. /\ link[l].pc = "up" /\ chan' = chan
        /\ link'[l].pc = IF l \notin Local /\ Unschedule \in Range(outbuf[l]) THEN "wake" ELSE "up"
    BY <1>2, <1>10 DEF Exchange, LinkStates
  <2>2. ASSUME NEW id \in Ids, slab[id] = l, conn[l].status = "Busy", l \notin Local,
               link'[l].pc \in {"connecting", "up"}
        PROVE  Told(l, id)'
    <3>1. Told(l, id)
      BY <1>5, <2>1, <2>2 DEF BusyOK
    <3>2. Unschedule \notin Range(outbuf[l])
      BY <2>1, <2>2
    <3> QED
      BY <2>1, <3>1, <3>2 DEF Told
  <2> QED
    BY <1>1, <1>3, <1>4, <2>2, LinksBusy
<1> QED
  BY <1>6, <1>7, <1>8, <1>9, <1>10

\* Reading packets takes no notice away.
LEMMA ReadBusy ==
    ASSUME BrokerType, BusyOK, NEW l \in Links, NEW p, Read(l, p)
    PROVE  BusyOK'
<1>1. link[l].pc = "up" /\ Post("DeviceData", l) /\ UNCHANGED routerVars /\ UNCHANGED <<link, outbuf>>
  BY DEF Read, NoRouter
<1>2. \A i \in 1 .. Len(chan) : i \in 1 .. Len(chan') /\ chan'[i] = chan[i]
  BY <1>1, PostStays
<1>3. \A id \in Ids : slab[id] = l => Used(id)
  BY BrokerAssumption DEF Used
<1>4. \A id \in Ids : slab[id] = l /\ conn[l].status = "Busy" /\ l \notin Local
                      /\ link'[l].pc \in {"connecting", "up"} => Told(l, id)'
  BY <1>1, <1>2, <1>3 DEF BusyOK, Told
<1> QED
  BY <1>1, <1>2, <1>4, LinksBusy

\* Every step of the broker.
LEMMA BusyKeeps ==
    ASSUME BrokerType, LinkOK, BusyOK, [Next]_vars
    PROVE  BusyOK'
<1>1. CASE chan # <<>> /\ HandleEvent(Head(chan))
  BY <1>1, EventBusy
<1>2. CASE EndPayload \/ (\E id \in Ids : DropDuplicate(id))
              \/ Refuse \/ PollNothing \/ PollStale \/ Drained
  BY <1>2, EndsBusy
<1>3. CASE Admit
  BY <1>3, AdmitBusy
<1>4. CASE task.cache # <<>> /\ HandlePacket(Head(task.cache))
  BY <1>4, PacketBusy
<1>5. CASE ForceAcks
  BY <1>5, ForceAcksBusy
<1>6. CASE NotifyWaiter
  BY <1>6, NotifyBusy
<1>7. CASE Poll
  BY <1>7, PollBusy
<1>8. CASE ServeRequest
  BY <1>8, ServeBusy
<1>9. CASE RequestInflightFull \/ CaughtUp \/ TurnEnds
  BY <1>9, TurnEndBusy
<1>10. ASSUME NEW l \in Links, LinkStep(l) \/ Fail(l) \/ GreetFails(l) \/ Dial(l)
       PROVE  BusyOK'
  BY <1>10, OneLinkBusy DEF LinkStep
<1>11. ASSUME NEW l \in Links,
              \/ ClientAnswer(l)
              \/ \E t \in Topics, q \in PublishQos : ClientPublish(l, t, q)
              \/ \E p \in ControlPackets : ClientControl(l, p)
       PROVE  BusyOK'
  <2>1. \E p : Read(l, p)
    BY <1>11 DEF ClientAnswer, ClientPublish, ClientControl
  <2> QED
    BY <2>1, ReadBusy
<1>12. CASE UNCHANGED vars
  BY <1>12 DEF vars, routerVars, linkVars, BusyOK, Told, Used
<1> QED
  BY <1>1, <1>2, <1>3, <1>4, <1>5, <1>6, <1>7, <1>8, <1>9, <1>10, <1>11, <1>12
     DEF Next, RouterStep, ClientStep

\* At the start nobody is busy.
LEMMA BusyInit == Init => BusyOK
BY DEF Init, BusyOK, Used

-----------------------------------------------------------------------------
\* A connection is asleep only while something is to come that wakes it.
LEMMA SleepersWake ==
    ASSUME BrokerType, SleepOK, BusyOK
    PROVE  NoLostWakeup
<1> SUFFICES ASSUME Idle, NEW id \in Ids, Used(id)
             PROVE  LET l == slab[id] c == conn[l]
                    IN  /\ c.status = "Ready" => id \in Range(ready)
                        /\ c.status = "Caughtup" => c.reqs = <<>> /\ c.acks = <<>>
                        /\ c.status = "InflightFull" => c.inflight # <<>>
                        /\ c.status = "Busy" /\ link[l].pc = "up" /\ l \notin Local =>
                            \/ Unschedule \in Range(outbuf[l])
                            \/ \E i \in 1 .. Len(chan) : chan[i].k = "Ready" /\ chan[i].id = id
  BY DEF NoLostWakeup
<1>1. slab[id] \in Links
  BY DEF BrokerType, SlabOK, Used
<1>2. conn[slab[id]].status = "Ready" => id \in Range(ready)
  BY DEF SleepOK, QueueOK
<1>3. Resting(slab[id], conn[slab[id]], task) /\ task.step = "none"
  BY <1>1 DEF SleepOK, Idle
<1>4. /\ conn[slab[id]].status = "Caughtup" => conn[slab[id]].reqs = <<>> /\ conn[slab[id]].acks = <<>>
      /\ conn[slab[id]].status = "InflightFull" => conn[slab[id]].inflight # <<>>
  BY <1>3 DEF Resting, InBatch
<1>5. conn[slab[id]].status = "Busy" /\ link[slab[id]].pc = "up" /\ slab[id] \notin Local
         => Told(slab[id], id)
  BY DEF BusyOK
<1> QED
  BY <1>2, <1>4, <1>5 DEF Told

\* No connection waits for something that will not come, whatever it was
\* paused for (Tracker, ScheduleReason, and the Unschedule a link gets).
THEOREM WakeupCorrect == Spec => []NoLostWakeup
<1> DEFINE Inv == BrokerType /\ SleepOK /\ LinkOK /\ BusyOK
<1>1. Init => Inv
  BY InitType, SleepInit, LinkInit, BusyInit
<1>2. Inv /\ [Next]_vars => Inv'
  <2> SUFFICES ASSUME Inv, [Next]_vars PROVE Inv'
    OBVIOUS
  <2>1. BrokerType'
    BY NextKeeps
  <2>2. SleepOK'
    BY SleepKeeps
  <2>3. LinkOK'
    BY LinkKeeps
  <2>4. BusyOK'
    BY BusyKeeps
  <2> QED
    BY <2>1, <2>2, <2>3, <2>4
<1>3. Inv => NoLostWakeup
  BY SleepersWake
<1> HIDE DEF Inv
<1> QED
  BY <1>1, <1>2, <1>3, PTL DEF Spec

=============================================================================

------------------------------ MODULE MqttLink ------------------------------
(***************************************************************************)
(* The link tasks of the MQTT broker (server.rs, link.rs, local.rs) and    *)
(* the clients at the other end of their sockets. A link keeps the id it   *)
(* was given for as long as it lives, whatever the router has made of it.  *)
(* A link takes its notifications whenever there are some. In the code it  *)
(* waits for one token per batch, and build() takes the ConnAck's, so that *)
(* the PubRels in that batch go out with the next one.                     *)
(***************************************************************************)
EXTENDS MqttState

Event(k, id, l) == [k |-> k, id |-> id, link |-> l]
Room == Len(chan) < ChannelSize
Post(k, l) == Room /\ chan' = Append(chan, Event(k, link[l].id, l))
NoRouter == UNCHANGED <<routerVars>>

\* A CONNECT has been read: LinkBuilder::build sends Event::Connect ...
Dial(l) ==
    /\ link[l].pc = "idle"
    /\ Post("Connect", l)
    /\ link' = [link EXCEPT ![l].pc = "connecting"]
    /\ NoRouter /\ UNCHANGED <<inbuf, outbuf, owes, npub, nctl>>

\* ... and waits for the first notification, which holds the id.
Established(l) ==
    /\ link[l].pc = "connecting"
    /\ outbuf[l] # <<>>
    /\ link' = [link EXCEPT ![l] = [pc |-> "up", id |-> Head(outbuf[l]).pkid]]
    /\ outbuf' = [outbuf EXCEPT ![l] = Tail(@)]
    /\ NoRouter /\ UNCHANGED <<chan, inbuf, owes, npub, nctl>>

\* The ConnAck cannot be written to the socket: Link::new gives up, and
\* nobody tells the router of the connection it has made.
GreetFails(l) ==
    /\ link[l].pc = "connecting" /\ l \notin Local
    /\ outbuf[l] # <<>>
    /\ link' = [link EXCEPT ![l].pc = "closed"]
    /\ outbuf' = [outbuf EXCEPT ![l] = Tail(@)]
    /\ NoRouter /\ UNCHANGED <<chan, inbuf, owes, npub, nctl>>

\* The router has dropped the link's channel without one.
Refused(l) ==
    /\ link[l].pc = "connecting"
    /\ outbuf[l] = <<>> /\ ~Live(l) /\ task.link # l
    /\ \A i \in 1 .. Len(chan) : chan[i].link # l
    /\ link' = [link EXCEPT ![l].pc = "closed"]
    /\ NoRouter /\ UNCHANGED <<chan, inbuf, outbuf, owes, npub, nctl>>

\* Link::start, network.read: the packet is put into the shared buffer and
\* the router is notified.
Read(l, p) ==
    /\ link[l].pc = "up"
    /\ inbuf' = [inbuf EXCEPT ![l] = Append(@, p)]
    /\ Post("DeviceData", l)
    /\ NoRouter /\ UNCHANGED <<link, outbuf>>

\* What a client has to answer to a notification.
Answer(n) ==
    CASE n.k = "Forward" /\ n.qos = 1 -> <<[k |-> "PubAck", pkid |-> n.pkid]>>
      [] n.k = "Forward" /\ n.qos = 2 -> <<[k |-> "PubRec", pkid |-> n.pkid]>>
      [] n.k = "PubRec" -> <<[k |-> "PubRel", pkid |-> n.pkid]>>
      [] n.k = "PubRel" -> <<[k |-> "PubComp", pkid |-> n.pkid]>>
      [] OTHER -> <<>>
Answers(ns) == FlattenSeq([i \in 1 .. Len(ns) |-> Answer(ns[i])])

\* Link::start, link_rx.exchange: all notifications go to the client; the
\* router is told to go on if it stopped. MessageProcessor passes over the
\* notification that it did, and acknowledges nothing.
Exchange(l) ==
    /\ link[l].pc = "up"
    /\ outbuf[l] # <<>>
    /\ owes' = IF l \in Local THEN owes ELSE [owes EXCEPT ![l] = @ \o Answers(outbuf[l])]
    /\ outbuf' = [outbuf EXCEPT ![l] = <<>>]
    /\ link' = [link EXCEPT ![l].pc =
                  IF l \notin Local /\ Unschedule \in Range(outbuf[l]) THEN "wake" ELSE "up"]
    /\ NoRouter /\ UNCHANGED <<chan, inbuf, npub, nctl>>

Wake(l) ==
    /\ link[l].pc = "wake"
    /\ Post("Ready", l)
    /\ link' = [link EXCEPT ![l].pc = "up"]
    /\ NoRouter /\ UNCHANGED <<inbuf, outbuf, owes, npub, nctl>>

\* The router has dropped the connection: the link ends without a word.
Dropped(l) ==
    /\ link[l].pc = "up" /\ ~Live(l)
    /\ link' = [link EXCEPT ![l].pc = "closed"]
    /\ NoRouter /\ UNCHANGED <<chan, inbuf, outbuf, owes, npub, nctl>>

\* The socket fails or the peer closes it, maybe while notifications are being
\* written: the link tells the router, by the id it was given.
Fail(l) ==
    /\ link[l].pc \in {"up", "wake"} /\ l \notin Local
    /\ Post("Disconnect", l)
    /\ link' = [link EXCEPT ![l].pc = "closed"]
    /\ NoRouter /\ UNCHANGED <<inbuf, outbuf, owes, npub, nctl>>

-----------------------------------------------------------------------------
(* External: what clients send. A client acknowledges in order.             *)

ClientAnswer(l) ==
    /\ owes[l] # <<>>
    /\ Read(l, Head(owes[l]))
    /\ owes' = [owes EXCEPT ![l] = Tail(@)]
    /\ UNCHANGED <<npub, nctl>>

ClientPublish(l, t, q) ==
    /\ ClientOf[l] \in Publishers /\ npub < MaxPublish
    /\ Read(l, [k |-> "Publish", topic |-> t, qos |-> q, m |-> npub + 1])
    /\ npub' = npub + 1
    /\ UNCHANGED <<owes, nctl>>

ClientControl(l, p) ==
    /\ p.k \in Controls /\ nctl < MaxControls
    /\ ClientOf[l] \in Subscribers
    /\ Read(l, p)
    /\ nctl' = nctl + 1
    /\ UNCHANGED <<owes, npub>>

ControlPackets ==
    [k : {"Subscribe"}, filter : Filters, qos : SubscribeQos]
        \cup [k : {"Unsubscribe"}, filter : Filters]
        \cup [k : {"PingReq", "Disconnect"}]

LinkStep(l) == Established(l) \/ Refused(l) \/ Exchange(l) \/ Wake(l) \/ Dropped(l)

ClientStep(l) ==
    \/ Dial(l) \/ GreetFails(l) \/ Fail(l)
    \/ \E t \in Topics, q \in PublishQos : ClientPublish(l, t, q)
    \/ \E p \in ControlPackets : ClientControl(l, p)

=============================================================================

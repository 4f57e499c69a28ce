------------------------------ MODULE MqttWire ------------------------------
(***************************************************************************)
(* One MQTT connection at the level of its bytes: server/network.rs under  *)
(* the loop of server/link.rs, from the first byte a client sends to the   *)
(* packets its link hands to the router, and back.                         *)
(*                                                                         *)
(* The socket delivers a client's bytes in chunks of any of the given      *)
(* sizes.  The server first waits for twelve bytes to tell the version     *)
(* (try_connect), then for the Connect packet, then reads packets until    *)
(* the connection ends: a frame that is not there yet makes it wait for    *)
(* the bytes read_mut asks for, and everything else that is complete is    *)
(* taken along (readv) up to the size of the buffer shared with the router.*)
(* When the router has something for the client, select! drops the read    *)
(* that is waiting and starts it anew.                                     *)
(*                                                                         *)
(* A scenario is the version a client speaks, the packets it sends and the *)
(* batches of packets the router has for it.                               *)
(***************************************************************************)
EXTENDS MqttV5

CONSTANTS Scenarios,    \* [version, script, replies]
          Chunks,       \* how much the socket delivers at once
          MaxPayload,   \* max_payload_size
          MaxBuffer,    \* max_inflight_count, the cap of the shared buffer
          Prefix        \* "user/<id>"

VARIABLES scenario, wire, read, at, protocol, need, queue, notified, got, replies, out

vars == <<scenario, wire, read, at, protocol, need, queue, notified, got, replies, out>>

V4 == INSTANCE MqttV4 WITH ProtocolName <- Name, Level <- 4
V3 == INSTANCE MqttV3

ReadMut(version, s) ==
  CASE version = "V3" -> V3!V3ReadMut(s, MaxPayload)
    [] version = "V4" -> V4!V4ReadMut(s, MaxPayload)
    [] version = "V5" -> V5ReadMut(s, MaxPayload)

Write(version, p) ==
  CASE version = "V3" -> V3!V3Write(p)
    [] version = "V4" -> V4!V4Write(p)
    [] version = "V5" -> V5Write(p)

\* A client of version 3.1, whose Connect the server's own writer gets wrong.
OldConnect(p) ==
  LET new == V4!ConnectWrite(p).bytes
      body == Str(V3!OldName) \o U8(3) \o SubSeq(new, 10, Len(new))
  IN  Frame(16, Len(body), body)

\* What a client puts on the wire.
Sent(version, p) ==
  IF version = "V3" /\ p.type = "Connect" THEN OldConnect(p) ELSE Write(version, p).bytes

-----------------------------------------------------------------------------
(* Network::pack_topic and unpack_topic: the router knows a client's topics *)
(* and filters under the name of its user.                                  *)

Slash == 47

Refused(p) == p.type = "Subscribe" /\ \E i \in DOMAIN p.filters : Head(p.filters[i].path \o <<0>>) # Slash

Pack(p) ==
  CASE p.type = "Publish"     -> [p EXCEPT !.topic = Prefix \o @]
    [] p.type = "Subscribe"   ->
         [p EXCEPT !.filters = [i \in DOMAIN @ |-> [@[i] EXCEPT !.path = Prefix \o @]]]
    [] p.type = "Unsubscribe" -> [p EXCEPT !.filters = [i \in DOMAIN @ |-> Prefix \o @[i]]]
    [] OTHER -> p

Strip(t) == IF Len(Prefix) < Len(t) THEN SubSeq(t, Len(Prefix) + 1, Len(t)) ELSE t

Unpack(p) ==
  CASE p.type = "Publish"     -> [p EXCEPT !.topic = Strip(@)]
    [] p.type = "Subscribe"   ->
         [p EXCEPT !.filters = [i \in DOMAIN @ |-> [@[i] EXCEPT !.path = Strip(@)]]]
    [] p.type = "Unsubscribe" -> [p EXCEPT !.filters = [i \in DOMAIN @ |-> Strip(@[i])]]
    [] OTHER -> p

-----------------------------------------------------------------------------
Init ==
  /\ scenario \in Scenarios
  /\ wire = Joined(LAMBDA p : Sent(scenario.version, p), scenario.script)
  /\ read = <<>> /\ need = 12
  /\ at = "new" /\ protocol = "V4"
  /\ queue = <<>> /\ notified = FALSE /\ got = <<>>
  /\ replies = scenario.replies /\ out = <<>>

\* What is missing of the bytes asked for when n have come (total_read).
MissingUncapped(n) == need - n
MissingAtOnce(n) == IF n >= need THEN 0 ELSE need
Missing(n) == IF n >= need THEN 0 ELSE need - n

\* Network::read_bytes: one read_buf, until the bytes asked for are there.
Receive ==
  /\ need > 0 /\ wire # <<>> /\ at # "closed"
  /\ \E c \in Chunks :
       LET n == Min({c, Len(wire)})
       IN  /\ read' = read \o SubSeq(wire, 1, n)
           /\ wire' = SubSeq(wire, n + 1, Len(wire))
           /\ need' = Missing(n)
  /\ UNCHANGED <<scenario, at, protocol, queue, notified, got, replies, out>>

\* The client has closed its end, or nothing arrives for one and a half
\* keep-alive intervals. The timer is that of all of read_bytes, so it also
\* ends a packet that trickles in for longer: clients here have sent in time.
Silence ==
  /\ need > 0 /\ wire = <<>> /\ at # "closed"
  /\ at' = "closed"
  /\ UNCHANGED <<scenario, wire, read, protocol, need, queue, notified, got, replies, out>>

\* Network::try_connect: the protocol name and level decide who reads on.
Version ==
  LET start == Min({i \in 1..4 : read[i + 1] < 128 \/ i = 4}) + 3
      new == SubSeq(read, start + 1, start + 4) = Name
      old == Len(read) > start + 6 /\ SubSeq(read, start + 1, start + 6) = V3!OldName
  IN  CASE new /\ read[start + 5] = 4 -> "V4"
        [] new /\ read[start + 5] = 5 -> "V5"
        [] ~new /\ old /\ read[start + 7] = 3 -> "V3"
        [] OTHER -> "none"

TryConnect ==
  /\ at = "new" /\ need = 0
  /\ IF Version = "none" THEN at' = "closed" /\ UNCHANGED protocol
                         ELSE at' = "connect" /\ protocol' = Version
  /\ UNCHANGED <<scenario, wire, read, need, queue, notified, got, replies, out>>

\* A read that needs more bytes keeps those it has in the buffer of the
\* connection, where the next one finds them.
Waits(o) == o.at = "more" /\ need' = o.need /\ read' = o.rest /\ UNCHANGED at

\* mqtt_connect: the first packet must be a Connect with a login, a keep-alive
\* interval and, unless the session is a clean one, a client identifier.  The
\* login itself is taken to be right (AuthHandler).
Admitted(p) ==
  /\ p.type = "Connect" /\ p.login # <<>> /\ p.keep_alive # 0
  /\ p.client # <<>> \/ p.clean

Unnamed(p) ==
  p.type = "Connect" /\ p.login # <<>> /\ p.keep_alive # 0 /\ p.client = <<>> /\ ~p.clean

Nack == [type |-> "ConnAck", session_present |-> FALSE, code |-> "ClientIdentifierNotValid",
         props |-> <<>>]

ReadConnect ==
  /\ at = "connect" /\ need = 0
  /\ \E o \in {ReadMut(protocol, read)} :
       \/ Waits(o) /\ UNCHANGED <<got, out>>
       \/ /\ o.at = "ok" /\ Admitted(o.packet)
          /\ at' = "link" /\ read' = o.rest /\ got' = <<o.packet>>
          /\ UNCHANGED <<need, out>>
       \/ /\ o.at = "ok" /\ ~Admitted(o.packet)
          /\ at' = "closed" /\ read' = o.rest
          /\ out' = IF Unnamed(o.packet) THEN Write(protocol, Nack).bytes ELSE out
          /\ UNCHANGED <<need, got>>
       \/ o.at \in {"bad", "panic"} /\ at' = "closed" /\ UNCHANGED <<read, need, got, out>>
  /\ UNCHANGED <<scenario, wire, protocol, queue, notified, replies>>

\* pack_topic of what read_mut returned: a refused filter is an error.
Packed(o) ==
  CASE o.at = "ok" /\ Refused(o.packet)  -> [at |-> "bad", rest |-> o.rest]
    [] o.at = "ok" /\ ~Refused(o.packet) -> [o EXCEPT !.packet = Pack(@)]
    [] OTHER -> o

\* Network::readv: the packets that are complete, until the buffer is full.
RECURSIVE Readv(_, _)
Readv(o, packets) ==
  CASE o.at = "more" -> [at |-> "ok", rest |-> o.rest, packets |-> packets]
    [] o.at \in {"bad", "panic"} -> [at |-> "bad", rest |-> o.rest, packets |-> packets]
    [] o.at = "ok" /\ Len(packets) + 1 >= MaxBuffer ->
         [at |-> "ok", rest |-> o.rest, packets |-> Append(packets, o.packet)]
    [] OTHER -> Readv(Packed(ReadMut(protocol, o.rest)), Append(packets, o.packet))

\* Link::start, first branch: one packet through Network::read, the others that
\* are there through readv, which looks at the next frame however full the
\* buffer is, and a notice to the router.  After an error the packets already in
\* the buffer are not announced any more.
ReadPackets ==
  /\ at = "link" /\ need = 0
  /\ \E o \in {Packed(ReadMut(protocol, read))} :
       \/ Waits(o) /\ UNCHANGED <<queue, notified>>
       \/ /\ o.at = "ok"
          /\ \E all \in {Readv(Packed(ReadMut(protocol, o.rest)), Append(queue, o.packet))} :
               /\ read' = all.rest /\ queue' = all.packets
               /\ IF all.at = "ok" THEN notified' = TRUE /\ UNCHANGED at
                                   ELSE at' = "closed" /\ UNCHANGED notified
          /\ UNCHANGED need
       \/ o.at \in {"bad", "panic"} /\ at' = "closed" /\ UNCHANGED <<read, need, queue, notified>>
  /\ UNCHANGED <<scenario, wire, protocol, got, replies, out>>

\* The router takes what the link has announced (handle_device_payload).
RouterTakes ==
  /\ notified
  /\ got' = got \o queue /\ queue' = <<>> /\ notified' = FALSE
  /\ UNCHANGED <<scenario, wire, read, at, protocol, need, replies, out>>

\* Link::start, second branch, and Network::writev: a batch of notifications is
\* written at once; the read that was waiting is dropped and starts again with
\* what its buffer holds.
Exchange ==
  /\ at = "link" /\ replies # <<>>
  /\ \E written \in {[i \in DOMAIN Head(replies) |-> Write(protocol, Unpack(Head(replies)[i]))]} :
       IF \A i \in DOMAIN written : written[i].at = "ok"
       THEN out' = out \o Joined(LAMBDA w : w.bytes, written) /\ UNCHANGED at
       ELSE at' = "closed" /\ UNCHANGED out
  /\ replies' = Tail(replies) /\ need' = 0
  /\ UNCHANGED <<scenario, wire, read, protocol, queue, notified, got>>

Next == Receive \/ Silence \/ TryConnect \/ ReadConnect \/ ReadPackets \/ RouterTakes \/ Exchange

Spec == Init /\ [][Next]_vars

\* The socket delivers what was sent, the link's task and the router run.  A
\* read that has its bytes is always enabled; the fairness of the reads says so
\* itself, for TLC to be spared the parsing.
FairSpec ==
  /\ Spec
  /\ WF_vars(Receive) /\ WF_vars(TryConnect) /\ WF_vars(RouterTakes)
  /\ []<>(need > 0 \/ at # "connect") \/ []<><<ReadConnect>>_vars
  /\ []<>(need > 0 \/ at # "link") \/ []<><<ReadPackets>>_vars
-----------------------------------------------------------------------------
TypeOK ==
  /\ DOMAIN scenario = {"version", "script", "replies"}
  /\ at \in {"new", "connect", "link", "closed"}
  /\ protocol \in {"V3", "V4", "V5"}
  /\ need \in Nat /\ notified \in BOOLEAN
  /\ \A i \in DOMAIN read : read[i] \in 0..255

\* What the server takes from a client: a Connect it admits, then anything but a
\* filter outside the topic tree, a Publish that wants an answer without a
\* packet identifier, or a stream that does not begin with a Connect.
Legal(p) ==
  /\ p.type = "Connect" => Admitted(p)
  /\ p.type = "Publish" => p.qos = 0 \/ p.pkid # 0
  /\ ~Refused(p)

\* What the router is to see of a client's packets, up to the first that is not
\* legal: its own topic names, under its user's.
Expected ==
  LET script == scenario.script
      n == Max({0} \cup {m \in DOMAIN script :
                           script[1].type = "Connect" /\ \A i \in 1..m : Legal(script[i])})
  IN  [i \in 1..n |-> Pack(script[i])]

\* However the bytes are cut into chunks and whichever read is dropped half
\* way, the packets handed over are those the client sent, unchanged, in their
\* order and each once (Network::read, readv, every len, write and read).
InOrder == IsPrefix(got \o queue, Expected)

\* A link that waits for more bytes than the client has yet to send has handed
\* over every packet: no complete frame is left lying in the read buffer, and
\* no reader asks for bytes beyond the frame it is in (check, length,
\* Network::read).
NothingWithheld ==
  need > Len(wire) /\ at # "closed" => Len(got \o queue) = Len(Expected)

\* A client's reader: the server's, and the two halves read_mut does not reach.
ClientReads(h, body) ==
  CASE protocol = "V5" /\ PacketType(h) = "ConnAck"  -> ConnAckRead(h, body)
    [] protocol = "V5" /\ PacketType(h) = "UnsubAck" -> UnsubAckRead(h, body)
    [] protocol = "V5" /\ h.remaining > 0 /\ PacketType(h) \notin {"ConnAck", "UnsubAck"} -> V5Read(h, body)
    [] protocol = "V4" /\ h.remaining > 0 -> V4!V4Read(h, body)
    [] protocol = "V3" /\ h.remaining > 0 -> V3!V3Read(h, body)
    [] OTHER -> Bare(PacketType(h))

\* The packets the client finds on its end of the wire.
RECURSIVE Seen(_, _)
Seen(s, h) ==
  IF h.at # "ok" THEN <<>>
  ELSE <<ClientReads(h, Body(s, h))>> \o Seen(Behind(s, h), Check(Behind(s, h), MaxPayload))

\* What a version before 5 leaves of a packet.
Understood(version, p) ==
  CASE version = "V5" -> p
    [] version # "V5" /\ p.type \in {"PubAck", "PubRec", "PubRel", "PubComp"} -> [p EXCEPT !.reason = "Success"]
    [] version # "V5" /\ p.type = "UnsubAck" -> [p EXCEPT !.reasons = <<>>]
    [] version # "V5" /\ p.type = "ConnAck" -> [p EXCEPT !.props = <<>>]
    [] version # "V5" /\ p.type = "Disconnect" -> [p EXCEPT !.reason = "NormalDisconnection"]
    [] OTHER -> p

\* Everything the server has written, read from the start of the connection by
\* a client of its version, is what the router had for it, packet by packet: no
\* frame is announced longer or shorter than it is.  A Disconnect of version 5
\* with a reason and no properties is the exception, and the last packet.
Short(p) == protocol = "V5" /\ p.type = "Disconnect" /\ p.props = <<>>

RepliesReadable ==
  at = "link" =>
    \E seen \in {Seen(out, Check(out, MaxPayload))},
       packets \in {FlattenSeq(SubSeq(scenario.replies, 1, Len(scenario.replies) - Len(replies)))} :
      /\ Len(seen) = Len(packets)
      /\ \A i \in DOMAIN packets :
           Short(packets[i]) \/ seen[i] = Understood(protocol, Unpack(packets[i]))

\* Everything a client sends is handed over in the end, if all of it is legal:
\* after a packet that is not, what was complete before it in the same read is
\* dropped with it.
AllDelivered == Len(Expected) = Len(scenario.script) => <>(got = Expected)
=============================================================================

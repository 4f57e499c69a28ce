----------------------------- MODULE MCMqttWire -----------------------------
(***************************************************************************)
(* Scenarios for MqttWire: every packet of every version with every        *)
(* property on its own and all of them together, between a Connect and a   *)
(* PingReq, and longer conversations that answers of the router interrupt. *)
(***************************************************************************)
EXTENDS MqttWire

UserPrefix == <<1, 2, 3>>
Topic == <<47, 97>>
Text == <<120, 121>>

Value(name) ==
  CASE Kind(name) = "u8" -> 1 [] Kind(name) = "u16" -> 258 [] Kind(name) = "u32" -> <<1, 2, 3, 4>>
    [] Kind(name) = "str" -> Text [] Kind(name) = "var" -> 300
    [] Kind(name) = "pair" -> << <<107>>, Text>>

\* No properties, each one alone, all of them with two user properties.
Options(names) ==
  {<<>>} \cup {<<[n \in {m} |-> <<Value(n)>>]>> : m \in names}
  \cup {<<[n \in names |-> IF n = "UserProperty" THEN <<Value(n), Value(n)>> ELSE <<Value(n)>>]>>}
Absent(names) == {<<>>}

Connect(props, will, willprops, login) ==
  [type |-> "Connect", keep_alive |-> 300, client |-> Text, clean |-> TRUE, props |-> props,
   will |-> will, willprops |-> willprops, login |-> login]
Login == <<[username |-> <<117>>, password |-> <<112>>]>>
Plainest == Connect(<<>>, <<>>, <<>>, Login)
Will == <<[topic |-> Topic, message |-> Text, qos |-> 1, retain |-> TRUE]>>

Connects(Opt(_)) ==
  {Connect(p, <<>>, <<>>, Login) : p \in Opt(ConnectProps)}
  \cup {Connect(<<>>, Will, p, l) : p \in Opt(WillProps),
          l \in {Login, <<[username |-> <<117>>, password |-> <<>>]>>}}

Publish(qos, props, payload) ==
  [type |-> "Publish", dup |-> qos = 1, retain |-> qos = 2, qos |-> qos, topic |-> Topic,
   pkid |-> IF qos = 0 THEN 0 ELSE 258, props |-> props, payload |-> payload]
Long == [i \in 1..130 |-> i % 7]

Publishes(Opt(_)) ==
  {Publish(q, <<>>, pay) : q \in QoS, pay \in {<<>>, Text, Long}}
  \cup {Publish(1, p, Text) : p \in Opt(PublishProps)}

Acks(Opt(_)) ==
  {[type |-> t, pkid |-> 7, reason |-> "Success", props |-> p] :
     t \in {"PubAck", "PubRec", "PubRel", "PubComp"}, p \in Opt(AckProps)}

Refusals ==
  {[type |-> t, pkid |-> 7, reason |-> "QuotaExceeded", props |-> <<>>] : t \in {"PubAck", "PubRec"}}
  \cup {[type |-> t, pkid |-> 7, reason |-> "PacketIdentifierNotFound", props |-> <<>>] :
          t \in {"PubRel", "PubComp"}}

AFilter(q, rule) ==
  [path |-> Topic, qos |-> q, nolocal |-> rule # "OnEverySubscribe", preserve_retain |-> FALSE,
   retain_rule |-> rule]

Requests(Opt(_), rules) ==
  {[type |-> "Subscribe", pkid |-> 9, props |-> p, filters |-> <<AFilter(1, r), AFilter(2, r)>>] :
     p \in Opt(SubscribeProps), r \in rules}
  \cup {[type |-> "Unsubscribe", pkid |-> 9, props |-> p, filters |-> <<Topic, Topic>>] :
     p \in Opt(User)}

Farewell == [type |-> "Disconnect", reason |-> "NormalDisconnection", props |-> <<>>]
Farewells(Opt(_)) ==
  {[type |-> "Disconnect", reason |-> "DisconnectWithWillMessage", props |-> p] :
     p \in Opt(DisconnectProps) \ {<<>>}} \cup {Farewell}
Ping == [type |-> "PingReq"]
Pong == [type |-> "PingResp"]

ConnAcks(Opt(_), code) ==
  {[type |-> "ConnAck", session_present |-> TRUE, code |-> code, props |-> p] :
     p \in Opt(ConnAckProps)}

Grants(Opt(_), code) ==
  {[type |-> "SubAck", pkid |-> 9, codes |-> <<"QoS1", code>>, props |-> p] : p \in Opt(AckProps)}
  \cup {[type |-> "UnsubAck", pkid |-> 9, reasons |-> <<"Success">>, props |-> p] : p \in Opt(AckProps)}

Rules == DOMAIN RetainRule
Incoming(v) ==
  IF v = "V5" THEN Publishes(Options) \cup Acks(Options) \cup Refusals \cup Requests(Options, Rules)
                   \cup Farewells(Options)
  ELSE Publishes(Absent) \cup Acks(Absent) \cup Requests(Absent, {"OnEverySubscribe"}) \cup {Farewell}

\* A filter of a version before 5 has a quality of service and nothing else.
Outgoing(v) ==
  IF v = "V5" THEN ConnAcks(Options, "Success") \cup Publishes(Options) \cup Acks(Options) \cup Refusals
                   \cup Grants(Options, "QuotaExceeded")
  ELSE ConnAcks(Options, "NotAuthorized") \cup Publishes(Absent) \cup Acks(Absent) \cup Refusals
       \cup Grants(Absent, "Unspecified")

Routed(p) == Pack(p)

Stray ==
  [type |-> "Subscribe", pkid |-> 9, props |-> <<>>, filters |-> <<AFilter(1, "OnEverySubscribe")>>]
Leave(reason) == [type |-> "Disconnect", reason |-> reason, props |-> <<>>]
Versions == {"V3", "V4", "V5"}

AllScenarios ==
  \* every Connect, every packet a client sends
  {[version |-> v, script |-> <<c, Ping>>, replies |-> <<>>] :
     v \in {"V3", "V4"}, c \in Connects(Absent)}
  \cup {[version |-> "V5", script |-> <<c, Ping>>, replies |-> <<>>] : c \in Connects(Options)}
  \cup UNION {{[version |-> v, script |-> <<Plainest, p, Ping>>, replies |-> <<>>] : p \in Incoming(v)} :
                v \in Versions}
  \* every packet the router has for a client
  \cup UNION {{[version |-> v, script |-> <<Plainest>>, replies |-> << <<Routed(p), Pong>> >>] :
                 p \in Outgoing(v)} : v \in Versions}
  \* what the server refuses
  \cup {[version |-> v, script |-> script, replies |-> <<>>] :
          v \in Versions,
          script \in {<<[Plainest EXCEPT !.login = <<>>], Ping>>,
                     <<[Plainest EXCEPT !.client = <<>>, !.clean = FALSE], Ping>>,
                     <<Publish(1, <<>>, Long)>>,
                     <<Plainest, Ping, [Publish(1, <<>>, Text) EXCEPT !.pkid = 0]>>,
                     <<Plainest, [Stray EXCEPT !.filters[1].path = Text], Ping>>,
                     <<Plainest, Ping, [Stray EXCEPT !.filters[1].path = Text]>>}}
  \* conversations
  \cup {[version |-> v,
         script |-> <<Plainest, Publish(1, <<>>, Text), Publish(0, <<>>, Long), Ping, Farewell>>,
         replies |-> << <<Pong>>, <<Routed(Publish(2, <<>>, Text)), Leave("SessionTakenOver")>> >>] :
          v \in Versions}
=============================================================================

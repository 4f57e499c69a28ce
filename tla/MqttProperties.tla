--------------------------- MODULE MqttProperties ---------------------------
(***************************************************************************)
(* The property sets of MQTT 5 (version/v5).  Every packet that carries    *)
(* properties has a len, a read and a write of its own, three lists that   *)
(* must agree: len counts the properties that are set, write puts the same *)
(* ones on the stream, read accepts them and counts along to know where    *)
(* the set ends.                                                           *)
(*                                                                         *)
(* A set is a function from the names of the properties that are set to    *)
(* the sequence of their values; only user properties and the subscription *)
(* identifiers of a Publish have more than one.  An optional set is <<>>   *)
(* or <<p>>.                                                               *)
(***************************************************************************)
EXTENDS MqttBytes

PropertyType == [
  PayloadFormatIndicator |-> 1, MessageExpiryInterval |-> 2, ContentType |-> 3,
  ResponseTopic |-> 8, CorrelationData |-> 9, SubscriptionIdentifier |-> 11,
  SessionExpiryInterval |-> 17, AssignedClientIdentifier |-> 18, ServerKeepAlive |-> 19,
  AuthenticationMethod |-> 21, AuthenticationData |-> 22, RequestProblemInformation |-> 23,
  WillDelayInterval |-> 24, RequestResponseInformation |-> 25, ResponseInformation |-> 26,
  ServerReference |-> 28, ReasonString |-> 31, ReceiveMaximum |-> 33,
  TopicAliasMaximum |-> 34, TopicAlias |-> 35, MaximumQos |-> 36, RetainAvailable |-> 37,
  UserProperty |-> 38, MaximumPacketSize |-> 39, WildcardSubscriptionAvailable |-> 40,
  SubscriptionIdentifierAvailable |-> 41, SharedSubscriptionAvailable |-> 42]

\* property(): the name of a number, "" for InvalidPropertyType.
Property(num) ==
  IF \E n \in DOMAIN PropertyType : PropertyType[n] = num
  THEN CHOOSE n \in DOMAIN PropertyType : PropertyType[n] = num
  ELSE ""

\* What follows the type byte.  The modules agree on it wherever a property
\* is read or written.
Kind(name) ==
  CASE name \in {"MessageExpiryInterval", "SessionExpiryInterval", "WillDelayInterval",
                 "MaximumPacketSize"} -> "u32"
    [] name \in {"ServerKeepAlive", "ReceiveMaximum", "TopicAliasMaximum", "TopicAlias"} -> "u16"
    [] name = "SubscriptionIdentifier" -> "var"
    [] name = "UserProperty" -> "pair"
    [] name \in {"ContentType", "ResponseTopic", "CorrelationData", "AssignedClientIdentifier",
                 "AuthenticationMethod", "AuthenticationData", "ResponseInformation",
                 "ServerReference", "ReasonString"} -> "str"
    [] OTHER -> "u8"

Size(name, v) ==
  CASE Kind(name) = "u8"   -> 1
    [] Kind(name) = "u16"  -> 2
    [] Kind(name) = "u32"  -> 4
    [] Kind(name) = "str"  -> 2 + Len(v)
    [] Kind(name) = "var"  -> LenLen(v)
    [] Kind(name) = "pair" -> 2 + Len(v[1]) + 2 + Len(v[2])

Encoded(name, v) ==
  CASE Kind(name) = "u8"   -> U8(v)
    [] Kind(name) = "u16"  -> U16(v)
    [] Kind(name) = "u32"  -> v
    [] Kind(name) = "str"  -> Str(v)
    [] Kind(name) = "var"  -> VarInt(v)
    [] Kind(name) = "pair" -> Str(v[1]) \o Str(v[2])

\* The bytes the properties in names take: each value and its type byte.
Counted(names, p) ==
  Total(LAMBDA n : SumOver(LAMBDA v : 1 + Size(n, v), p[n]), names \cap DOMAIN p)

\* An optional set takes one byte when it is absent, and its length field and
\* bytes when it is there.
OptionLen(opt, len(_)) ==
  IF opt = <<>> THEN 1 ELSE LenLen(len(opt[1])) + len(opt[1])

\* The properties in the order of the write function, behind their length.
Written(order, p, len) ==
  VarInt(len) \o
  Joined(LAMBDA n : IF n \in DOMAIN p
                    THEN Joined(LAMBDA v : U8(PropertyType[n]) \o Encoded(n, v), p[n])
                    ELSE <<>>, order)

OptionWritten(opt, write(_)) == IF opt = <<>> THEN VarInt(0) ELSE write(opt[1])

\* How far a property moves the cursor that tells where the set ends.  The
\* readers of Publish and Subscribe count the type byte of a subscription
\* identifier a second time.
AdvanceTyped(name, v) == Size(name, v) + 1
Advance(name, v) == Size(name, v) + (IF name = "SubscriptionIdentifier" THEN 1 ELSE 0)

With(p, name, v, many) ==
  [n \in DOMAIN p \cup {name} |->
     IF n # name THEN p[n] ELSE IF many /\ n \in DOMAIN p THEN Append(p[n], v) ELSE <<v>>]

\* The loop `while cursor < properties_len` all readers share: accepts are the
\* properties this packet knows, many those it collects in a vector.
RECURSIVE Loop(_, _, _, _, _, _)
Loop(accepts, many, r, cursor, len, p) ==
  CASE r.at # "ok" \/ cursor >= len -> Given(r, <<p>>)
    [] r.at = "ok" /\ cursor < len /\ (r.s = <<>> \/ Property(Head(r.s \o <<0>>)) \notin accepts) ->
         Stopped(r, "bad")
    [] OTHER ->
         Then(ReadKind(Kind(Property(Head(r.s))), Taken(r, Property(Head(r.s)), 1)), LAMBDA q :
           LET n == Len(q.v)
               name == q.v[n - 1]
           IN  Loop(accepts, many, [q EXCEPT !.v = SubSeq(@, 1, n - 2)],
                    cursor + 1 + Advance(name, q.v[n]), len,
                    With(p, name, q.v[n], name \in many)))

PropertiesRead(accepts, many, r) ==
  Then(Then(r, ReadVar), LAMBDA q :
    IF Last(q.v) = 0 THEN [q EXCEPT !.v[Len(q.v)] = <<>>]
    ELSE Loop(accepts, many, [q EXCEPT !.v = Front(@)], 0, Last(q.v), <<>>))
User == {"UserProperty"}
-----------------------------------------------------------------------------
(* connect.rs, mod willproperties *)

WillProps == {"WillDelayInterval", "PayloadFormatIndicator", "MessageExpiryInterval",
              "ContentType", "ResponseTopic", "CorrelationData", "UserProperty"}
WillPropsLen(p) == Counted(WillProps, p)
WillPropsRead(r) == PropertiesRead(WillProps, User, r)
WillPropsWrite(p) ==
  Written(<<"WillDelayInterval", "PayloadFormatIndicator", "MessageExpiryInterval",
            "ContentType", "ResponseTopic", "CorrelationData", "UserProperty">>,
          p, WillPropsLen(p))

(* connect.rs, mod properties *)

ConnectProps == {"SessionExpiryInterval", "ReceiveMaximum", "MaximumPacketSize",
                 "TopicAliasMaximum", "RequestResponseInformation",
                 "RequestProblemInformation", "UserProperty", "AuthenticationMethod",
                 "AuthenticationData"}
ConnectPropsLen(p) == Counted(ConnectProps, p)
ConnectPropsRead(r) == PropertiesRead(ConnectProps, User, r)
ConnectPropsWrite(p) ==
  Written(<<"SessionExpiryInterval", "ReceiveMaximum", "MaximumPacketSize",
            "TopicAliasMaximum", "RequestResponseInformation", "RequestProblemInformation",
            "UserProperty", "AuthenticationMethod", "AuthenticationData">>,
          p, ConnectPropsLen(p))

(* connack.rs *)

ConnAckProps == {"SessionExpiryInterval", "ReceiveMaximum", "MaximumQos", "RetainAvailable",
                 "MaximumPacketSize", "AssignedClientIdentifier", "TopicAliasMaximum",
                 "ReasonString", "UserProperty", "WildcardSubscriptionAvailable",
                 "SubscriptionIdentifierAvailable", "SharedSubscriptionAvailable",
                 "ServerKeepAlive", "ResponseInformation", "ServerReference",
                 "AuthenticationMethod", "AuthenticationData"}
ConnAckPropsLenShort(p) == Counted(ConnAckProps \ {"ServerKeepAlive"}, p)
ConnAckPropsLen(p) == Counted(ConnAckProps, p)
ConnAckPropsRead(r) == PropertiesRead(ConnAckProps, User, r)
ConnAckPropsWrite(p) ==
  Written(<<"SessionExpiryInterval", "ReceiveMaximum", "MaximumQos", "RetainAvailable",
            "MaximumPacketSize", "AssignedClientIdentifier", "TopicAliasMaximum",
            "ReasonString", "UserProperty", "WildcardSubscriptionAvailable",
            "SubscriptionIdentifierAvailable", "SharedSubscriptionAvailable",
            "ServerKeepAlive", "ResponseInformation", "ServerReference",
            "AuthenticationMethod", "AuthenticationData">>,
          p, ConnAckPropsLen(p))

(* publish.rs *)

PublishProps == {"PayloadFormatIndicator", "MessageExpiryInterval", "TopicAlias",
                 "ResponseTopic", "CorrelationData", "UserProperty",
                 "SubscriptionIdentifier", "ContentType"}
PublishPropsLen(p) == Counted(PublishProps, p)
PublishPropsRead(r) == PropertiesRead(PublishProps, User \cup {"SubscriptionIdentifier"}, r)
PublishPropsWrite(p) ==
  Written(<<"PayloadFormatIndicator", "MessageExpiryInterval", "TopicAlias",
            "ResponseTopic", "CorrelationData", "UserProperty",
            "SubscriptionIdentifier", "ContentType">>,
          p, PublishPropsLen(p))

(* puback.rs; the other acknowledgements carry the same two properties *)

AckProps == {"ReasonString", "UserProperty"}
PubAckPropsLen(p) == Counted(AckProps, p)
PubAckPropsRead(r) == PropertiesRead(AckProps, User, r)
PubAckPropsWrite(p) == Written(<<"ReasonString", "UserProperty">>, p, PubAckPropsLen(p))

(* pubrec.rs *)
PubRecPropsLen(p) == Counted(AckProps, p)
PubRecPropsRead(r) == PropertiesRead(AckProps, User, r)
PubRecPropsWrite(p) == Written(<<"ReasonString", "UserProperty">>, p, PubRecPropsLen(p))

(* pubrel.rs *)
PubRelPropsLen(p) == Counted(AckProps, p)
PubRelPropsRead(r) == PropertiesRead(AckProps, User, r)
PubRelPropsWrite(p) == Written(<<"ReasonString", "UserProperty">>, p, PubRelPropsLen(p))

(* pubcomp.rs *)
PubCompPropsLen(p) == Counted(AckProps, p)
PubCompPropsRead(r) == PropertiesRead(AckProps, User, r)
PubCompPropsWrite(p) == Written(<<"ReasonString", "UserProperty">>, p, PubCompPropsLen(p))

(* suback.rs *)
SubAckPropsLen(p) == Counted(AckProps, p)
SubAckPropsRead(r) == PropertiesRead(AckProps, User, r)
SubAckPropsWrite(p) == Written(<<"ReasonString", "UserProperty">>, p, SubAckPropsLen(p))

(* unsuback.rs *)
UnsubAckPropsLen(p) == Counted(AckProps, p)
UnsubAckPropsRead(r) == PropertiesRead(AckProps, User, r)
UnsubAckPropsWrite(p) == Written(<<"ReasonString", "UserProperty">>, p, UnsubAckPropsLen(p))

(* subscribe.rs *)

SubscribeProps == {"SubscriptionIdentifier", "UserProperty"}
SubscribePropsLen(p) == Counted(SubscribeProps, p)
SubscribePropsRead(r) == PropertiesRead(SubscribeProps, User, r)
SubscribePropsWrite(p) ==
  Written(<<"SubscriptionIdentifier", "UserProperty">>, p, SubscribePropsLen(p))

(* unsubscribe.rs *)

UnsubscribePropsLen(p) == Counted(User, p)
UnsubscribePropsRead(r) == PropertiesRead(User, User, r)
UnsubscribePropsWrite(p) == Written(<<"UserProperty">>, p, UnsubscribePropsLen(p))

(* disconnect.rs *)

DisconnectProps == {"SessionExpiryInterval", "ReasonString", "UserProperty", "ServerReference"}
DisconnectPropsLen(p) == Counted(DisconnectProps, p)
DisconnectPropsRead(r) == PropertiesRead(DisconnectProps, User, r)
DisconnectPropsWrite(p) ==
  Written(<<"SessionExpiryInterval", "ReasonString", "UserProperty", "ServerReference">>,
          p, DisconnectPropsLen(p))
=============================================================================

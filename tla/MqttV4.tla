------------------------------- MODULE MqttV4 -------------------------------
(***************************************************************************)
(* The MQTT 3.1.1 codec (version/v4), and by its two constants that of     *)
(* MQTT 3.1: version/v3 has the same text but for the protocol name and    *)
(* level its Connect is checked against.  Packets are the records of       *)
(* MqttV5; their properties are absent, and what this version cannot say   *)
(* (the reasons of an acknowledgement) is not written and read as success. *)
(***************************************************************************)
EXTENDS MqttBytes

CONSTANTS ProtocolName, Level

Name == <<77, 81, 84, 84>>                            \* "MQTT"
-----------------------------------------------------------------------------
(* connect.rs *)

WillLen(will) == 2 + Len(will.topic) + 2 + Len(will.message)
WillFlags(will) == 4 + will.qos * 8 + Flag(will.retain, 5)
WillWrite(will) == Str(will.topic) \o Str(will.message)

WillOf(flags, q, w) ==
  [w EXCEPT !.v = Append(q.v, <<[topic |-> w.v[1], message |-> w.v[2], qos |-> (flags \div 8) % 4,
                                 retain |-> Bit(flags, 5)]>>)]
WillRead(flags, r) ==
  CASE Bit(flags, 2) ->
         Then(r, LAMBDA q :
           Then(Require(ReadAll(<<"str", "str">>, [q EXCEPT !.v = <<>>]),
                        LAMBDA v : (flags \div 8) % 4 \in QoS),
                LAMBDA w : WillOf(flags, q, w)))
    [] ~Bit(flags, 2) ->
         Then(Require(r, LAMBDA v : (flags \div 8) % 8 = 0), LAMBDA q : Given(q, <<>>))

LoginLen(l) == SumOver(LAMBDA t : IF t = <<>> THEN 0 ELSE 2 + Len(t), <<l.username, l.password>>)
LoginFlags(l) == Flag(l.username # <<>>, 7) + Flag(l.password # <<>>, 6)
LoginWrite(l) == Joined(LAMBDA t : IF t = <<>> THEN <<>> ELSE Str(t), <<l.username, l.password>>)

ReadIf(cond, r) == IF cond THEN ReadKind("str", r) ELSE Given(r, <<>>)
LoginOf(pair) ==
  IF pair = << <<>>, <<>> >> THEN <<>> ELSE <<[username |-> pair[1], password |-> pair[2]]>>
LoginRead(flags, r) ==
  Then(Paired(ReadIf(Bit(flags, 6), ReadIf(Bit(flags, 7), r))),
       LAMBDA q : [q EXCEPT !.v[Len(q.v)] = LoginOf(@)])

ConnectLen(p) ==
  2 + Len(ProtocolName) + 1 + 1 + 2 + 2 + Len(p.client)
  + SumOver(WillLen, p.will) + SumOver(LoginLen, p.login)

\* The name and level written are those of 3.1.1 in both versions.
ConnectWrite(p) ==
  Wrote(Frame(16, ConnectLen(p),
    Str(Name) \o U8(4)
    \o U8(Flag(p.clean, 1) + SumOver(WillFlags, p.will) + SumOver(LoginFlags, p.login))
    \o U16(p.keep_alive) \o Str(p.client)
    \o Joined(WillWrite, p.will) \o Joined(LoginWrite, p.login)))

ConnectOf(r) ==
  [type |-> "Connect", clean |-> Bit(r.v[3], 1), keep_alive |-> r.v[4], client |-> r.v[5],
   will |-> r.v[6], login |-> r.v[7], props |-> <<>>, willprops |-> <<>>]

ConnectRead(h, body) ==
  Result(
    Then(ReadAll(<<"u8", "u16", "str">>,
           Require(ReadAll(<<"str", "u8">>, Reader(body)), LAMBDA v : v = <<ProtocolName, Level>>)),
         LAMBDA id : LoginRead(id.v[3], WillRead(id.v[3], id))),
    ConnectOf)

(* connack.rs *)

ConnectReturnCode == [
  Success |-> 0, RefusedProtocolVersion |-> 1, ClientIdentifierNotValid |-> 2,
  ServiceUnavailable |-> 3, BadUserNamePassword |-> 4, NotAuthorized |-> 5]

\* unreachable!(): the writer's task panics.
Unwritable == [at |-> "panic", bytes |-> <<>>]

ConnAckWrite(p) ==
  IF p.code \notin DOMAIN ConnectReturnCode THEN Unwritable
  ELSE Wrote(Frame(32, 2, U8(Flag(p.session_present, 0)) \o U8(ConnectReturnCode[p.code])))

ConnAckRead(h, body) ==
  Result(ReadReason(ConnectReturnCode, ReadKind("u8", Reader(body))), LAMBDA r :
    [type |-> "ConnAck", session_present |-> Bit(r.v[1], 0), code |-> r.v[2], props |-> <<>>])

(* publish.rs *)

\* Publish::len, "approximate length for meter", announces the frame.
PublishLen(p) == 2 + Len(p.topic) + Len(p.payload) + (IF p.qos = 0 THEN 0 ELSE 2)

PublishByte1(p) == 48 + Flag(p.retain, 0) + p.qos * 2 + Flag(p.dup, 3)

PublishWrite(p) ==
  IF p.qos # 0 /\ p.pkid = 0
  THEN [at |-> "bad", bytes |-> Frame(PublishByte1(p), PublishLen(p), Str(p.topic))]
  ELSE Wrote(Frame(PublishByte1(p), PublishLen(p),
         Str(p.topic) \o (IF p.qos # 0 THEN U16(p.pkid) ELSE <<>>) \o p.payload))

PublishId(qos, r) ==
  IF qos = 0 THEN Given(r, 0) ELSE Require(ReadKind("u16", r), LAMBDA v : v[2] # 0)

PublishRead(h, body) ==
  LET qos == (h.byte1 \div 2) % 4
  IN  IF qos \notin QoS THEN Bad
      ELSE Result(PublishId(qos, ReadKind("str", Reader(body))), LAMBDA r :
             [type |-> "Publish", dup |-> Bit(h.byte1, 3), retain |-> Bit(h.byte1, 0), qos |-> qos,
              topic |-> r.v[1], pkid |-> r.v[2], payload |-> r.s, props |-> <<>>])

(* puback.rs, pubrec.rs, pubrel.rs, pubcomp.rs *)

Success(type, body) ==
  Result(ReadKind("u16", Reader(body)), LAMBDA r :
    [type |-> type, pkid |-> r.v[1], reason |-> "Success", props |-> <<>>])

PubAckWrite(p) == Wrote(Frame(64, 2, U16(p.pkid)))
PubAckRead(h, body) ==
  IF h.remaining # 2 THEN Bad ELSE Success("PubAck", body)

PubRecWrite(p) == Wrote(Frame(80, 2, U16(p.pkid)))
PubRecRead(h, body) == Success("PubRec", body)

PubRelWrite(p) == Wrote(Frame(98, 2, U16(p.pkid)))
PubRelRead(h, body) == Success("PubRel", body)

PubCompWrite(p) == Wrote(Frame(112, 2, U16(p.pkid)))
PubCompRead(h, body) == Success("PubComp", body)

(* subscribe.rs *)

FilterWrite(f) == Str(f.path) \o U8(f.qos)

\* Of the options only the quality of service is kept.
FilterOf(f) ==
  [path |-> f[1], qos |-> f[2] % 4, nolocal |-> FALSE, preserve_retain |-> FALSE,
   retain_rule |-> "OnEverySubscribe"]
FiltersRead(r) ==
  Require(ReadList(<<"str", "u8">>, FilterOf, r),
          LAMBDA v : v[2] # <<>> /\ \A i \in DOMAIN v[2] : v[2][i].qos \in QoS)

SubscribeWrite(p) ==
  Wrote(Frame(130, 2 + SumOver(LAMBDA f : 2 + Len(f.path) + 1, p.filters),
    U16(p.pkid) \o Joined(FilterWrite, p.filters)))

SubscribeRead(h, body) ==
  Result(FiltersRead(ReadKind("u16", Reader(body))), LAMBDA r :
    [type |-> "Subscribe", pkid |-> r.v[1], filters |-> r.v[2], props |-> <<>>])

(* suback.rs *)

\* What reason() knows; code() also writes what a version 5 client is told.
GrantedCode == [QoS0 |-> 0, QoS1 |-> 1, QoS2 |-> 2, Unspecified |-> 128]
SubscribeReasonCode == GrantedCode @@ [
  ImplementationSpecific |-> 131, NotAuthorized |-> 135, TopicFilterInvalid |-> 143,
  PkidInUse |-> 145, QuotaExceeded |-> 151, SharedSubscriptionsNotSupported |-> 158,
  SubscriptionIdNotSupported |-> 161, WildcardSubscriptionsNotSupported |-> 162]

SubAckWrite(p) ==
  Wrote(Frame(144, 2 + Len(p.codes),
    U16(p.pkid) \o [i \in DOMAIN p.codes |-> SubscribeReasonCode[p.codes[i]]]))

SubAckRead(h, body) ==
  Result(ReadCodes(GrantedCode, ReadKind("u16", Reader(body))), LAMBDA r :
    [type |-> "SubAck", pkid |-> r.v[1], codes |-> r.v[2], props |-> <<>>])

(* unsubscribe.rs, unsuback.rs *)

UnsubscribeWrite(p) ==
  Wrote(Frame(162, 2 + SumOver(LAMBDA f : Len(f) + 2, p.filters),
    U16(p.pkid) \o Joined(Str, p.filters)))

\* `remaining_len - 2` of a frame of one byte is not reached: its identifier
\* cannot be read.
UnsubscribeRead(h, body) ==
  Result(ReadList(<<"str">>, Head, ReadKind("u16", Reader(body))), LAMBDA r :
    [type |-> "Unsubscribe", pkid |-> r.v[1], filters |-> r.v[2], props |-> <<>>])

\* The reasons have no place in this version.
UnsubAckWrite(p) == Wrote(<<176, 2>> \o U16(p.pkid))

UnsubAckRead(h, body) ==
  IF h.remaining # 2 THEN Bad
  ELSE Result(ReadKind("u16", Reader(body)), LAMBDA r :
         [type |-> "UnsubAck", pkid |-> r.v[1], reasons |-> <<>>, props |-> <<>>])

(* disconnect.rs *)

DisconnectWrite(p) == Wrote(<<224, 0>>)
-----------------------------------------------------------------------------
(* mod.rs: impl Protocol for V4 *)

V4Read(h, body) ==
  LET type == PacketType(h)
  IN  CASE type = "Connect"     -> ConnectRead(h, body)
        [] type = "ConnAck"     -> ConnAckRead(h, body)
        [] type = "Publish"     -> PublishRead(h, body)
        [] type = "PubAck"      -> PubAckRead(h, body)
        [] type = "PubRec"      -> PubRecRead(h, body)
        [] type = "PubRel"      -> PubRelRead(h, body)
        [] type = "PubComp"     -> PubCompRead(h, body)
        [] type = "Subscribe"   -> SubscribeRead(h, body)
        [] type = "SubAck"      -> SubAckRead(h, body)
        [] type = "Unsubscribe" -> UnsubscribeRead(h, body)
        [] type = "UnsubAck"    -> UnsubAckRead(h, body)
        [] type \in {"PingReq", "PingResp"} -> [type |-> type]
        [] type \in {"Disconnect", "Invalid"} -> Bad

V4ReadMut(s, maxSize) == Unframed(s, Check(s, maxSize), V4Read)

\* No packet but a ConnAck may have properties here.
V4Write(p) ==
  CASE p.type = "ConnAck" -> ConnAckWrite(p)
    [] p.type = "PingReq" -> Wrote(<<192, 0>>)
    [] p.type = "PingResp" -> Wrote(<<208, 0>>)
    [] p.type \notin {"ConnAck", "PingReq", "PingResp"} /\ p.props # <<>> ->
         Unwritable
    [] p.type = "Connect" /\ p.props = <<>> ->
         IF p.willprops # <<>> THEN Unwritable ELSE ConnectWrite(p)
    [] p.type = "Publish" /\ p.props = <<>>     -> PublishWrite(p)
    [] p.type = "PubAck" /\ p.props = <<>>      -> PubAckWrite(p)
    [] p.type = "PubRec" /\ p.props = <<>>      -> PubRecWrite(p)
    [] p.type = "PubRel" /\ p.props = <<>>      -> PubRelWrite(p)
    [] p.type = "PubComp" /\ p.props = <<>>     -> PubCompWrite(p)
    [] p.type = "Subscribe" /\ p.props = <<>>   -> SubscribeWrite(p)
    [] p.type = "SubAck" /\ p.props = <<>>      -> SubAckWrite(p)
    [] p.type = "Unsubscribe" /\ p.props = <<>> -> UnsubscribeWrite(p)
    [] p.type = "UnsubAck" /\ p.props = <<>>    -> UnsubAckWrite(p)
    [] p.type = "Disconnect" /\ p.props = <<>>  -> DisconnectWrite(p)
=============================================================================

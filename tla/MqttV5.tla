------------------------------- MODULE MqttV5 -------------------------------
(***************************************************************************)
(* The MQTT 5 codec (version/v5): for every packet the length its header   *)
(* announces (len), what its write puts on the stream and what its read    *)
(* makes of a frame.  Packets are records with the fields of version/mod.rs*)
(* (an Option is <<>> or <<value>>); a reason is its name.                 *)
(*                                                                         *)
(* The operators serve both ends: the server reads what a client wrote and *)
(* writes what a client reads, and the module has both halves of every     *)
(* packet although V5::read_mut does not reach those of ConnAck and        *)
(* UnsubAck.                                                               *)
(***************************************************************************)
EXTENDS MqttProperties

Name == <<77, 81, 84, 84>>                            \* "MQTT"
-----------------------------------------------------------------------------
(* connect.rs *)

WillLen(will, props) ==
  OptionLen(props, WillPropsLen) + 2 + Len(will.topic) + 2 + Len(will.message)

WillFlags(will) == 4 + will.qos * 8 + Flag(will.retain, 5)

WillWrite(will, props) ==
  OptionWritten(props, WillPropsWrite) \o Str(will.topic) \o Str(will.message)

\* Appends the optional will and its optional properties.
WillOf(flags, q, w) ==
  [w EXCEPT !.v = q.v \o << <<[topic |-> w.v[2], message |-> w.v[3], qos |-> (flags \div 8) % 4,
                              retain |-> Bit(flags, 5)]>>, w.v[1]>>]
WillRead(flags, r) ==
  CASE Bit(flags, 2) ->
         Then(r, LAMBDA q :
           Then(Require(ReadAll(<<"str", "str">>, WillPropsRead([q EXCEPT !.v = <<>>])),
                        LAMBDA v : (flags \div 8) % 4 \in QoS),
                LAMBDA w : WillOf(flags, q, w)))
    [] ~Bit(flags, 2) ->
         Then(Require(r, LAMBDA v : (flags \div 8) % 8 = 0), LAMBDA q : Given(Given(q, <<>>), <<>>))

\* An empty name or password takes no bytes.
LoginLen(l) == SumOver(LAMBDA t : IF t = <<>> THEN 0 ELSE 2 + Len(t), <<l.username, l.password>>)
LoginFlags(l) == Flag(l.username # <<>>, 7) + Flag(l.password # <<>>, 6)
LoginWrite(l) == Joined(LAMBDA t : IF t = <<>> THEN <<>> ELSE Str(t), <<l.username, l.password>>)

\* Appends the optional login; a flag that is not set stands for an empty text.
ReadIf(cond, r) == IF cond THEN ReadKind("str", r) ELSE Given(r, <<>>)
LoginOf(pair) ==
  IF pair = << <<>>, <<>> >> THEN <<>> ELSE <<[username |-> pair[1], password |-> pair[2]]>>
LoginRead(flags, r) ==
  Then(Paired(ReadIf(Bit(flags, 6), ReadIf(Bit(flags, 7), r))),
       LAMBDA q : [q EXCEPT !.v[Len(q.v)] = LoginOf(@)])

ConnectWrite(p) ==
  LET len == 2 + Len(Name) + 1 + 1 + 2 + OptionLen(p.props, ConnectPropsLen) + 2 + Len(p.client)
             + SumOver(LAMBDA w : WillLen(w, p.willprops), p.will)
             + SumOver(LoginLen, p.login)
      flags == Flag(p.clean, 1) + SumOver(WillFlags, p.will) + SumOver(LoginFlags, p.login)
  IN  Wrote(Frame(16, len,
        Str(Name) \o U8(5) \o U8(flags) \o U16(p.keep_alive)
        \o OptionWritten(p.props, ConnectPropsWrite) \o Str(p.client)
        \o Joined(LAMBDA w : WillWrite(w, p.willprops), p.will) \o Joined(LoginWrite, p.login)))

ConnectOf(r) ==
  [type |-> "Connect", clean |-> Bit(r.v[3], 1), keep_alive |-> r.v[4], props |-> r.v[5],
   client |-> r.v[6], will |-> r.v[7], willprops |-> r.v[8], login |-> r.v[9]]

ConnectRead(h, body) ==
  Result(
    Then(ReadKind("str", ConnectPropsRead(ReadAll(<<"u8", "u16">>,
           Require(ReadAll(<<"str", "u8">>, Reader(body)), LAMBDA v : v = <<Name, 5>>)))),
         LAMBDA id : LoginRead(id.v[3], WillRead(id.v[3], id))),
    ConnectOf)

(* connack.rs *)

ConnectReturnCode == [
  Success |-> 0, UnspecifiedError |-> 128, MalformedPacket |-> 129, ProtocolError |-> 130,
  ImplementationSpecificError |-> 131, UnsupportedProtocolVersion |-> 132,
  ClientIdentifierNotValid |-> 133, BadUserNamePassword |-> 134, NotAuthorized |-> 135,
  ServerUnavailable |-> 136, ServerBusy |-> 137, Banned |-> 138,
  BadAuthenticationMethod |-> 140, TopicNameInvalid |-> 144, PacketTooLarge |-> 149,
  QuotaExceeded |-> 151, PayloadFormatInvalid |-> 153, RetainNotSupported |-> 154,
  QoSNotSupported |-> 155, UseAnotherServer |-> 156, ServerMoved |-> 157,
  ConnectionRateExceeded |-> 159]

ConnAckLen(p) == 1 + 1 + OptionLen(p.props, ConnAckPropsLen)

ConnAckWrite(p) ==
  Wrote(Frame(32, ConnAckLen(p),
    U8(Flag(p.session_present, 0)) \o U8(ConnectReturnCode[p.code])
    \o OptionWritten(p.props, ConnAckPropsWrite)))

ConnAckOf(r) ==
  [type |-> "ConnAck", session_present |-> Bit(r.v[1], 0),
   code |-> ReasonOf(ConnectReturnCode, r.v[2]), props |-> r.v[3]]

ConnAckRead(h, body) ==
  Result(Require(ConnAckPropsRead(ReadAll(<<"u8", "u8">>, Reader(body))),
                 LAMBDA v : ReasonOf(ConnectReturnCode, v[2]) # ""), ConnAckOf)

(* publish.rs *)

PublishLen(p) ==
  2 + Len(p.topic) + (IF p.qos # 0 /\ p.pkid # 0 THEN 2 ELSE 0)
  + OptionLen(p.props, PublishPropsLen) + Len(p.payload)

PublishByte1(p) == 48 + Flag(p.retain, 0) + p.qos * 2 + Flag(p.dup, 3)

\* A publish that should have an identifier and has none fails when the first
\* bytes are in the buffer.
PublishWrite(p) ==
  IF p.qos # 0 /\ p.pkid = 0
  THEN [at |-> "bad", bytes |-> Frame(PublishByte1(p), PublishLen(p), Str(p.topic))]
  ELSE Wrote(Frame(PublishByte1(p), PublishLen(p),
         Str(p.topic) \o (IF p.qos # 0 THEN U16(p.pkid) ELSE <<>>)
         \o OptionWritten(p.props, PublishPropsWrite) \o p.payload))

PublishId(qos, r) ==
  IF qos = 0 THEN Given(r, 0) ELSE Require(ReadKind("u16", r), LAMBDA v : v[2] # 0)

PublishRead(h, body) ==
  LET qos == (h.byte1 \div 2) % 4
  IN  IF qos \notin QoS THEN Bad
      ELSE Result(PublishPropsRead(PublishId(qos, ReadKind("str", Reader(body)))), LAMBDA r :
             [type |-> "Publish", dup |-> Bit(h.byte1, 3), retain |-> Bit(h.byte1, 0), qos |-> qos,
              topic |-> r.v[1], pkid |-> r.v[2], props |-> r.v[3], payload |-> r.s])

(* puback.rs *)

PubAckReason == [
  Success |-> 0, NoMatchingSubscribers |-> 16, UnspecifiedError |-> 128,
  ImplementationSpecificError |-> 131, NotAuthorized |-> 135, TopicNameInvalid |-> 144,
  PacketIdentifierInUse |-> 145, QuotaExceeded |-> 151, PayloadFormatInvalid |-> 153]

\* Reason and properties are left out of a plain success.
Plain(p) == p.reason = "Success" /\ p.props = <<>>

PubAckLen(p) == IF Plain(p) THEN 2 ELSE 2 + 1 + OptionLen(p.props, PubAckPropsLen)

PubAckWrite(p) ==
  Wrote(Frame(64, PubAckLen(p),
    U16(p.pkid) \o (IF Plain(p) THEN <<>>
                    ELSE U8(PubAckReason[p.reason]) \o OptionWritten(p.props, PubAckPropsWrite))))

\* What the four acknowledgements read have in common: two bytes are a success,
\* three have no property length.
Acknowledged(type, table, h, body, propsRead(_)) ==
  Result(
    Then(ReadKind("u16", Reader(body)), LAMBDA id :
      CASE h.remaining = 2 -> Given(Given(id, "Success"), <<>>)
        [] h.remaining = 3 -> Given(ReadReason(table, id), <<>>)
        [] OTHER           -> propsRead(ReadReason(table, id))),
    LAMBDA r : [type |-> type, pkid |-> r.v[1], reason |-> r.v[2], props |-> r.v[3]])

PubAckRead(h, body) == Acknowledged("PubAck", PubAckReason, h, body, PubAckPropsRead)

(* pubrec.rs *)

PubRecReason == [
  Success |-> 0, NoMatchingSubscribers |-> 16, UnspecifiedError |-> 128,
  ImplementationSpecificError |-> 131, NotAuthorized |-> 135, TopicNameInvalid |-> 144,
  PacketIdentifierInUse |-> 145, QuotaExceeded |-> 151, PayloadFormatInvalid |-> 153]

PubRecLen(p) == IF Plain(p) THEN 2 ELSE 2 + 1 + OptionLen(p.props, PubRecPropsLen)

PubRecWrite(p) ==
  Wrote(Frame(80, PubRecLen(p),
    U16(p.pkid) \o (IF Plain(p) THEN <<>>
                    ELSE U8(PubRecReason[p.reason]) \o OptionWritten(p.props, PubRecPropsWrite))))

PubRecRead(h, body) == Acknowledged("PubRec", PubRecReason, h, body, PubRecPropsRead)

(* pubrel.rs *)

PubRelReason == [Success |-> 0, PacketIdentifierNotFound |-> 146]

PubRelLen(p) == IF Plain(p) THEN 2 ELSE 2 + 1 + OptionLen(p.props, PubRelPropsLen)

PubRelWrite(p) ==
  Wrote(Frame(98, PubRelLen(p),
    U16(p.pkid) \o (IF Plain(p) THEN <<>>
                    ELSE U8(PubRelReason[p.reason]) \o OptionWritten(p.props, PubRelPropsWrite))))

PubRelRead(h, body) == Acknowledged("PubRel", PubRelReason, h, body, PubRelPropsRead)

(* pubcomp.rs *)

PubCompReason == [Success |-> 0, PacketIdentifierNotFound |-> 146]

PubCompLen(p) == IF Plain(p) THEN 2 ELSE 2 + 1 + OptionLen(p.props, PubCompPropsLen)

PubCompWrite(p) ==
  Wrote(Frame(112, PubCompLen(p),
    U16(p.pkid) \o (IF Plain(p) THEN <<>>
                    ELSE U8(PubCompReason[p.reason]) \o OptionWritten(p.props, PubCompPropsWrite))))

PubCompRead(h, body) == Acknowledged("PubComp", PubCompReason, h, body, PubCompPropsRead)

(* subscribe.rs *)

RetainRule == [OnEverySubscribe |-> 0, OnNewSubscribe |-> 1, Never |-> 2]

FilterLen(f) == 2 + Len(f.path) + 1

FilterWrite(f) ==
  Str(f.path) \o U8(f.qos + Flag(f.nolocal, 2) + Flag(f.preserve_retain, 3)
                    + RetainRule[f.retain_rule] * 16)

\* The filter of a path and its options; qos and rule may be out of range.
FilterOf(f) ==
  [path |-> f[1], qos |-> f[2] % 4, nolocal |-> Bit(f[2], 2), preserve_retain |-> Bit(f[2], 3),
   retain_rule |-> ReasonOf(RetainRule, (f[2] \div 16) % 4)]
Filters(list) ==
  list # <<>> /\ \A i \in DOMAIN list : list[i].qos \in QoS /\ list[i].retain_rule # ""

SubscribeLen(p) == 2 + SumOver(FilterLen, p.filters) + OptionLen(p.props, SubscribePropsLen)

SubscribeWrite(p) ==
  Wrote(Frame(130, SubscribeLen(p),
    U16(p.pkid) \o OptionWritten(p.props, SubscribePropsWrite) \o Joined(FilterWrite, p.filters)))

SubscribeRead(h, body) ==
  Result(Require(ReadList(<<"str", "u8">>, FilterOf, SubscribePropsRead(ReadKind("u16", Reader(body)))),
                 LAMBDA v : Filters(v[3])),
         LAMBDA r : [type |-> "Subscribe", pkid |-> r.v[1], props |-> r.v[2], filters |-> r.v[3]])

(* suback.rs *)

\* code(); Success(qos) is the name of its quality of service, Failure that of
\* an unspecified error: the enum has two values for each of these codes.
SubscribeReasonCode == [
  QoS0 |-> 0, QoS1 |-> 1, QoS2 |-> 2, Unspecified |-> 128, ImplementationSpecific |-> 131,
  NotAuthorized |-> 135, TopicFilterInvalid |-> 143, PkidInUse |-> 145, QuotaExceeded |-> 151,
  SharedSubscriptionsNotSupported |-> 158, SubscriptionIdNotSupported |-> 161,
  WildcardSubscriptionsNotSupported |-> 162]

SubAckLen(p) == 2 + Len(p.codes) + OptionLen(p.props, SubAckPropsLen)

SubAckWrite(p) ==
  Wrote(Frame(144, SubAckLen(p),
    U16(p.pkid) \o OptionWritten(p.props, SubAckPropsWrite)
    \o [i \in DOMAIN p.codes |-> SubscribeReasonCode[p.codes[i]]]))

SubAckRead(h, body) ==
  Result(ReadCodes(SubscribeReasonCode, SubAckPropsRead(ReadKind("u16", Reader(body)))),
         LAMBDA r : [type |-> "SubAck", pkid |-> r.v[1], props |-> r.v[2], codes |-> r.v[3]])

(* unsubscribe.rs *)

UnsubscribeLen(p) ==
  2 + SumOver(LAMBDA f : 2 + Len(f), p.filters) + OptionLen(p.props, UnsubscribePropsLen)

UnsubscribeWrite(p) ==
  Wrote(Frame(162, UnsubscribeLen(p),
    U16(p.pkid) \o OptionWritten(p.props, UnsubscribePropsWrite) \o Joined(Str, p.filters)))

UnsubscribeRead(h, body) ==
  Result(ReadList(<<"str">>, Head, UnsubscribePropsRead(ReadKind("u16", Reader(body)))),
         LAMBDA r : [type |-> "Unsubscribe", pkid |-> r.v[1], props |-> r.v[2], filters |-> r.v[3]])

(* unsuback.rs *)

UnsubAckReason == [
  Success |-> 0, NoSubscriptionExisted |-> 17, UnspecifiedError |-> 128,
  ImplementationSpecificError |-> 131, NotAuthorized |-> 135, TopicFilterInvalid |-> 143,
  PacketIdentifierInUse |-> 145]

UnsubAckLen(p) == 2 + Len(p.reasons) + OptionLen(p.props, UnsubAckPropsLen)

UnsubAckWrite(p) ==
  Wrote(Frame(176, UnsubAckLen(p),
    U16(p.pkid) \o OptionWritten(p.props, UnsubAckPropsWrite)
    \o [i \in DOMAIN p.reasons |-> UnsubAckReason[p.reasons[i]]]))

UnsubAckRead(h, body) ==
  Result(ReadCodes(UnsubAckReason, UnsubAckPropsRead(ReadKind("u16", Reader(body)))),
         LAMBDA r : [type |-> "UnsubAck", pkid |-> r.v[1], props |-> r.v[2], reasons |-> r.v[3]])

(* disconnect.rs *)

DisconnectReasonCode == [
  NormalDisconnection |-> 0, DisconnectWithWillMessage |-> 4, UnspecifiedError |-> 128,
  MalformedPacket |-> 129, ProtocolError |-> 130, ImplementationSpecificError |-> 131,
  NotAuthorized |-> 135, ServerBusy |-> 137, ServerShuttingDown |-> 139,
  KeepAliveTimeout |-> 141, SessionTakenOver |-> 142, TopicFilterInvalid |-> 143,
  TopicNameInvalid |-> 144, ReceiveMaximumExceeded |-> 147, TopicAliasInvalid |-> 148,
  PacketTooLarge |-> 149, MessageRateTooHigh |-> 150, QuotaExceeded |-> 151,
  AdministrativeAction |-> 152, PayloadFormatInvalid |-> 153, RetainNotSupported |-> 154,
  QoSNotSupported |-> 155, UseAnotherServer |-> 156, ServerMoved |-> 157,
  SharedSubscriptionNotSupported |-> 158, ConnectionRateExceeded |-> 159,
  MaximumConnectTime |-> 160, SubscriptionIdentifiersNotSupported |-> 161,
  WildcardSubscriptionsNotSupported |-> 162]

\* The length of a normal disconnection is that of the packet, that of any
\* other without properties leaves out their length byte.
DisconnectLen(p) ==
  IF p.reason = "NormalDisconnection" /\ p.props = <<>> THEN 2
  ELSE 1 + (IF p.props = <<>> THEN 0 ELSE OptionLen(p.props, DisconnectPropsLen))

DisconnectWrite(p) ==
  Wrote(IF DisconnectLen(p) = 2 THEN <<224, 0>>
        ELSE Frame(224, DisconnectLen(p),
               U8(DisconnectReasonCode[p.reason]) \o OptionWritten(p.props, DisconnectPropsWrite)))

DisconnectRead(h, body) ==
  IF h.byte1 % 16 # 0 THEN Bad
  ELSE Result(DisconnectPropsRead(ReadReason(DisconnectReasonCode, Reader(body))),
              LAMBDA r : [type |-> "Disconnect", reason |-> r.v[1], props |-> r.v[2]])
-----------------------------------------------------------------------------
(* mod.rs: impl Protocol for V5 *)

V5Read(h, body) ==
  LET type == PacketType(h)
  IN  CASE type = "Connect"     -> ConnectRead(h, body)
        [] type = "Publish"     -> PublishRead(h, body)
        [] type = "PubAck"      -> PubAckRead(h, body)
        [] type = "PubRec"      -> PubRecRead(h, body)
        [] type = "PubRel"      -> PubRelRead(h, body)
        [] type = "PubComp"     -> PubCompRead(h, body)
        [] type = "Subscribe"   -> SubscribeRead(h, body)
        [] type = "SubAck"      -> SubAckRead(h, body)
        [] type = "Unsubscribe" -> UnsubscribeRead(h, body)
        [] type = "Disconnect"  -> DisconnectRead(h, body)
        [] type \in {"PingReq", "PingResp"} -> [type |-> type]
        [] type = "Invalid"     -> Bad
        [] type \in {"ConnAck", "UnsubAck"} -> Panic

V5ReadMut(s, maxSize) == Unframed(s, Check(s, maxSize), V5Read)

V5Write(p) ==
  CASE p.type = "Connect"     -> ConnectWrite(p)
    [] p.type = "ConnAck"     -> ConnAckWrite(p)
    [] p.type = "Publish"     -> PublishWrite(p)
    [] p.type = "PubAck"      -> PubAckWrite(p)
    [] p.type = "PubRec"      -> PubRecWrite(p)
    [] p.type = "PubRel"      -> PubRelWrite(p)
    [] p.type = "PubComp"     -> PubCompWrite(p)
    [] p.type = "Subscribe"   -> SubscribeWrite(p)
    [] p.type = "SubAck"      -> SubAckWrite(p)
    [] p.type = "Unsubscribe" -> UnsubscribeWrite(p)
    [] p.type = "UnsubAck"    -> UnsubAckWrite(p)
    [] p.type = "Disconnect"  -> DisconnectWrite(p)
    [] p.type = "PingReq"     -> Wrote(<<192, 0>>)
    [] p.type = "PingResp"    -> Wrote(<<208, 0>>)
=============================================================================

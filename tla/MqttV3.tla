------------------------------- MODULE MqttV3 -------------------------------
(***************************************************************************)
(* The MQTT 3.1 codec (version/v3).  Its files have the text of version/v4 *)
(* but for the name and level a Connect is checked against and counted     *)
(* with, so every packet is that of MqttV4 with other constants.           *)
(***************************************************************************)
EXTENDS MqttBytes

OldName == <<77, 81, 73, 115, 100, 112>>              \* "MQIsdp"

P == INSTANCE MqttV4 WITH ProtocolName <- OldName, Level <- 3

\* connect.rs writes "MQTT" and level 4 under the length of "MQIsdp": a packet
\* of this version's own write is two bytes short and refused by its read.  The
\* server writes no Connect.
ConnectRead(h, body) == P!ConnectRead(h, body)
ConnectWrite(p) == P!ConnectWrite(p)

ConnAckRead(h, body) == P!ConnAckRead(h, body)
PublishRead(h, body) == P!PublishRead(h, body)
PubAckRead(h, body) == P!PubAckRead(h, body)
PubRecRead(h, body) == P!PubRecRead(h, body)
PubRelRead(h, body) == P!PubRelRead(h, body)
PubCompRead(h, body) == P!PubCompRead(h, body)
SubscribeRead(h, body) == P!SubscribeRead(h, body)
SubAckRead(h, body) == P!SubAckRead(h, body)
UnsubscribeRead(h, body) == P!UnsubscribeRead(h, body)
UnsubAckRead(h, body) == P!UnsubAckRead(h, body)

ConnAckWrite(p) == P!ConnAckWrite(p)
PublishWrite(p) == P!PublishWrite(p)
PubAckWrite(p) == P!PubAckWrite(p)
PubRecWrite(p) == P!PubRecWrite(p)
PubRelWrite(p) == P!PubRelWrite(p)
PubCompWrite(p) == P!PubCompWrite(p)
SubscribeWrite(p) == P!SubscribeWrite(p)
SubAckWrite(p) == P!SubAckWrite(p)
UnsubscribeWrite(p) == P!UnsubscribeWrite(p)
UnsubAckWrite(p) == P!UnsubAckWrite(p)
DisconnectWrite(p) == P!DisconnectWrite(p)
-----------------------------------------------------------------------------
(* mod.rs: impl Protocol for V3 *)

V3Read(h, body) ==
  LET type == PacketType(h)
  IN  CASE type = "Connect"     -> ConnectRead(h, body)
        [] type = "ConnAck"     -> ConnAckRead(h, body)
        [] type = "Publish"     -> PublishRead(h, body)
        [] type = "PubAck"      -> PubAckRead(h, body)
        [] type = "PubRec"      -> PubRecRead(h, body)
        [] type = "PubRel"      -> PubRelRead(h, body)
        [] type = "PubComp"     -> PubCompRead(h, body)
        [] type = "Subscribe"   -> SubscribeRead(h, body)
        [] type = "SubAck"      -> SubAckRead(h, body)
        [] type = "Unsubscribe" -> UnsubscribeRead(h, body)
        [] type = "UnsubAck"    -> UnsubAckRead(h, body)
        [] type \in {"PingReq", "PingResp"} -> [type |-> type]
        [] type \in {"Disconnect", "Invalid"} -> Bad

V3ReadMut(s, maxSize) == Unframed(s, Check(s, maxSize), V3Read)

V3Write(p) ==
  CASE p.type = "ConnAck" -> ConnAckWrite(p)
    [] p.type = "PingReq" -> Wrote(<<192, 0>>)
    [] p.type = "PingResp" -> Wrote(<<208, 0>>)
    [] p.type \notin {"ConnAck", "PingReq", "PingResp"} /\ p.props # <<>> -> P!Unwritable
    [] p.type = "Connect" /\ p.props = <<>> ->
         IF p.willprops # <<>> THEN P!Unwritable ELSE ConnectWrite(p)
    [] p.type = "Publish" /\ p.props = <<>>     -> PublishWrite(p)
    [] p.type = "PubAck" /\ p.props = <<>>      -> PubAckWrite(p)
    [] p.type = "PubRec" /\ p.props = <<>>      -> PubRecWrite(p)
    [] p.type = "PubRel" /\ p.props = <<>>      -> PubRelWrite(p)
    [] p.type = "PubComp" /\ p.props = <<>>     -> PubCompWrite(p)
    [] p.type = "Subscribe" /\ p.props = <<>>   -> SubscribeWrite(p)
    [] p.type = "SubAck" /\ p.props = <<>>      -> SubAckWrite(p)
    [] p.type = "Unsubscribe" /\ p.props = <<>> -> UnsubscribeWrite(p)
    [] p.type = "UnsubAck" /\ p.props = <<>>    -> UnsubAckWrite(p)
    [] p.type = "Disconnect" /\ p.props = <<>>  -> DisconnectWrite(p)
=============================================================================

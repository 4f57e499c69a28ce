----------------------------- MODULE MqttBytes -----------------------------
(***************************************************************************)
(* The byte level of the MQTT codecs: the integers, strings and length     *)
(* fields of version/v5/mod.rs, which version/v4/mod.rs and v3/mod.rs      *)
(* repeat word for word.  A byte is a number below 256 and a stream a      *)
(* sequence of bytes; a string is the sequence of its bytes.               *)
(*                                                                         *)
(* A reader takes values off the front of a stream one after the other and *)
(* stops at the first error.  It is the record [at, s, v]: where it stands *)
(* ("ok", "more" for Error::InsufficientBytes, "bad" for every other       *)
(* error), the bytes left and the values read so far.                      *)
(***************************************************************************)
EXTENDS Integers, Sequences, SequencesExt, FiniteSetsExt

MaxRemaining == 268435455

Total(f(_), S) == FoldSet(LAMBDA x, n : f(x) + n, 0, S)
Joined(f(_), s) == FlattenSeq([i \in DOMAIN s |-> f(s[i])])
SumOver(f(_), s) == FoldLeft(LAMBDA n, x : n + f(x), 0, s)

\* The bits of a flags byte.
Bit(b, n) == (b \div (2 ^ n)) % 2 = 1
Flag(cond, n) == IF cond THEN 2 ^ n ELSE 0
QoS == {0, 1, 2}

\* The name of a code in a table of reasons, or "" where reason() fails.
ReasonOf(table, num) ==
  IF \E n \in DOMAIN table : table[n] = num THEN CHOOSE n \in DOMAIN table : table[n] = num ELSE ""

(* writing *)

U8(n) == <<n>>
U16(n) == <<n \div 256, n % 256>>
Str(v) == U16(Len(v) % 65536) \o v          \* bytes.len() as u16

\* write_remaining_length: seven bits a byte, the lowest first, the top bit
\* set on every byte but the last.
RECURSIVE VarInt(_)
VarInt(n) == IF n < 128 THEN <<n>> ELSE <<128 + (n % 128)>> \o VarInt(n \div 128)

LenLen(n) == CASE n >= 2097152 -> 4 [] n >= 16384 -> 3 [] n >= 128 -> 2 [] OTHER -> 1

(* reading *)

Reader(s) == [at |-> "ok", s |-> s, v |-> <<>>]
Stopped(r, why) == [r EXCEPT !.at = why]
Taken(r, v, n) == [r EXCEPT !.s = SubSeq(@, n + 1, Len(@)), !.v = Append(@, v)]

\* `?`: what follows a read is done only if it succeeded.
Then(r, next(_)) == IF r.at = "ok" THEN next(r) ELSE r
Require(r, P(_)) == Then(r, LAMBDA q : IF P(q.v) THEN q ELSE Stopped(q, "bad"))
Given(r, v) == [r EXCEPT !.v = Append(@, v)]

\* length: the value of a variable byte integer at the front of s and the
\* bytes it takes.  More than four bytes are malformed; a stream that ends
\* inside the integer asks for one more byte.
LengthOf(s) ==
  LET ends == {i \in 1..4 : i <= Len(s) /\ s[i] < 128}
  IN  IF ends # {}
      THEN LET n == Min(ends)
           IN  [at |-> "ok", n |-> n,
                v |-> SumOver(LAMBDA i : (s[i] % 128) * 128 ^ (i - 1), [i \in 1..n |-> i])]
      ELSE [at |-> IF Len(s) >= 4 THEN "bad" ELSE "more", n |-> 0, v |-> 0]

ReadU8(r) ==
  IF Len(r.s) < 1 THEN Stopped(r, "bad") ELSE Taken(r, r.s[1], 1)

ReadU16(r) ==
  IF Len(r.s) < 2 THEN Stopped(r, "bad") ELSE Taken(r, r.s[1] * 256 + r.s[2], 2)

\* A u32 is kept as its four bytes.
ReadU32(r) ==
  IF Len(r.s) < 4 THEN Stopped(r, "bad") ELSE Taken(r, SubSeq(r.s, 1, 4), 4)

\* read_mqtt_bytes: the announced length must not cross the frame.
ReadStr(r) ==
  IF Len(r.s) < 2 \/ r.s[1] * 256 + r.s[2] > Len(r.s) - 2
  THEN Stopped(r, "bad")
  ELSE LET n == r.s[1] * 256 + r.s[2]
       IN  Taken(r, SubSeq(r.s, 3, n + 2), n + 2)

ReadVar(r) ==
  LET l == LengthOf(r.s)
  IN  IF l.at # "ok" THEN Stopped(r, l.at) ELSE Taken(r, l.v, l.n)

\* The last two values become one.
Paired(r) ==
  Then(r, LAMBDA q : [q EXCEPT !.v = Append(SubSeq(@, 1, Len(@) - 2), SubSeq(@, Len(@) - 1, Len(@)))])

ReadKind(kind, r) ==
  CASE r.at # "ok"   -> r
    [] kind = "u8"   -> ReadU8(r)
    [] kind = "u16"  -> ReadU16(r)
    [] kind = "u32"  -> ReadU32(r)
    [] kind = "str"  -> ReadStr(r)
    [] kind = "var"  -> ReadVar(r)
    [] kind = "pair" -> Paired(Then(ReadStr(r), ReadStr))

\* The values of the given kinds, one after the other.
ReadAll(kinds, r) == FoldLeft(LAMBDA q, k : ReadKind(k, q), r, kinds)

\* A code that must be in the given table becomes its name.
ReadReason(table, r) ==
  Then(Require(ReadKind("u8", r), LAMBDA v : ReasonOf(table, Last(v)) # ""),
       LAMBDA q : [q EXCEPT !.v[Len(q.v)] = ReasonOf(table, @)])

\* `while bytes.has_remaining()`: a list of items of the given kinds, to the
\* end of the frame; the list of what item makes of them is one value.
RECURSIVE ReadToEnd(_, _)
ReadToEnd(kinds, r) ==
  IF r.at # "ok" \/ r.s = <<>> THEN r
  ELSE LET one == ReadAll(kinds, [r EXCEPT !.v = <<>>])
       IN  ReadToEnd(kinds, [one EXCEPT !.v = Append(r.v, one.v)])

ReadList(kinds, item(_), r) ==
  Then(r, LAMBDA q :
    Then(ReadToEnd(kinds, [q EXCEPT !.v = <<>>]),
         LAMBDA l : [l EXCEPT !.v = Append(q.v, [i \in DOMAIN l.v |-> item(l.v[i])])]))

\* The codes that fill the rest of a frame; there must be one.
ReadCodes(table, r) ==
  Require(ReadList(<<"u8">>, LAMBDA one : ReasonOf(table, one[1]), r),
          LAMBDA v : Last(v) # <<>> /\ \A i \in DOMAIN Last(v) : Last(v)[i] # "")

(* fixed header *)

\* check and parse_fixed_header: what is known of the frame at the front of a
\* stream whose length field says l.  "more" says how many bytes the caller
\* must wait for.
HeaderWhole(s, l, maxSize) ==
  IF l.at = "ok" /\ l.v <= maxSize /\ Len(s) < 1 + l.n + l.v
  THEN [at |-> "more", need |-> 1 + l.n + l.v]
  ELSE [at |-> "ok", byte1 |-> s[1], header |-> 1 + l.n, remaining |-> l.v]
Header(s, l, maxSize) ==
  CASE l.at = "more" -> [at |-> "more", need |-> 1]
    [] l.at = "bad"  -> [at |-> "bad"]
    [] l.at = "ok" /\ l.v > maxSize -> [at |-> "bad"]
    [] l.at = "ok" /\ l.v <= maxSize /\ Len(s) < 1 + l.n + l.v ->
         [at |-> "more", need |-> 1 + l.n + l.v - Len(s)]
    [] OTHER -> [at |-> "ok", byte1 |-> s[1], header |-> 1 + l.n, remaining |-> l.v]

Check(s, maxSize) ==
  IF Len(s) < 2 THEN [at |-> "more", need |-> 2 - Len(s)]
                ELSE Header(s, LengthOf(Tail(s)), maxSize)

\* FixedHeader::frame_length
FrameLength(h) == h.header + h.remaining

PacketTypes == <<"Connect", "ConnAck", "Publish", "PubAck", "PubRec", "PubRel", "PubComp",
                 "Subscribe", "SubAck", "Unsubscribe", "UnsubAck", "PingReq", "PingResp",
                 "Disconnect">>

\* FixedHeader::packet_type
PacketType(h) ==
  LET num == h.byte1 \div 16
  IN  IF num \in DOMAIN PacketTypes THEN PacketTypes[num] ELSE "Invalid"

\* A packet as it is put on the stream: the first byte, the length the
\* packet's len announces and what its write then puts there.
Frame(byte1, len, body) == <<byte1>> \o VarInt(len) \o body

Bad == [type |-> "Error", at |-> "bad"]

\* What a packet's write leaves in the buffer when it succeeds.
Wrote(bytes) == [at |-> "ok", bytes |-> bytes]

\* What a packet's read returns once its reader has stopped at r.
Result(r, packet(_)) == IF r.at = "ok" THEN packet(r) ELSE [type |-> "Error", at |-> r.at]

\* The part of a frame behind its header, and what follows the frame.
Body(s, h) == SubSeq(s, h.header + 1, FrameLength(h))
Behind(s, h) == SubSeq(s, FrameLength(h) + 1, Len(s))

\* Packets without a payload.
Bare(type) ==
  CASE type \in {"PingReq", "PingResp"} -> [type |-> type]
    [] type = "Disconnect" -> [type |-> type, reason |-> "NormalDisconnection", props |-> <<>>]
    [] OTHER -> Bad

\* What read_mut returns: at is "ok" with a packet, "more" with the bytes to
\* wait for, "bad", or "panic" where the code reaches unreachable!().  The
\* frame has left the stream whenever the header could be read.
Outcome(s, h, packet) ==
  CASE h.at = "more" -> [at |-> "more", need |-> h.need, rest |-> s]
    [] h.at = "bad"  -> [at |-> "bad", rest |-> s]
    [] h.at = "ok" /\ packet.type = "Error" ->
         [at |-> packet.at, need |-> 1, rest |-> Behind(s, h)]
    [] OTHER -> [at |-> "ok", packet |-> packet, rest |-> Behind(s, h)]

\* read_mut: the frame is split off and read, a frame without a payload at once.
Unframed(s, h, packet(_, _)) ==
  Outcome(s, h, IF h.remaining = 0 THEN Bare(PacketType(h)) ELSE packet(h, Body(s, h)))

Panic == [type |-> "Error", at |-> "panic"]
=============================================================================

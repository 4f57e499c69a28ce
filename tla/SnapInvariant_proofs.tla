------------------------ MODULE SnapInvariant_proofs ------------------------
(***************************************************************************)
(* The inductive invariant of the HTTP service, and what the kinds of      *)
(* steps keep of it.                                                       *)
(*                                                                         *)
(* A step leaves the tables alone, is a statement, or is a commit.  What a *)
(* kind of step keeps is proved here once, from a few facts about the rows *)
(* it writes; SnapApi_proofs shows each action to be of its kind and to    *)
(* write such rows.                                                        *)
(***************************************************************************)
EXTENDS SnapApi, FiniteSetTheorems, TLAPS

-----------------------------------------------------------------------------
(* The inductive invariant *)

\* The steps of a handler run in the order of their levels.
Level(s) ==
    CASE s \in {"address", "blue_find", "delete_find", "modify_find", "edit_find",
                "load_groups", "erase_group", "new_group", "login_find",
                "refresh_find", "find_name", "mail_find", "valid_code", "new_script",
                "edit_script", "count_devices", "new_integration",
                "drop_integration", "set_info"} -> 1
      [] s \in {"check", "blue_update", "unlink_all", "script", "look_default",
                "find_user", "new_user", "mail_count", "tokens", "set_password",
                "drop_script"} -> 2
      [] s \in {"device", "locate", "uncache", "mail_sent", "session",
                "new_user_group", "drop_scripts"} -> 3
      [] s \in {"node", "gate", "mqtt", "snap", "exists", "find_type", "unlink",
                "read_groups", "mail_code", "collect"} -> 4
      [] s \in {"del_eui", "del_gate", "del_snap", "hset", "save_groups",
                "drop_devices"} -> 5
      [] s \in {"del_addr", "modify_rows", "drop_tokens"} -> 6
      [] s \in {"set_eui", "drop_groups"} -> 7
      [] s \in {"set_addr", "set_gate", "set_snap", "drop_links"} -> 8
      [] s \in {"default", "drop_user"} -> 9
      [] s = "find_default" -> 10
      [] s = "link_default" -> 11
      [] s = "link" -> 12
      [] s \in {"edit_row", "delete_rows", "rank"} -> 13
      [] s = "reorder" -> 14
      [] s \in {"commit", "device_commit"} -> 15
      [] OTHER -> 0

Ordered(s) == \A i, j \in 1 .. Len(s) : i < j => Level(s[i]) < Level(s[j])
StepsIn(s) == {s[i] : i \in 1 .. Len(s)}
Left(r) == StepsIn(r.steps)

LinkSteps == {"default", "find_default", "link_default", "link", "device_commit"}
RowSteps == {"node", "gate", "mqtt", "snap"}
NodeKinds == {"OTAA", "ABP", "Bluetooth"}

\* The steps a handler can have left.
Uses(r) ==
    CASE r.op = "create" ->
            (CASE r.kind \in NodeKinds -> {"address", "check", "node", "set_eui", "set_addr"}
               [] r.kind = "Gateway" -> {"gate", "set_gate"}
               [] r.kind = "MQTT" -> {"mqtt"}
               [] r.kind = "Snap" -> {"snap", "set_snap"}
               [] OTHER -> {})
            \cup {"device"} \cup LinkSteps
      [] r.op = "rebind" -> {"blue_find", "blue_update", "del_eui", "del_addr", "set_eui",
                             "set_addr"} \cup LinkSteps
      [] r.op = "delete" -> {"delete_find", "unlink_all", "find_type", "del_eui", "del_addr",
                             "del_gate", "del_snap", "delete_rows", "commit"}
      [] r.op = "modify" -> {"modify_find", "script", "locate", "exists", "hset",
                             "modify_rows", "commit"}
      [] r.op = "signup" -> {"find_name", "new_user", "new_user_group", "commit"}
      [] r.op = "delete_user" -> {"valid_code", "find_user", "drop_scripts", "collect",
                                  "drop_devices", "drop_tokens", "drop_groups",
                                  "drop_links", "drop_user", "commit"}
      [] r.op \in {"edit_link", "edit_unlink", "erase_group"} ->
            {"edit_find", "link", "edit_row", "uncache", "unlink", "erase_group", "commit"}
      [] r.op \in {"new_group", "unlink"} -> {"new_group", "uncache", "unlink"}
      [] r.op \in {"get_group", "get_all"} -> {"load_groups", "look_default", "uncache",
                                               "read_groups", "save_groups"}
      [] r.op = "top" -> {"default", "find_default", "rank", "reorder"}
      [] r.op \in {"login", "refresh"} -> {"login_find", "refresh_find", "tokens", "session"}
      [] r.op = "mail" -> {"mail_find", "mail_count", "mail_sent", "mail_code"}
      [] r.op = "password" -> {"valid_code", "set_password"}
      [] r.op = "info" -> {"set_info"}
      [] r.op = "idle" -> {}
      [] OTHER -> {"new_script", "edit_script", "count_devices", "drop_script",
                   "new_integration", "drop_integration"}

Program(r) ==
    /\ Ordered(r.steps)
    /\ Left(r) \subseteq Uses(r)
    /\ "default" \in Left(r) => "find_default" \notin Left(r)
    /\ r.txn <=> r.op \in Transacted
    /\ r.op # "idle" => r.name \in Names

\* The columns an UPDATE keeps.
Fixed(x) ==
    CASE x.t = "nodes" -> [x EXCEPT !.dev_eui = None, !.dev_addr = None]
      [] x.t = "devices" -> [x EXCEPT !.script = None]
      [] x.t = "links" -> [x EXCEPT !.order = 0]
      [] OTHER -> x

\* The ids a row tells of, and those a request has learnt.
Typed == {"nodes", "gates", "mqtts", "snaps"}
Refs(x) == {x.id} \cup (IF x.t = "groups" THEN {x.user} ELSE {})
                  \cup (IF x.t \in Typed \cup {"authority"} THEN {x.device} ELSE {})
Finding == {"find_name", "new_user", "login_find", "refresh_find", "mail_find",
            "valid_code", "find_user"}
UserSet(r) == r.op \notin {"idle", "password"} /\ Left(r) \cap Finding = {}
DeviceSet(r) == \/ r.op = "create" /\ "device" \notin Left(r)
                \/ r.op = "rebind" /\ "blue_find" \notin Left(r)
ReqRefs(r) == (IF UserSet(r) THEN {r.user} ELSE {})
              \cup (IF DeviceSet(r) THEN {r.device} ELSE {})

Held(r) == r.add \cup r.seen
CachedAll == UNION {c.rows : c \in redis.groups}
Everywhere == db \cup CachedAll \cup UNION {Held(req[p]) : p \in Slots}
Vis(r) == {x \in db : x.id \notin r.del} \cup r.add
Removed(r) == r.del \ Ids(r.add)

Known(i) == i \in redis.session \/ \E x \in db \cup CachedAll : i \in Refs(x)
KnownTo(r, i) == i \in ReqRefs(r) \/ \E x \in Held(r) : i \in Refs(x)

\* The ids a request can still draw, and those it has drawn.
Reserved(r, i) == \E k \in Nat : k > r.made /\ i = r.no + Stride * k
Drawn(r, i) == \E k \in Nat : 1 <= k /\ k <= r.made /\ i = r.no + Stride * k

Stored == [node : [Addrs -> Nat \cup {Partial}], eui : [Euis -> Addrs \cup {None}],
           gate : [Euis -> Nat], snap : [Euis -> Nat],
           groups : SUBSET [user : Nat, rows : SUBSET Row], session : SUBSET Nat,
           code : SUBSET Names, sent : [Names -> 0 .. MaxCount]]

StoreInv ==
    /\ db \subseteq Row /\ IsFiniteSet(db)
    /\ redis \in Stored
    /\ req \in [Slots -> Request]
    /\ waits \in [Slots -> SUBSET Slots]
    /\ \A p \in Slots : p \notin waits[p] /\ (waits[p] # {} => Active(p))

NumberInv ==
    /\ \A p \in Slots : Active(p) => req[p].no \in 1 .. Stride - 1
    /\ \A p, q \in Slots : Active(p) /\ Active(q) /\ p # q => req[p].no # req[q].no
    /\ \A r \in todo : Sendable(r)
    /\ \A r, s \in todo : r.no = s.no => r = s
    /\ \A p \in Slots, r \in todo : Active(p) => req[p].no # r.no

\* Nobody has heard of an id that is still to be drawn, and nobody else of one
\* that a transaction has drawn.
Apart(r) == \A i : Reserved(r, i) => /\ ~Known(i)
                                     /\ \A q \in Slots : ~KnownTo(req[q], i)
Private(p) == req[p].txn => \A i : Drawn(req[p], i) =>
                               /\ ~Known(i)
                               /\ \A q \in Slots \ {p} : ~KnownTo(req[q], i)
ApartInv == /\ \A r \in todo : Apart(r)
            /\ \A p \in Slots : Active(p) => Apart(req[p])
            /\ \A p \in Slots : Private(p)

UniqueIds(rows) == \A x, y \in rows : x.id = y.id => x = y
Locked(r) == /\ UniqueIds(r.add)
             /\ r.del \subseteq Ids(db)
             /\ \A x \in r.add : x.id \in r.del \/ (x.id \notin Ids(db) /\ Drawn(r, x.id))
             /\ r.txn \/ (r.add = {} /\ r.del = {})
IdInv == /\ UniqueIds(db)
         /\ \A p \in Slots : Locked(req[p])
         /\ \A p, q \in Slots : p # q => req[p].del \cap req[q].del = {}

Compat(x, y) ==
    /\ x.id = y.id => Fixed(x) = Fixed(y)
    /\ x.t \in Typed /\ y.t = "devices" /\ x.device = y.id => x.t = TypeTable(y.kind)
    /\ x.t \in Typed /\ y.t = x.t /\ x.device = y.device => x.id = y.id
CompatInv == \A x, y \in Everywhere : Compat(x, y)

Shared(x, y) == Keys(x) \cap Keys(y) # {}
UniqueKeys(rows) == \A x, y \in rows : Shared(x, y) => x = y
KeyInv ==
    /\ UniqueKeys(db)
    /\ \A p \in Slots :
          /\ UniqueKeys(req[p].add)
          /\ \A x \in req[p].add, y \in db : Shared(x, y) => y.id \in req[p].del
    /\ \A p, q \in Slots : p # q =>
          /\ \A x \in req[p].add, y \in req[q].add : ~Shared(x, y)
          /\ \A x \in req[p].add, y \in db : y.id \in req[q].del => ~Shared(x, y)

\* What a handler has written and read when these steps are left.
CreateShape(r) ==
    LET L == Left(r) IN
    /\ r.kind \in Kinds \ {"LoRaNode"}
    /\ r.del = {} /\ r.seen = {}
    /\ r.eui \in Euis /\ r.dev_eui \in Euis
    /\ r.kind \in NodeKinds /\ "address" \notin L => r.addr \in Addrs
    /\ "address" \in L => "device" \in L
    /\ "device" \in L => r.add = {} /\ L \cap RowSteps # {}
    /\ "node" \in L => "set_addr" \in L
    /\ "gate" \in L => "set_gate" \in L
    /\ "snap" \in L => "set_snap" \in L
    /\ "link_default" \in L /\ L \cap {"default", "find_default"} = {} => r.groups # <<>>
    /\ "device" \notin L => \E x \in r.add : x.t = "devices"
    /\ L \cap RowSteps = {} => \E x \in r.add : x.t = TypeTable(TypeOf(r.kind))
    /\ \A x \in r.add :
          /\ x.t \notin {"users", "authority"}
          /\ x.t = "devices" => /\ x.id = r.device /\ x.eui = r.eui /\ x.user = r.user
                                /\ x.kind = TypeOf(r.kind)
          /\ x.t \in Typed => L \cap RowSteps = {} /\ x.device = r.device
          /\ x.t = "nodes" => x.dev_addr = r.addr

RebindShape(r) ==
    LET L == Left(r) IN
    /\ r.dev_eui \in Euis /\ r.addr \in Addrs
    /\ "blue_find" \in L => "blue_update" \in L
    /\ "blue_update" \in L => "set_addr" \in L
    /\ "link_default" \in L /\ L \cap {"default", "find_default"} = {} => r.groups # <<>>
    /\ r.del \subseteq Ids(r.add)
    /\ \A x \in r.seen : x.t = "nodes" /\ x.device = r.device
    /\ \A x \in r.add :
          \/ x.t = "nodes" /\ x.device = r.device /\ x.dev_addr = r.addr /\ x.id \in r.del
          \/ x.t \in {"groups", "links"}

DeleteShape(r) ==
    LET L == Left(r) IN
    /\ r.add = {}
    /\ "delete_find" \in L => "find_type" \in L
    /\ "delete_find" \notin L =>
          \E d \in r.seen :
             /\ d.t = "devices" /\ d.id = r.device
             /\ "find_type" \in L => r.seen = {d}
             /\ \A x \in r.seen : x = d \/ (x.t = TypeTable(d.kind) /\ x.device = d.id)
             /\ "find_type" \notin L /\ d.kind \in {"LoRaNode", "Gateway"} =>
                   \E x \in r.seen : x.t = TypeTable(d.kind)

ModifyShape(r) ==
    /\ r.del \subseteq Ids(r.add)
    /\ \A x \in r.add : x.id \in r.del /\ x.t \in {"nodes", "gates", "devices"}
    /\ \A x \in r.seen : x.t = "devices"
    /\ "locate" \in Left(r) => /\ {"exists", "hset"} \subseteq Left(r)
                               /\ "modify_find" \notin Left(r) => r.eui \in Euis
    /\ "exists" \in Left(r) => "hset" \in Left(r)

SignupShape(r) ==
    LET L == Left(r) IN
    /\ r.del = {}
    /\ "find_name" \in L => "new_user" \in L
    /\ "new_user" \in L => r.add = {} /\ "new_user_group" \in L
    /\ "new_user" \notin L => Drawn(r, r.user)
    /\ L \cap {"new_user", "new_user_group"} = {} => \E x \in r.add : x.t = "groups"
    /\ \A x \in r.add :
          \/ x.t = "users" /\ x.id = r.user
          \/ x.t = "groups" /\ x.user = r.user /\ x.default /\ "new_user_group" \notin L
    /\ \A x, y \in r.add : x.t = y.t => x = y

DropShape(r) ==
    LET L == Left(r) IN
    /\ r.add = {}
    /\ "valid_code" \in L => "find_user" \in L
    /\ L \cap {"find_user", "drop_scripts", "collect", "drop_devices", "drop_tokens"} # {}
       => "drop_groups" \in L
    /\ "drop_groups" \in L => "drop_user" \in L
    /\ \A x \in r.seen : x.t = "devices"

EditShape(r) == \A x \in r.add : \/ x.t = "links"
                                 \/ x.t = "groups" /\ x.id \in r.del

GetShape(r) == "read_groups" \notin Left(r) =>
                  \A x \in r.seen : x.t = "groups" /\ x.user = r.user

TopShape(r) == \A x \in r.seen : x.t = "links"

Shape(r) ==
    CASE r.op = "create" -> CreateShape(r)
      [] r.op = "rebind" -> RebindShape(r)
      [] r.op = "delete" -> DeleteShape(r)
      [] r.op = "modify" -> ModifyShape(r)
      [] r.op = "signup" -> SignupShape(r)
      [] r.op = "delete_user" -> DropShape(r)
      [] r.op \in {"edit_link", "edit_unlink", "erase_group"} -> EditShape(r)
      [] r.op \in {"get_group", "get_all"} -> GetShape(r)
      [] r.op = "top" -> TopShape(r)
      [] OTHER -> TRUE

ProgramInv == \A p \in Slots : Program(req[p]) /\ Shape(req[p])

\* What redis holds for a row that is not committed yet, unless the handler has
\* still to write it.
RecordOf(a, d) == a \in bare \/ redis.node[a] \in {None, Partial, d}
Told(r, x) ==
    /\ x.t = "nodes" => "set_addr" \in Left(r) \/ RecordOf(x.dev_addr, x.device)
    /\ x.t = "devices" /\ x.kind = "Gateway" =>
          "set_gate" \in Left(r) \/ redis.gate[x.eui] \in {None, x.id}
    /\ x.t = "devices" /\ x.kind = "Snap" =>
          "set_snap" \in Left(r) \/ redis.snap[x.eui] \in {None, x.id}
OwnedInv == /\ RecordOwned
            /\ \A p \in Slots : \A x \in req[p].add : Told(req[p], x)

\* A transaction removes the rows of a device together.
Jointly(r) ==
    /\ \A x \in db, d \in Vis(r) :
          x.t \in Typed \cup {"authority"} /\ x.id \in Removed(r) /\ d.t = "devices"
          => d.id # x.device
    /\ \A d, x \in db : /\ d.t = "devices" /\ d.id \in Removed(r)
                        /\ x.t \in {"nodes", "gates"} /\ x.device = d.id
                        => x.id \in Removed(r)
JointInv == StoredWhole /\ \A p \in Slots : Jointly(req[p])

\* A user's default group is the only one anybody has seen, and goes with the user.
IsDefault(x, u) == x.t = "groups" /\ x.default /\ x.user = u
TheDefault(g, u) == /\ g \in db /\ IsDefault(g, u)
                    /\ \A x \in Everywhere : IsDefault(x, u) => x = g
Leaving(r) ==
    \A g \in db : g.t = "groups" /\ g.default /\ g.id \in Removed(r) =>
       /\ r.op = "delete_user" /\ g.user = r.user /\ "drop_groups" \notin Left(r)
       /\ "drop_user" \in Left(r) \/ \A u \in Vis(r) : u.t = "users" => u.id # g.user
DefaultInv ==
    /\ \A u \in db : u.t = "users" => \E g \in db : TheDefault(g, u.id)
    /\ \A p \in Slots : Leaving(req[p])
    /\ \A c \in redis.groups : \A x \in c.rows : x.t = "groups" /\ x.user = c.user

Inv == /\ StoreInv /\ NumberInv /\ ApartInv /\ IdInv /\ CompatInv /\ KeyInv
       /\ ProgramInv /\ OwnedInv /\ JointInv /\ DefaultInv

-----------------------------------------------------------------------------
(* Numbers and steps *)

\* An id says which request has drawn it and when.
LEMMA IdUnique ==
    ASSUME NEW n \in 1 .. Stride - 1, NEW m \in 1 .. Stride - 1,
           NEW k \in Nat, NEW l \in Nat, n + Stride * k = m + Stride * l
    PROVE  n = m /\ k = l
<1> USE ApiAssumption
<1>1. k >= l
  <2>1. SUFFICES ASSUME k + 1 <= l PROVE FALSE  OBVIOUS
  <2>2. Stride * (k + 1) <= Stride * l  BY <2>1
  <2>3. Stride * (k + 1) = Stride * k + Stride  OBVIOUS
  <2> QED  BY <2>2, <2>3
<1>2. l >= k
  <2>1. SUFFICES ASSUME l + 1 <= k PROVE FALSE  OBVIOUS
  <2>2. Stride * (l + 1) <= Stride * k  BY <2>1
  <2>3. Stride * (l + 1) = Stride * l + Stride  OBVIOUS
  <2> QED  BY <2>2, <2>3
<1> QED  BY <1>1, <1>2

\* No request has drawn an id below Stride.
LEMMA IdAbove ==
    ASSUME NEW n \in 1 .. Stride - 1, NEW k \in Nat, k >= 1
    PROVE  n + Stride * k \in Nat /\ n + Stride * k > Stride
<1>1. Stride * k >= Stride * 1  BY ApiAssumption
<1>2. Stride * k \in Nat  BY ApiAssumption
<1> QED  BY <1>1, <1>2, ApiAssumption

\* What is left after the first step of a list.
LEMMA StepsTail ==
    ASSUME NEW s \in Seq(StepNames), s # <<>>, Ordered(s)
    PROVE  /\ Tail(s) \in Seq(StepNames) /\ Head(s) \in StepsIn(s)
           /\ Ordered(Tail(s))
           /\ StepsIn(Tail(s)) = StepsIn(s) \ {Head(s)}
           /\ \A t \in StepsIn(s) : t = Head(s) \/ Level(Head(s)) < Level(t)
<1> DEFINE n == Len(s)
<1>1. n \in Nat /\ n >= 1  OBVIOUS
<1>2. Tail(s) \in Seq(StepNames) /\ Len(Tail(s)) = n - 1 /\ Head(s) = s[1]  OBVIOUS
<1>3. \A i \in 1 .. n - 1 : Tail(s)[i] = s[i + 1]  OBVIOUS
<1>4. \A i \in 1 .. n : Level(s[i]) \in Nat  BY DEF Level
<1>5. Ordered(Tail(s))
  <2> SUFFICES ASSUME NEW i \in 1 .. n - 1, NEW j \in 1 .. n - 1, i < j
               PROVE  Level(Tail(s)[i]) < Level(Tail(s)[j])
    BY <1>2 DEF Ordered
  <2>1. i + 1 \in 1 .. n /\ j + 1 \in 1 .. n /\ i + 1 < j + 1  BY <1>1
  <2> QED  BY <2>1, <1>3 DEF Ordered
<1>6. \A i \in 1 .. n : i = 1 \/ Level(Head(s)) < Level(s[i])  BY <1>1, <1>2 DEF Ordered
<1>7. \A i \in 2 .. n : s[i] # Head(s)
  <2> TAKE i \in 2 .. n
  <2>1. Level(s[1]) < Level(s[i])  BY <1>1 DEF Ordered
  <2>2. Level(s[1]) \in Nat /\ Level(s[i]) \in Nat  BY <1>1, <1>4
  <2> HIDE DEF n
  <2> QED  BY <2>1, <2>2, <1>2
<1>8. StepsIn(Tail(s)) \subseteq StepsIn(s) \ {Head(s)}
  <2> SUFFICES ASSUME NEW i \in 1 .. n - 1 PROVE Tail(s)[i] \in StepsIn(s) \ {Head(s)}
    BY <1>2 DEF StepsIn
  <2>1. i + 1 \in 2 .. n  BY <1>1
  <2> QED  BY <2>1, <1>3, <1>7 DEF StepsIn
<1>9. StepsIn(s) \ {Head(s)} \subseteq StepsIn(Tail(s))
  <2> SUFFICES ASSUME NEW i \in 1 .. n, s[i] # Head(s) PROVE s[i] \in StepsIn(Tail(s))
    BY DEF StepsIn
  <2>1. i - 1 \in 1 .. n - 1 /\ s[i] = Tail(s)[i - 1]  BY <1>1, <1>2, <1>3
  <2> QED  BY <2>1, <1>2 DEF StepsIn
<1>10. \A t \in StepsIn(s) : t = Head(s) \/ Level(Head(s)) < Level(t)
  <2> SUFFICES ASSUME NEW i \in 1 .. n PROVE s[i] = Head(s) \/ Level(Head(s)) < Level(s[i])
    BY DEF StepsIn
  <2> QED  BY <1>2, <1>6
<1>11. Head(s) \in StepsIn(s)  BY <1>1, <1>2 DEF StepsIn
<1> QED  BY <1>2, <1>5, <1>8, <1>9, <1>10, <1>11

\* A step that a handler takes: what is left of it, and what cannot be left.
LEMMA HeadStep ==
    ASSUME NEW p \in Slots, NEW s, req[p] \in Request, Program(req[p]), At(p, s)
    PROVE  LET o == req[p] IN
           /\ o.steps # <<>> /\ Head(o.steps) = s /\ s \in Left(o) /\ s \in Uses(o)
           /\ Tail(o.steps) \in Seq(StepNames) /\ Ordered(Tail(o.steps))
           /\ StepsIn(Tail(o.steps)) = Left(o) \ {s}
           /\ \A t \in Left(o) : t = s \/ Level(s) < Level(t)
<1>1. req[p].steps \in Seq(StepNames)  BY DEF Request
<1>2. req[p].steps # <<>> /\ Head(req[p].steps) = s  BY DEF At
<1>3. Ordered(req[p].steps) /\ Left(req[p]) \subseteq Uses(req[p])  BY DEF Program
<1> QED  BY <1>1, <1>2, <1>3, StepsTail DEF Left

-----------------------------------------------------------------------------
(* Steps that leave the tables alone *)

Becomes(p, r) == req' = [req EXCEPT ![p] = r]
Goes(p, r) == Becomes(p, r) \/ Becomes(p, Blank)

\* A slot that is free holds nothing.
LEMMA BlankSlot ==
    /\ Blank \in Request /\ Left(Blank) = {} /\ Held(Blank) = {} /\ ReqRefs(Blank) = {}
    /\ Blank.add = {} /\ Blank.del = {} /\ Blank.seen = {} /\ ~Blank.txn
    /\ Blank.op = "idle" /\ Blank.steps = <<>> /\ Blank.made = 0 /\ Removed(Blank) = {}
    /\ Program(Blank) /\ Shape(Blank)
<1>1. Blank.add = {} /\ Blank.del = {} /\ Blank.seen = {} /\ ~Blank.txn
      /\ Blank.op = "idle" /\ Blank.steps = <<>> /\ Blank.made = 0
  BY DEF Blank
<1>2. Blank \in Request
  <2> DEFINE E == Euis \cup {None}  A == Addrs \cup {None}  N == Names \cup {""}
             O == Ops \cup {"idle"}  K == Kinds \cup {""}
             R == SUBSET Row  S == Seq(StepNames)  G == Seq(Nat)
  <2>1. <<>> \in S /\ <<>> \in G  OBVIOUS
  <2>2. None \in E /\ None \in A /\ None = 0 /\ None \in Nat  BY DEF None
  <2>3. "" \in N /\ "" \in K /\ "idle" \in O  OBVIOUS
  <2>4. {} \in R /\ {} \in SUBSET Nat /\ FALSE \in BOOLEAN  OBVIOUS
  <2>5. Request = [no : Nat, op : O, user : Nat, name : N, kind : K, eui : E,
                   dev_eui : E, addr : A, device : Nat, group : Nat, groups : G,
                   script : Nat, txn : BOOLEAN, steps : S, add : R, del : SUBSET Nat,
                   seen : R, count : Nat, made : Nat]
    BY DEF Request
  <2> HIDE DEF E, A, N, O, K, R, S, G
  <2> QED  BY <2>1, <2>2, <2>3, <2>4, <2>5 DEF Blank
<1>3. Left(Blank) = {}  BY <1>1 DEF Left, StepsIn
<1>4. Held(Blank) = {} /\ Removed(Blank) = {}  BY <1>1 DEF Held, Removed
<1>5. ReqRefs(Blank) = {}  BY <1>1 DEF ReqRefs, UserSet, DeviceSet
<1>6. Program(Blank)
  <2>1. "idle" \notin Transacted  BY DEF Transacted
  <2>2. Blank.txn <=> Blank.op \in Transacted  BY <1>1, <2>1
  <2>3. Ordered(Blank.steps)  BY <1>1 DEF Ordered
  <2> QED  BY <1>1, <1>3, <2>2, <2>3 DEF Program
<1>7. Shape(Blank)  BY <1>1 DEF Shape
<1> QED  BY <1>1, <1>2, <1>3, <1>4, <1>5, <1>6, <1>7

\* A step of p changes no other slot.
LEMMA GoesTo ==
    ASSUME NEW p \in Slots, NEW r, req \in [Slots -> Request], Goes(p, r)
    PROVE  /\ \A q \in Slots \ {p} : req'[q] = req[q]
           /\ req'[p] = r \/ req'[p] = Blank
BY DEF Goes, Becomes

\* The same of whatever equals Blank.
LEMMA BlankHolds ==
    ASSUME NEW r, r = Blank
    PROVE  /\ r.add = {} /\ r.del = {} /\ r.seen = {} /\ ~r.txn /\ r.op = "idle"
           /\ r.made = 0 /\ Left(r) = {} /\ Removed(r) = {} /\ Held(r) = {}
           /\ ReqRefs(r) = {} /\ Program(r) /\ Shape(r)
BY BlankSlot

\* What a step of p that only reads keeps of its request.
Kin(r, o) == /\ r.no = o.no /\ r.op = o.op /\ r.txn = o.txn /\ r.made = o.made
             /\ r.add = o.add /\ r.del = o.del
Quiet(p, r) == /\ Active(p) /\ Goes(p, r) /\ Kin(r, req[p])
               /\ UNCHANGED <<db, todo>>

\* The numbers of the requests stay apart when p keeps its own.
LEMMA NumberStep ==
    ASSUME StoreInv, NumberInv, NEW p \in Slots, NEW r, Goes(p, r), Active(p),
           r.no = req[p].no, r.op = req[p].op, todo' = todo
    PROVE  NumberInv'
<1>1. req \in [Slots -> Request]  BY DEF StoreInv
<1>2. \A q \in Slots : req'[q].op # "idle" =>
         req[q].op # "idle" /\ req'[q].no = req[q].no
  BY <1>1, GoesTo, BlankSlot DEF Active
<1> QED  BY <1>2 DEF NumberInv, Active

\* A step that leaves the tables alone takes no lock and gives none up, unless p ends.
LEMMA QuietIds ==
    ASSUME StoreInv, IdInv, NEW p \in Slots, NEW r, Quiet(p, r)
    PROVE  IdInv'
<1>1. req \in [Slots -> Request]  BY DEF StoreInv
<1>2. db' = db  BY DEF Quiet
<1>3. \A q \in Slots \ {p} : req'[q] = req[q]  BY <1>1, GoesTo DEF Quiet
<1>4. req'[p] = r \/ req'[p] = Blank  BY <1>1, GoesTo DEF Quiet
<1>5. UniqueIds(db)'  BY <1>2 DEF IdInv, UniqueIds
<1>6. ASSUME NEW q \in Slots PROVE Locked(req[q])'
  <2>1. CASE q # p  BY <1>2, <1>3, <2>1 DEF IdInv, Locked, UniqueIds, Ids, Drawn
  <2>2. CASE q = p /\ req'[p] = Blank
    <3>1. req'[q].add = {} /\ req'[q].del = {}  BY <2>2, BlankSlot
    <3> QED  BY <3>1 DEF Locked, UniqueIds
  <2>3. CASE q = p /\ req'[p] = r
    <3>1. Locked(req[p])  BY DEF IdInv
    <3> QED  BY <2>3, <3>1, <1>2 DEF Locked, UniqueIds, Ids, Drawn, Quiet, Kin
  <2> QED  BY <1>4, <2>1, <2>2, <2>3
<1>7. \A q \in Slots : req'[q].del = req[q].del \/ req'[q].del = {}
  BY <1>3, <1>4, BlankSlot DEF Quiet, Kin
<1>8. ASSUME NEW a \in Slots, NEW b \in Slots, a # b PROVE req'[a].del \cap req'[b].del = {}
  BY <1>7, <1>8 DEF IdInv
<1> QED  BY <1>5, <1>6, <1>8 DEF IdInv

\* Nor does it write a unique key.
LEMMA QuietKeys ==
    ASSUME StoreInv, KeyInv, NEW p \in Slots, NEW r, Quiet(p, r)
    PROVE  KeyInv'
<1>1. req \in [Slots -> Request]  BY DEF StoreInv
<1>2. db' = db  BY DEF Quiet
<1>3. \A q \in Slots : \/ req'[q].add = req[q].add /\ req'[q].del = req[q].del
                       \/ req'[q].add = {} /\ req'[q].del = {}
  BY <1>1, GoesTo, BlankSlot DEF Quiet, Kin
<1>4. UniqueKeys(db)'  BY <1>2 DEF KeyInv, UniqueKeys
<1>5. ASSUME NEW q \in Slots
      PROVE  /\ UniqueKeys(req'[q].add)
             /\ \A x \in req'[q].add, y \in db' : Shared(x, y) => y.id \in req'[q].del
  BY <1>2, <1>3 DEF KeyInv, UniqueKeys
<1>6. ASSUME NEW a \in Slots, NEW b \in Slots, a # b
      PROVE  /\ \A x \in req'[a].add, y \in req'[b].add : ~Shared(x, y)
             /\ \A x \in req'[a].add, y \in db' : y.id \in req'[b].del => ~Shared(x, y)
  BY <1>2, <1>3, <1>6 DEF KeyInv
<1> QED  BY <1>4, <1>5, <1>6 DEF KeyInv, UniqueKeys

\* Nor does it remove a row of a device.
LEMMA QuietJoint ==
    ASSUME StoreInv, JointInv, NEW p \in Slots, NEW r, Quiet(p, r)
    PROVE  JointInv'
<1>1. req \in [Slots -> Request]  BY DEF StoreInv
<1>2. db' = db  BY DEF Quiet
<1>3. \A q \in Slots : \/ req'[q].add = req[q].add /\ req'[q].del = req[q].del
                       \/ req'[q].add = {} /\ req'[q].del = {}
  BY <1>1, GoesTo, BlankSlot DEF Quiet, Kin
<1>4. StoredWhole'  BY <1>2 DEF JointInv, StoredWhole
<1>5. ASSUME NEW q \in Slots PROVE Jointly(req[q])'
  <2>1. CASE req'[q].add = req[q].add /\ req'[q].del = req[q].del
    <3>1. Jointly(req[q])  BY DEF JointInv
    <3> QED  BY <2>1, <3>1, <1>2 DEF Jointly, Vis, Removed
  <2>2. CASE req'[q].add = {} /\ req'[q].del = {}
    BY <2>2 DEF Jointly, Removed
  <2> QED  BY <1>3, <2>1, <2>2
<1> QED  BY <1>4, <1>5 DEF JointInv

\* A step that reads learns only what is there: rows p sees, ids of such rows.
Reading(p, r) ==
    /\ r.seen \subseteq Vis(req[p]) \cup req[p].seen
    /\ CachedAll' \subseteq CachedAll \cup req[p].seen
    /\ redis'.session \subseteq redis.session \cup ReqRefs(req[p])
    /\ ReqRefs(r) \subseteq ReqRefs(req[p]) \cup Ids(Vis(req[p]))
    /\ req[p].txn => /\ CachedAll' \subseteq CachedAll
                     /\ redis'.session \subseteq redis.session

\* What a request sees is committed or its own.
LEMMA VisPlaces ==
    ASSUME NEW r
    PROVE  Vis(r) \subseteq db \cup Held(r)
BY DEF Vis, Held

\* Ids of different requests differ, and an id is drawn once.
LEMMA NotDrawn ==
    ASSUME NEW r, NEW s, r.no \in 1 .. Stride - 1, s.no \in 1 .. Stride - 1,
           r.no # s.no, NEW i, Drawn(r, i) \/ Reserved(r, i)
    PROVE  ~Drawn(s, i) /\ ~Reserved(s, i)
BY IdUnique DEF Drawn, Reserved

\* Only a request in progress has a transaction.
LEMMA TxnActive ==
    ASSUME ProgramInv, NEW p \in Slots, req[p].txn
    PROVE  Active(p)
BY DEF ProgramInv, Program, Transacted, Active

\* After a step of p, what everybody or p knows was known to everybody or to p
\* or is one of the ids the step has drawn.
LEMMA ApartStep ==
    ASSUME StoreInv, NumberInv, ApartInv, ProgramInv, NEW p \in Slots, NEW r,
           Goes(p, r), Active(p),
           todo' = todo, r.no = req[p].no, r.op = req[p].op, r.txn <=> req[p].txn,
           r.made \in Nat, req[p].made \in Nat, r.made >= req[p].made, NEW N,
           \A i : Known(i)' \/ KnownTo(r, i) =>
                     Known(i) \/ KnownTo(req[p], i) \/ i \in N,
           \A i \in N : Reserved(req[p], i) /\ Drawn(r, i),
           req'[p] = r /\ r.txn => \A i : Known(i)' => Known(i)
    PROVE  ApartInv'
<1>1. req \in [Slots -> Request]  BY DEF StoreInv
<1>2. \A q \in Slots \ {p} : req'[q] = req[q]  BY <1>1, GoesTo
<1>3. req'[p] = r \/ req'[p] = Blank  BY <1>1, GoesTo
<1>4. \A i : ~KnownTo(Blank, i)  BY BlankSlot DEF KnownTo
<1>5. ASSUME NEW i, Known(i)' \/ (\E q \in Slots : KnownTo(req'[q], i))
      PROVE  Known(i) \/ (\E q \in Slots : KnownTo(req[q], i)) \/ i \in N
  BY <1>2, <1>3, <1>4, <1>5
<1>6. req[p].no \in 1 .. Stride - 1 /\ Apart(req[p])  BY DEF NumberInv, ApartInv
<1>7. ASSUME NEW s, Apart(s), \A i \in N : ~Reserved(s, i)
      PROVE  Apart(s)'
  BY <1>5, <1>7 DEF Apart, Reserved
<1>8. ASSUME NEW s \in todo PROVE Apart(s)'
  <2>1. s.no \in 1 .. Stride - 1 /\ s.no # req[p].no  BY DEF NumberInv, Sendable
  <2>2. \A i \in N : ~Reserved(s, i)  BY <2>1, <1>6, NotDrawn
  <2> QED  BY <2>2, <1>7 DEF ApartInv
<1>9. ASSUME NEW q \in Slots, Active(q)' PROVE Apart(req[q])'
  <2>1. CASE q # p
    <3>1. Active(q) /\ req'[q] = req[q]  BY <1>2, <1>9, <2>1 DEF Active
    <3>2. req[q].no \in 1 .. Stride - 1 /\ req[q].no # req[p].no  BY <3>1, <2>1 DEF NumberInv
    <3>3. \A i \in N : ~Reserved(req[q], i)  BY <3>2, <1>6, NotDrawn
    <3>4. PICK s : s = req[q]  OBVIOUS
    <3>5. Apart(s)'  BY <3>1, <3>3, <3>4, <1>7 DEF ApartInv
    <3> QED  BY <3>1, <3>4, <3>5 DEF Apart
  <2>2. CASE q = p
    <3>1. req'[p] = r  BY <1>3, <1>9, <2>2, BlankSlot DEF Active
    <3>2. \A i : Reserved(r, i) => Reserved(req[p], i)  BY DEF Reserved
    <3>3. \A i : Reserved(r, i) => ~Drawn(r, i)
      BY <1>6, IdUnique DEF Reserved, Drawn
    <3>4. Apart(r)  BY <3>2, <1>6 DEF Apart
    <3>5. \A i \in N : ~Reserved(r, i)  BY <3>3
    <3>6. Apart(r)'  BY <3>4, <3>5, <1>7
    <3> QED  BY <2>2, <3>1, <3>6 DEF Apart
  <2> QED  BY <2>1, <2>2
<1>10. ASSUME NEW q \in Slots, req'[q].txn, NEW i, Drawn(req'[q], i)
       PROVE  ~Known(i)' /\ \A q2 \in Slots \ {q} : ~KnownTo(req'[q2], i)
  <2>1. CASE q # p
    <3>1. req'[q] = req[q]  BY <1>2, <2>1
    <3>2. ~Known(i) /\ \A q2 \in Slots \ {q} : ~KnownTo(req[q2], i)
      BY <3>1, <1>10 DEF ApartInv, Private
    <3>3. Active(q)  BY <1>10, <3>1, TxnActive
    <3>4. req[q].no \in 1 .. Stride - 1 /\ req[q].no # req[p].no
      BY <3>3, <2>1 DEF NumberInv
    <3>5. i \notin N  BY <1>6, <1>10, <3>1, <3>4, NotDrawn
    <3>6. ~Known(i)' /\ ~KnownTo(r, i)  BY <3>2, <3>5, <2>1
    <3> QED  BY <3>2, <3>6, <1>2, <1>3, <1>4
  <2>2. CASE q = p
    <3>1. req'[p] = r  BY <1>3, <1>10, <2>2, BlankSlot
    <3>2. Known(i)' => Known(i)  BY <1>10, <2>2, <3>1
    <3>3. Drawn(req[p], i) \/ Reserved(req[p], i)  BY <1>10, <2>2, <3>1 DEF Drawn, Reserved
    <3>4. ~Known(i) /\ \A q2 \in Slots \ {p} : ~KnownTo(req[q2], i)
      BY <3>3, <1>6, <1>10, <2>2, <3>1 DEF ApartInv, Private, Apart
    <3> QED  BY <3>2, <3>4, <2>2, <1>2
  <2> QED  BY <2>1, <2>2
<1> QED  BY <1>8, <1>9, <1>10 DEF ApartInv, Private

\* A step that leaves the tables alone tells nobody of an id that is not drawn.
LEMMA QuietApart ==
    ASSUME StoreInv, NumberInv, ApartInv, ProgramInv, NEW p \in Slots, NEW r,
           Quiet(p, r), Reading(p, r)
    PROVE  ApartInv'
<1>1. Goes(p, r) /\ Active(p) /\ todo' = todo /\ db' = db /\ Kin(r, req[p])  BY DEF Quiet
<1>2. req[p].made \in Nat  BY DEF StoreInv, Request
<1>3. ASSUME NEW i, KnownTo(r, i) PROVE Known(i) \/ KnownTo(req[p], i)
  <2>1. CASE i \in ReqRefs(r)
    <3>1. i \in ReqRefs(req[p]) \/ i \in Ids(Vis(req[p]))  BY <2>1 DEF Reading
    <3>2. i \in Ids(Vis(req[p])) => \E x \in Vis(req[p]) : i \in Refs(x)
      BY DEF Ids, Refs
    <3> QED  BY <3>1, <3>2, VisPlaces DEF Known, KnownTo
  <2>2. CASE \E x \in Held(r) : i \in Refs(x)
    <3>1. Held(r) \subseteq db \cup Held(req[p])
      BY <1>1, VisPlaces DEF Held, Kin, Reading
    <3> QED  BY <2>2, <3>1 DEF Known, KnownTo
  <2> QED  BY <1>3, <2>1, <2>2 DEF KnownTo
<1>4. ASSUME NEW i, Known(i)' PROVE Known(i) \/ KnownTo(req[p], i)
  <2>1. CASE i \in redis'.session  BY <2>1 DEF Reading, Known, KnownTo
  <2>2. CASE \E x \in db \cup CachedAll' : i \in Refs(x)
    <3>1. CachedAll' \subseteq CachedAll \cup Held(req[p])  BY DEF Reading, Held
    <3> QED  BY <2>2, <3>1 DEF Known, KnownTo
  <2> QED  BY <1>1, <1>4, <2>1, <2>2 DEF Known
<1>5. ASSUME req'[p] = r, r.txn, NEW i, Known(i)' PROVE Known(i)
  <2>1. CachedAll' \subseteq CachedAll /\ redis'.session \subseteq redis.session
    BY <1>1, <1>5 DEF Reading, Kin
  <2> QED  BY <1>1, <1>5, <2>1 DEF Known
<1> DEFINE N == {}
<1>6. \A i \in N : Reserved(req[p], i) /\ Drawn(r, i)  OBVIOUS
<1>7. \A i : Known(i)' \/ KnownTo(r, i) => Known(i) \/ KnownTo(req[p], i) \/ i \in N
  BY <1>3, <1>4
<1>8. r.made >= req[p].made /\ r.made \in Nat  BY <1>1, <1>2 DEF Kin
<1>9. r.no = req[p].no /\ r.op = req[p].op /\ (r.txn <=> req[p].txn)  BY <1>1 DEF Kin
<1>10. req'[p] = r /\ r.txn => \A i : Known(i)' => Known(i)  BY <1>5
<1> HIDE DEF N
<1> QED  BY <1>1, <1>2, <1>6, <1>7, <1>8, <1>9, <1>10, ApartStep

\* The rows anybody has, after a step of p.
LEMMA CompatStep ==
    ASSUME StoreInv, CompatInv, NEW p \in Slots, NEW r, Goes(p, r), NEW N,
           db' \cup CachedAll' \cup Held(r) \subseteq db \cup CachedAll \cup Held(req[p]) \cup N,
           \A x \in N, y \in Everywhere \cup N : Compat(x, y) /\ Compat(y, x)
    PROVE  CompatInv' /\ Everywhere' \subseteq Everywhere \cup N
<1>1. req \in [Slots -> Request]  BY DEF StoreInv
<1>2. \A q \in Slots : \/ Held(req'[q]) \subseteq Held(req[q])
                       \/ q = p /\ req'[q] = r
  BY <1>1, GoesTo, BlankSlot
<1>3. Everywhere' \subseteq Everywhere \cup N
  <2> SUFFICES ASSUME NEW x \in Everywhere' PROVE x \in Everywhere \cup N  OBVIOUS
  <2>1. CASE x \in db' \cup CachedAll'  BY <2>1 DEF Everywhere
  <2>2. CASE \E q \in Slots : x \in Held(req'[q])
    <3>1. PICK q \in Slots : x \in Held(req'[q])  BY <2>2
    <3>2. CASE Held(req'[q]) \subseteq Held(req[q])  BY <3>1, <3>2 DEF Everywhere
    <3>3. CASE q = p /\ req'[q] = r  BY <3>1, <3>3 DEF Everywhere
    <3> QED  BY <1>2, <3>2, <3>3
  <2> QED  BY <2>1, <2>2 DEF Everywhere
<1>4. \A x, y \in Everywhere \cup N : Compat(x, y)  BY DEF CompatInv
<1> QED  BY <1>3, <1>4 DEF CompatInv

\* It brings no new row into the world either.
LEMMA QuietCompat ==
    ASSUME StoreInv, CompatInv, NEW p \in Slots, NEW r, Quiet(p, r), Reading(p, r)
    PROVE  CompatInv' /\ Everywhere' \subseteq Everywhere
<1> DEFINE N == {}
<1>1. Goes(p, r) /\ db' = db /\ Kin(r, req[p])  BY DEF Quiet
<1>2. Held(r) \subseteq db \cup Held(req[p])  BY <1>1, VisPlaces DEF Held, Kin, Reading
<1>3. CachedAll' \subseteq CachedAll \cup Held(req[p])  BY DEF Reading, Held
<1>4. db' \cup CachedAll' \cup Held(r) \subseteq db \cup CachedAll \cup Held(req[p]) \cup N
  BY <1>1, <1>2, <1>3
<1>5. \A x \in N, y \in Everywhere \cup N : Compat(x, y) /\ Compat(y, x)  OBVIOUS
<1>6. CompatInv' /\ Everywhere' \subseteq Everywhere \cup N
  <2> HIDE DEF N
  <2> QED  BY <1>1, <1>4, <1>5, CompatStep
<1> QED  BY <1>6

\* So the default groups are those of before.
LEMMA QuietDefault ==
    ASSUME StoreInv, CompatInv, DefaultInv, NEW p \in Slots, NEW r, Quiet(p, r),
           Reading(p, r),
           req'[p] = Blank \/ (req[p].op = "delete_user" => "drop_groups" \in Left(req[p])),
           \A c \in redis'.groups : c \in redis.groups
                                   \/ \A x \in c.rows : x.t = "groups" /\ x.user = c.user
    PROVE  DefaultInv'
<1>1. req \in [Slots -> Request]  BY DEF StoreInv
<1>2. db' = db /\ Goes(p, r) /\ Kin(r, req[p])  BY DEF Quiet
<1>3. Everywhere' \subseteq Everywhere  BY QuietCompat
<1>4. ASSUME NEW u \in db, u.t = "users" PROVE \E g \in db : TheDefault(g, u.id)'
  <2>1. PICK g \in db : TheDefault(g, u.id)  BY <1>4 DEF DefaultInv
  <2> QED  BY <2>1, <1>2, <1>3 DEF TheDefault
<1>5. ASSUME NEW q \in Slots PROVE Leaving(req[q])'
  <2>1. Leaving(req[q])  BY DEF DefaultInv
  <2>2. CASE q # p
    <3>1. req'[q] = req[q]  BY <1>1, <1>2, <2>2, GoesTo
    <3> QED  BY <2>1, <3>1, <1>2 DEF Leaving, Vis
  <2>3. CASE q = p /\ req'[q] = Blank  BY <2>3, BlankSlot DEF Leaving
  <2>4. CASE q = p /\ req'[q] = r /\ req'[q] # Blank
    <3>1. Removed(r) = Removed(req[p])  BY <1>2 DEF Removed, Kin
    <3>2. \A g \in db : g.t = "groups" /\ g.default => g.id \notin Removed(req[p])
      BY <2>1, <2>4 DEF Leaving
    <3> QED  BY <2>4, <3>1, <3>2, <1>2 DEF Leaving
  <2> QED  BY <1>1, <1>2, <2>2, <2>3, <2>4, GoesTo
<1>6. \A c \in redis'.groups : \A x \in c.rows : x.t = "groups" /\ x.user = c.user
  BY DEF DefaultInv
<1> QED  BY <1>2, <1>4, <1>5, <1>6 DEF DefaultInv

\* Each handler follows its program when the one that moves does.
LEMMA ProgramStep ==
    ASSUME StoreInv, ProgramInv, NEW p \in Slots, NEW r, Goes(p, r), Program(r), Shape(r)
    PROVE  ProgramInv'
<1>1. req \in [Slots -> Request]  BY DEF StoreInv
<1> QED  BY <1>1, GoesTo, BlankSlot DEF ProgramInv

\* What redis says of a row does not change.
SameRecords == /\ UNCHANGED bare
               /\ redis'.node = redis.node /\ redis'.gate = redis.gate
               /\ redis'.snap = redis.snap
Telling == {"set_addr", "set_gate", "set_snap"}

\* The records in redis stay those of the nodes when redis and the rows stay.
LEMMA QuietOwned ==
    ASSUME StoreInv, OwnedInv, NEW p \in Slots, NEW r, Quiet(p, r), SameRecords,
           Left(req[p]) \cap Telling \subseteq Left(r)
    PROVE  OwnedInv'
<1>1. req \in [Slots -> Request]  BY DEF StoreInv
<1>2. db' = db /\ Goes(p, r) /\ Kin(r, req[p])  BY DEF Quiet
<1>3. RecordOwned'  BY <1>2 DEF OwnedInv, RecordOwned, SameRecords
<1>4. ASSUME NEW q \in Slots, NEW x \in req'[q].add PROVE Told(req[q], x)'
  <2>1. req'[q] = req[q] \/ (q = p /\ req'[q] = r)
    BY <1>1, <1>2, <1>4, GoesTo, BlankSlot
  <2>2. x \in req[q].add  BY <1>4, <2>1, <1>2 DEF Kin
  <2>3. Told(req[q], x)  BY <2>2 DEF OwnedInv
  <2>4. Left(req[q]) \cap Telling \subseteq Left(req'[q])  BY <2>1
  <2> QED  BY <2>3, <2>4 DEF Told, RecordOf, SameRecords, Telling
<1> QED  BY <1>3, <1>4 DEF OwnedInv

-----------------------------------------------------------------------------
(* Rows *)

\* What an UPDATE keeps says which row it is.
LEMMA FixedKeeps ==
    ASSUME NEW x \in Row
    PROVE  /\ Fixed(x).t = x.t /\ Fixed(x).id = x.id
           /\ x.t \in Typed \cup {"authority"} => Fixed(x).device = x.device
           /\ x.t = "devices" => /\ Fixed(x).kind = x.kind /\ Fixed(x).eui = x.eui
                                 /\ Fixed(x).user = x.user
           /\ x.t \notin {"nodes", "devices", "links"} => Fixed(x) = x
<1>1. CASE x \in NodeRows  BY <1>1 DEF NodeRows, Fixed, Typed
<1>2. CASE x \in DeviceRows  BY <1>2 DEF DeviceRows, Fixed, Typed
<1>3. CASE x \in LinkRows  BY <1>3 DEF LinkRows, Fixed, Typed
<1>4. CASE x.t \notin {"nodes", "devices", "links"}  BY <1>4 DEF Fixed
<1>5. x.t \in {"nodes", "devices", "links"} => x \in NodeRows \cup DeviceRows \cup LinkRows
  BY DEF Row, NodeRows, DeviceRows, LinkRows, UserRows, TokenRows, GroupRows,
         IntegrationRows, GateRows, MqttRows, SnapRows, AuthorityRows, ScriptRows
<1> QED  BY <1>1, <1>2, <1>3, <1>4, <1>5

\* Two versions of a row agree in the columns no UPDATE changes.
LEMMA FixedSame ==
    ASSUME NEW x \in Row, NEW v \in Row, Fixed(x) = Fixed(v)
    PROVE  /\ x.t = v.t /\ x.id = v.id
           /\ x.t \in Typed \cup {"authority"} => x.device = v.device
           /\ x.t = "devices" => x.kind = v.kind /\ x.eui = v.eui /\ x.user = v.user
           /\ x.t \notin {"nodes", "devices", "links"} => x = v
BY FixedKeeps

\* The columns that hold ids, by the table of the row.
LEMMA RowIds ==
    ASSUME NEW x \in Row
    PROVE  /\ x.id \in Nat
           /\ x.t = "groups" => x.user \in Nat
           /\ x.t \in Typed \cup {"authority"} => x.device \in Nat
           /\ Refs(x) \subseteq Nat
           /\ x.t = "users" => x \in UserRows
           /\ x.t = "groups" => x \in GroupRows
           /\ x.t = "devices" => x \in DeviceRows
           /\ x.t = "nodes" => x \in NodeRows
           /\ x.t = "gates" => x \in GateRows
           /\ x.t = "links" => x \in LinkRows
           /\ x.t = "scripts" => x \in ScriptRows
           /\ x.t = "snaps" => x \in SnapRows
           /\ x.t = "authority" => x \in AuthorityRows
           /\ x.t = "integration" => x \in IntegrationRows
BY DEF Row, NodeRows, DeviceRows, LinkRows, UserRows, TokenRows, GroupRows, Refs, Typed,
       IntegrationRows, GateRows, MqttRows, SnapRows, AuthorityRows, ScriptRows

\* The rows of a database are where all rows are.
LEMMA Places ==
    ASSUME StoreInv
    PROVE  /\ Everywhere \subseteq Row
           /\ db \subseteq Everywhere /\ CachedAll \subseteq Everywhere
           /\ \A p \in Slots : /\ Held(req[p]) \subseteq Everywhere
                               /\ Vis(req[p]) \subseteq Everywhere
<1>1. db \subseteq Row  BY DEF StoreInv
<1>2. CachedAll \subseteq Row
  <2>1. redis.groups \subseteq [user : Nat, rows : SUBSET Row]  BY DEF StoreInv, Stored
  <2> QED  BY <2>1 DEF CachedAll
<1>3. \A p \in Slots : Held(req[p]) \subseteq Row  BY DEF StoreInv, Request, Held
<1> QED  BY <1>1, <1>2, <1>3, VisPlaces DEF Everywhere

\* Rows with one id agree on what an UPDATE keeps.
LEMMA SameId ==
    ASSUME StoreInv, CompatInv, NEW x \in Everywhere, NEW v \in Everywhere, x.id = v.id
    PROVE  /\ Fixed(x) = Fixed(v) /\ x.t = v.t
           /\ x.t \in Typed \cup {"authority"} => x.device = v.device
           /\ x.t = "devices" => x.kind = v.kind /\ x.eui = v.eui /\ x.user = v.user
           /\ x.t \notin {"nodes", "devices", "links"} => x = v
BY Places, FixedSame DEF CompatInv, Compat

\* An updated row fits wherever the old version did.
LEMMA UpdatedCompat ==
    ASSUME NEW x \in Row, NEW v \in Row, NEW y \in Row, Fixed(x) = Fixed(v),
           Compat(v, y), Compat(y, v)
    PROVE  Compat(x, y) /\ Compat(y, x)
BY FixedSame DEF Compat, Typed

\* An UPDATE tells of no new id.
LEMMA UpdatedRefs ==
    ASSUME NEW x \in Row, NEW v \in Row, Fixed(x) = Fixed(v)
    PROVE  Refs(x) = Refs(v)
BY FixedSame DEF Refs, Typed

-----------------------------------------------------------------------------
(* Statements *)

\* The ids a statement takes are unheard of.
LEMMA NewIds ==
    ASSUME StoreInv, NumberInv, ApartInv, NEW p \in Slots, Active(p),
           NEW r, r.no = req[p].no, r.made = req[p].made + 2,
           NEW i \in {NewId(p), SecondId(p)}
    PROVE  /\ i \in Nat /\ i # None
           /\ Reserved(req[p], i) /\ Drawn(r, i) /\ ~Known(i)
           /\ \A x \in Everywhere : i \notin Refs(x)
           /\ \A q \in Slots : i \notin ReqRefs(req[q])
           /\ NewId(p) # SecondId(p)
<1>1. req[p].no \in 1 .. Stride - 1 /\ req[p].made \in Nat
  BY DEF NumberInv, StoreInv, Request
<1> DEFINE n == req[p].no  m == req[p].made
<1>2. n + Stride * (m + 1) \in Nat /\ n + Stride * (m + 2) \in Nat
      /\ n + Stride * (m + 1) # None /\ n + Stride * (m + 2) # None
  BY <1>1, IdAbove, ApiAssumption DEF None
<1>3. n + Stride * (m + 1) # n + Stride * (m + 2)
  <2>1. m + 1 \in Nat /\ m + 2 \in Nat /\ m + 1 # m + 2  BY <1>1
  <2> HIDE DEF n, m
  <2> QED  BY <2>1, <1>1, IdUnique DEF n
<1>4. i \in Nat /\ i # None /\ NewId(p) # SecondId(p)  BY <1>2, <1>3 DEF NewId, SecondId
<1>5. PICK k \in {m + 1, m + 2} : i = n + Stride * k  BY DEF NewId, SecondId
<1>6. k \in Nat /\ k > m /\ 1 <= k /\ k <= m + 2  BY <1>1, <1>5
<1>7. Reserved(req[p], i)  BY <1>5, <1>6 DEF Reserved
<1>8. Drawn(r, i)  BY <1>5, <1>6 DEF Drawn
<1>9. ~Known(i) /\ \A q \in Slots : ~KnownTo(req[q], i)  BY <1>7 DEF ApartInv, Apart
<1>10. \A x \in Everywhere : i \notin Refs(x)  BY <1>9 DEF Known, KnownTo, Everywhere
<1>11. \A q \in Slots : i \notin ReqRefs(req[q])  BY <1>9 DEF KnownTo
<1> QED  BY <1>4, <1>7, <1>8, <1>9, <1>10, <1>11

\* The rows a statement of p writes: rows p sees, changed, or new ones.
Changed(p, old, x) == x.id \in old /\ \E v \in Vis(req[p]) : Fixed(x) = Fixed(v)
Created(p, x) == /\ x.id \in {NewId(p), SecondId(p)}
                 /\ Refs(x) \subseteq {NewId(p), SecondId(p)} \cup ReqRefs(req[p])
Writable(p, new, old) ==
    /\ new \subseteq Row /\ IsFiniteSet(new) /\ UniqueIds(new) /\ UniqueKeys(new)
    /\ \A x \in new : Changed(p, old, x) \/ Created(p, x)

\* No other transaction is in the way, and no unique index refuses the rows.
Granted(p, new, old) ==
    /\ \A q \in Slots \ {p} :
          /\ old \cap req[q].del = {}
          /\ \A x \in new, y \in req[q].add : ~Shared(x, y)
          /\ \A x \in new, y \in db : y.id \in req[q].del => ~Shared(x, y)
    /\ \A x \in new, y \in Vis(req[p]) : y.id \notin old => ~Shared(x, y)

\* What a statement adds to what a request holds.
Trims == redis' = redis \/ \E u : redis' = Uncached(u)
Counted(p, r) == /\ Active(p) /\ Goes(p, r) /\ UNCHANGED todo /\ Trims
                 /\ ReqRefs(r) \subseteq {NewId(p), SecondId(p)} \cup ReqRefs(req[p])
                 /\ r.no = req[p].no /\ r.op = req[p].op /\ (r.txn <=> req[p].txn)
                 /\ r.made = req[p].made + 2 /\ r.seen = req[p].seen

\* A statement in a transaction, and one of its own.
Writes(p, r, new, old) ==
    /\ Counted(p, r) /\ req[p].txn /\ UNCHANGED db
    /\ r.add = {x \in req[p].add : x.id \notin old} \cup new
    /\ r.del = req[p].del \cup (old \cap Ids(db))
Publishes(p, r, new, old) ==
    /\ Counted(p, r) /\ ~req[p].txn
    /\ r.add = req[p].add /\ r.del = req[p].del
    /\ db' = {x \in db : x.id \notin old} \cup new

\* A statement in a transaction keeps ids unique: it takes the rows it replaces.
LEMMA WritesIds ==
    ASSUME StoreInv, NumberInv, ApartInv, IdInv, NEW p \in Slots, NEW r, NEW new, NEW old,
           Writes(p, r, new, old), Writable(p, new, old), Granted(p, new, old)
    PROVE  IdInv'
<1>1. req \in [Slots -> Request]  BY DEF StoreInv
<1>2. db' = db /\ Goes(p, r) /\ Active(p)  BY DEF Writes, Counted
<1>3. \A q \in Slots \ {p} : req'[q] = req[q]  BY <1>1, <1>2, GoesTo
<1>4. req'[p] = r \/ req'[p] = Blank  BY <1>1, <1>2, GoesTo
<1>5. UniqueIds(db)'  BY <1>2 DEF IdInv, UniqueIds
<1>6. r.no = req[p].no /\ r.made = req[p].made + 2 /\ req[p].made \in Nat
  BY DEF Writes, Counted, StoreInv, Request
<1>7. Locked(req[p])  BY DEF IdInv
<1>8. \A i : Drawn(req[p], i) => Drawn(r, i)  BY <1>6 DEF Drawn
<1>9. \A x \in Vis(req[p]) : \/ x.id \in Ids(db) /\ x.id \notin req[p].del
                             \/ x \in req[p].add
  BY DEF Vis, Ids
<1>10. ASSUME NEW x \in new
       PROVE  x.id \in r.del \/ (x.id \notin Ids(db) /\ Drawn(r, x.id))
  <2>1. CASE Changed(p, old, x)
    <3>1. PICK v \in Vis(req[p]) : Fixed(x) = Fixed(v)  BY <2>1 DEF Changed
    <3>2. x.id = v.id
      <4>1. x \in Row  BY DEF Writable
      <4>2. v \in Row  BY Places
      <4> QED  BY <3>1, <4>1, <4>2, FixedSame
    <3>3. x.id \in old  BY <2>1 DEF Changed
    <3>4. CASE v.id \in Ids(db)  BY <3>2, <3>3, <3>4 DEF Writes
    <3>5. CASE v \in req[p].add
      BY <3>2, <3>5, <1>7, <1>8 DEF Writes, Locked
    <3> QED  BY <3>4, <3>5, <1>9
  <2>2. CASE Created(p, x)
    <3>1. Drawn(r, x.id) /\ \A y \in Everywhere : x.id \notin Refs(y)
      BY <1>2, <1>6, <2>2, NewIds DEF Created
    <3>2. x.id \notin Ids(db)  BY <3>1, Places DEF Ids, Refs
    <3> QED  BY <3>1, <3>2
  <2> QED  BY <2>1, <2>2 DEF Writable
<1>11. UniqueIds(r.add)
  <2> SUFFICES ASSUME NEW x \in r.add, NEW y \in r.add, x.id = y.id PROVE x = y
    BY DEF UniqueIds
  <2>1. \A z \in r.add : (z \in req[p].add /\ z.id \notin old) \/ z \in new
    BY DEF Writes
  <2>2. UniqueIds(req[p].add) /\ UniqueIds(new)  BY <1>7 DEF Locked, Writable
  <2>3. ASSUME NEW a \in req[p].add, a.id \notin old, NEW b \in new PROVE a.id # b.id
    <3>1. CASE Changed(p, old, b)  BY <2>3, <3>1 DEF Changed
    <3>2. CASE Created(p, b)
      <4>1. \A z \in Everywhere : b.id \notin Refs(z)
        BY <1>2, <1>6, <3>2, NewIds DEF Created
      <4>2. a \in Everywhere  BY Places DEF Held
      <4> QED  BY <4>1, <4>2 DEF Refs
    <3> QED  BY <3>1, <3>2 DEF Writable
  <2> QED  BY <2>1, <2>2, <2>3 DEF UniqueIds
<1>12. Locked(r)'
  <2>1. r.del \subseteq Ids(db)  BY <1>7 DEF Writes, Locked
  <2>2. \A x \in r.add : x.id \in r.del \/ (x.id \notin Ids(db) /\ Drawn(r, x.id))
    BY <1>7, <1>8, <1>10 DEF Writes, Locked
  <2>3. r.txn  BY DEF Writes, Counted
  <2> QED  BY <2>1, <2>2, <2>3, <1>11, <1>2 DEF Locked, Ids
<1>13. Locked(Blank)'  BY BlankSlot DEF Locked, UniqueIds
<1>14. ASSUME NEW q \in Slots PROVE Locked(req[q])'
  <2>1. CASE q # p  BY <1>2, <1>3, <2>1 DEF IdInv, Locked, UniqueIds, Ids, Drawn
  <2>2. CASE q = p  BY <1>4, <1>12, <1>13, <2>2 DEF Locked, Ids
  <2> QED  BY <2>1, <2>2
<1>15. ASSUME NEW q \in Slots \ {p} PROVE req'[p].del \cap req'[q].del = {}
  <2>1. req[p].del \cap req[q].del = {}  BY DEF IdInv
  <2>2. old \cap req[q].del = {}  BY DEF Granted
  <2> QED  BY <2>1, <2>2, <1>3, <1>4, BlankSlot DEF Writes
<1>16. ASSUME NEW a \in Slots, NEW b \in Slots, a # b PROVE req'[a].del \cap req'[b].del = {}
  BY <1>3, <1>15, <1>16 DEF IdInv
<1> QED  BY <1>5, <1>14, <1>16 DEF IdInv

\* It was granted, so it shares a unique key with nobody.
LEMMA WritesKeys ==
    ASSUME StoreInv, IdInv, KeyInv, NEW p \in Slots, NEW r, NEW new, NEW old,
           Writes(p, r, new, old), Writable(p, new, old), Granted(p, new, old)
    PROVE  KeyInv'
<1>1. req \in [Slots -> Request]  BY DEF StoreInv
<1>2. db' = db /\ Goes(p, r)  BY DEF Writes, Counted
<1>3. \A q \in Slots \ {p} : req'[q] = req[q]  BY <1>1, <1>2, GoesTo
<1>4. req'[p] = r \/ req'[p] = Blank  BY <1>1, <1>2, GoesTo
<1>5. UniqueKeys(db)'  BY <1>2 DEF KeyInv, UniqueKeys
<1>6. \A x \in r.add : (x \in req[p].add /\ x.id \notin old) \/ x \in new  BY DEF Writes
<1>7. \A x, y : Shared(x, y) => Shared(y, x)  BY DEF Shared
<1>8. \A x \in new, y \in Vis(req[p]) : y.id \notin old => ~Shared(x, y)  BY DEF Granted
<1>9. UniqueKeys(r.add)
  <2>1. UniqueKeys(req[p].add) /\ UniqueKeys(new)  BY DEF KeyInv, Writable
  <2>2. \A x \in new, y \in req[p].add : y.id \notin old => ~Shared(x, y)  BY <1>8 DEF Vis
  <2> QED  BY <2>1, <2>2, <1>6, <1>7 DEF UniqueKeys
<1>10. \A x \in r.add, y \in db : Shared(x, y) => y.id \in r.del
  <2> SUFFICES ASSUME NEW x \in r.add, NEW y \in db, Shared(x, y), y.id \notin r.del
               PROVE  FALSE
    OBVIOUS
  <2>1. y.id \notin req[p].del /\ y.id \notin old  BY DEF Writes, Ids
  <2>2. y \in Vis(req[p])  BY <2>1 DEF Vis
  <2>3. x \in req[p].add  BY <1>6, <1>8, <2>1, <2>2
  <2> QED  BY <2>1, <2>3 DEF KeyInv
<1>11. ASSUME NEW q \in Slots
       PROVE  /\ UniqueKeys(req'[q].add)
              /\ \A x \in req'[q].add, y \in db' : Shared(x, y) => y.id \in req'[q].del
  <2>1. CASE q # p  BY <2>1, <1>2, <1>3 DEF KeyInv
  <2>2. CASE q = p  BY <2>2, <1>2, <1>4, <1>9, <1>10, BlankSlot DEF UniqueKeys
  <2> QED  BY <2>1, <2>2
<1>12. ASSUME NEW q \in Slots \ {p}
       PROVE  /\ \A x \in req'[p].add, y \in req'[q].add : ~Shared(x, y)
              /\ \A x \in req'[p].add, y \in db : y.id \in req'[q].del => ~Shared(x, y)
              /\ \A x \in req'[q].add, y \in db : y.id \in req'[p].del => ~Shared(x, y)
  <2>1. /\ \A x \in req[p].add, y \in req[q].add : ~Shared(x, y)
        /\ \A x \in req[p].add, y \in db : y.id \in req[q].del => ~Shared(x, y)
        /\ \A x \in req[q].add, y \in db : y.id \in req[p].del => ~Shared(x, y)
    BY DEF KeyInv
  <2>2. /\ \A x \in new, y \in req[q].add : ~Shared(x, y)
        /\ \A x \in new, y \in db : y.id \in req[q].del => ~Shared(x, y)
        /\ old \cap req[q].del = {}
    BY DEF Granted
  <2>3. \A x \in req[q].add, y \in db : y.id \in old => ~Shared(x, y)
    <3>1. \A x \in req[q].add, y \in db : Shared(x, y) => y.id \in req[q].del  BY DEF KeyInv
    <3> QED  BY <3>1, <2>2
  <2>4. CASE req'[p] = Blank  BY <2>4, BlankSlot
  <2>5. CASE req'[p] = r
    <3>1. \A x \in r.add, y \in req[q].add : ~Shared(x, y)  BY <2>1, <2>2, <1>6
    <3>2. \A x \in r.add, y \in db : y.id \in req[q].del => ~Shared(x, y)
      BY <2>1, <2>2, <1>6
    <3>3. \A x \in req[q].add, y \in db : y.id \in r.del => ~Shared(x, y)
      BY <2>1, <2>3 DEF Writes
    <3> QED  BY <2>5, <1>3, <3>1, <3>2, <3>3
  <2> QED  BY <1>4, <2>4, <2>5
<1>13. ASSUME NEW a \in Slots, NEW b \in Slots, a # b
       PROVE  /\ \A x \in req'[a].add, y \in req'[b].add : ~Shared(x, y)
              /\ \A x \in req'[a].add, y \in db' : y.id \in req'[b].del => ~Shared(x, y)
  <2>1. CASE a # p /\ b # p  BY <2>1, <1>2, <1>3, <1>13 DEF KeyInv
  <2>2. CASE a = p  BY <2>2, <1>2, <1>12, <1>13
  <2>3. CASE b = p
    <3>1. a \in Slots \ {p}  BY <2>3, <1>13
    <3> QED  BY <2>3, <3>1, <1>2, <1>7, <1>12
  <2> QED  BY <2>1, <2>2, <2>3
<1> QED  BY <1>5, <1>11, <1>13 DEF KeyInv, UniqueKeys

-----------------------------------------------------------------------------
(* Rows that are committed *)

\* The rows A replace those of the table with an id in D: what p had locked, and
\* ids nobody else has heard of.
OwnId(p, i) == (req[p].txn /\ Drawn(req[p], i)) \/ Reserved(req[p], i)
Issues(p, A, D) ==
    /\ Active(p) /\ A \subseteq Row /\ UniqueIds(A) /\ UniqueKeys(A)
    /\ db' = {x \in db : x.id \notin D} \cup A
    /\ \A x \in A : \/ x.id \in D /\ \E v \in db : v.id = x.id /\ Fixed(x) = Fixed(v)
                    \/ x.id \notin Ids(db) /\ OwnId(p, x.id)
    /\ \A x \in A, y \in db : Shared(x, y) => y.id \in D
    /\ \A q \in Slots \ {p} : /\ D \cap req[q].del = {}
                              /\ \A x \in A, y \in req[q].add : ~Shared(x, y)

\* p is done with its locks.
Unlocks(p, r) == Goes(p, r) /\ r.add = {} /\ r.del = {}

\* Nobody else knows an id that is p's own.
LEMMA OwnIds ==
    ASSUME NumberInv, ApartInv, NEW p \in Slots, Active(p), NEW i, OwnId(p, i)
    PROVE  /\ ~Known(i)
           /\ \A q \in Slots \ {p} : ~KnownTo(req[q], i)
           /\ \A q \in Slots \ {p} : Active(q) => ~Drawn(req[q], i)
<1>1. ~Known(i) /\ \A q \in Slots \ {p} : ~KnownTo(req[q], i)
  BY DEF OwnId, ApartInv, Private, Apart
<1>2. ASSUME NEW q \in Slots \ {p}, Active(q) PROVE ~Drawn(req[q], i)
  <2>1. /\ req[p].no \in 1 .. Stride - 1 /\ req[q].no \in 1 .. Stride - 1
        /\ req[p].no # req[q].no
    BY <1>2 DEF NumberInv
  <2> QED  BY <2>1, NotDrawn DEF OwnId
<1> QED  BY <1>1, <1>2

\* A row that is written again was one of the table, with the same id.
LEMMA Rewritten ==
    ASSUME StoreInv, NEW p \in Slots, NEW A, NEW D, Issues(p, A, D), NEW x \in A,
           x.id \in Ids(db)
    PROVE  \E v \in db : /\ x.id = v.id /\ x.t = v.t /\ x.id \in D
                         /\ x.t \in Typed \cup {"authority"} => x.device = v.device
                         /\ x.t = "devices" => /\ x.kind = v.kind /\ x.eui = v.eui
                                               /\ x.user = v.user
                         /\ x.t \notin {"nodes", "devices", "links"} => x = v
<1>1. PICK v \in db : x.id \in D /\ Fixed(x) = Fixed(v)  BY DEF Issues
<1>2. x \in Row /\ v \in Row  BY DEF Issues, StoreInv
<1> QED  BY <1>1, <1>2, FixedSame

\* What others have locked stays as it is.
LEMMA OthersKept ==
    ASSUME IdInv, NEW p \in Slots, NEW A, NEW D, Issues(p, A, D),
           NEW q \in Slots \ {p}, NEW x, x.id \in req[q].del
    PROVE  x \in db' <=> x \in db
<1>1. x.id \notin D  BY DEF Issues
<1>2. x.id \in Ids(db)  BY DEF IdInv, Locked
<1>3. x \notin A  BY <1>1, <1>2 DEF Issues
<1> QED  BY <1>1, <1>3 DEF Issues

\* Rows that become visible keep ids unique, in db and in the other transactions.
LEMMA IssuesIds ==
    ASSUME StoreInv, NumberInv, ApartInv, ProgramInv, IdInv, NEW p \in Slots,
           NEW A, NEW D, Issues(p, A, D), NEW r, Unlocks(p, r)
    PROVE  IdInv'
<1>1. req \in [Slots -> Request]  BY DEF StoreInv
<1>2. \A q \in Slots \ {p} : req'[q] = req[q]  BY <1>1, GoesTo DEF Unlocks
<1>3. req'[p].add = {} /\ req'[p].del = {}  BY <1>1, GoesTo, BlankSlot DEF Unlocks
<1>4. db' = {x \in db : x.id \notin D} \cup A  BY DEF Issues
<1>5. UniqueIds(db)'
  <2>1. UniqueIds(db) /\ UniqueIds(A)  BY DEF IdInv, Issues
  <2>2. ASSUME NEW x \in db, x.id \notin D, NEW y \in A PROVE x.id # y.id
    BY <2>2 DEF Issues, Ids
  <2> QED  BY <2>1, <2>2, <1>4 DEF UniqueIds
<1>6. ASSUME NEW q \in Slots \ {p} PROVE Locked(req[q])'
  <2>1. Locked(req[q])  BY DEF IdInv
  <2>2. req[q].del \subseteq Ids(db')
    <3> SUFFICES ASSUME NEW i \in req[q].del PROVE i \in Ids(db')  OBVIOUS
    <3>1. PICK v \in db : v.id = i  BY <2>1 DEF Locked, Ids
    <3>2. v \in db'  BY <3>1, OthersKept
    <3> QED  BY <3>1, <3>2 DEF Ids
  <2>3. ASSUME NEW x \in req[q].add, x.id \notin req[q].del
        PROVE  x.id \notin Ids(db') /\ Drawn(req[q], x.id)
    <3>1. x.id \notin Ids(db) /\ Drawn(req[q], x.id)  BY <2>1, <2>3 DEF Locked
    <3>2. Active(q)
      <4>1. req[q].txn  BY <2>1, <2>3 DEF Locked
      <4> QED  BY <4>1, TxnActive
    <3>3. \A y \in A : y.id # x.id
      <4> SUFFICES ASSUME NEW y \in A, y.id = x.id PROVE FALSE  OBVIOUS
      <4>1. OwnId(p, y.id)  BY <3>1 DEF Issues, Ids
      <4>2. Active(p)  BY DEF Issues
      <4> QED  BY <4>1, <4>2, <3>1, <3>2, OwnIds
    <3> QED  BY <3>1, <3>3, <1>4 DEF Ids
  <2> QED  BY <2>1, <2>2, <2>3, <1>2 DEF Locked, UniqueIds, Ids
<1>7. Locked(req[p])'  BY <1>3 DEF Locked, UniqueIds
<1>8. ASSUME NEW q \in Slots PROVE Locked(req[q])'
  BY <1>6, <1>7
<1>9. ASSUME NEW a \in Slots, NEW b \in Slots, a # b PROVE req'[a].del \cap req'[b].del = {}
  BY <1>2, <1>3, <1>9 DEF IdInv
<1> QED  BY <1>5, <1>8, <1>9 DEF IdInv

\* They keep the unique keys.
LEMMA IssuesKeys ==
    ASSUME StoreInv, IdInv, KeyInv, NEW p \in Slots,
           NEW A, NEW D, Issues(p, A, D), NEW r, Unlocks(p, r)
    PROVE  KeyInv'
<1>1. req \in [Slots -> Request]  BY DEF StoreInv
<1>2. \A q \in Slots \ {p} : req'[q] = req[q]  BY <1>1, GoesTo DEF Unlocks
<1>3. req'[p].add = {} /\ req'[p].del = {}  BY <1>1, GoesTo, BlankSlot DEF Unlocks
<1>4. db' = {x \in db : x.id \notin D} \cup A  BY DEF Issues
<1>5. \A x, y : Shared(x, y) => Shared(y, x)  BY DEF Shared
<1>6. UniqueKeys(db)'
  <2>1. UniqueKeys(db) /\ UniqueKeys(A)  BY DEF KeyInv, Issues
  <2>2. \A x \in A, y \in db : Shared(x, y) => y.id \in D  BY DEF Issues
  <2> QED  BY <2>1, <2>2, <1>4, <1>5 DEF UniqueKeys
<1>7. ASSUME NEW q \in Slots \ {p}, NEW x \in req[q].add, NEW y \in db'
      PROVE  Shared(x, y) => y \in db
  <2>1. \A z \in A : ~Shared(z, x)  BY DEF Issues
  <2> QED  BY <2>1, <1>4, <1>5
<1>8. ASSUME NEW q \in Slots
      PROVE  /\ UniqueKeys(req'[q].add)
             /\ \A x \in req'[q].add, y \in db' : Shared(x, y) => y.id \in req'[q].del
  <2>1. CASE q = p  BY <2>1, <1>3 DEF UniqueKeys
  <2>2. CASE q # p  BY <2>2, <1>2, <1>7 DEF KeyInv
  <2> QED  BY <2>1, <2>2
<1>9. ASSUME NEW a \in Slots, NEW b \in Slots, a # b
      PROVE  /\ \A x \in req'[a].add, y \in req'[b].add : ~Shared(x, y)
             /\ \A x \in req'[a].add, y \in db' : y.id \in req'[b].del => ~Shared(x, y)
  <2>1. CASE a = p \/ b = p  BY <2>1, <1>3
  <2>2. CASE a # p /\ b # p  BY <2>2, <1>2, <1>7, <1>9 DEF KeyInv
  <2> QED  BY <2>1, <2>2
<1> QED  BY <1>6, <1>8, <1>9 DEF KeyInv, UniqueKeys

\* The families of rows: what is removed goes together, what is new comes together.
Families(A, D) ==
    /\ \A x \in db, d \in db' : /\ x.t \in Typed \cup {"authority"} /\ x.id \in D \ Ids(A)
                                /\ d.t = "devices"
                                => d.id # x.device
    /\ \A d, x \in db : /\ d.t = "devices" /\ d.id \in D \ Ids(A)
                        /\ x.t \in {"nodes", "gates"} /\ x.device = d.id
                        => x.id \in D \ Ids(A)
    /\ \A d \in A : d.t = "devices" /\ d.id \notin Ids(db) =>
          /\ \E x \in A : x.t = TypeTable(d.kind) /\ x.device = d.id
          /\ \E a \in A : a.t = "authority" /\ a.device = d.id /\ a.user = d.user
    /\ \A x \in A : x.t \in {"nodes", "gates"} /\ x.id \notin Ids(db) =>
          \E d \in A : d.t = "devices" /\ d.id = x.device /\ d.id \notin Ids(db)

\* They leave no half of a device.
LEMMA IssuesJoint ==
    ASSUME StoreInv, NumberInv, ApartInv, IdInv, CompatInv, JointInv, NEW p \in Slots,
           NEW A, NEW D, Issues(p, A, D), Families(A, D), NEW r, Unlocks(p, r)
    PROVE  JointInv'
<1>1. req \in [Slots -> Request]  BY DEF StoreInv
<1>2. \A q \in Slots \ {p} : req'[q] = req[q]  BY <1>1, GoesTo DEF Unlocks
<1>3. req'[p].add = {} /\ req'[p].del = {}  BY <1>1, GoesTo, BlankSlot DEF Unlocks
<1>4. db' = {x \in db : x.id \notin D} \cup A  BY DEF Issues
<1>5. Active(p) /\ db \subseteq Everywhere  BY Places DEF Issues
<1>6. Whole(db)  BY DEF JointInv, StoredWhole
<1>7. ASSUME NEW q \in Slots \ {p} PROVE Jointly(req[q])'
  <2>1. Jointly(req[q])  BY DEF JointInv
  <2>2. ASSUME NEW x \in db', NEW d \in Vis(req[q])', x.t \in Typed \cup {"authority"},
               x.id \in Removed(req[q]), d.t = "devices", d.id = x.device
        PROVE  FALSE
    <3>1. x \in db  BY <2>2, OthersKept DEF Removed
    <3>2. d \in req[q].add \/ (d \in db' /\ d.id \notin req[q].del)  BY <1>2, <2>2 DEF Vis
    <3>3. d \notin Vis(req[q])  BY <2>1, <2>2, <3>1 DEF Jointly
    <3>4. d \in A /\ d.id \notin req[q].del  BY <3>2, <3>3, <1>4 DEF Vis
    <3>5. CASE d.id \in Ids(db)
      <4>1. PICK v \in db : d.id = v.id /\ d.t = v.t  BY <3>4, <3>5, Rewritten
      <4>2. v \in Vis(req[q])  BY <4>1, <3>4 DEF Vis
      <4> QED  BY <4>1, <4>2, <2>1, <2>2, <3>1 DEF Jointly
    <3>6. CASE d.id \notin Ids(db)
      <4>1. OwnId(p, d.id)  BY <3>4, <3>6 DEF Issues, Ids
      <4>2. ~Known(d.id)  BY <4>1, <1>5, OwnIds
      <4>3. x.device \in Refs(x)  BY <2>2 DEF Refs
      <4> QED  BY <4>2, <4>3, <2>2, <3>1 DEF Known
    <3> QED  BY <3>5, <3>6
  <2>3. ASSUME NEW d \in db', NEW x \in db', d.t = "devices", d.id \in Removed(req[q]),
               x.t \in {"nodes", "gates"}, x.device = d.id
        PROVE  x.id \in Removed(req[q])
    <3>1. d \in db /\ d.id \in Ids(db)  BY <2>3, OthersKept DEF Removed, Ids
    <3>2. CASE x \in db  BY <2>1, <2>3, <3>1, <3>2 DEF Jointly
    <3>3. CASE x \notin db
      <4>1. x \in A  BY <3>3, <1>4
      <4>2. x.id \in Ids(db)  BY <4>1, <2>3, <3>1 DEF Families
      <4>3. PICK v \in db : /\ x.id = v.id /\ x.t = v.t /\ x.id \in D
                            /\ x.t \in Typed \cup {"authority"} => x.device = v.device
        BY <4>1, <4>2, Rewritten
      <4>4. v.id \in Removed(req[q])  BY <4>3, <2>1, <2>3, <3>1 DEF Jointly, Typed
      <4> QED  BY <4>3, <4>4 DEF Removed, Issues
    <3> QED  BY <3>2, <3>3
  <2> QED  BY <2>2, <2>3, <1>2 DEF Jointly, Removed
<1>8. Jointly(req[p])'  BY <1>3 DEF Jointly, Removed
<1>9. ASSUME NEW x \in db, x.t \in Typed \cup {"authority"}, NEW d \in db', d.t = "devices",
             d.id = x.device
      PROVE  \E y \in db' : /\ y.t = x.t /\ y.id = x.id /\ y.device = x.device
                            /\ x.t = "authority" => y = x
  <2>1. x.id \notin D \ Ids(A)  BY <1>9 DEF Families
  <2>2. CASE x.id \notin D  BY <2>2, <1>4
  <2>3. CASE x.id \in Ids(A)
    <3>1. PICK y \in A : y.id = x.id  BY <2>3 DEF Ids
    <3>2. PICK v \in db : /\ y.id = v.id /\ y.t = v.t
                          /\ y.t \in Typed \cup {"authority"} => y.device = v.device
                          /\ y.t \notin {"nodes", "devices", "links"} => y = v
      BY <3>1, Rewritten DEF Ids
    <3>3. v = x  BY <3>1, <3>2 DEF IdInv, UniqueIds
    <3> QED  BY <3>1, <3>2, <3>3, <1>4, <1>9
  <2> QED  BY <2>1, <2>2, <2>3
<1>10. ASSUME NEW d \in db, d.t = "devices", NEW e \in db', e.t = "devices", e.id = d.id,
              e.kind = d.kind, e.user = d.user
       PROVE  /\ \E x \in db' : x.t = TypeTable(e.kind) /\ x.device = e.id
              /\ \E a \in db' : a.t = "authority" /\ a.device = e.id /\ a.user = e.user
  <2>1. PICK x \in db : x.t = TypeTable(d.kind) /\ x.device = d.id
    BY <1>6, <1>10 DEF Whole, Table
  <2>2. PICK a \in db : a.t = "authority" /\ a.device = d.id /\ a.user = d.user
    BY <1>6, <1>10 DEF Whole, Table
  <2>3. TypeTable(d.kind) \in Typed
    <3>1. d \in DeviceRows  BY <1>10, RowIds DEF StoreInv
    <3> QED  BY <3>1 DEF DeviceRows, TypeTable, Typed
  <2> QED  BY <1>9, <1>10, <2>1, <2>2, <2>3
<1>11. ASSUME NEW d \in db', d.t = "devices"
       PROVE  /\ \E x \in db' : x.t = TypeTable(d.kind) /\ x.device = d.id
              /\ \E a \in db' : a.t = "authority" /\ a.device = d.id /\ a.user = d.user
  <2>1. CASE d \in db  BY <2>1, <1>10, <1>11
  <2>2. CASE d \in A /\ d.id \in Ids(db)
    <3>1. PICK v \in db : /\ d.id = v.id /\ d.t = v.t
                          /\ d.t = "devices" => d.kind = v.kind /\ d.user = v.user
      BY <2>2, Rewritten
    <3> QED  BY <3>1, <1>10, <1>11
  <2>3. CASE d \in A /\ d.id \notin Ids(db)
    BY <2>3, <1>4, <1>11 DEF Families
  <2> QED  BY <2>1, <2>2, <2>3, <1>4
<1>12. ASSUME NEW x \in db, x.t \in {"nodes", "gates"}, x.id \notin D \ Ids(A)
       PROVE  \E d \in db' : d.t = "devices" /\ d.id = x.device
  <2>1. PICK d \in db : d.t = "devices" /\ d.id = x.device
    BY <1>6, <1>12 DEF Whole, Table
  <2>2. d.id \notin D \ Ids(A)  BY <1>12, <2>1 DEF Families
  <2>3. CASE d.id \notin D  BY <2>1, <2>3, <1>4
  <2>4. CASE d.id \in Ids(A)
    <3>1. PICK e \in A : e.id = d.id  BY <2>4 DEF Ids
    <3>2. PICK v \in db : e.id = v.id /\ e.t = v.t  BY <3>1, Rewritten DEF Ids
    <3>3. v = d  BY <3>1, <3>2 DEF IdInv, UniqueIds
    <3> QED  BY <2>1, <3>1, <3>2, <3>3, <1>4
  <2> QED  BY <2>2, <2>3, <2>4
<1>13. ASSUME NEW x \in db', x.t \in {"nodes", "gates"}
       PROVE  \E d \in db' : d.t = "devices" /\ d.id = x.device
  <2>1. CASE x \in db /\ x.id \notin D  BY <2>1, <1>12, <1>13
  <2>2. CASE x \in A /\ x.id \in Ids(db)
    <3>1. PICK v \in db : /\ x.id = v.id /\ x.t = v.t
                          /\ x.t \in Typed \cup {"authority"} => x.device = v.device
      BY <2>2, Rewritten
    <3>2. v.id \in Ids(A)  BY <2>2, <3>1 DEF Ids
    <3> QED  BY <3>1, <3>2, <1>12, <1>13 DEF Typed
  <2>3. CASE x \in A /\ x.id \notin Ids(db)  BY <2>3, <1>4, <1>13 DEF Families
  <2> QED  BY <2>1, <2>2, <2>3, <1>4
<1>14. StoredWhole'  BY <1>11, <1>13 DEF StoredWhole, Whole, Table
<1> QED  BY <1>7, <1>8, <1>14 DEF JointInv

-----------------------------------------------------------------------------
(* What a statement keeps *)

\* Emptying a user's cached list leaves the rest of redis as it was.
LEMMA TrimsKeep ==
    ASSUME redis \in Stored, Trims
    PROVE  /\ redis' \in Stored /\ redis'.node = redis.node /\ redis'.gate = redis.gate
           /\ redis'.snap = redis.snap /\ redis'.session = redis.session
           /\ redis'.groups \subseteq redis.groups /\ CachedAll' \subseteq CachedAll
<1>1. CASE redis' = redis  BY <1>1 DEF CachedAll
<1>2. CASE \E u : redis' = Uncached(u)
  <2>1. PICK u : redis' = [redis EXCEPT !.groups = @ \ Cached(u)]  BY <1>2 DEF Uncached
  <2>2. /\ redis'.node = redis.node /\ redis'.gate = redis.gate
        /\ redis'.snap = redis.snap /\ redis'.session = redis.session
        /\ redis'.groups = redis.groups \ Cached(u)
    BY <2>1 DEF Stored
  <2>3. redis' \in Stored  BY <2>1 DEF Stored
  <2> QED  BY <2>2, <2>3 DEF CachedAll
<1> QED  BY <1>1, <1>2 DEF Trims

\* Whatever p writes tells of ids somebody, or p, has heard of, or of its new ones.
LEMMA WritableRefs ==
    ASSUME StoreInv, NEW p \in Slots, NEW new, NEW old, Writable(p, new, old),
           NEW x \in new, NEW i \in Refs(x)
    PROVE  Known(i) \/ KnownTo(req[p], i) \/ i \in {NewId(p), SecondId(p)}
<1>1. CASE Changed(p, old, x)
  <2>1. PICK v \in Vis(req[p]) : Fixed(x) = Fixed(v)  BY <1>1 DEF Changed
  <2>2. i \in Refs(v)
    <3>1. x \in Row /\ v \in Row  BY Places DEF Writable
    <3> QED  BY <2>1, <3>1, UpdatedRefs
  <2> QED  BY <2>2, VisPlaces DEF Known, KnownTo
<1>2. CASE Created(p, x)  BY <1>2 DEF Created, KnownTo
<1> QED  BY <1>1, <1>2 DEF Writable

\* A statement leaves the ids that are still to be drawn unheard of.
LEMMA StatementApart ==
    ASSUME StoreInv, NumberInv, ApartInv, ProgramInv, NEW p \in Slots, NEW r,
           NEW new, NEW old, Writable(p, new, old), Counted(p, r),
           r.add \subseteq req[p].add \cup new, db' \subseteq db \cup new,
           req[p].txn => db' = db
    PROVE  ApartInv'
<1> DEFINE N == {NewId(p), SecondId(p)}
<1>1. /\ Goes(p, r) /\ Active(p) /\ todo' = todo /\ Trims
      /\ r.no = req[p].no /\ r.op = req[p].op /\ (r.txn <=> req[p].txn)
      /\ r.made = req[p].made + 2 /\ r.seen = req[p].seen
      /\ ReqRefs(r) \subseteq N \cup ReqRefs(req[p])
  BY DEF Counted
<1>2. req[p].made \in Nat  BY DEF StoreInv, Request
<1>3. r.made \in Nat /\ r.made >= req[p].made  BY <1>1, <1>2
<1>4. CachedAll' \subseteq CachedAll /\ redis'.session = redis.session
  BY <1>1, TrimsKeep DEF StoreInv
<1>5. \A x \in new : \A i \in Refs(x) : Known(i) \/ KnownTo(req[p], i) \/ i \in N
  BY WritableRefs
<1>6. ASSUME NEW i, Known(i)' PROVE Known(i) \/ KnownTo(req[p], i) \/ i \in N
  <2>1. CASE i \in redis'.session  BY <2>1, <1>4 DEF Known
  <2>2. CASE \E x \in db \cup CachedAll : i \in Refs(x)  BY <2>2 DEF Known
  <2>3. CASE \E x \in new : i \in Refs(x)  BY <2>3, <1>5
  <2> HIDE DEF N
  <2> QED  BY <1>4, <1>6, <2>1, <2>2, <2>3 DEF Known
<1>7. ASSUME NEW i, KnownTo(r, i) PROVE Known(i) \/ KnownTo(req[p], i) \/ i \in N
  <2>1. CASE i \in ReqRefs(r)  BY <2>1, <1>1 DEF KnownTo
  <2>2. CASE \E x \in Held(r) : i \in Refs(x)
    <3>1. Held(r) \subseteq Held(req[p]) \cup new  BY <1>1 DEF Held
    <3> HIDE DEF N
    <3> QED  BY <2>2, <3>1, <1>5 DEF KnownTo
  <2> QED  BY <1>7, <2>1, <2>2 DEF KnownTo
<1>8. \A i \in N : Reserved(req[p], i) /\ Drawn(r, i)  BY <1>1, NewIds
<1>9. req'[p] = r /\ r.txn => \A i : Known(i)' => Known(i)
  BY <1>1, <1>4 DEF Known
<1>10. \A i : Known(i)' \/ KnownTo(r, i) => Known(i) \/ KnownTo(req[p], i) \/ i \in N
  BY <1>6, <1>7
<1> HIDE DEF N
<1> QED  BY <1>1, <1>2, <1>3, <1>8, <1>9, <1>10, ApartStep

\* A new row of a device's type is the first of its table, and of the right one.
Fitting(p, new) ==
    /\ \A x \in new : x.t \in Typed /\ Created(p, x) =>
          \A y \in Everywhere :
             /\ y.t = "devices" /\ y.id = x.device => x.t = TypeTable(y.kind)
             /\ y.t = x.t => y.device # x.device
    /\ \A x, y \in new : x.t \in Typed /\ x # y => y.t \notin Typed \cup {"devices"}

\* The rows it writes fit those that were there.
LEMMA StatementCompat ==
    ASSUME StoreInv, NumberInv, ApartInv, CompatInv, NEW p \in Slots, NEW r,
           NEW new, NEW old, Writable(p, new, old), Fitting(p, new), Counted(p, r),
           r.add \subseteq req[p].add \cup new, db' \subseteq db \cup new
    PROVE  CompatInv' /\ Everywhere' \subseteq Everywhere \cup new
<1>1. /\ Goes(p, r) /\ Active(p) /\ Trims /\ r.seen = req[p].seen
      /\ r.no = req[p].no /\ r.made = req[p].made + 2
  BY DEF Counted
<1>2. CachedAll' \subseteq CachedAll  BY <1>1, TrimsKeep DEF StoreInv
<1>3. db' \cup CachedAll' \cup Held(r) \subseteq db \cup CachedAll \cup Held(req[p]) \cup new
  BY <1>1, <1>2 DEF Held
<1>4. \A x, y \in Everywhere : Compat(x, y)  BY DEF CompatInv
<1>5. \A x \in new : x \in Row  BY DEF Writable
<1>6. \A y \in Everywhere : y \in Row  BY Places
<1>7. ASSUME NEW x \in new, NEW y \in Everywhere PROVE Compat(x, y) /\ Compat(y, x)
  <2>1. CASE Changed(p, old, x)
    <3>1. PICK v \in Vis(req[p]) : Fixed(x) = Fixed(v)  BY <2>1 DEF Changed
    <3>2. v \in Everywhere  BY Places
    <3> QED  BY <3>1, <3>2, <1>4, <1>5, <1>6, UpdatedCompat
  <2>2. CASE Created(p, x)
    <3>1. x.id \notin Refs(y)  BY <1>1, <2>2, NewIds DEF Created
    <3>2. x.id # y.id  BY <3>1 DEF Refs
    <3>3. y.t \in Typed => y.device # x.id  BY <3>1 DEF Refs
    <3>4. x.t \in Typed => /\ y.t = "devices" /\ y.id = x.device => x.t = TypeTable(y.kind)
                           /\ y.t = x.t => y.device # x.device
      BY <2>2 DEF Fitting
    <3> QED  BY <3>2, <3>3, <3>4 DEF Compat
  <2> QED  BY <2>1, <2>2 DEF Writable
<1>8. ASSUME NEW x \in new, NEW y \in new PROVE Compat(x, y)
  <2>1. CASE Changed(p, old, x)
    <3>1. PICK v \in Vis(req[p]) : Fixed(x) = Fixed(v)  BY <2>1 DEF Changed
    <3>2. v \in Everywhere /\ v \in Row  BY Places
    <3>3. Compat(v, y) /\ Compat(y, v)  BY <3>2, <1>7
    <3> QED  BY <3>1, <3>2, <3>3, <1>5, UpdatedCompat
  <2>2. CASE Changed(p, old, y)
    <3>1. PICK v \in Vis(req[p]) : Fixed(y) = Fixed(v)  BY <2>2 DEF Changed
    <3>2. v \in Everywhere /\ v \in Row  BY Places
    <3>3. Compat(v, x) /\ Compat(x, v)  BY <3>2, <1>7
    <3> QED  BY <3>1, <3>2, <3>3, <1>5, UpdatedCompat
  <2>3. CASE x = y  BY <2>3 DEF Compat, Typed
  <2>4. CASE Created(p, x) /\ Created(p, y) /\ x # y
    <3>1. x.id # y.id  BY <2>4 DEF Writable, UniqueIds
    <3>2. x.t \in Typed => y.t \notin Typed \cup {"devices"}  BY <2>4 DEF Fitting
    <3> QED  BY <3>1, <3>2 DEF Compat
  <2> QED  BY <2>1, <2>2, <2>3, <2>4 DEF Writable
<1>9. \A x \in new, y \in Everywhere \cup new : Compat(x, y) /\ Compat(y, x)
  BY <1>7, <1>8
<1> QED  BY <1>1, <1>3, <1>9, CompatStep

\* Redis has been told of the rows a transaction writes, or is about to be.
LEMMA WritesOwned ==
    ASSUME StoreInv, OwnedInv, NEW p \in Slots, NEW r, NEW new, NEW old,
           Writes(p, r, new, old), UNCHANGED bare,
           Left(req[p]) \cap Telling \subseteq Left(r),
           \A x \in new : Told(r, x)
    PROVE  OwnedInv'
<1>1. req \in [Slots -> Request]  BY DEF StoreInv
<1>2. db' = db /\ Goes(p, r) /\ Trims  BY DEF Writes, Counted
<1>3. SameRecords  BY <1>2, TrimsKeep DEF SameRecords, StoreInv
<1>4. RecordOwned'  BY <1>2, <1>3 DEF OwnedInv, RecordOwned, SameRecords
<1>5. ASSUME NEW q \in Slots, NEW x \in req'[q].add PROVE Told(req[q], x)'
  <2>1. req'[q] = req[q] \/ (q = p /\ req'[q] = r)
    BY <1>1, <1>2, <1>5, GoesTo, BlankSlot
  <2>2. CASE x \in req[q].add
    <3>1. Told(req[q], x)  BY <2>2 DEF OwnedInv
    <3>2. Left(req[q]) \cap Telling \subseteq Left(req'[q])  BY <2>1
    <3> QED  BY <3>1, <3>2, <1>3 DEF Told, RecordOf, SameRecords, Telling
  <2>3. CASE x \notin req[q].add
    <3>1. req'[q] = r /\ x \in new  BY <1>5, <2>1, <2>3 DEF Writes
    <3> QED  BY <3>1, <1>3 DEF Told, RecordOf, SameRecords
  <2> QED  BY <2>2, <2>3
<1> QED  BY <1>4, <1>5 DEF OwnedInv

\* No row of a device goes.
Plain(new, old) ==
    \A x \in db : x.t \in Typed \cup {"authority", "devices"} /\ x.id \in old
                  => x.id \in Ids(new)

\* A statement that removes no row of a device keeps the devices whole.
LEMMA PlainJoint ==
    ASSUME StoreInv, NumberInv, ApartInv, IdInv, CompatInv, JointInv, NEW p \in Slots, NEW r,
           NEW new, NEW old, Writes(p, r, new, old), Writable(p, new, old), Plain(new, old)
    PROVE  Jointly(r)
<1>1. Active(p) /\ r.no = req[p].no /\ r.made = req[p].made + 2
  BY DEF Writes, Counted
<1>2. Jointly(req[p])  BY DEF JointInv
<1>3. ASSUME NEW x \in db, x.t \in Typed \cup {"authority", "devices"}, x.id \in Removed(r)
      PROVE  x.id \in Removed(req[p])
  <2>1. x.id \notin Ids(new)  BY <1>3 DEF Removed, Writes, Ids
  <2>2. x.id \notin old  BY <2>1, <1>3 DEF Plain
  <2>3. x.id \in req[p].del  BY <1>3, <2>2 DEF Removed, Writes
  <2>4. \A y \in req[p].add : y.id # x.id
    <3> SUFFICES ASSUME NEW y \in req[p].add, y.id = x.id PROVE FALSE  OBVIOUS
    <3>1. y \in r.add  BY <2>2 DEF Writes
    <3> QED  BY <3>1, <1>3 DEF Removed, Ids
  <2> QED  BY <2>3, <2>4 DEF Removed, Ids
<1>4. ASSUME NEW x \in db, x.id \in Removed(req[p]), NEW y \in new PROVE y.id # x.id
  <2> SUFFICES ASSUME y.id = x.id PROVE FALSE  OBVIOUS
  <2>1. CASE Changed(p, old, y)
    <3>1. PICK v \in Vis(req[p]) : Fixed(y) = Fixed(v)  BY <2>1 DEF Changed
    <3>2. y.id = v.id
      <4>1. y \in Row /\ v \in Row  BY Places DEF Writable
      <4> QED  BY <3>1, <4>1, FixedSame
    <3> QED  BY <3>1, <3>2, <1>4 DEF Vis, Removed, Ids
  <2>2. CASE Created(p, y)
    <3>1. \A z \in Everywhere : y.id \notin Refs(z)  BY <1>1, <2>2, NewIds DEF Created
    <3> QED  BY <3>1, Places DEF Refs
  <2> QED  BY <2>1, <2>2 DEF Writable
<1>5. ASSUME NEW x \in db, x.id \in Removed(req[p]) PROVE x.id \in Removed(r)
  BY <1>4, <1>5 DEF Removed, Writes, Ids
<1>6. ASSUME NEW d \in Vis(r), d.t = "devices", NEW x \in db,
             x.t \in Typed \cup {"authority"}, d.id = x.device
      PROVE  \E v \in Vis(req[p]) : v.t = "devices" /\ v.id = d.id
  <2>1. d \in Vis(req[p]) \/ d \in new  BY DEF Vis, Writes
  <2>2. CASE d \in Vis(req[p])  BY <2>2, <1>6
  <2>3. CASE d \in new /\ Changed(p, old, d)
    <3>1. PICK v \in Vis(req[p]) : Fixed(d) = Fixed(v)  BY <2>3 DEF Changed
    <3>2. d \in Row /\ v \in Row  BY <2>3, Places DEF Writable
    <3>3. d.id = v.id /\ d.t = v.t  BY <3>1, <3>2, FixedSame
    <3> QED  BY <3>1, <3>3, <1>6
  <2>4. CASE d \in new /\ Created(p, d)
    <3>1. \A z \in Everywhere : d.id \notin Refs(z)  BY <1>1, <2>4, NewIds DEF Created
    <3> QED  BY <3>1, <1>6, Places DEF Refs
  <2> QED  BY <2>1, <2>2, <2>3, <2>4 DEF Writable
<1>7. ASSUME NEW x \in db, NEW d \in Vis(r), x.t \in Typed \cup {"authority"},
             x.id \in Removed(r), d.t = "devices"
      PROVE  d.id # x.device
  BY <1>2, <1>3, <1>6, <1>7 DEF Jointly
<1>8. ASSUME NEW d \in db, NEW x \in db, d.t = "devices", d.id \in Removed(r),
             x.t \in {"nodes", "gates"}, x.device = d.id
      PROVE  x.id \in Removed(r)
  BY <1>2, <1>3, <1>5, <1>8 DEF Jointly
<1> QED  BY <1>7, <1>8 DEF Jointly

\* The rows of a device go together.
LEMMA WritesJoint ==
    ASSUME StoreInv, JointInv, NEW p \in Slots, NEW r, NEW new, NEW old,
           Writes(p, r, new, old), Jointly(r)
    PROVE  JointInv'
<1>1. req \in [Slots -> Request]  BY DEF StoreInv
<1>2. db' = db /\ Goes(p, r)  BY DEF Writes, Counted
<1>3. \A q \in Slots \ {p} : req'[q] = req[q]  BY <1>1, <1>2, GoesTo
<1>4. req'[p] = r \/ req'[p] = Blank  BY <1>1, <1>2, GoesTo
<1>5. StoredWhole'  BY <1>2 DEF JointInv, StoredWhole
<1>6. ASSUME NEW q \in Slots \ {p} PROVE Jointly(req[q])'
  BY <1>2, <1>3 DEF JointInv, Jointly, Vis, Removed
<1>7. Jointly(req[p])'
  <2>1. CASE req'[p] = r  BY <2>1, <1>2 DEF Jointly, Vis, Removed
  <2>2. CASE req'[p] = Blank  BY <2>2, BlankSlot DEF Jointly, Removed
  <2> QED  BY <1>4, <2>1, <2>2
<1> QED  BY <1>5, <1>6, <1>7 DEF JointInv

\* A default group is new only for users that are not committed.
Novel(new) ==
    \A x \in new : x.t = "groups" /\ x.default =>
       x \in Everywhere \/ \A u \in db : u.t = "users" => u.id # x.user

\* No other default group is seen, and none goes before its user.
LEMMA WritesDefault ==
    ASSUME StoreInv, DefaultInv, NEW p \in Slots, NEW r, NEW new, NEW old,
           Writes(p, r, new, old), Everywhere' \subseteq Everywhere \cup new,
           Novel(new), Leaving(r)
    PROVE  DefaultInv'
<1>1. req \in [Slots -> Request]  BY DEF StoreInv
<1>2. db' = db /\ Goes(p, r) /\ Trims  BY DEF Writes, Counted
<1>3. ASSUME NEW u \in db, u.t = "users" PROVE \E g \in db : TheDefault(g, u.id)'
  <2>1. PICK g \in db : TheDefault(g, u.id)  BY <1>3 DEF DefaultInv
  <2>2. ASSUME NEW x \in Everywhere', IsDefault(x, u.id) PROVE x = g
    <3>1. CASE x \in Everywhere  BY <3>1, <2>1, <2>2 DEF TheDefault
    <3>2. CASE x \in new  BY <3>1, <3>2, <1>3, <2>2 DEF Novel, IsDefault
    <3> QED  BY <3>1, <3>2
  <2> QED  BY <2>1, <2>2, <1>2 DEF TheDefault
<1>4. ASSUME NEW q \in Slots PROVE Leaving(req[q])'
  <2>1. CASE q # p
    <3>1. req'[q] = req[q]  BY <1>1, <1>2, <2>1, GoesTo
    <3> QED  BY <3>1, <1>2 DEF Leaving, Vis, DefaultInv
  <2>2. CASE q = p /\ req'[q] = Blank  BY <2>2, BlankSlot DEF Leaving
  <2>3. CASE q = p /\ req'[q] = r  BY <2>3, <1>2 DEF Leaving, Vis
  <2> QED  BY <1>1, <1>2, <2>1, <2>2, <2>3, GoesTo
<1>5. \A c \in redis'.groups : \A x \in c.rows : x.t = "groups" /\ x.user = c.user
  BY <1>2, TrimsKeep DEF DefaultInv, StoreInv
<1> QED  BY <1>2, <1>3, <1>4, <1>5 DEF DefaultInv

\* No default group goes.
Staying(new, old) ==
    \A g \in db : g.t = "groups" /\ g.default /\ g.id \in old => g.id \in Ids(new)

\* A statement that removes no default group keeps every user's.
LEMMA PlainLeaving ==
    ASSUME DefaultInv, NEW p \in Slots, NEW r, NEW new, NEW old, Writes(p, r, new, old),
           req[p].op # "delete_user", Staying(new, old)
    PROVE  Leaving(r)
<1> SUFFICES ASSUME NEW g \in db, g.t = "groups", g.default, g.id \in Removed(r) PROVE FALSE
  BY DEF Leaving
<1>1. g.id \notin Ids(new)  BY DEF Removed, Writes, Ids
<1>2. g.id \notin old  BY <1>1 DEF Staying
<1>3. g.id \in req[p].del  BY <1>2 DEF Removed, Writes
<1>4. \A y \in req[p].add : y.id # g.id
  <2> SUFFICES ASSUME NEW y \in req[p].add, y.id = g.id PROVE FALSE  OBVIOUS
  <2>1. y \in r.add  BY <1>2 DEF Writes
  <2> QED  BY <2>1 DEF Removed, Ids
<1>5. g.id \in Removed(req[p])  BY <1>3, <1>4 DEF Removed, Ids
<1> QED  BY <1>5 DEF DefaultInv, Leaving

\* Redis holds the records of the rows that become visible.
LEMMA IssuesOwned ==
    ASSUME StoreInv, OwnedInv, NEW p \in Slots, NEW A, NEW D, Issues(p, A, D),
           NEW r, Unlocks(p, r), SameRecords, \A x \in A : Told(Blank, x)
    PROVE  OwnedInv'
<1>1. req \in [Slots -> Request]  BY DEF StoreInv
<1>2. \A q \in Slots \ {p} : req'[q] = req[q]  BY <1>1, GoesTo DEF Unlocks
<1>3. req'[p].add = {}  BY <1>1, GoesTo, BlankSlot DEF Unlocks
<1>4. db' \subseteq db \cup A  BY DEF Issues
<1>5. RecordOwned'
  <2>1. ASSUME NEW n \in db', n.t = "nodes"
        PROVE  n.dev_addr \in bare' \/ redis'.node[n.dev_addr] \in {None, Partial, n.device}
    <3>1. CASE n \in db  BY <3>1, <2>1 DEF OwnedInv, RecordOwned, Table, SameRecords
    <3>2. CASE n \in A  BY <3>2, <2>1, BlankSlot DEF Told, RecordOf, SameRecords
    <3> QED  BY <1>4, <3>1, <3>2
  <2>2. ASSUME NEW d \in db', d.t = "devices"
        PROVE  /\ d.kind = "Gateway" => redis'.gate[d.eui] \in {None, d.id}
               /\ d.kind = "Snap" => redis'.snap[d.eui] \in {None, d.id}
    <3>1. CASE d \in db  BY <3>1, <2>2 DEF OwnedInv, RecordOwned, Table, SameRecords
    <3>2. CASE d \in A  BY <3>2, <2>2, BlankSlot DEF Told, SameRecords
    <3> QED  BY <1>4, <3>1, <3>2
  <2> QED  BY <2>1, <2>2 DEF RecordOwned, Table
<1>6. ASSUME NEW q \in Slots, NEW x \in req'[q].add PROVE Told(req[q], x)'
  <2>1. req'[q] = req[q] /\ x \in req[q].add  BY <1>2, <1>3, <1>6
  <2>2. Told(req[q], x)  BY <2>1 DEF OwnedInv
  <2> QED  BY <2>1, <2>2 DEF Told, RecordOf, SameRecords
<1> QED  BY <1>5, <1>6 DEF OwnedInv

\* Default groups go with their users and come with them.
Inherits(A, D) ==
    /\ \A g \in db : g.t = "groups" /\ g.default /\ g.id \in D \ Ids(A) =>
          \A u \in db' : u.t = "users" => u.id # g.user
    /\ \A u \in A : u.t = "users" /\ u.id \notin Ids(db) =>
          \E g \in A : /\ IsDefault(g, u.id)
                       /\ \A x \in A : IsDefault(x, u.id) => x = g

\* A user that becomes visible has one default group.
LEMMA IssuesDefault ==
    ASSUME StoreInv, NumberInv, ApartInv, IdInv, CompatInv, DefaultInv, NEW p \in Slots,
           NEW A, NEW D, Issues(p, A, D), NEW r, Unlocks(p, r),
           Held(r) \subseteq db \cup A \/ (Held(r) \subseteq Held(req[p]) /\ ~req[p].txn),
           \A u \in A : u.t = "users" /\ u.id \notin Ids(db) => req[p].txn,
           Inherits(A, D), Novel(A), Trims, Everywhere' \subseteq Everywhere \cup A
    PROVE  DefaultInv'
<1>1. req \in [Slots -> Request]  BY DEF StoreInv
<1>2. \A q \in Slots \ {p} : req'[q] = req[q]  BY <1>1, GoesTo DEF Unlocks
<1>3. req'[p].add = {} /\ req'[p].del = {} /\ (req'[p] = r \/ req'[p] = Blank)
  BY <1>1, GoesTo, BlankSlot DEF Unlocks
<1>4. db' = {x \in db : x.id \notin D} \cup A  BY DEF Issues
<1>5. Active(p) /\ db \subseteq Everywhere  BY Places DEF Issues
<1>6. redis'.groups \subseteq redis.groups /\ CachedAll' \subseteq CachedAll
  BY TrimsKeep DEF StoreInv
<1>7. ASSUME NEW u \in db, u.t = "users", NEW v \in db', v.t = "users", v.id = u.id
      PROVE  \E g \in db' : TheDefault(g, v.id)'
  <2>1. PICK g \in db : TheDefault(g, u.id)  BY <1>7 DEF DefaultInv
  <2>2. g.t = "groups" /\ g.default /\ g.user = u.id  BY <2>1 DEF TheDefault, IsDefault
  <2>3. g.id \notin D \ Ids(A)  BY <1>7, <2>1, <2>2 DEF Inherits
  <2>4. g \in db'
    <3>1. CASE g.id \notin D  BY <3>1, <1>4
    <3>2. CASE g.id \in Ids(A)
      <4>1. PICK y \in A : y.id = g.id  BY <3>2 DEF Ids
      <4>2. y.id \in Ids(db)  BY <4>1 DEF Ids
      <4>3. PICK w \in db : /\ y.id = w.id /\ y.t = w.t
                            /\ y.t \notin {"nodes", "devices", "links"} => y = w
        BY <4>1, <4>2, Rewritten
      <4>4. w = g  BY <4>1, <4>3 DEF IdInv, UniqueIds
      <4> QED  BY <4>1, <4>3, <4>4, <2>2, <1>4
    <3> QED  BY <2>3, <3>1, <3>2
  <2>5. ASSUME NEW x \in Everywhere', IsDefault(x, v.id) PROVE x = g
    <3>1. CASE x \in Everywhere  BY <3>1, <2>1, <2>5, <1>7 DEF TheDefault
    <3>2. CASE x \in A  BY <3>1, <3>2, <1>7, <2>5 DEF Novel, IsDefault
    <3> QED  BY <3>1, <3>2
  <2> QED  BY <2>2, <2>4, <2>5, <1>7 DEF TheDefault, IsDefault
<1>8. ASSUME NEW u \in A, u.t = "users", u.id \notin Ids(db)
      PROVE  \E g \in db' : TheDefault(g, u.id)'
  <2>1. PICK g \in A : IsDefault(g, u.id) /\ \A x \in A : IsDefault(x, u.id) => x = g
    BY <1>8 DEF Inherits
  <2>2. OwnId(p, u.id) /\ req[p].txn  BY <1>8 DEF Issues, Ids
  <2>3. ~Known(u.id) /\ \A q \in Slots \ {p} : ~KnownTo(req[q], u.id)
    BY <2>2, <1>5, OwnIds
  <2>4. ASSUME NEW x \in Everywhere', IsDefault(x, u.id) PROVE x = g
    <3>1. u.id \in Refs(x)  BY <2>4 DEF IsDefault, Refs
    <3>2. x \notin db \cup CachedAll  BY <3>1, <2>3 DEF Known
    <3>3. \A q \in Slots \ {p} : x \notin Held(req[q])  BY <3>1, <2>3 DEF KnownTo
    <3>4. Held(req'[p]) \subseteq db \cup A  BY <1>3, <2>2, BlankSlot
    <3>5. x \in A  BY <3>2, <3>3, <3>4, <1>2, <1>4, <1>6 DEF Everywhere
    <3> QED  BY <3>5, <2>1, <2>4
  <2> QED  BY <2>1, <2>4, <1>4 DEF TheDefault, IsDefault
<1>9. ASSUME NEW u \in db', u.t = "users" PROVE \E g \in db' : TheDefault(g, u.id)'
  <2>1. CASE u \in db  BY <2>1, <1>7, <1>9
  <2>2. CASE u \in A /\ u.id \in Ids(db)
    <3>1. PICK v \in db : u.id = v.id /\ u.t = v.t  BY <2>2, Rewritten
    <3> QED  BY <3>1, <1>7, <1>9
  <2>3. CASE u \in A /\ u.id \notin Ids(db)  BY <2>3, <1>8, <1>9
  <2> QED  BY <2>1, <2>2, <2>3, <1>4
<1>10. ASSUME NEW q \in Slots \ {p} PROVE Leaving(req[q])'
  <2> SUFFICES ASSUME NEW g \in db', g.t = "groups", g.default, g.id \in Removed(req[q])
               PROVE  /\ req[q].op = "delete_user" /\ g.user = req[q].user
                      /\ "drop_groups" \notin Left(req[q])
                      /\ \/ "drop_user" \in Left(req[q])
                         \/ \A u \in Vis(req[q])' : u.t = "users" => u.id # g.user
    BY <1>2 DEF Leaving, Removed
  <2>1. g \in db  BY OthersKept DEF Removed
  <2>2. /\ req[q].op = "delete_user" /\ g.user = req[q].user
        /\ "drop_groups" \notin Left(req[q])
        /\ \/ "drop_user" \in Left(req[q])
           \/ \A u \in Vis(req[q]) : u.t = "users" => u.id # g.user
    BY <2>1 DEF DefaultInv, Leaving
  <2>3. ASSUME \A u \in Vis(req[q]) : u.t = "users" => u.id # g.user,
               NEW u \in Vis(req[q])', u.t = "users"
        PROVE  u.id # g.user
    <3>1. u \in req[q].add \/ (u \in db' /\ u.id \notin req[q].del)  BY <1>2 DEF Vis
    <3>2. CASE u \in Vis(req[q])  BY <2>3, <3>2
    <3>3. CASE u \in A /\ u.id \in Ids(db) /\ u.id \notin req[q].del
      <4>1. PICK v \in db : u.id = v.id /\ u.t = v.t  BY <3>3, Rewritten
      <4>2. v \in Vis(req[q])  BY <4>1, <3>3 DEF Vis
      <4> QED  BY <4>1, <4>2, <2>3
    <3>4. CASE u \in A /\ u.id \notin Ids(db)
      <4>1. ~Known(u.id)  BY <3>4, <1>5, OwnIds DEF Issues, Ids
      <4>2. g.user \in Refs(g)  BY DEF Refs
      <4> QED  BY <4>1, <4>2, <2>1 DEF Known
    <3> QED  BY <3>1, <3>2, <3>3, <3>4, <1>4 DEF Vis
  <2> QED  BY <2>2, <2>3
<1>11. Leaving(req[p])'  BY <1>3 DEF Leaving, Removed
<1>12. \A c \in redis'.groups : \A x \in c.rows : x.t = "groups" /\ x.user = c.user
  BY <1>6 DEF DefaultInv
<1> QED  BY <1>9, <1>10, <1>11, <1>12 DEF DefaultInv

-----------------------------------------------------------------------------
(* A statement of its own *)

\* A statement outside a transaction makes its rows visible at once.
LEMMA PublishesIssues ==
    ASSUME StoreInv, NumberInv, ApartInv, IdInv, NEW p \in Slots, NEW r, NEW new, NEW old,
           Publishes(p, r, new, old), Writable(p, new, old), Granted(p, new, old)
    PROVE  Issues(p, new, old) /\ Unlocks(p, r)
<1>1. /\ Active(p) /\ Goes(p, r) /\ ~req[p].txn /\ r.no = req[p].no
      /\ r.made = req[p].made + 2 /\ r.add = req[p].add /\ r.del = req[p].del
  BY DEF Publishes, Counted
<1>2. req[p].add = {} /\ req[p].del = {}  BY <1>1 DEF IdInv, Locked
<1>3. Vis(req[p]) = db  BY <1>2 DEF Vis
<1>4. ASSUME NEW x \in new
      PROVE  \/ x.id \in old /\ \E v \in db : v.id = x.id /\ Fixed(x) = Fixed(v)
             \/ x.id \notin Ids(db) /\ OwnId(p, x.id)
  <2>1. CASE Changed(p, old, x)
    <3>1. PICK v \in db : Fixed(x) = Fixed(v)  BY <1>3, <2>1 DEF Changed
    <3>2. x \in Row /\ v \in Row  BY DEF Writable, StoreInv
    <3>3. v.id = x.id  BY <3>1, <3>2, FixedSame
    <3> QED  BY <2>1, <3>1, <3>3 DEF Changed
  <2>2. CASE Created(p, x)
    <3>1. Reserved(req[p], x.id) /\ \A y \in Everywhere : x.id \notin Refs(y)
      BY <1>1, <2>2, NewIds DEF Created
    <3> QED  BY <3>1, Places DEF Ids, Refs, OwnId
  <2> QED  BY <2>1, <2>2 DEF Writable
<1>5. \A x \in new, y \in db : Shared(x, y) => y.id \in old  BY <1>3 DEF Granted
<1>6. \A q \in Slots \ {p} : /\ old \cap req[q].del = {}
                             /\ \A x \in new, y \in req[q].add : ~Shared(x, y)
  BY DEF Granted
<1>7. db' = {x \in db : x.id \notin old} \cup new  BY DEF Publishes
<1>8. new \subseteq Row /\ UniqueIds(new) /\ UniqueKeys(new)  BY DEF Writable
<1>9. Issues(p, new, old)  BY <1>1, <1>4, <1>5, <1>6, <1>7, <1>8 DEF Issues
<1> QED  BY <1>1, <1>2, <1>9 DEF Unlocks

\* Statements of their own write neither devices nor what belongs to them.
Loose(new, old) ==
    /\ \A x \in new : x.t \notin Typed \cup {"authority", "devices", "users"}
                      \/ (x.t = "users" /\ x \in db)
    /\ \A x \in db : x.id \in old => x.t \notin Typed \cup {"authority", "devices"}

\* A statement outside a transaction touches no row of a device.
LEMMA LooseFamilies ==
    ASSUME NEW new, NEW old, Loose(new, old)
    PROVE  Families(new, old) /\ \A r, x : x \in new => Told(r, x)
BY DEF Loose, Families, Told, Typed

\* It removes no default group and makes no user.
LEMMA LooseInherits ==
    ASSUME NEW new, NEW old, Loose(new, old), Staying(new, old)
    PROVE  Inherits(new, old)
BY DEF Loose, Inherits, Staying, Ids
-----------------------------------------------------------------------------
(* What the kinds of steps keep *)

\* A step moves its own slot only, and frees those that wait for it.
LEMMA GoGoes ==
    ASSUME StoreInv, NEW p \in Slots, NEW r \in Request, Go(p, r)
    PROVE  /\ Goes(p, r) /\ req' \in [Slots -> Request]
           /\ waits' \in [Slots -> SUBSET Slots]
           /\ \A q \in Slots : q \notin waits'[q] /\ (waits'[q] # {} => Active(q)')
<1>1. /\ waits \in [Slots -> SUBSET Slots] /\ req \in [Slots -> Request]
      /\ \A q \in Slots : q \notin waits[q] /\ (waits[q] # {} => Active(q))
  BY DEF StoreInv
<1>2. CASE r.steps = <<>>
  <2>1. req' = [req EXCEPT ![p] = Blank] /\ waits' = Freed(p)  BY <1>2 DEF Go
  <2> QED  BY <2>1, <1>1, BlankSlot DEF Goes, Becomes, Freed, Active
<1>3. CASE r.steps # <<>>
  <2>1. req' = [req EXCEPT ![p] = r] /\ waits' = [waits EXCEPT ![p] = {}]
    BY <1>3 DEF Go
  <2> QED  BY <2>1, <1>1 DEF Goes, Becomes, Active
<1> QED  BY <1>2, <1>3

\* What a step that leaves the tables and todo alone has to keep.
LEMMA QuietKeeps ==
    ASSUME Inv, NEW p \in Slots, NEW r \in Request, Active(p), Go(p, r), Kin(r, req[p]),
           db' = db, todo' = todo, redis' \in Stored, Program(r), Shape(r), Reading(p, r),
           req[p].op = "delete_user" => "drop_groups" \in Left(req[p]),
           \A c \in redis'.groups : c \in redis.groups
                                   \/ \A x \in c.rows : x.t = "groups" /\ x.user = c.user,
           OwnedInv'
    PROVE  Inv'
<1>1. /\ StoreInv /\ NumberInv /\ ApartInv /\ IdInv /\ CompatInv /\ KeyInv
      /\ ProgramInv /\ OwnedInv /\ JointInv /\ DefaultInv
  BY DEF Inv
<1>2. Goes(p, r)  BY <1>1, GoGoes
<1>3. Quiet(p, r)  BY <1>2 DEF Quiet
<1>4. StoreInv'  BY <1>1, GoGoes DEF StoreInv
<1>5. NumberInv'  BY <1>1, <1>2, NumberStep DEF Kin
<1>6. ApartInv'  BY <1>1, <1>3, QuietApart
<1>7. IdInv'  BY <1>1, <1>3, QuietIds
<1>8. CompatInv'  BY <1>1, <1>3, QuietCompat
<1>9. KeyInv'  BY <1>1, <1>3, QuietKeys
<1>10. ProgramInv'  BY <1>1, <1>2, ProgramStep
<1>11. JointInv'  BY <1>1, <1>3, QuietJoint
<1>12. DefaultInv'  BY <1>1, <1>3, QuietDefault
<1> QED  BY <1>4, <1>5, <1>6, <1>7, <1>8, <1>9, <1>10, <1>11, <1>12 DEF Inv

\* A step that reads.
LEMMA ReadKeeps ==
    ASSUME Inv, NEW p \in Slots, NEW r \in Request, Active(p), Go(p, r), Kin(r, req[p]),
           UNCHANGED <<db, redis, todo, bare>>, Program(r), Shape(r),
           r.seen \subseteq Vis(req[p]) \cup req[p].seen,
           ReqRefs(r) \subseteq ReqRefs(req[p]) \cup Ids(Vis(req[p])),
           req[p].op = "delete_user" => "drop_groups" \in Left(req[p]),
           Left(req[p]) \cap Telling \subseteq Left(r)
    PROVE  Inv'
<1>1. StoreInv /\ OwnedInv  BY DEF Inv
<1>2. Quiet(p, r)  BY <1>1, GoGoes DEF Quiet
<1>3. OwnedInv'  BY <1>1, <1>2, QuietOwned DEF SameRecords
<1>4. CachedAll' = CachedAll  BY DEF CachedAll
<1>5. Reading(p, r)  BY <1>4 DEF Reading
<1>6. redis' \in Stored  BY <1>1 DEF StoreInv
<1> QED  BY <1>3, <1>5, <1>6, QuietKeeps

\* A handler that gives up.
LEMMA FailKeeps ==
    ASSUME Inv, NEW p \in Slots, Active(p), Fail(p), UNCHANGED <<todo, bare>>
    PROVE  Inv'
<1>1. /\ StoreInv /\ NumberInv /\ ApartInv /\ IdInv /\ CompatInv /\ KeyInv
      /\ ProgramInv /\ OwnedInv /\ JointInv /\ DefaultInv
  BY DEF Inv
<1>2. /\ Becomes(p, Blank) /\ waits' = Freed(p) /\ db' = db /\ redis' = redis
      /\ todo' = todo /\ bare' = bare
  BY DEF Fail, Becomes
<1>3. PICK r : r = req[p]  OBVIOUS
<1>4. Quiet(p, r)  BY <1>2, <1>3 DEF Quiet, Goes, Kin
<1>5. CachedAll' = CachedAll  BY <1>2 DEF CachedAll
<1>6. Reading(p, r)  BY <1>2, <1>3, <1>5 DEF Reading
<1>7. req'[p] = Blank  BY <1>1, <1>2 DEF Becomes, StoreInv
<1>8. StoreInv'
  <2>1. req' \in [Slots -> Request]  BY <1>1, <1>2, BlankSlot DEF StoreInv, Becomes
  <2>2. /\ waits' \in [Slots -> SUBSET Slots]
        /\ \A q \in Slots : q \notin waits'[q] /\ (waits'[q] # {} => Active(q)')
    BY <1>1, <1>2 DEF StoreInv, Freed, Becomes, Active
  <2> QED  BY <2>1, <2>2, <1>1, <1>2 DEF StoreInv
<1>9. NumberInv'  BY <1>1, <1>2, <1>3, <1>4, NumberStep DEF Quiet
<1>10. ApartInv'  BY <1>1, <1>4, <1>6, QuietApart
<1>11. IdInv'  BY <1>1, <1>4, QuietIds
<1>12. CompatInv'  BY <1>1, <1>4, <1>6, QuietCompat
<1>13. KeyInv'  BY <1>1, <1>4, QuietKeys
<1>14. ProgramInv'
  <2>1. Goes(p, Blank)  BY <1>2 DEF Goes
  <2> QED  BY <2>1, <1>1, BlankSlot, ProgramStep
<1>15. OwnedInv'
  <2>1. SameRecords  BY <1>2 DEF SameRecords
  <2>2. Left(req[p]) \cap Telling \subseteq Left(r)  BY <1>3
  <2> QED  BY <2>1, <2>2, <1>1, <1>4, QuietOwned
<1>16. JointInv'  BY <1>1, <1>4, QuietJoint
<1>17. DefaultInv'
  <2>1. \A c \in redis'.groups : c \in redis.groups  BY <1>2
  <2> QED  BY <2>1, <1>1, <1>4, <1>6, <1>7, QuietDefault
<1> QED  BY <1>8, <1>9, <1>10, <1>11, <1>12, <1>13, <1>14, <1>15, <1>16, <1>17 DEF Inv

\* A handler that waits.
LEMMA WaitKeeps ==
    ASSUME Inv, NEW p \in Slots, Active(p), NEW by \in SUBSET (Slots \ {p}),
           waits' = [waits EXCEPT ![p] = by], UNCHANGED <<db, redis, req, todo, bare>>
    PROVE  Inv'
<1>1. /\ StoreInv /\ NumberInv /\ ApartInv /\ IdInv /\ CompatInv /\ KeyInv
      /\ ProgramInv /\ OwnedInv /\ JointInv /\ DefaultInv
  BY DEF Inv
<1>2. StoreInv'  BY <1>1 DEF StoreInv, Active
<1>3. CachedAll' = CachedAll  BY DEF CachedAll
<1>4. Everywhere' = Everywhere  BY <1>3 DEF Everywhere
<1>5. NumberInv'  BY <1>1 DEF NumberInv, Active
<1>6. ApartInv'
  BY <1>1, <1>3 DEF ApartInv, Active, Apart, Private, Known, KnownTo, Reserved, Drawn
<1>7. IdInv'  BY <1>1 DEF IdInv, Locked, UniqueIds, Ids, Drawn
<1>8. CompatInv'  BY <1>1, <1>4 DEF CompatInv
<1>9. KeyInv'  BY <1>1 DEF KeyInv, UniqueKeys
<1>10. ProgramInv'  BY <1>1 DEF ProgramInv
<1>11. OwnedInv'  BY <1>1 DEF OwnedInv, RecordOwned, Told, RecordOf
<1>12. JointInv'  BY <1>1 DEF JointInv, StoredWhole, Jointly, Vis, Removed
<1>13. DefaultInv'  BY <1>1, <1>4 DEF DefaultInv, TheDefault, Leaving, Vis
<1> QED  BY <1>2, <1>5, <1>6, <1>7, <1>8, <1>9, <1>10, <1>11, <1>12, <1>13 DEF Inv
-----------------------------------------------------------------------------
(* What a statement that is carried out keeps *)

\* The request after a statement.
After(r, new, old) ==
    LET done == [Done(r) EXCEPT !.made = @ + 2] IN
    IF r.txn THEN [done EXCEPT !.add = {x \in @ : x.id \notin old} \cup new,
                               !.del = @ \cup (old \cap Ids(db))]
    ELSE done

\* The types of the fields of a request.
LEMMA RequestIs ==
    ASSUME NEW r \in Request
    PROVE  /\ r.no \in Nat /\ r.op \in Ops \cup {"idle"} /\ r.user \in Nat
           /\ r.name \in Names \cup {""} /\ r.kind \in Kinds \cup {""}
           /\ r.eui \in Euis \cup {None} /\ r.dev_eui \in Euis \cup {None}
           /\ r.addr \in Addrs \cup {None} /\ r.device \in Nat /\ r.group \in Nat
           /\ r.groups \in Seq(Nat) /\ r.script \in Nat /\ r.txn \in BOOLEAN
           /\ r.steps \in Seq(StepNames) /\ r.add \subseteq Row /\ r.del \subseteq Nat
           /\ r.seen \subseteq Row /\ r.count \in Nat /\ r.made \in Nat
<1> DEFINE E == Euis \cup {None}  A == Addrs \cup {None}  N == Names \cup {""}
           O == Ops \cup {"idle"}  K == Kinds \cup {""}
           R == SUBSET Row  S == Seq(StepNames)  G == Seq(Nat)
<1>1. Request = [no : Nat, op : O, user : Nat, name : N, kind : K, eui : E,
                 dev_eui : E, addr : A, device : Nat, group : Nat, groups : G,
                 script : Nat, txn : BOOLEAN, steps : S, add : R, del : SUBSET Nat,
                 seen : R, count : Nat, made : Nat]
  BY DEF Request
<1>2. /\ r.no \in Nat /\ r.op \in O /\ r.user \in Nat /\ r.name \in N /\ r.kind \in K
      /\ r.eui \in E /\ r.dev_eui \in E /\ r.addr \in A /\ r.device \in Nat
      /\ r.group \in Nat /\ r.groups \in G /\ r.script \in Nat /\ r.txn \in BOOLEAN
      /\ r.steps \in S /\ r.add \in R /\ r.del \in SUBSET Nat /\ r.seen \in R
      /\ r.count \in Nat /\ r.made \in Nat
  <2> HIDE DEF E, A, N, O, K, R, S, G
  <2> QED  BY <1>1
<1> QED  BY <1>2

\* A request that has done a step has the rest of its steps left.
LEMMA DoneIs ==
    ASSUME NEW r \in Request, Tail(r.steps) \in Seq(StepNames)
    PROVE  /\ Done(r) \in Request /\ Done(r).steps = Tail(r.steps)
           /\ Done(r).no = r.no /\ Done(r).op = r.op /\ Done(r).user = r.user
           /\ Done(r).name = r.name /\ Done(r).kind = r.kind /\ Done(r).eui = r.eui
           /\ Done(r).dev_eui = r.dev_eui /\ Done(r).addr = r.addr
           /\ Done(r).device = r.device /\ Done(r).group = r.group
           /\ Done(r).groups = r.groups /\ Done(r).script = r.script
           /\ Done(r).txn = r.txn /\ Done(r).add = r.add /\ Done(r).del = r.del
           /\ Done(r).seen = r.seen /\ Done(r).count = r.count /\ Done(r).made = r.made
<1> DEFINE E == Euis \cup {None}  A == Addrs \cup {None}  N == Names \cup {""}
           O == Ops \cup {"idle"}  K == Kinds \cup {""}
           R == SUBSET Row  S == Seq(StepNames)  G == Seq(Nat)
<1>1. Request = [no : Nat, op : O, user : Nat, name : N, kind : K, eui : E,
                 dev_eui : E, addr : A, device : Nat, group : Nat, groups : G,
                 script : Nat, txn : BOOLEAN, steps : S, add : R, del : SUBSET Nat,
                 seen : R, count : Nat, made : Nat]
  BY DEF Request
<1>2. Tail(r.steps) \in S  OBVIOUS
<1> HIDE DEF E, A, N, O, K, R, S, G
<1> QED  BY <1>1, <1>2 DEF Done

\* What a request is after a statement that was carried out.
Follows(r, s, new, old) ==
    /\ r \in Request /\ r.steps = Tail(s.steps)
    /\ r.no = s.no /\ r.op = s.op /\ r.user = s.user /\ r.name = s.name
    /\ r.kind = s.kind /\ r.eui = s.eui /\ r.dev_eui = s.dev_eui /\ r.addr = s.addr
    /\ r.device = s.device /\ r.group = s.group /\ r.groups = s.groups
    /\ r.script = s.script /\ r.txn = s.txn /\ r.seen = s.seen /\ r.count = s.count
    /\ r.made = s.made + 2
    /\ r.add = IF s.txn THEN {x \in s.add : x.id \notin old} \cup new ELSE s.add
    /\ r.del = IF s.txn THEN s.del \cup (old \cap Ids(db)) ELSE s.del

\* A request after a statement, field by field.
LEMMA AfterIs ==
    ASSUME StoreInv, NEW s \in Request, Tail(s.steps) \in Seq(StepNames),
           NEW new \in SUBSET Row, NEW old, NEW r, r = After(s, new, old)
    PROVE  Follows(r, s, new, old)
<1> DEFINE d == Done(s)
           add == IF s.txn THEN {x \in s.add : x.id \notin old} \cup new ELSE s.add
           del == IF s.txn THEN s.del \cup (old \cap Ids(db)) ELSE s.del
           e == [d EXCEPT !.made = @ + 2, !.add = add, !.del = del]
<1>1. /\ d \in Request /\ d.steps = Tail(s.steps)
      /\ d.no = s.no /\ d.op = s.op /\ d.user = s.user /\ d.name = s.name
      /\ d.kind = s.kind /\ d.eui = s.eui /\ d.dev_eui = s.dev_eui /\ d.addr = s.addr
      /\ d.device = s.device /\ d.group = s.group /\ d.groups = s.groups
      /\ d.script = s.script /\ d.txn = s.txn /\ d.seen = s.seen /\ d.count = s.count
      /\ d.made = s.made /\ d.add = s.add /\ d.del = s.del
  BY DoneIs
<1>2. add \in SUBSET Row  BY RequestIs
<1>3. Ids(db) \subseteq Nat  BY RowIds DEF Ids, StoreInv
<1>4. del \in SUBSET Nat  BY <1>3, RequestIs
<1>5. d.made + 2 \in Nat
  <2>1. s.made \in Nat  BY RequestIs
  <2>2. d.made = s.made  BY <1>1
  <2> HIDE DEF d
  <2> QED  BY <2>1, <2>2
<1>6. e \in Request
  <2> DEFINE E == Euis \cup {None}  A == Addrs \cup {None}  N == Names \cup {""}
             O == Ops \cup {"idle"}  K == Kinds \cup {""}
             R == SUBSET Row  S == Seq(StepNames)  G == Seq(Nat)
  <2>1. Request = [no : Nat, op : O, user : Nat, name : N, kind : K, eui : E,
                   dev_eui : E, addr : A, device : Nat, group : Nat, groups : G,
                   script : Nat, txn : BOOLEAN, steps : S, add : R, del : SUBSET Nat,
                   seen : R, count : Nat, made : Nat]
    BY DEF Request
  <2>2. add \in R  BY <1>2
  <2>3. d \in Request  BY <1>1
  <2>4. e = [d EXCEPT !.made = d.made + 2, !.add = add, !.del = del]  OBVIOUS
  <2> HIDE DEF d, add, del, e, E, A, N, O, K, R, S, G
  <2> QED  BY <2>1, <2>2, <2>3, <2>4, <1>4, <1>5
<1>7. r = e
  <2>1. d.txn = s.txn /\ d.add = s.add /\ d.del = s.del  BY <1>1
  <2>2. [d EXCEPT !.made = @ + 2] = [d EXCEPT !.made = d.made + 2]  OBVIOUS
  <2>3. d \in Request  BY <1>1
  <2>4. CASE s.txn
    <3>1. r = [[d EXCEPT !.made = @ + 2] EXCEPT !.add = {x \in @ : x.id \notin old} \cup new,
                               !.del = @ \cup (old \cap Ids(db))]
      BY <2>4 DEF After
    <3>2. add = {x \in d.add : x.id \notin old} \cup new
          /\ del = d.del \cup (old \cap Ids(db))
      BY <2>1, <2>4
    <3> HIDE DEF d, add, del
    <3> QED  BY <3>1, <3>2, <2>3 DEF Request
  <2>5. CASE ~s.txn
    <3>1. r = [d EXCEPT !.made = @ + 2]  BY <2>5 DEF After
    <3>2. add = d.add /\ del = d.del  BY <2>1, <2>5
    <3> HIDE DEF d, add, del
    <3> QED  BY <3>1, <3>2, <2>3 DEF Request
  <2> QED  BY <2>4, <2>5
<1>8. /\ e.steps = d.steps /\ e.no = d.no /\ e.op = d.op /\ e.user = d.user
      /\ e.name = d.name /\ e.kind = d.kind /\ e.eui = d.eui /\ e.dev_eui = d.dev_eui
      /\ e.addr = d.addr /\ e.device = d.device /\ e.group = d.group
      /\ e.groups = d.groups /\ e.script = d.script /\ e.txn = d.txn
      /\ e.seen = d.seen /\ e.count = d.count /\ e.made = d.made + 2
      /\ e.add = add /\ e.del = del
  <2>1. d \in Request  BY <1>1
  <2> HIDE DEF d, add, del
  <2> QED  BY <2>1 DEF Request
<1> HIDE DEF d, e
<1> QED  BY <1>1, <1>6, <1>7, <1>8 DEF Follows

\* A statement that is not blocked and does not clash may write its rows.
LEMMA StatementGranted ==
    ASSUME StoreInv, NEW p \in Slots, NEW new, NEW old, Blockers(p, new, old) = {},
           ~Clash(p, new, old)
    PROVE  Granted(p, new, old)
<1>1. ASSUME NEW q \in Slots \ {p}
      PROVE  /\ old \cap req[q].del = {}
             /\ \A x \in new, y \in req[q].add : ~Shared(x, y)
             /\ \A x \in new, y \in db : y.id \in req[q].del => ~Shared(x, y)
  <2>1. /\ old \cap req[q].del = {}
        /\ KeysOf(new) \cap KeysOf(req[q].add \cup {r \in db : r.id \in req[q].del}) = {}
    BY DEF Blockers
  <2> QED  BY <2>1 DEF KeysOf, Shared
<1>2. \A x \in new, y \in Vis(req[p]) : y.id \notin old => ~Shared(x, y)
  BY DEF Clash, KeysOf, Shared, View, Vis
<1> QED  BY <1>1, <1>2 DEF Granted

\* A statement that waits, is refused or is carried out.
LEMMA StatementKeeps ==
    ASSUME Inv, NEW p \in Slots, Active(p), NEW s \in Request, Kin(s, req[p]),
           s.seen = req[p].seen, Tail(s.steps) \in Seq(StepNames),
           NEW red, red = redis \/ \E u : red = Uncached(u),
           NEW new, NEW old, Statement(p, new, old, s, red), UNCHANGED <<todo, bare>>,
           Writable(p, new, old), Fitting(p, new), Novel(new),
           NEW r, r = After(s, new, old), Program(r), Shape(r),
           ReqRefs(r) \subseteq {NewId(p), SecondId(p)} \cup ReqRefs(req[p]),
           req[p].txn => /\ Left(req[p]) \cap Telling \subseteq Left(r)
                         /\ \A x \in new : Told(r, x),
           Writes(p, r, new, old) => Jointly(r) /\ Leaving(r),
           ~req[p].txn => Loose(new, old) /\ Staying(new, old)
    PROVE  Inv'
<1>1. /\ StoreInv /\ NumberInv /\ ApartInv /\ IdInv /\ CompatInv /\ KeyInv
      /\ ProgramInv /\ OwnedInv /\ JointInv /\ DefaultInv
  BY DEF Inv
<1>2. CASE /\ Blockers(p, new, old) \notin {{}, waits[p]}
           /\ waits' = [waits EXCEPT ![p] = Blockers(p, new, old)]
           /\ UNCHANGED <<db, redis, req>>
  <2>1. Blockers(p, new, old) \in SUBSET (Slots \ {p})  BY DEF Blockers
  <2> QED  BY <1>2, <2>1, WaitKeeps
<1>3. CASE Fail(p)  BY <1>3, FailKeeps
<1>4. CASE /\ Blockers(p, new, old) = {} /\ ~Clash(p, new, old) /\ redis' = red
           /\ Go(p, r)
           /\ IF s.txn THEN UNCHANGED db
              ELSE db' = {x \in db : x.id \notin old} \cup new
  <2>1. Granted(p, new, old)  BY <1>1, <1>4, StatementGranted
  <2>2. new \in SUBSET Row /\ IsFiniteSet(new)  BY DEF Writable
  <2>3. /\ r \in Request /\ r.no = s.no /\ r.op = s.op /\ r.txn = s.txn
        /\ r.made = s.made + 2 /\ r.seen = s.seen
        /\ r.add = IF s.txn THEN {x \in s.add : x.id \notin old} \cup new ELSE s.add
        /\ r.del = IF s.txn THEN s.del \cup (old \cap Ids(db)) ELSE s.del
    <3>1. StoreInv /\ new \in SUBSET Row /\ r = After(s, new, old)  BY <1>1, <2>2
    <3>2. Follows(r, s, new, old)  BY <3>1, AfterIs
    <3> QED  BY <3>2 DEF Follows
  <2>4. /\ s.no = req[p].no /\ s.op = req[p].op /\ s.txn = req[p].txn
        /\ s.made = req[p].made /\ s.add = req[p].add /\ s.del = req[p].del
    BY DEF Kin
  <2>5. Goes(p, r)  BY <1>1, <1>4, <2>3, GoGoes
  <2>6. Trims  BY <1>4 DEF Trims
  <2>7. Counted(p, r)  BY <2>3, <2>4, <2>5, <2>6 DEF Counted
  <2>8. redis' \in Stored  BY <1>1, <2>6, TrimsKeep DEF StoreInv
  <2>9. StoreInv'
    <3>1. db' \subseteq Row /\ IsFiniteSet(db')
      <4>1. CASE s.txn  BY <4>1, <1>1, <1>4 DEF StoreInv
      <4>2. CASE ~s.txn
        <5>1. db' = {x \in db : x.id \notin old} \cup new  BY <4>2, <1>4
        <5>2. IsFiniteSet({x \in db : x.id \notin old})  BY <1>1, FS_Subset DEF StoreInv
        <5>3. IsFiniteSet({x \in db : x.id \notin old} \cup new)  BY <5>2, <2>2, FS_Union
        <5> QED  BY <5>1, <5>3, <2>2, <1>1 DEF StoreInv
      <4> QED  BY <4>1, <4>2
    <3> QED  BY <3>1, <2>3, <2>8, <1>1, <1>4, GoGoes DEF StoreInv
  <2>10. NumberInv'  BY <1>1, <2>3, <2>4, <2>5, NumberStep
  <2>11. ProgramInv'  BY <1>1, <2>5, ProgramStep
  <2>12. SameRecords  BY <1>1, <2>6, TrimsKeep DEF SameRecords, StoreInv
  <2>13. r.add \subseteq req[p].add \cup new  BY <2>3, <2>4
  <2>14. CASE req[p].txn
    <3>1. db' = db  BY <1>4, <2>4, <2>14
    <3>2. Writes(p, r, new, old)  BY <2>3, <2>4, <2>7, <2>14, <3>1 DEF Writes
    <3>3. ApartInv'  BY <1>1, <2>7, <2>13, <3>1, StatementApart
    <3>4. CompatInv' /\ Everywhere' \subseteq Everywhere \cup new
      BY <1>1, <2>7, <2>13, <3>1, StatementCompat
    <3>5. IdInv'  BY <1>1, <2>1, <3>2, WritesIds
    <3>6. KeyInv'  BY <1>1, <2>1, <3>2, WritesKeys
    <3>7. OwnedInv'  BY <1>1, <2>14, <3>2, WritesOwned
    <3>8. JointInv'  BY <1>1, <3>2, WritesJoint
    <3>9. DefaultInv'  BY <1>1, <3>2, <3>4, WritesDefault
    <3> QED  BY <2>9, <2>10, <2>11, <3>3, <3>4, <3>5, <3>6, <3>7, <3>8, <3>9 DEF Inv
  <2>15. CASE ~req[p].txn
    <3>1. db' = {x \in db : x.id \notin old} \cup new  BY <1>4, <2>4, <2>15
    <3>2. Publishes(p, r, new, old)  BY <2>3, <2>4, <2>7, <2>15, <3>1 DEF Publishes
    <3>3. Issues(p, new, old) /\ Unlocks(p, r)  BY <1>1, <2>1, <3>2, PublishesIssues
    <3>4. db' \subseteq db \cup new  BY <3>1
    <3>5. ApartInv'  BY <1>1, <2>7, <2>13, <2>15, <3>4, StatementApart
    <3>6. CompatInv' /\ Everywhere' \subseteq Everywhere \cup new
      BY <1>1, <2>7, <2>13, <3>4, StatementCompat
    <3>7. IdInv'  BY <1>1, <3>3, IssuesIds
    <3>8. KeyInv'  BY <1>1, <3>3, IssuesKeys
    <3>9. Families(new, old) /\ \A x \in new : Told(Blank, x)
      BY <2>15, LooseFamilies
    <3>10. OwnedInv'  BY <1>1, <2>12, <3>3, <3>9, IssuesOwned
    <3>11. JointInv'  BY <1>1, <3>3, <3>9, IssuesJoint
    <3>12. Inherits(new, old)  BY <2>15, LooseInherits
    <3>13. Held(r) \subseteq Held(req[p])  BY <2>3, <2>4, <2>15 DEF Held
    <3>14. \A u \in new : u.t = "users" /\ u.id \notin Ids(db) => req[p].txn
      BY <2>15 DEF Loose, Ids
    <3>15. DefaultInv'
      BY <1>1, <2>6, <2>15, <3>3, <3>6, <3>12, <3>13, <3>14, IssuesDefault
    <3> QED  BY <2>9, <2>10, <2>11, <3>5, <3>6, <3>7, <3>8, <3>10, <3>11, <3>15 DEF Inv
  <2> QED  BY <2>14, <2>15
<1>5. QED
  <2>1. \/ /\ Blockers(p, new, old) \notin {{}, waits[p]}
           /\ waits' = [waits EXCEPT ![p] = Blockers(p, new, old)]
           /\ UNCHANGED <<db, redis, req>>
        \/ Fail(p)
        \/ /\ Blockers(p, new, old) = {} /\ ~Clash(p, new, old) /\ redis' = red
           /\ Go(p, After(s, new, old))
           /\ IF s.txn THEN UNCHANGED db
              ELSE db' = {x \in db : x.id \notin old} \cup new
    <3>1. CASE s.txn  BY <3>1 DEF Statement, After, Done
    <3>2. CASE ~s.txn  BY <3>2 DEF Statement, After, Done
    <3> QED  BY <3>1, <3>2
  <2> QED  BY <2>1, <1>2, <1>3, <1>4
-----------------------------------------------------------------------------
(* What a commit keeps *)

\* A commit is the last step of its handler.
LEMMA LastStep ==
    ASSUME StoreInv, ProgramInv, NEW p \in Slots, NEW s \in {"commit", "device_commit"},
           At(p, s), Proceed(p)
    PROVE  /\ Left(req[p]) = {s} /\ req' = [req EXCEPT ![p] = Blank] /\ waits' = Freed(p)
<1>1. req[p] \in Request  BY DEF StoreInv
<1>2. Program(req[p])  BY DEF ProgramInv
<1> DEFINE o == req[p]
<1>3. /\ o.steps # <<>> /\ Head(o.steps) = s /\ s \in Left(o) /\ s \in Uses(o)
      /\ Tail(o.steps) \in Seq(StepNames) /\ Ordered(Tail(o.steps))
      /\ StepsIn(Tail(o.steps)) = Left(o) \ {s}
      /\ \A t \in Left(o) : t = s \/ Level(s) < Level(t)
  BY <1>1, <1>2, HeadStep
<1>4. \A t \in Left(o) : t = s
  <2>1. Level(s) = 15  BY DEF Level
  <2>2. \A t : Level(t) \in 0 .. 15  BY DEF Level
  <2>3. \A t : ~(Level(s) < Level(t))
    <3> TAKE t
    <3>1. Level(t) \in 0 .. 15  BY <2>2
    <3> QED  BY <2>1, <3>1
  <2> HIDE DEF o
  <2> QED  BY <2>3, <1>3
<1>5. StepsIn(Tail(o.steps)) = {}  BY <1>3, <1>4
<1>6. Tail(o.steps) = <<>>
  <2>1. \A n \in Nat : n >= 1 => 1 \in 1 .. n  OBVIOUS
  <2>2. \A t \in Seq(StepNames) : t # <<>> => Len(t) \in Nat /\ Len(t) >= 1  OBVIOUS
  <2> HIDE DEF o
  <2>3. CASE Tail(o.steps) # <<>>
    <3>1. 1 \in 1 .. Len(Tail(o.steps))  BY <1>3, <2>1, <2>2, <2>3
    <3> QED  BY <3>1, <1>5 DEF StepsIn
  <2> QED  BY <2>3
<1>7. Done(o).steps = <<>>  BY <1>1, <1>3, <1>6, DoneIs
<1> QED  BY <1>3, <1>4, <1>7 DEF Proceed, Go

\* A commit makes the rows of the transaction visible, and those of N.
LEMMA CommitIssues ==
    ASSUME Inv, NEW p \in Slots, Active(p), req[p].txn, NEW N, N \subseteq Row, UniqueIds(N),
           \A x \in N : x.t = "authority" /\ Created(p, x),
           db' = View(p) \cup N
    PROVE  /\ Issues(p, req[p].add \cup N, req[p].del)
           /\ \A i \in req[p].del : i \in Ids(req[p].add \cup N) <=> i \in Ids(req[p].add)
<1> USE DEF Inv
<1>1. PICK r : r = [req[p] EXCEPT !.made = @ + 2]  OBVIOUS
<1>2. r.no = req[p].no /\ r.made = req[p].made + 2  BY <1>1 DEF StoreInv, Request
<1>3. \A x \in N : /\ Reserved(req[p], x.id) /\ \A y \in Everywhere : x.id \notin Refs(y)
  BY <1>2, NewIds DEF Created
<1>4. \A x \in N : \A y \in Everywhere : x.id # y.id  BY <1>3 DEF Refs
<1>5. req[p].add \subseteq Everywhere /\ db \subseteq Everywhere  BY Places DEF Held
<1>6. Locked(req[p])  BY DEF IdInv
<1>7. \A x \in N : Keys(x) = {}  BY DEF Keys
<1>8. \A x \in N : \A y : ~Shared(x, y) /\ ~Shared(y, x)  BY <1>7 DEF Shared
<1>9. req[p].add \cup N \subseteq Row  BY DEF StoreInv, Request
<1>10. UniqueIds(req[p].add \cup N)  BY <1>4, <1>5, <1>6 DEF Locked, UniqueIds
<1>11. UniqueKeys(req[p].add \cup N)  BY <1>8 DEF KeyInv, UniqueKeys
<1>12. db' = {x \in db : x.id \notin req[p].del} \cup (req[p].add \cup N)  BY DEF View
<1>13. ASSUME NEW x \in req[p].add \cup N
       PROVE  \/ x.id \in req[p].del /\ \E v \in db : v.id = x.id /\ Fixed(x) = Fixed(v)
              \/ x.id \notin Ids(db) /\ OwnId(p, x.id)
  <2>1. CASE x \in N  BY <2>1, <1>3, <1>4, <1>5 DEF Ids, OwnId
  <2>2. CASE x \in req[p].add /\ x.id \in req[p].del
    <3>1. PICK v \in db : v.id = x.id  BY <2>2, <1>6 DEF Locked, Ids
    <3>2. Fixed(x) = Fixed(v)  BY <2>2, <3>1, <1>5 DEF CompatInv, Compat
    <3> QED  BY <2>2, <3>1, <3>2
  <2>3. CASE x \in req[p].add /\ x.id \notin req[p].del
    BY <2>3, <1>6 DEF Locked, OwnId
  <2> QED  BY <2>1, <2>2, <2>3
<1>14. \A x \in req[p].add \cup N, y \in db : Shared(x, y) => y.id \in req[p].del
  BY <1>8 DEF KeyInv
<1>15. \A q \in Slots \ {p} : /\ req[p].del \cap req[q].del = {}
                              /\ \A x \in req[p].add \cup N, y \in req[q].add : ~Shared(x, y)
  BY <1>8 DEF KeyInv, IdInv
<1>16. Issues(p, req[p].add \cup N, req[p].del)
  BY <1>9, <1>10, <1>11, <1>12, <1>13, <1>14, <1>15 DEF Issues
<1>17. \A i \in req[p].del : i \in Ids(req[p].add \cup N) <=> i \in Ids(req[p].add)
  BY <1>4, <1>5, <1>6 DEF Locked, Ids
<1> QED  BY <1>16, <1>17

\* What a commit has to keep.
LEMMA CommitKeeps ==
    ASSUME Inv, NEW p \in Slots, Active(p), req[p].txn,
           NEW s \in {"commit", "device_commit"}, At(p, s),
           NEW N, N \subseteq Row, IsFiniteSet(N), UniqueIds(N),
           \A x \in N : x.t = "authority" /\ Created(p, x),
           db' = View(p) \cup N, IsFiniteSet(db'),
           Proceed(p), UNCHANGED <<redis, todo, bare>>,
           Families(req[p].add \cup N, req[p].del), Inherits(req[p].add \cup N, req[p].del)
    PROVE  Inv'
<1>1. /\ StoreInv /\ NumberInv /\ ApartInv /\ IdInv /\ CompatInv /\ KeyInv
      /\ ProgramInv /\ OwnedInv /\ JointInv /\ DefaultInv
  BY DEF Inv
<1> DEFINE A == req[p].add \cup N
           D == req[p].del
<1>2. /\ Left(req[p]) = {s} /\ req' = [req EXCEPT ![p] = Blank] /\ waits' = Freed(p)
  BY <1>1, LastStep
<1>3. Issues(p, A, D)  BY CommitIssues
<1>4. Becomes(p, Blank) /\ Goes(p, Blank)  BY <1>2 DEF Becomes, Goes
<1>5. Unlocks(p, Blank)  BY <1>4, BlankSlot DEF Unlocks
<1>6. req'[p] = Blank  BY <1>1, <1>2 DEF StoreInv
<1>7. CachedAll' = CachedAll  BY DEF CachedAll
<1>8. db' \subseteq Row  BY <1>3, <1>1 DEF Issues, StoreInv
<1>9. StoreInv'
  <2>1. req' \in [Slots -> Request]  BY <1>1, <1>2, BlankSlot DEF StoreInv
  <2>2. /\ waits' \in [Slots -> SUBSET Slots]
        /\ \A q \in Slots : q \notin waits'[q] /\ (waits'[q] # {} => Active(q)')
    BY <1>1, <1>2 DEF StoreInv, Freed, Active
  <2> QED  BY <2>1, <2>2, <1>1, <1>8 DEF StoreInv
<1>10. PICK r : r = [req[p] EXCEPT !.made = @ + 2]  OBVIOUS
<1>11. /\ r.no = req[p].no /\ r.made = req[p].made + 2 /\ r.op = req[p].op
       /\ r.txn = req[p].txn /\ r.seen = req[p].seen /\ r.add = req[p].add
       /\ r.steps = req[p].steps /\ r.user = req[p].user /\ r.device = req[p].device
  <2>1. req[p] \in Request  BY <1>1 DEF StoreInv
  <2> QED  BY <2>1, <1>10 DEF Request
<1>12. Goes(p, r)  BY <1>4 DEF Goes
<1>13. NumberInv'  BY <1>1, <1>11, <1>12, NumberStep
<1>14. ApartInv'
  <2> DEFINE M == {NewId(p), SecondId(p)}
  <2>1. req[p].made \in Nat /\ r.made \in Nat /\ r.made >= req[p].made
    <3>1. req[p].made \in Nat  BY <1>1 DEF StoreInv, Request
    <3> QED  BY <3>1, <1>11
  <2>2. \A i \in M : Reserved(req[p], i) /\ Drawn(r, i)  BY <1>1, <1>11, NewIds
  <2>3. \A i : KnownTo(r, i) <=> KnownTo(req[p], i)
    BY <1>11 DEF KnownTo, ReqRefs, UserSet, DeviceSet, Left, Held
  <2>4. ASSUME NEW i, Known(i)' PROVE Known(i) \/ KnownTo(req[p], i) \/ i \in M
    <3>1. CASE i \in redis'.session  BY <3>1 DEF Known
    <3>2. CASE \E x \in db \cup CachedAll : i \in Refs(x)  BY <3>2 DEF Known
    <3>3. CASE \E x \in req[p].add : i \in Refs(x)  BY <3>3 DEF KnownTo, Held
    <3>4. CASE \E x \in N : i \in Refs(x)  BY <3>4 DEF Created, KnownTo
    <3> HIDE DEF M
    <3> QED  BY <1>7, <2>4, <3>1, <3>2, <3>3, <3>4 DEF Known, View
  <2>5. \A i : Known(i)' \/ KnownTo(r, i) => Known(i) \/ KnownTo(req[p], i) \/ i \in M
    BY <2>3, <2>4
  <2>6. req'[p] = r /\ r.txn => \A i : Known(i)' => Known(i)
    BY <1>6, <1>11, BlankSlot
  <2>7. r.txn <=> req[p].txn  BY <1>11
  <2> HIDE DEF M
  <2> QED  BY <1>1, <1>11, <1>12, <2>1, <2>2, <2>5, <2>6, <2>7, ApartStep
<1>15. CompatInv' /\ Everywhere' \subseteq Everywhere \cup N
  <2>1. db' \cup CachedAll' \cup Held(Blank)
        \subseteq db \cup CachedAll \cup Held(req[p]) \cup N
    BY <1>7, BlankSlot DEF Held, View
  <2>2. \A x \in N : \A y \in Everywhere : x.id # y.id
    BY <1>1, <1>11, NewIds DEF Created, Refs
  <2>3. \A x \in N, y \in Everywhere \cup N : Compat(x, y) /\ Compat(y, x)
    BY <2>2 DEF Compat, UniqueIds, Typed
  <2> QED  BY <1>1, <1>4, <2>1, <2>3, CompatStep
<1>16. IdInv'  BY <1>1, <1>3, <1>5, IssuesIds
<1>17. KeyInv'  BY <1>1, <1>3, <1>5, IssuesKeys
<1>18. ProgramInv'  BY <1>1, <1>4, BlankSlot, ProgramStep
<1>19. OwnedInv'
  <2>1. \A x \in req[p].add : Told(req[p], x)  BY <1>1 DEF OwnedInv
  <2>2. \A x \in A : Told(Blank, x)  BY <2>1, <1>2 DEF Told
  <2>3. SameRecords  BY DEF SameRecords
  <2> QED  BY <1>1, <1>3, <1>5, <2>2, <2>3, IssuesOwned
<1>20. JointInv'  BY <1>1, <1>3, <1>5, IssuesJoint
<1>21. DefaultInv'
  <2>1. Trims  BY DEF Trims
  <2>2. req[p].add \subseteq Everywhere  BY <1>1, Places DEF Held
  <2>3. Novel(A)  BY <2>2 DEF Novel
  <2>4. Everywhere' \subseteq Everywhere \cup A  BY <1>15
  <2>5. Held(Blank) \subseteq db \cup A \/ (Held(Blank) \subseteq Held(req[p]) /\ ~req[p].txn)
    BY BlankSlot
  <2>6. \A u \in A : u.t = "users" /\ u.id \notin Ids(db) => req[p].txn  OBVIOUS
  <2>7. Inherits(A, D)  OBVIOUS
  <2> HIDE DEF A, D
  <2> QED  BY <1>1, <1>3, <1>5, <2>1, <2>3, <2>4, <2>5, <2>6, <2>7, IssuesDefault
<1> QED  BY <1>9, <1>13, <1>14, <1>15, <1>16, <1>17, <1>18, <1>19, <1>20, <1>21 DEF Inv

-----------------------------------------------------------------------------
(* The steps one by one *)

\* Which handlers have a step.
LEMMA StepOps ==
    ASSUME NEW r
    PROVE  /\ \A s \in {"address", "check", "node"} :
                 s \in Uses(r) => r.op = "create" /\ r.kind \in NodeKinds
           /\ "device" \in Uses(r) => r.op = "create"
           /\ "gate" \in Uses(r) => r.op = "create" /\ r.kind = "Gateway"
           /\ "mqtt" \in Uses(r) => r.op = "create" /\ r.kind = "MQTT"
           /\ "snap" \in Uses(r) => r.op = "create" /\ r.kind = "Snap"
           /\ \A s \in {"set_eui", "set_addr"} : s \in Uses(r) =>
                 (r.op = "create" /\ r.kind \in NodeKinds) \/ r.op = "rebind"
           /\ "set_gate" \in Uses(r) => r.op = "create" /\ r.kind = "Gateway"
           /\ "set_snap" \in Uses(r) => r.op = "create" /\ r.kind = "Snap"
           /\ \A s \in {"link_default", "device_commit"} :
                 s \in Uses(r) => r.op \in {"create", "rebind"}
           /\ \A s \in {"default", "find_default"} :
                 s \in Uses(r) => r.op \in {"create", "rebind", "top"}
           /\ \A s \in {"blue_find", "blue_update"} : s \in Uses(r) => r.op = "rebind"
           /\ \A s \in {"del_eui", "del_addr"} :
                 s \in Uses(r) => r.op \in {"rebind", "delete"}
           /\ \A s \in {"delete_find", "unlink_all", "find_type", "del_gate", "del_snap",
                        "delete_rows"} : s \in Uses(r) => r.op = "delete"
           /\ \A s \in {"modify_find", "script", "locate", "exists", "hset", "modify_rows"} :
                 s \in Uses(r) => r.op = "modify"
<1>1. CASE r.op = "create"  BY <1>1 DEF Uses, NodeKinds, LinkSteps
<1>2. CASE r.op = "rebind"  BY <1>2 DEF Uses, NodeKinds, LinkSteps
<1>3. CASE r.op = "delete"  BY <1>3 DEF Uses, NodeKinds, LinkSteps
<1>4. CASE r.op = "modify"  BY <1>4 DEF Uses, NodeKinds, LinkSteps
<1>5. CASE r.op = "signup"  BY <1>5 DEF Uses, NodeKinds, LinkSteps
<1>6. CASE r.op = "delete_user"  BY <1>6 DEF Uses, NodeKinds, LinkSteps
<1>7. CASE r.op = "edit_link"  BY <1>7 DEF Uses, NodeKinds, LinkSteps
<1>8. CASE r.op = "edit_unlink"  BY <1>8 DEF Uses, NodeKinds, LinkSteps
<1>9. CASE r.op = "erase_group"  BY <1>9 DEF Uses, NodeKinds, LinkSteps
<1>10. CASE r.op = "new_group"  BY <1>10 DEF Uses, NodeKinds, LinkSteps
<1>11. CASE r.op = "unlink"  BY <1>11 DEF Uses, NodeKinds, LinkSteps
<1>12. CASE r.op = "get_group"  BY <1>12 DEF Uses, NodeKinds, LinkSteps
<1>13. CASE r.op = "get_all"  BY <1>13 DEF Uses, NodeKinds, LinkSteps
<1>14. CASE r.op = "top"  BY <1>14 DEF Uses, NodeKinds, LinkSteps
<1>15. CASE r.op = "login"  BY <1>15 DEF Uses, NodeKinds, LinkSteps
<1>16. CASE r.op = "refresh"  BY <1>16 DEF Uses, NodeKinds, LinkSteps
<1>17. CASE r.op = "mail"  BY <1>17 DEF Uses, NodeKinds, LinkSteps
<1>18. CASE r.op = "password"  BY <1>18 DEF Uses, NodeKinds, LinkSteps
<1>19. CASE r.op = "info"  BY <1>19 DEF Uses, NodeKinds, LinkSteps
<1>20. CASE r.op = "idle"  BY <1>20 DEF Uses, NodeKinds, LinkSteps
<1>21. CASE r.op \notin {"create", "rebind", "delete", "modify", "signup", "delete_user",
                          "edit_link", "edit_unlink", "erase_group", "new_group", "unlink",
                          "get_group", "get_all", "top", "login", "refresh", "mail",
                          "password", "info", "idle"}
  <2>1. Uses(r) = {"new_script", "edit_script", "count_devices", "drop_script",
                   "new_integration", "drop_integration"}
    BY <1>21 DEF Uses
  <2> QED  BY <2>1, <1>21
<1> QED  BY <1>1, <1>2, <1>3, <1>4, <1>5, <1>6, <1>7, <1>8, <1>9, <1>10,
  <1>11, <1>12, <1>13, <1>14, <1>15, <1>16, <1>17, <1>18, <1>19, <1>20,
  <1>21

EditOps == {"edit_link", "edit_unlink", "erase_group"}

\* The requests that run a step: groups, users, scripts and accounts.
LEMMA StepOpsMore ==
    ASSUME NEW r
    PROVE  /\ \A s \in {"find_name", "new_user", "new_user_group"} :
                 s \in Uses(r) => r.op = "signup"
           /\ "valid_code" \in Uses(r) => r.op \in {"delete_user", "password"}
           /\ \A s \in {"find_user", "drop_scripts", "collect", "drop_devices", "drop_tokens",
                        "drop_groups", "drop_links", "drop_user"} :
                 s \in Uses(r) => r.op = "delete_user"
           /\ \A s \in {"edit_find", "edit_row", "erase_group"} : s \in Uses(r) => r.op \in EditOps
           /\ "link" \in Uses(r) => r.op \in {"create", "rebind"} \cup EditOps
           /\ "new_group" \in Uses(r) => r.op \in {"new_group", "unlink"}
           /\ "unlink" \in Uses(r) => r.op \in {"new_group", "unlink"} \cup EditOps
           /\ "uncache" \in Uses(r) =>
                 r.op \in {"new_group", "unlink", "get_group", "get_all"} \cup EditOps
           /\ \A s \in {"load_groups", "look_default", "read_groups", "save_groups"} :
                 s \in Uses(r) => r.op \in {"get_group", "get_all"}
           /\ \A s \in {"rank", "reorder"} : s \in Uses(r) => r.op = "top"
           /\ \A s \in {"login_find", "refresh_find", "tokens", "session"} :
                 s \in Uses(r) => r.op \in {"login", "refresh"}
           /\ \A s \in {"mail_find", "mail_count", "mail_sent", "mail_code"} :
                 s \in Uses(r) => r.op = "mail"
           /\ "set_password" \in Uses(r) => r.op = "password"
           /\ "set_info" \in Uses(r) => r.op = "info"
           /\ "commit" \in Uses(r) =>
                 r.op \in {"delete", "modify", "signup", "delete_user"} \cup EditOps
           /\ r.op = "idle" => Uses(r) = {}
<1>1. CASE r.op = "create"  BY <1>1 DEF Uses, NodeKinds, LinkSteps, EditOps
<1>2. CASE r.op = "rebind"  BY <1>2 DEF Uses, NodeKinds, LinkSteps, EditOps
<1>3. CASE r.op = "delete"  BY <1>3 DEF Uses, NodeKinds, LinkSteps, EditOps
<1>4. CASE r.op = "modify"  BY <1>4 DEF Uses, NodeKinds, LinkSteps, EditOps
<1>5. CASE r.op = "signup"  BY <1>5 DEF Uses, NodeKinds, LinkSteps, EditOps
<1>6. CASE r.op = "delete_user"  BY <1>6 DEF Uses, NodeKinds, LinkSteps, EditOps
<1>7. CASE r.op = "edit_link"  BY <1>7 DEF Uses, NodeKinds, LinkSteps, EditOps
<1>8. CASE r.op = "edit_unlink"  BY <1>8 DEF Uses, NodeKinds, LinkSteps, EditOps
<1>9. CASE r.op = "erase_group"  BY <1>9 DEF Uses, NodeKinds, LinkSteps, EditOps
<1>10. CASE r.op = "new_group"  BY <1>10 DEF Uses, NodeKinds, LinkSteps, EditOps
<1>11. CASE r.op = "unlink"  BY <1>11 DEF Uses, NodeKinds, LinkSteps, EditOps
<1>12. CASE r.op = "get_group"  BY <1>12 DEF Uses, NodeKinds, LinkSteps, EditOps
<1>13. CASE r.op = "get_all"  BY <1>13 DEF Uses, NodeKinds, LinkSteps, EditOps
<1>14. CASE r.op = "top"  BY <1>14 DEF Uses, NodeKinds, LinkSteps, EditOps
<1>15. CASE r.op = "login"  BY <1>15 DEF Uses, NodeKinds, LinkSteps, EditOps
<1>16. CASE r.op = "refresh"  BY <1>16 DEF Uses, NodeKinds, LinkSteps, EditOps
<1>17. CASE r.op = "mail"  BY <1>17 DEF Uses, NodeKinds, LinkSteps, EditOps
<1>18. CASE r.op = "password"  BY <1>18 DEF Uses, NodeKinds, LinkSteps, EditOps
<1>19. CASE r.op = "info"  BY <1>19 DEF Uses, NodeKinds, LinkSteps, EditOps
<1>20. CASE r.op = "idle"  BY <1>20 DEF Uses, NodeKinds, LinkSteps, EditOps
<1>21. CASE r.op \notin {"create", "rebind", "delete", "modify", "signup", "delete_user",
                          "edit_link", "edit_unlink", "erase_group", "new_group", "unlink",
                          "get_group", "get_all", "top", "login", "refresh", "mail",
                          "password", "info", "idle"}
  <2>1. Uses(r) = {"new_script", "edit_script", "count_devices", "drop_script",
                   "new_integration", "drop_integration"}
    BY <1>21 DEF Uses
  <2> QED  BY <2>1, <1>21
<1> QED  BY <1>1, <1>2, <1>3, <1>4, <1>5, <1>6, <1>7, <1>8, <1>9, <1>10,
  <1>11, <1>12, <1>13, <1>14, <1>15, <1>16, <1>17, <1>18, <1>19, <1>20,
  <1>21

\* The handlers that run in a transaction, and those that do not.
LEMMA Transactions ==
    /\ \A op \in {"create", "rebind", "delete", "modify", "signup", "delete_user"} \cup EditOps :
          op \in Transacted
    /\ \A op \in {"new_group", "unlink", "get_group", "get_all", "top", "login", "refresh",
                  "mail", "password", "info", "new_script", "edit_script", "drop_script",
                  "new_integration", "drop_integration"} : op \notin Transacted
BY DEF Transacted, EditOps

\* The shape of a request, by its operation.
LEMMA ShapeFor ==
    ASSUME NEW r
    PROVE  /\ r.op = "create" => (Shape(r) <=> CreateShape(r))
           /\ r.op = "rebind" => (Shape(r) <=> RebindShape(r))
           /\ r.op = "delete" => (Shape(r) <=> DeleteShape(r))
           /\ r.op = "modify" => (Shape(r) <=> ModifyShape(r))
           /\ r.op = "signup" => (Shape(r) <=> SignupShape(r))
           /\ r.op = "delete_user" => (Shape(r) <=> DropShape(r))
           /\ r.op \in EditOps => (Shape(r) <=> EditShape(r))
           /\ r.op \in {"get_group", "get_all"} => (Shape(r) <=> GetShape(r))
           /\ r.op = "top" => (Shape(r) <=> TopShape(r))
           /\ r.op \notin {"create", "rebind", "delete", "modify", "signup", "delete_user",
                           "get_group", "get_all", "top"} \cup EditOps => Shape(r)
BY DEF Shape, EditOps

\* The turn of a handler.
LEMMA Turn ==
    ASSUME Inv, NEW p \in Slots, NEW s, At(p, s)
    PROVE  LET o == req[p] IN
           /\ o \in Request /\ Active(p) /\ Program(o) /\ Shape(o)
           /\ s \in Left(o) /\ s \in Uses(o)
           /\ Tail(o.steps) \in Seq(StepNames) /\ Ordered(Tail(o.steps))
           /\ StepsIn(Tail(o.steps)) = Left(o) \ {s}
           /\ \A t \in Left(o) : t = s \/ Level(s) < Level(t)
<1>1. req[p] \in Request /\ Program(req[p]) /\ Shape(req[p])
  BY DEF Inv, StoreInv, ProgramInv
<1>2. /\ s \in Left(req[p]) /\ s \in Uses(req[p])
      /\ Tail(req[p].steps) \in Seq(StepNames) /\ Ordered(Tail(req[p].steps))
      /\ StepsIn(Tail(req[p].steps)) = Left(req[p]) \ {s}
      /\ \A t \in Left(req[p]) : t = s \/ Level(s) < Level(t)
  BY <1>1, HeadStep
<1>3. Active(p)  BY <1>2, StepOpsMore DEF Active
<1> QED  BY <1>1, <1>2, <1>3

\* Taking a step off a program leaves a program.
LEMMA DoneProgram ==
    ASSUME Inv, NEW p \in Slots, NEW s, At(p, s), NEW r, r.op = req[p].op,
           r.kind = req[p].kind, r.txn = req[p].txn, r.name = req[p].name,
           r.steps = Tail(req[p].steps)
    PROVE  Program(r) /\ Left(r) = Left(req[p]) \ {s}
<1>1. /\ Program(req[p]) /\ Ordered(Tail(req[p].steps))
      /\ StepsIn(Tail(req[p].steps)) = Left(req[p]) \ {s}
  BY Turn
<1>2. Left(r) = Left(req[p]) \ {s}  BY <1>1 DEF Left
<1>3. Uses(r) = Uses(req[p])  BY DEF Uses
<1> QED  BY <1>1, <1>2, <1>3 DEF Program

\* Steps after which a request has heard of nothing new.
Silent(s) == s \notin Finding \cup {"device", "blue_find"}

\* A step that finds nothing teaches the request no id.
LEMMA SilentRefs ==
    ASSUME NEW r, NEW o, NEW s, Silent(s), Left(r) = Left(o) \ {s}, r.op = o.op,
           r.user = o.user, r.device = o.device
    PROVE  ReqRefs(r) = ReqRefs(o)
BY DEF ReqRefs, UserSet, DeviceSet, Silent, Finding

\* A handler that only goes on to its next step.
LEMMA ProceedKeeps ==
    ASSUME Inv, NEW p \in Slots, NEW s, At(p, s), Proceed(p),
           UNCHANGED <<db, redis, todo, bare>>, s \notin Telling,
           NEW r, r = Done(req[p]), ReqRefs(r) \subseteq ReqRefs(req[p]), Shape(r),
           req[p].op = "delete_user" => "drop_groups" \in Left(req[p])
    PROVE  Inv'
<1>1. /\ req[p] \in Request /\ Active(p) /\ Tail(req[p].steps) \in Seq(StepNames)
  BY Turn
<1>2. /\ r \in Request /\ r.steps = Tail(req[p].steps)
      /\ Kin(r, req[p]) /\ r.seen = req[p].seen /\ r.name = req[p].name
      /\ r.kind = req[p].kind
  BY <1>1, DoneIs DEF Kin
<1>3. Program(r) /\ Left(r) = Left(req[p]) \ {s}
  BY <1>2, DoneProgram DEF Kin
<1>4. Go(p, r)  BY DEF Proceed
<1>5. Left(req[p]) \cap Telling \subseteq Left(r)  BY <1>3
<1> QED  BY <1>1, <1>2, <1>3, <1>4, <1>5, ReadKeeps

\* A handler that writes keys of redis.
LEMMA KeyKeeps ==
    ASSUME Inv, NEW p \in Slots, NEW s, At(p, s), Proceed(p), Silent(s),
           db' = db, todo' = todo, redis' \in Stored, OwnedInv',
           redis'.groups \subseteq redis.groups,
           redis'.session \subseteq redis.session
              \cup (IF req[p].txn THEN {} ELSE ReqRefs(req[p])),
           NEW r, r = Done(req[p]), Shape(r),
           req[p].op # "delete_user"
    PROVE  Inv'
<1>1. /\ req[p] \in Request /\ Active(p) /\ Tail(req[p].steps) \in Seq(StepNames)
  BY Turn
<1>2. /\ r \in Request /\ r.steps = Tail(req[p].steps)
      /\ Kin(r, req[p]) /\ r.seen = req[p].seen /\ r.name = req[p].name
      /\ r.kind = req[p].kind /\ r.user = req[p].user /\ r.device = req[p].device
  BY <1>1, DoneIs DEF Kin
<1>3. Program(r) /\ Left(r) = Left(req[p]) \ {s}
  BY <1>2, DoneProgram DEF Kin
<1>4. Go(p, r)  BY DEF Proceed
<1>5. ReqRefs(r) = ReqRefs(req[p])  BY <1>2, <1>3, SilentRefs DEF Kin
<1>6. CachedAll' \subseteq CachedAll  BY DEF CachedAll
<1>7. Reading(p, r)  BY <1>2, <1>5, <1>6 DEF Reading
<1> QED  BY <1>1, <1>2, <1>3, <1>4, <1>7, QuietKeeps

\* A transaction sees one row with an id.
LEMMA VisUnique ==
    ASSUME Inv, NEW p \in Slots
    PROVE  UniqueIds(Vis(req[p]))
<1>1. UniqueIds(db) /\ Locked(req[p])  BY DEF Inv, IdInv
<1>2. ASSUME NEW x \in Vis(req[p]), NEW y \in Vis(req[p]), x.id = y.id
      PROVE  x = y
  <2>1. CASE x \in db /\ x.id \notin req[p].del
    <3>1. CASE y \in db  BY <1>1, <1>2, <2>1, <3>1 DEF UniqueIds
    <3>2. CASE y \in req[p].add  BY <1>1, <1>2, <2>1, <3>2 DEF Locked, Ids
    <3> QED  BY <1>2, <3>1, <3>2 DEF Vis
  <2>2. CASE x \in req[p].add
    <3>1. CASE y \in db /\ y.id \notin req[p].del
      BY <1>1, <1>2, <2>2, <3>1 DEF Locked, Ids
    <3>2. CASE y \in req[p].add  BY <1>1, <1>2, <2>2, <3>2 DEF Locked, UniqueIds
    <3> QED  BY <1>2, <3>1, <3>2 DEF Vis
  <2> QED  BY <1>2, <2>1, <2>2 DEF Vis
<1> QED  BY <1>2 DEF UniqueIds

\* Redis holds no other record for a row that a transaction sees.
LEMMA VisTold ==
    ASSUME Inv, NEW p \in Slots, NEW x \in Vis(req[p]), NEW r,
           Left(req[p]) \cap Telling \subseteq Left(r)
    PROVE  Told(r, x)
<1>1. OwnedInv  BY DEF Inv
<1>2. CASE x \in db
  BY <1>1, <1>2 DEF OwnedInv, RecordOwned, Told, RecordOf, Table
<1>3. CASE x \in req[p].add
  <2>1. Told(req[p], x)  BY <1>1, <1>3 DEF OwnedInv
  <2> QED  BY <2>1 DEF Told, Telling
<1> QED  BY <1>2, <1>3 DEF Vis

\* What is left after a statement.
LEMMA StatementTurn ==
    ASSUME Inv, NEW p \in Slots, NEW st, At(p, st), NEW s \in Request, Kin(s, req[p]),
           s.steps = req[p].steps, s.kind = req[p].kind, s.name = req[p].name,
           NEW new \in SUBSET Row, NEW old, NEW r, r = After(s, new, old)
    PROVE  /\ Follows(r, s, new, old) /\ Program(r) /\ Left(r) = Left(req[p]) \ {st}
           /\ Tail(s.steps) \in Seq(StepNames)
<1>1. Tail(s.steps) \in Seq(StepNames)  BY Turn
<1>2. StoreInv  BY DEF Inv
<1>3. Follows(r, s, new, old)  BY <1>1, <1>2, AfterIs
<1>4. /\ r.op = req[p].op /\ r.kind = req[p].kind /\ r.txn = req[p].txn
      /\ r.name = req[p].name /\ r.steps = Tail(req[p].steps)
  BY <1>3 DEF Follows, Kin
<1>5. Program(r) /\ Left(r) = Left(req[p]) \ {st}  BY <1>4, DoneProgram
<1> QED  BY <1>1, <1>3, <1>5

\* A statement without a transaction.
LEMMA LooseKeeps ==
    ASSUME Inv, NEW p \in Slots, NEW st, At(p, st), Silent(st), ~req[p].txn,
           NEW red, red = redis \/ \E u : red = Uncached(u),
           NEW new, NEW old, Statement(p, new, old, req[p], red), UNCHANGED <<todo, bare>>,
           Writable(p, new, old), Novel(new), Loose(new, old), Staying(new, old),
           NEW r, r = After(req[p], new, old), Shape(r)
    PROVE  Inv'
<1>1. /\ req[p] \in Request /\ Active(p)  BY Turn
<1>2. Kin(req[p], req[p]) /\ new \in SUBSET Row  BY DEF Kin, Writable
<1>3. /\ Follows(r, req[p], new, old) /\ Program(r) /\ Left(r) = Left(req[p]) \ {st}
      /\ Tail(req[p].steps) \in Seq(StepNames)
  BY <1>1, <1>2, StatementTurn, SMTT(40)
<1>4. ReqRefs(r) \subseteq {NewId(p), SecondId(p)} \cup ReqRefs(req[p])
  <2>1. r.op = req[p].op /\ r.user = req[p].user /\ r.device = req[p].device
    BY <1>3 DEF Follows
  <2> QED  BY <2>1, <1>3, SilentRefs
<1>5. Fitting(p, new)  BY DEF Fitting, Loose, Typed
<1>6. ~Writes(p, r, new, old)  BY DEF Writes
<1>7. /\ req[p].txn => /\ Left(req[p]) \cap Telling \subseteq Left(r)
                       /\ \A x \in new : Told(r, x)
      /\ Writes(p, r, new, old) => Jointly(r) /\ Leaving(r)
      /\ ~req[p].txn => Loose(new, old) /\ Staying(new, old)
  BY <1>6
<1> QED  BY <1>1, <1>2, <1>3, <1>4, <1>5, <1>7, StatementKeeps

\* A statement of a transaction that takes away no row of a device and no
\* default group.
LEMMA PlainKeeps ==
    ASSUME Inv, NEW p \in Slots, NEW st, At(p, st), st \notin Telling, req[p].txn,
           req[p].op # "delete_user",
           NEW s \in Request, Kin(s, req[p]), s.seen = req[p].seen, s.steps = req[p].steps,
           s.kind = req[p].kind, s.name = req[p].name,
           NEW red, red = redis \/ \E u : red = Uncached(u),
           NEW new, NEW old, Statement(p, new, old, s, red), UNCHANGED <<todo, bare>>,
           Writable(p, new, old), Fitting(p, new), Novel(new),
           Plain(new, old), Staying(new, old),
           NEW r, r = After(s, new, old), Shape(r),
           ReqRefs(r) \subseteq {NewId(p), SecondId(p)} \cup ReqRefs(req[p]),
           \A x \in new : Told(r, x)
    PROVE  Inv'
<1>1. /\ req[p] \in Request /\ Active(p)  BY Turn
<1>2. new \in SUBSET Row  BY DEF Writable
<1>3. /\ Follows(r, s, new, old) /\ Program(r) /\ Left(r) = Left(req[p]) \ {st}
      /\ Tail(s.steps) \in Seq(StepNames)
  <2>1. Inv /\ At(p, st) /\ Kin(s, req[p]) /\ r = After(s, new, old)  OBVIOUS
  <2> QED  BY <1>2, <2>1, StatementTurn
<1>4. ASSUME Writes(p, r, new, old) PROVE Jointly(r) /\ Leaving(r)
  <2>1. /\ StoreInv /\ NumberInv /\ ApartInv /\ IdInv /\ CompatInv /\ JointInv
        /\ DefaultInv
    BY DEF Inv
  <2>2. Jointly(r)  BY <1>4, <2>1, PlainJoint
  <2>3. Leaving(r)  BY <1>4, <2>1, PlainLeaving
  <2> QED  BY <2>2, <2>3
<1>5. /\ req[p].txn => /\ Left(req[p]) \cap Telling \subseteq Left(r)
                       /\ \A x \in new : Told(r, x)
      /\ Writes(p, r, new, old) => Jointly(r) /\ Leaving(r)
      /\ ~req[p].txn => Loose(new, old) /\ Staying(new, old)
  BY <1>3, <1>4
<1> QED  BY <1>1, <1>2, <1>3, <1>5, StatementKeeps

\* Deleting rows writes none.
LEMMA NoRows ==
    ASSUME NEW p \in Slots, NEW old
    PROVE  /\ Writable(p, {}, old) /\ Fitting(p, {}) /\ Novel({})
           /\ \A r : \A x \in {} : Told(r, x)
BY FS_EmptySet DEF Writable, Fitting, Novel, UniqueIds, UniqueKeys

\* The rows a DELETE takes away, by their ids.
LEMMA Erased ==
    ASSUME Inv, NEW p \in Slots, NEW rows, rows \subseteq Vis(req[p]),
           NEW x \in Vis(req[p]) \cup db, x.id \in Ids(rows)
    PROVE  \E v \in rows : /\ v.id = x.id /\ v.t = x.t
                           /\ x.t \notin {"nodes", "devices", "links"} => x = v
                           /\ x.t \in Typed \cup {"authority"} => x.device = v.device
<1>1. PICK v \in rows : v.id = x.id  BY DEF Ids
<1>2. StoreInv /\ CompatInv  BY DEF Inv
<1>3. x \in Everywhere /\ v \in Everywhere  BY <1>2, Places
<1> QED  BY <1>1, <1>2, <1>3, SameId

\* The levels, one by one.
LEMMA Levels ==
    /\ \A s \in {"address", "blue_find", "delete_find", "modify_find",
              "edit_find", "load_groups", "erase_group", "new_group",
              "login_find", "refresh_find", "find_name", "mail_find",
              "valid_code", "new_script", "edit_script", "count_devices",
              "new_integration", "drop_integration", "set_info"} : Level(s) =
              1
    /\ \A s \in {"check", "blue_update", "unlink_all", "script",
              "look_default", "find_user", "new_user", "mail_count", "tokens",
              "set_password", "drop_script"} : Level(s) = 2
    /\ \A s \in {"device", "locate", "uncache", "mail_sent", "session",
              "new_user_group", "drop_scripts"} : Level(s) = 3
    /\ \A s \in {"node", "gate", "mqtt", "snap", "exists", "find_type",
              "unlink", "read_groups", "mail_code", "collect"} : Level(s) = 4
    /\ \A s \in {"del_eui", "del_gate", "del_snap", "hset", "save_groups",
              "drop_devices"} : Level(s) = 5
    /\ \A s \in {"del_addr", "modify_rows", "drop_tokens"} : Level(s) = 6
    /\ \A s \in {"set_eui", "drop_groups"} : Level(s) = 7
    /\ \A s \in {"set_addr", "set_gate", "set_snap", "drop_links"} : Level(s)
              = 8
    /\ \A s \in {"default", "drop_user"} : Level(s) = 9
    /\ \A s \in {"find_default"} : Level(s) = 10
    /\ \A s \in {"link_default"} : Level(s) = 11
    /\ \A s \in {"link"} : Level(s) = 12
    /\ \A s \in {"edit_row", "delete_rows", "rank"} : Level(s) = 13
    /\ \A s \in {"reorder"} : Level(s) = 14
    /\ \A s \in {"commit", "device_commit"} : Level(s) = 15
<1>1. ASSUME NEW s \in {"address", "blue_find", "delete_find", "modify_find",
                "edit_find", "load_groups", "erase_group", "new_group",
                "login_find", "refresh_find", "find_name", "mail_find",
                "valid_code", "new_script", "edit_script", "count_devices",
                "new_integration", "drop_integration", "set_info"} PROVE
                Level(s) = 1
  BY DEF Level
<1>2. ASSUME NEW s \in {"check", "blue_update", "unlink_all", "script",
                "look_default", "find_user", "new_user", "mail_count",
                "tokens", "set_password", "drop_script"} PROVE Level(s) = 2
  BY DEF Level
<1>3. ASSUME NEW s \in {"device", "locate", "uncache", "mail_sent", "session",
                "new_user_group", "drop_scripts"} PROVE Level(s) = 3
  BY DEF Level
<1>4. ASSUME NEW s \in {"node", "gate", "mqtt", "snap", "exists", "find_type",
                "unlink", "read_groups", "mail_code", "collect"} PROVE
                Level(s) = 4
  BY DEF Level
<1>5. ASSUME NEW s \in {"del_eui", "del_gate", "del_snap", "hset",
                "save_groups", "drop_devices"} PROVE Level(s) = 5
  BY DEF Level
<1>6. ASSUME NEW s \in {"del_addr", "modify_rows", "drop_tokens"} PROVE
                Level(s) = 6
  BY DEF Level
<1>7. ASSUME NEW s \in {"set_eui", "drop_groups"} PROVE Level(s) = 7
  BY DEF Level
<1>8. ASSUME NEW s \in {"set_addr", "set_gate", "set_snap", "drop_links"}
                PROVE Level(s) = 8
  BY DEF Level
<1>9. ASSUME NEW s \in {"default", "drop_user"} PROVE Level(s) = 9
  BY DEF Level
<1>10. ASSUME NEW s \in {"find_default"} PROVE Level(s) = 10
  BY DEF Level
<1>11. ASSUME NEW s \in {"link_default"} PROVE Level(s) = 11
  BY DEF Level
<1>12. ASSUME NEW s \in {"link"} PROVE Level(s) = 12
  BY DEF Level
<1>13. ASSUME NEW s \in {"edit_row", "delete_rows", "rank"} PROVE Level(s) =
                13
  BY DEF Level
<1>14. ASSUME NEW s \in {"reorder"} PROVE Level(s) = 14
  BY DEF Level
<1>15. ASSUME NEW s \in {"commit", "device_commit"} PROVE Level(s) = 15
  BY DEF Level
<1> QED  BY <1>1, <1>2, <1>3, <1>4, <1>5, <1>6, <1>7, <1>8, <1>9, <1>10, <1>11, <1>12, <1>13, <1>14, <1>15

\* A request after a statement, and what it has left.
LEMMA OwnTurn ==
    ASSUME Inv, NEW p \in Slots, NEW st, At(p, st),
           NEW new \in SUBSET Row, NEW old, NEW r, r = After(req[p], new, old)
    PROVE  /\ Follows(r, req[p], new, old) /\ Program(r)
           /\ Left(r) = Left(req[p]) \ {st} /\ Tail(req[p].steps) \in Seq(StepNames)
<1>1. req[p] \in Request  BY Turn
<1>2. PICK s \in Request : s = req[p]  BY <1>1
<1>3. /\ Kin(s, req[p]) /\ s.steps = req[p].steps /\ s.kind = req[p].kind
      /\ s.name = req[p].name /\ r = After(s, new, old)
  BY <1>2 DEF Kin
<1>4. /\ Follows(r, s, new, old) /\ Program(r) /\ Left(r) = Left(req[p]) \ {st}
      /\ Tail(s.steps) \in Seq(StepNames)
  BY <1>3, StatementTurn
<1> QED  BY <1>2, <1>4

\* UPDATE of a row that the request sees.
LEMMA UpdateKeeps ==
    ASSUME Inv, NEW p \in Slots, NEW st, At(p, st), Silent(st), st \notin Telling,
           NEW v \in Vis(req[p]), NEW x \in Row, Fixed(x) = Fixed(v), Update(p, x),
           UNCHANGED <<todo, bare>>, req[p].op # "delete_user",
           x = v \/ x.t # "nodes" \/ "set_addr" \in Left(req[p]),
           x.t \in Typed \cup {"authority", "devices"} => req[p].txn,
           NEW r, r = After(req[p], {x}, {x.id}), Shape(r)
    PROVE  Inv'
<1>1. /\ StoreInv /\ NumberInv /\ ApartInv /\ IdInv /\ CompatInv
  BY DEF Inv
<1>2. req[p] \in Request /\ Active(p)  BY Turn
<1>3. v \in Everywhere /\ v \in Row  BY <1>1, Places
<1>4. /\ x.t = v.t /\ x.id = v.id
      /\ x.t = "devices" => x.kind = v.kind /\ x.eui = v.eui
      /\ x.t \notin {"nodes", "devices", "links"} => x = v
  BY <1>3, FixedSame
<1>5. Kin(req[p], req[p]) /\ {x} \in SUBSET Row  BY DEF Kin
<1>6. /\ Follows(r, req[p], {x}, {x.id}) /\ Program(r)
      /\ Left(r) = Left(req[p]) \ {st} /\ Tail(req[p].steps) \in Seq(StepNames)
  <2>1. PICK new, old : new = {x} /\ old = {x.id}  OBVIOUS
  <2>2. new \in SUBSET Row /\ r = After(req[p], new, old)  BY <2>1
  <2>3. /\ Follows(r, req[p], new, old) /\ Program(r)
        /\ Left(r) = Left(req[p]) \ {st} /\ Tail(req[p].steps) \in Seq(StepNames)
    BY <2>2, OwnTurn
  <2> QED  BY <2>1, <2>3
<1>7. /\ r.no = req[p].no /\ r.made = req[p].made + 2 /\ r.op = req[p].op
      /\ r.user = req[p].user /\ r.device = req[p].device
  BY <1>6 DEF Follows
<1>8. ~Created(p, x)
  <2>1. v.id \in Refs(v)  BY DEF Refs
  <2>2. v.id \notin {NewId(p), SecondId(p)}  BY <1>1, <1>2, <1>3, <1>7, <2>1, NewIds
  <2> QED  BY <1>4, <2>2 DEF Created
<1>9. Writable(p, {x}, {x.id})
  <2>1. IsFiniteSet({x})  BY FS_Singleton
  <2>2. UniqueIds({x}) /\ UniqueKeys({x})  BY DEF UniqueIds, UniqueKeys
  <2>3. Changed(p, {x.id}, x)  BY DEF Changed
  <2> QED  BY <1>5, <2>1, <2>2, <2>3 DEF Writable
<1>10. Fitting(p, {x})  BY <1>8 DEF Fitting
<1>11. Novel({x})  BY <1>3, <1>4 DEF Novel
<1>12. Plain({x}, {x.id}) /\ Staying({x}, {x.id})  BY DEF Plain, Staying, Ids
<1>13. ReqRefs(r) = ReqRefs(req[p])  BY <1>6, <1>7, SilentRefs
<1>14. CASE ~\E y \in View(p) : y.id = x.id
  <2>1. Fail(p)  BY <1>14 DEF Update
  <2> QED  BY <1>2, <2>1, FailKeeps
<1>15. CASE Statement(p, {x}, {x.id}, req[p], redis)
  <2>1. CASE req[p].txn
    <3>1. ASSUME NEW y \in {x} PROVE Told(r, y)
      <4>1. Left(req[p]) \cap Telling \subseteq Left(r)  BY <1>6
      <4>2. Told(r, v)  BY <4>1, VisTold
      <4>3. "set_addr" \in Left(req[p]) => "set_addr" \in Left(r)
        BY <4>1 DEF Telling
      <4> QED  BY <1>4, <4>2, <4>3 DEF Told
    <3>2. ReqRefs(r) \subseteq {NewId(p), SecondId(p)} \cup ReqRefs(req[p])
      BY <1>13
    <3>3. PICK new, old : new = {x} /\ old = {x.id}  OBVIOUS
    <3>4. /\ Writable(p, new, old) /\ Fitting(p, new) /\ Novel(new) /\ Plain(new, old)
          /\ Staying(new, old) /\ r = After(req[p], new, old)
          /\ Statement(p, new, old, req[p], redis) /\ \A y \in new : Told(r, y)
      BY <1>9, <1>10, <1>11, <1>12, <1>15, <3>1, <3>3
    <3> QED  BY <1>2, <1>5, <2>1, <3>2, <3>4, PlainKeeps
  <2>2. CASE ~req[p].txn
    <3>1. x.t = "users" => x \in db
      BY <1>1, <1>4, <2>2 DEF IdInv, Locked, Vis
    <3>2. ASSUME NEW y \in db, y.id \in {x.id}
          PROVE  y.t \notin Typed \cup {"authority", "devices"}
      <4>1. y \in Everywhere /\ y.id = v.id  BY <1>1, <1>4, <3>2, Places
      <4>2. y.t = v.t  BY <1>1, <1>3, <4>1, SameId
      <4> QED  BY <1>4, <2>2, <4>2
    <3>3. Loose({x}, {x.id})  BY <2>2, <3>1, <3>2 DEF Loose
    <3> QED  BY <1>9, <1>11, <1>12, <1>15, <2>2, <3>3, LooseKeeps
  <2> QED  BY <2>1, <2>2
<1> QED  BY <1>14, <1>15 DEF Update

\* A step that reads: what is left after it.
LEMMA DoneTurn ==
    ASSUME Inv, NEW p \in Slots, NEW st, At(p, st), NEW s \in Request, Kin(s, req[p]),
           s.steps = req[p].steps, s.kind = req[p].kind, s.name = req[p].name,
           NEW r, r = Done(s)
    PROVE  /\ r \in Request /\ Program(r) /\ Left(r) = Left(req[p]) \ {st}
           /\ Kin(r, req[p]) /\ r.user = s.user /\ r.device = s.device /\ r.seen = s.seen
           /\ r.kind = s.kind /\ r.eui = s.eui /\ r.dev_eui = s.dev_eui /\ r.addr = s.addr
           /\ r.groups = s.groups /\ r.steps = Tail(req[p].steps)
<1>1. Tail(s.steps) \in Seq(StepNames)  BY Turn
<1>2. /\ r \in Request /\ r.steps = Tail(req[p].steps) /\ r.no = s.no /\ r.op = s.op
      /\ r.user = s.user /\ r.name = s.name /\ r.kind = s.kind /\ r.eui = s.eui
      /\ r.dev_eui = s.dev_eui /\ r.addr = s.addr /\ r.device = s.device
      /\ r.groups = s.groups /\ r.txn = s.txn /\ r.add = s.add /\ r.del = s.del
      /\ r.seen = s.seen /\ r.made = s.made
  BY <1>1, DoneIs
<1>3. Kin(r, req[p])  BY <1>2 DEF Kin
<1>4. Program(r) /\ Left(r) = Left(req[p]) \ {st}
  BY <1>2, <1>3, DoneProgram DEF Kin
<1> QED  BY <1>2, <1>3, <1>4

\* A handler without a transaction that reads goes on as it should.
LEMMA ReadTurn ==
    ASSUME Inv, NEW p \in Slots, NEW st, At(p, st), st \notin Telling,
           NEW s \in Request, Kin(s, req[p]),
           s.steps = req[p].steps, s.kind = req[p].kind, s.name = req[p].name,
           NEW r, r = Done(s), Go(p, r), UNCHANGED <<db, redis, todo, bare>>, Shape(r),
           s.seen \subseteq Vis(req[p]) \cup req[p].seen,
           ReqRefs(r) \subseteq ReqRefs(req[p]) \cup Ids(Vis(req[p])),
           req[p].op = "delete_user" => "drop_groups" \in Left(req[p])
    PROVE  Inv'
<1>1. Active(p)  BY Turn
<1>2. /\ r \in Request /\ Program(r) /\ Left(r) = Left(req[p]) \ {st}
      /\ Kin(r, req[p]) /\ r.seen = s.seen
  BY DoneTurn
<1>3. Left(req[p]) \cap Telling \subseteq Left(r)  BY <1>2
<1>4. r.seen \subseteq Vis(req[p]) \cup req[p].seen  BY <1>2
<1> QED  BY <1>1, <1>2, <1>3, <1>4, ReadKeeps

\* Handlers without a transaction and without rows to relate.
FreeOps == Ops \ ({"create", "rebind", "delete", "modify", "signup", "delete_user",
                   "get_group", "get_all", "top"} \cup EditOps)

\* Handlers that have read nothing that matters have no shape to keep.
LEMMA FreeShape ==
    ASSUME NEW r, r.op \in FreeOps
    PROVE  Shape(r) /\ r.op # "delete_user"
BY ShapeFor DEF FreeOps

\* They and those that read have no transaction.
LEMMA FreeTxn ==
    ASSUME Inv, NEW p \in Slots, Active(p)
    PROVE  req[p].op \in FreeOps \cup {"get_group", "get_all", "top"} => ~req[p].txn
<1>1. req[p] \in Request /\ Program(req[p])  BY DEF Inv, StoreInv, ProgramInv
<1> QED  BY <1>1 DEF Program, Transacted, FreeOps, EditOps

\* The names a table's rows go by.
LEMMA RowsSeen ==
    ASSUME NEW p \in Slots, NEW t
    PROVE  /\ Rows(p, t) = {x \in Vis(req[p]) : x.t = t}
           /\ View(p) = Vis(req[p])
BY DEF Rows, Table, View, Vis

=============================================================================

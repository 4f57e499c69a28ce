------------------------------ MODULE SnapApi ------------------------------
(***************************************************************************)
(* The HTTP service as a whole: requests arrive, their handlers interleave *)
(* with each other on Postgres and redis, and are answered, refused or     *)
(* given up.                                                               *)
(***************************************************************************)
EXTENDS ApiDevice, ApiGroup, ApiUser

CONSTANTS Start,     \* the rows at the start
          Scenarios  \* the sets of requests clients may send

-----------------------------------------------------------------------------
(* What a database holds between two requests, and what a client may send. *)

DefaultsOf(rows, u) == {g \in Table(rows, "groups") : g.user = u /\ g.default}

\* A device has the row of its type and an authority of its owner; a node and
\* a gateway have their device.
Whole(rows) ==
    /\ \A d \in Table(rows, "devices") :
          /\ \E r \in Table(rows, TypeTable(d.kind)) : r.device = d.id
          /\ \E a \in Table(rows, "authority") : a.device = d.id /\ a.user = d.user
    /\ \A r \in Table(rows, "nodes") \cup Table(rows, "gates") :
          \E d \in Table(rows, "devices") : d.id = r.device

TypeTables == {"nodes", "gates", "mqtts", "snaps"}

ASSUME StartAssumption ==
    /\ Start \subseteq Row /\ IsFiniteSet(Start)
    /\ \A x \in Start : \A f \in {"id", "user", "device"} \cap DOMAIN x :
          x[f] \in 1 .. Stride - 1
    /\ \A x, y \in Start : x.id = y.id \/ Keys(x) \cap Keys(y) # {} => x = y
    /\ \A x, y \in Start : x.t \in TypeTables /\ y.t = "devices" /\ x.device = y.id
                             => x.t = TypeTable(y.kind)
    /\ \A x \in Table(Start, "gates") \cup Table(Start, "snaps") :
          \E d \in Table(Start, "devices") : d.id = x.device /\ d.eui = x.eui
    /\ Whole(Start)
    /\ \A u \in Table(Start, "users") : \E g \in Start : DefaultsOf(Start, u.id) = {g}

Sendable(r) ==
    /\ r \in Request
    /\ r.no \in 1 .. Stride - 1 /\ r.op \in Ops /\ r.name \in Names
    /\ r = [r EXCEPT !.txn = FALSE, !.steps = <<>>, !.add = {}, !.del = {}, !.seen = {},
                     !.made = 0]
    /\ r.op = "create" => /\ r.kind \in Kinds \ {"LoRaNode"}
                          /\ {r.eui, r.dev_eui} \subseteq Euis
                          /\ r.kind \in {"ABP", "Bluetooth"} => r.addr \in Addrs
    /\ r.op = "rebind" => r.dev_eui \in Euis /\ r.addr \in Addrs

ASSUME ScenarioAssumption ==
    \A s \in Scenarios : /\ \A r \in s : Sendable(r)
                          /\ \A r1, r2 \in s : r1.no = r2.no => r1 = r2

-----------------------------------------------------------------------------
(* The routes, by the file of their handlers: what a request's handler does. *)

DeviceHandler(r) ==
    CASE r.op = "create" -> CreateSteps(r.kind) \o Linking
      [] r.op = "rebind" -> RebindSteps \o Linking
      [] r.op = "delete" -> DeleteDeviceSteps
      [] r.op = "modify" -> ModifySteps(r.kind)

GroupHandlers ==
    [new_group |-> <<"new_group", "uncache">>,
     edit_link |-> <<"edit_find", "link", "edit_row", "commit">>,
     edit_unlink |-> <<"edit_find", "uncache", "unlink", "edit_row", "commit">>,
     erase_group |-> <<"erase_group", "commit">>,
     unlink |-> <<"uncache", "unlink">>,
     get_group |-> <<"load_groups", "read_groups", "save_groups">>,
     get_all |-> <<"load_groups", "look_default", "uncache", "read_groups",
                   "save_groups">>]

OrderHandler(r) == IF r.group = None THEN <<"default", "rank", "reorder">>
                   ELSE <<"rank", "reorder">>

TokenHandlers == [login |-> <<"login_find", "tokens", "session">>,
                  refresh |-> <<"refresh_find", "tokens", "session">>]

SignupHandlers ==
    [signup |-> <<"find_name", "new_user", "new_user_group", "commit">>,
     mail |-> <<"mail_find", "mail_count", "mail_sent", "mail_code">>,
     password |-> <<"valid_code", "set_password">>]

DeleteHandlers == [delete_user |-> <<"valid_code", "find_user">> \o DeleteUserSteps]

ScriptHandlers == [new_script |-> <<"new_script">>, edit_script |-> <<"edit_script">>,
                   drop_script |-> <<"count_devices", "drop_script">>]

AccountHandlers == [new_integration |-> <<"new_integration">>,
                    drop_integration |-> <<"drop_integration">>]

Handler(r) ==
    CASE r.op \in DOMAIN GroupHandlers -> GroupHandlers[r.op]
      [] r.op = "top" -> OrderHandler(r)
      [] r.op \in DOMAIN TokenHandlers -> TokenHandlers[r.op]
      [] r.op \in DOMAIN SignupHandlers -> SignupHandlers[r.op]
      [] r.op \in DOMAIN DeleteHandlers -> DeleteHandlers[r.op]
      [] r.op \in DOMAIN ScriptHandlers -> ScriptHandlers[r.op]
      [] r.op \in DOMAIN AccountHandlers -> AccountHandlers[r.op]
      [] r.op = "info" -> <<"set_info">>
      [] OTHER -> DeviceHandler(r)

\* Handlers whose statements are one transaction.
Transacted == {"create", "rebind", "delete", "modify", "edit_link", "edit_unlink",
               "erase_group", "signup", "delete_user"}

\* The routes outside the session middleware; the others need a session.
Open == {"signup", "login", "refresh", "mail", "password", "delete_user"}

Authorized(r) == r.op \in Open \/ r.user \in redis.session

-----------------------------------------------------------------------------
\* What the handlers have written to redis for the rows at the start.
RedisOf(rows) ==
    LET owner(t, f, k) == {r \in Table(rows, t) : r[f] = k}
        of(t, f, k, g) == IF owner(t, f, k) = {} THEN None
                          ELSE (CHOOSE r \in owner(t, f, k) : TRUE)[g]
    IN [node |-> [a \in Addrs |-> of("nodes", "dev_addr", a, "device")],
        eui |-> [e \in Euis |-> of("nodes", "dev_eui", e, "dev_addr")],
        gate |-> [e \in Euis |-> of("gates", "eui", e, "device")],
        snap |-> [e \in Euis |-> of("snaps", "eui", e, "device")],
        groups |-> {},
        session |-> {k.user : k \in Table(rows, "tokens")},
        code |-> {u.name : u \in Table(rows, "users")},
        sent |-> [n \in Names |-> 0]]

Init ==
    /\ db = Start
    /\ redis = RedisOf(Start)
    /\ req = [p \in Slots |-> Blank]
    /\ waits = [p \in Slots |-> {}]
    /\ todo \in Scenarios
    /\ bare = {}

\* A request is taken by a slot that is free; without a session it is refused.
Arrive(r) ==
    /\ todo' = todo \ {r}
    /\ IF Authorized(r)
       THEN \E p \in Slots :
               /\ ~Active(p)
               /\ \A q \in Slots : q < p => Active(q)
               /\ req' = [req EXCEPT ![p] = [r EXCEPT !.steps = Handler(r),
                                                      !.txn = r.op \in Transacted]]
       ELSE UNCHANGED req
    /\ UNCHANGED <<db, redis, waits, bare>>

\* Keys of redis whose time is up.
Expire ==
    /\ \/ \E u \in redis.session : redis' = [redis EXCEPT !.session = @ \ {u}]
       \/ \E n \in redis.code : redis' = [redis EXCEPT !.code = @ \ {n}]
       \/ \E n \in Names : /\ redis.sent[n] # 0
                           /\ redis' = [redis EXCEPT !.sent[n] = 0]
    /\ UNCHANGED <<db, req, waits, todo, bare>>

Step(p) == Commit(p) \/ Uncache(p) \/ DeviceStep(p) \/ GroupStep(p) \/ UserStep(p)

Next ==
    \/ \E r \in todo : Arrive(r)
    \/ \E p \in Slots : Step(p) \/ Deadlock(p) \/ Abort(p)
    \/ Expire

Spec == Init /\ [][Next]_apiVars

-----------------------------------------------------------------------------
TypeOK ==
    /\ db \subseteq Row
    /\ req \in [Slots -> Request]
    /\ redis.node \in [Addrs -> Nat \cup {Partial}]
    /\ redis.eui \in [Euis -> Addrs \cup {None}]
    /\ redis.sent \in [Names -> 0..MaxCount]
    /\ Cardinality(Ids(db)) = Cardinality(db)
    /\ \A p \in Slots : /\ waits[p] \subseteq Slots \ {p}
                        /\ req[p].del \subseteq Ids(db)
                        /\ Ids(req[p].add) \cap Ids(db) \subseteq req[p].del

\* The record redis holds at the address of a committed node is that node's,
\* and so are the keys of gateways and Snap devices: whatever handlers race,
\* abort or are answered late, frames are not booked on another device.  It
\* rests on register_to_redis running after the INSERT and before the commit,
\* while the unique indexes on dev_addr and eui keep others out; a Bluetooth
\* update that changes nothing runs without that lock.
RecordOwned ==
    /\ \A n \in Table(db, "nodes") :
          n.dev_addr \in bare \/ redis.node[n.dev_addr] \in {None, Partial, n.device}
    /\ \A d \in Table(db, "devices") :
          /\ d.kind = "Gateway" => redis.gate[d.eui] \in {None, d.id}
          /\ d.kind = "Snap" => redis.snap[d.eui] \in {None, d.id}

\* A committed device has the row of its type and an authority of its owner,
\* and a node or a gateway has its device: the device handlers, the deletion
\* of a user and the deadlocks between them leave no half of a device.
StoredWhole == Whole(db)

\* A user has exactly one default group, and a cached list names no other:
\* new devices are linked to the cached one without looking at the table.
OneDefault ==
    \A u \in Table(db, "users") :
        /\ Cardinality(DefaultsOf(db, u.id)) = 1
        /\ {g \in CachedRows(u.id) : g.default} \subseteq DefaultsOf(db, u.id)

=============================================================================

------------------------------ MODULE ApiStore ------------------------------
(***************************************************************************)
(* What the requests of the HTTP service (src/snap_api) share: the tables  *)
(* in Postgres, the keys in redis, and the request handlers in progress.   *)
(* A table is the set of the rows of db with its name in field t.  The     *)
(* requests run as independent tasks, each on connections of its own, so   *)
(* the handlers interleave at every await.                                 *)
(*                                                                         *)
(* Postgres is external: transactions are READ COMMITTED, a statement that *)
(* meets a row or a unique key another open transaction has written waits  *)
(* for that transaction, and a cycle of waits is broken by aborting one.   *)
(***************************************************************************)
EXTENDS Integers, FiniteSets, Sequences

CONSTANTS Slots,       \* the requests the service can have in progress
          Names,       \* login names; each stands for the e-mail address too
          Euis, Addrs, \* device EUIs and LoRa addresses
          MaxCount,    \* mails to one address before it is refused
          Stride       \* above every id at the start and every request's number

None == 0              \* a key redis does not hold
Partial == -1          \* a record HSET made anew: its other fields are missing

ASSUME ApiAssumption == /\ MaxCount \in Nat \ {0} /\ Stride \in Nat \ {0}
                        /\ Addrs \cup Euis \subseteq Nat \ {None}

\* With two requests in progress a cycle of waits is two that wait for each
\* other, which is what Deadlock looks for.  The theorems do not use it: as a
\* handler may fail at any await, they hold whichever cycles are looked for.
ASSUME TwoSlots == Cardinality(Slots) = 2

VARIABLES db,      \* committed rows
          redis,   \* node, eui, gate, snap, groups, session, code, sent
          req,     \* the request in each slot
          waits,   \* the requests whose transactions it waits for
          todo,    \* the requests clients have still to send
          bare     \* history: addresses registered with no row lock held

apiVars == <<db, redis, req, waits, todo, bare>>

-----------------------------------------------------------------------------
(* Rows.  A row keeps the columns the handlers look at. *)

UserRow(i, n) == [t |-> "users", id |-> i, name |-> n]
TokenRow(i, u, k) == [t |-> "tokens", id |-> i, user |-> u, kind |-> k]
GroupRow(i, u, d) == [t |-> "groups", id |-> i, user |-> u, default |-> d]
DeviceRow(i, e, k, u) == [t |-> "devices", id |-> i, eui |-> e, kind |-> k,
                          user |-> u, script |-> None]
IntegrationRow(i, u, k, e) == [t |-> "integration", id |-> i, user |-> u,
                               kind |-> k, eui |-> e]
LinkRow(i, u, d, g) == [t |-> "links", id |-> i, user |-> u, device |-> d,
                        group |-> g, order |-> 0]
GateRow(i, d, e) == [t |-> "gates", id |-> i, device |-> d, eui |-> e]
MqttRow(i, d) == [t |-> "mqtts", id |-> i, device |-> d]
NodeRow(i, d, e, a) == [t |-> "nodes", id |-> i, device |-> d, dev_eui |-> e,
                        dev_addr |-> a]
SnapRow(i, d, e) == [t |-> "snaps", id |-> i, device |-> d, eui |-> e]
AuthorityRow(i, d, u) == [t |-> "authority", id |-> i, device |-> d, user |-> u]
ScriptRow(i, u) == [t |-> "scripts", id |-> i, user |-> u]

\* The rows a database may hold, before anything that relates them.
UserRows == [t : {"users"}, id : Nat, name : Names]
TokenRows == [t : {"tokens"}, id : Nat, user : Nat, kind : {"Access", "Refresh"}]
GroupRows == [t : {"groups"}, id : Nat, user : Nat, default : BOOLEAN]
DeviceRows == [t : {"devices"}, id : Nat, eui : Euis, user : Nat, script : Nat,
               kind : {"LoRaNode", "Gateway", "MQTT", "Snap"}]
IntegrationRows == [t : {"integration"}, id : Nat, user : Nat,
                    kind : {"Gateway", "Integration"}, eui : Euis \cup {None}]
LinkRows == [t : {"links"}, id : Nat, user : Nat, device : Nat, group : Nat, order : Nat]
GateRows == [t : {"gates"}, id : Nat, device : Nat, eui : Euis]
MqttRows == [t : {"mqtts"}, id : Nat, device : Nat]
NodeRows == [t : {"nodes"}, id : Nat, device : Nat, dev_eui : Euis, dev_addr : Addrs]
SnapRows == [t : {"snaps"}, id : Nat, device : Nat, eui : Euis]
AuthorityRows == [t : {"authority"}, id : Nat, device : Nat, user : Nat]
ScriptRows == [t : {"scripts"}, id : Nat, user : Nat]

Row == UserRows \cup TokenRows \cup GroupRows \cup DeviceRows \cup IntegrationRows
       \cup LinkRows \cup GateRows \cup MqttRows \cup NodeRows \cup SnapRows
       \cup AuthorityRows \cup ScriptRows

\* Mutant of Keys: the column dev_addr has no unique index.
KeysSharedAddr(r) ==
    CASE r.t = "users" -> {<<"name", r.name>>}
      [] r.t = "devices" -> {<<"eui", r.eui>>}
      [] r.t = "nodes" -> {<<"node", r.device>>, <<"dev_eui", r.dev_eui>>}
      [] r.t \in {"gates", "mqtts", "snaps"} -> {<<r.t, r.device>>}
      [] OTHER -> {}

\* The unique keys of a row, besides its id.
Keys(r) ==
    CASE r.t = "users" -> {<<"name", r.name>>}
      [] r.t = "devices" -> {<<"eui", r.eui>>}
      [] r.t = "nodes" -> {<<"node", r.device>>, <<"dev_eui", r.dev_eui>>,
                           <<"dev_addr", r.dev_addr>>}
      [] r.t \in {"gates", "mqtts", "snaps"} -> {<<r.t, r.device>>}
      [] OTHER -> {}

KeysOf(rows) == UNION {Keys(r) : r \in rows}
Ids(rows) == {r.id : r \in rows}
Table(rows, t) == {r \in rows : r.t = t}

-----------------------------------------------------------------------------
(* Requests.  txn says whether the statements run in one transaction, whose *)
(* new rows are add and whose replaced or deleted rows are del; steps is    *)
(* what is left of the handler.  device and group are what the request      *)
(* names, groups the groups still to link, seen what was read before.       *)

Blank == [no |-> 0, op |-> "idle", user |-> None, name |-> "", kind |-> "",
          eui |-> None, dev_eui |-> None, addr |-> None, device |-> None,
          group |-> None, groups |-> <<>>, script |-> None,
          txn |-> FALSE, steps |-> <<>>, add |-> {}, del |-> {},
          seen |-> {}, count |-> 0, made |-> 0]

Ops == {"create", "rebind", "delete", "modify", "new_group", "edit_link", "edit_unlink",
        "erase_group", "unlink", "get_group", "get_all", "top", "login", "refresh",
        "signup", "mail", "password", "delete_user", "new_script", "edit_script",
        "drop_script", "new_integration", "drop_integration", "info"}

Kinds == {"LoRaNode", "OTAA", "ABP", "Bluetooth", "Gateway", "MQTT", "Snap"}

StepNames ==
    {"address", "blue_find", "blue_update", "check", "collect", "commit", "count_devices",
     "default", "del_addr", "del_eui", "del_gate", "del_snap", "delete_find",
     "delete_rows", "device", "device_commit", "drop_devices", "drop_groups",
     "drop_integration", "drop_links", "drop_script", "drop_scripts", "drop_tokens",
     "drop_user", "edit_find", "edit_row", "edit_script", "erase_group", "exists",
     "find_default", "find_name", "find_type", "find_user", "gate", "hset", "link",
     "link_default", "load_groups", "locate", "login_find", "look_default",
     "mail_code", "mail_count", "mail_find", "mail_sent", "modify_find", "modify_rows",
     "mqtt", "new_group", "new_integration", "new_script", "new_user",
     "new_user_group", "node", "rank", "read_groups", "refresh_find", "reorder",
     "save_groups", "script", "session", "set_addr", "set_eui", "set_gate", "set_info",
     "set_password", "set_snap", "snap", "tokens", "uncache", "unlink", "unlink_all",
     "valid_code"}

Request ==
    [no : Nat, op : Ops \cup {"idle"}, user : Nat, name : Names \cup {""},
     kind : Kinds \cup {""},
     eui : Euis \cup {None}, dev_eui : Euis \cup {None}, addr : Addrs \cup {None},
     device : Nat, group : Nat, groups : Seq(Nat), script : Nat, txn : BOOLEAN,
     steps : Seq(StepNames), add : SUBSET Row, del : SUBSET Nat, seen : SUBSET Row,
     count : Nat, made : Nat]

Active(p) == req[p].op # "idle"

\* What the statements of p see: committed rows and its own changes.
View(p) == {r \in db : r.id \notin req[p].del} \cup req[p].add
Rows(p, t) == Table(View(p), t)

At(p, s) == /\ req[p].steps # <<>>
            /\ Head(req[p].steps) = s
Done(r) == [r EXCEPT !.steps = Tail(@)]

\* Ids come from a sequence and are never used twice: each request draws from
\* a residue class of its own.  A statement takes two values of it, as many as
\* any needs; made counts what the request has taken.
NewId(p) == req[p].no + Stride * (req[p].made + 1)
SecondId(p) == req[p].no + Stride * (req[p].made + 2)

\* Once p has ended its locks are gone and nobody waits for it.
Freed(p) == [q \in Slots |-> IF q = p THEN {} ELSE waits[q] \ {p}]

\* p goes on as r; after the last step of a handler the answer is sent.
Go(p, r) ==
    /\ req' = [req EXCEPT ![p] = IF r.steps = <<>> THEN Blank ELSE r]
    /\ waits' = IF r.steps = <<>> THEN Freed(p) ELSE [waits EXCEPT ![p] = {}]
Proceed(p) == Go(p, Done(req[p]))

\* The handler returns an error: its transaction is rolled back, what it
\* wrote to redis stays.
Fail(p) == /\ req' = [req EXCEPT ![p] = Blank]
           /\ waits' = Freed(p)
           /\ UNCHANGED <<db, redis>>

Commit(p) ==
    /\ At(p, "commit")
    /\ db' = View(p)
    /\ Proceed(p)
    /\ UNCHANGED <<redis, todo, bare>>

\* The open transactions a statement of p that writes the rows new and
\* replaces or deletes the rows with an id in old has to wait for.
Blockers(p, new, old) ==
    {q \in Slots \ {p} :
        \/ old \cap req[q].del # {}
        \/ KeysOf(new) \cap KeysOf(req[q].add
                                   \cup {r \in db : r.id \in req[q].del}) # {}}

Clash(p, new, old) ==
    KeysOf(new) \cap KeysOf({r \in View(p) : r.id \notin old}) # {}

\* A statement waits, is refused by a unique index, or is done; then p goes
\* on as r and redis holds red.
Statement(p, new, old, r, red) ==
    LET by == Blockers(p, new, old) IN
    \/ /\ by \notin {{}, waits[p]}
       /\ waits' = [waits EXCEPT ![p] = by]
       /\ UNCHANGED <<db, redis, req>>
    \/ /\ by = {}
       /\ Clash(p, new, old)
       /\ Fail(p)
    \/ /\ by = {}
       /\ ~Clash(p, new, old)
       /\ redis' = red
       /\ LET done == [Done(r) EXCEPT !.made = @ + 2] IN
          IF r.txn
          THEN /\ Go(p, [done EXCEPT !.add = {x \in @ : x.id \notin old} \cup new,
                                     !.del = @ \cup (old \cap Ids(db))])
               /\ UNCHANGED db
          ELSE /\ db' = {x \in db : x.id \notin old} \cup new
               /\ Go(p, done)

Insert(p, row) == Statement(p, {row}, {}, req[p], redis)
Delete(p, rows) == Statement(p, {}, Ids(rows), req[p], redis)
\* UPDATE of the row with this id: an error when there is none any more.
Update(p, row) == IF \E r \in View(p) : r.id = row.id
                  THEN Statement(p, {row}, {row.id}, req[p], redis)
                  ELSE Fail(p)

\* A cycle of waits: Postgres cancels the statement of one transaction in it.
InCycle(p) == \E q \in waits[p] : p \in waits[q]

Deadlock(p) ==
    /\ InCycle(p)
    /\ Fail(p)
    /\ UNCHANGED <<todo, bare>>

\* The client goes away or a pool, redis or Postgres fails the handler at an
\* await: the transaction is rolled back, what was written to redis stays.
Abort(p) ==
    /\ Active(p)
    /\ Fail(p)
    /\ UNCHANGED <<todo, bare>>

-----------------------------------------------------------------------------
(* The list of groups cached for a user: absent or the rows read. *)

Cached(u) == {c \in redis.groups : c.user = u}
CachedRows(u) == UNION {c.rows : c \in Cached(u)}
Uncached(u) == [redis EXCEPT !.groups = @ \ Cached(u)]

Uncache(p) ==
    /\ At(p, "uncache")
    /\ redis' = Uncached(req[p].user)
    /\ Proceed(p)
    /\ UNCHANGED <<db, todo, bare>>

\* The device a user has an authority over, as the handlers look it up.
Owned(p, d) == {r \in Rows(p, "devices") :
                   /\ r.id = d
                   /\ \E a \in Rows(p, "authority") :
                         a.device = d /\ a.user = req[p].user}
=============================================================================

----------------------------- MODULE ApiDevice -----------------------------
(***************************************************************************)
(* The device requests: POST, PUT and DELETE of a device.  A device is a   *)
(* row of devices with a row of its type, the links to its groups and an   *)
(* authority of its owner; the LoRa server and the gateways find it        *)
(* through the keys the handlers write to redis before they commit.        *)
(*                                                                         *)
(* One action stands for the awaits up to the next one whose effect        *)
(* another request can see or that can wait.  Inserts without a unique key *)
(* (links, authority) are invisible until the commit and are merged with   *)
(* the step beside them.                                                   *)
(***************************************************************************)
EXTENDS ApiStore

\* The service runs without a directory of predefined devices (DeviceQuery), and
\* a node set up over Bluetooth joins by ABP.

IsNode(k) == k \in {"OTAA", "ABP", "Bluetooth"}

Linking == <<"default", "link_default", "link", "device_commit">>

CreateSteps(k) ==
    CASE k = "OTAA" -> <<"address", "check", "device", "node", "set_eui", "set_addr">>
      [] k = "ABP" -> <<"check", "device", "node", "set_eui", "set_addr">>
      [] k = "Bluetooth" -> <<"check", "device", "node", "set_eui", "set_addr">>
      [] k = "Gateway" -> <<"device", "gate", "set_gate">>
      [] k = "MQTT" -> <<"device", "mqtt">>
      [] k = "Snap" -> <<"device", "snap", "set_snap">>

RebindSteps == <<"blue_find", "blue_update", "del_eui", "del_addr",
                 "set_eui", "set_addr">>

DeleteDeviceSteps == <<"delete_find", "unlink_all", "find_type">>

\* Modifying a node: script # None selects a script, else a column of the
\* node's own row is written.
ModifySteps(k) == IF k = "LoRaNode"
                  THEN <<"modify_find", "script", "locate", "exists", "hset",
                         "modify_rows", "commit">>
                  ELSE <<"modify_find", "modify_rows", "commit">>

TypeOf(k) == IF IsNode(k) THEN "LoRaNode" ELSE k

\* The table of a device's type row.
TypeTable(k) == CASE k = "LoRaNode" -> "nodes" [] k = "Gateway" -> "gates"
                  [] k = "MQTT" -> "mqtts" [] k = "Snap" -> "snaps"
TypeRows(p, d, k) == {r \in Rows(p, TypeTable(k)) : r.device = d}

-----------------------------------------------------------------------------
(* POST /device *)

\* A random address; one that a row holds already ends the request.
Address(p) ==
    /\ At(p, "address")
    /\ \E a \in Addrs :
          IF \E r \in Rows(p, "nodes") : r.dev_addr = a
          THEN Fail(p)
          ELSE /\ Go(p, Done([req[p] EXCEPT !.addr = a]))
               /\ UNCHANGED <<db, redis>>
    /\ UNCHANGED <<todo, bare>>

\* An OTAA node is refused when redis holds its EUI, an ABP node when redis
\* holds its address.
Check(p) ==
    /\ At(p, "check")
    /\ IF IF req[p].kind = "OTAA" THEN redis.eui[req[p].dev_eui] # None
                                  ELSE redis.node[req[p].addr] # None
       THEN Fail(p)
       ELSE Proceed(p) /\ UNCHANGED <<db, redis>>
    /\ UNCHANGED <<todo, bare>>

\* The EUI or address is looked up among the rows too before the INSERT.  The
\* row of a node that is found would fail the INSERT of the node: no other
\* request can tell which of the two statements refused it.
Taken(p) ==
    LET r == req[p] IN
    CASE r.kind = "OTAA" -> \E n \in Rows(p, "nodes") : n.dev_eui = r.dev_eui
      [] r.kind = "ABP" -> \E n \in Rows(p, "nodes") : n.dev_addr = r.addr
      [] r.kind = "Bluetooth" -> \/ \E d \in Rows(p, "devices") : d.eui = r.eui
                                \/ \E n \in Rows(p, "nodes") : n.dev_addr = r.addr
      [] r.kind = "Gateway" -> \E d \in Rows(p, "devices") : d.eui = r.eui
      [] OTHER -> FALSE

Device(p) ==
    /\ At(p, "device")
    /\ LET i == NewId(p) IN
       IF Taken(p)
       THEN Fail(p)
       ELSE Statement(p, {DeviceRow(i, req[p].eui, TypeOf(req[p].kind), req[p].user)},
                      {}, [req[p] EXCEPT !.device = i], redis)
    /\ UNCHANGED <<todo, bare>>

Node(p) ==
    /\ At(p, "node")
    /\ Insert(p, NodeRow(NewId(p), req[p].device, req[p].dev_eui, req[p].addr))
    /\ UNCHANGED <<todo, bare>>

\* The gateway's broker account is a row of its own, without a unique key.
Gate(p) ==
    /\ At(p, "gate")
    /\ LET r == req[p] IN
       Statement(p, {GateRow(NewId(p), r.device, r.eui),
                     IntegrationRow(SecondId(p), r.user, "Gateway", r.eui)},
                 {}, r, redis)
    /\ UNCHANGED <<todo, bare>>

Mqtt(p) ==
    /\ At(p, "mqtt")
    /\ Insert(p, MqttRow(NewId(p), req[p].device))
    /\ UNCHANGED <<todo, bare>>

Snap(p) ==
    /\ At(p, "snap")
    /\ Insert(p, SnapRow(NewId(p), req[p].device, req[p].eui))
    /\ UNCHANGED <<todo, bare>>

\* Keys of redis written or deleted for the device, by the step's name.
Key(p, s, field, key, value) ==
    /\ At(p, s)
    /\ redis' = [redis EXCEPT ![field][key] = value]
    /\ Proceed(p)
    /\ UNCHANGED <<db, todo>>

SetEui(p) == Key(p, "set_eui", "eui", req[p].dev_eui, req[p].addr) /\ UNCHANGED bare
DelEui(p) == Key(p, "del_eui", "eui", req[p].dev_eui, None) /\ UNCHANGED bare
DelAddr(p) == Key(p, "del_addr", "node", req[p].addr, None) /\ UNCHANGED bare
SetGate(p) == Key(p, "set_gate", "gate", req[p].eui, req[p].device) /\ UNCHANGED bare
DelGate(p) == Key(p, "del_gate", "gate", req[p].eui, None) /\ UNCHANGED bare
SetSnap(p) == Key(p, "set_snap", "snap", req[p].eui, req[p].device) /\ UNCHANGED bare
DelSnap(p) == Key(p, "del_snap", "snap", req[p].eui, None) /\ UNCHANGED bare

\* HSET of every field.  The transaction holds the address while it has
\* written the node's row, which a Bluetooth update that changes nothing has not.
SetAddr(p) ==
    /\ Key(p, "set_addr", "node", req[p].addr, req[p].device)
    /\ bare' = IF \E r \in req[p].add : r.t = "nodes" THEN bare
               ELSE bare \cup {req[p].addr}

\* The authority of the owner, then the commit.
DeviceCommit(p) ==
    /\ At(p, "device_commit")
    /\ db' = View(p) \cup {AuthorityRow(NewId(p), req[p].device, req[p].user)}
    /\ Proceed(p)
    /\ UNCHANGED <<redis, todo, bare>>

-----------------------------------------------------------------------------
(* POST /device for a node set up over Bluetooth that exists already *)

BlueFind(p) ==
    /\ At(p, "blue_find")
    /\ LET r == req[p]
           mine == {n \in Rows(p, "nodes") : n.device = r.device}
           other == {n \in Rows(p, "nodes") \ mine :
                        n.dev_eui = r.dev_eui \/ n.dev_addr = r.addr}
       IN IF Owned(p, r.device) = {} \/ mine = {} \/ other # {}
          THEN Fail(p)
          ELSE /\ Go(p, Done([r EXCEPT !.seen = mine]))
               /\ UNCHANGED <<db, redis>>
    /\ UNCHANGED <<todo, bare>>

\* Only a node that changed is written.
BlueUpdate(p) ==
    /\ At(p, "blue_update")
    /\ \E old \in req[p].seen :
          LET new == [old EXCEPT !.dev_eui = req[p].dev_eui, !.dev_addr = req[p].addr]
          IN IF new = old
             THEN Proceed(p) /\ UNCHANGED <<db, redis>>
             ELSE Update(p, new)
    /\ UNCHANGED <<todo, bare>>

-----------------------------------------------------------------------------
(* DELETE /device/{id} *)

DeleteFind(p) ==
    /\ At(p, "delete_find")
    /\ LET d == Owned(p, req[p].device) IN
       IF d = {} THEN Fail(p)
       ELSE /\ Go(p, Done([req[p] EXCEPT !.seen = d]))
            /\ UNCHANGED <<db, redis>>
    /\ UNCHANGED <<todo, bare>>

UnlinkAll(p) ==
    /\ At(p, "unlink_all")
    /\ Delete(p, {l \in Rows(p, "links") : l.device = req[p].device})
    /\ UNCHANGED <<todo, bare>>

\* The row of the device's type says which keys to delete.
Unregistering(k) ==
    CASE k = "LoRaNode" -> <<"del_eui", "del_addr">> [] k = "Gateway" -> <<"del_gate">>
      [] k = "Snap" -> <<"del_snap">> [] k = "MQTT" -> <<>>

FindType(p) ==
    /\ At(p, "find_type")
    /\ \E d \in req[p].seen :
          LET rows == TypeRows(p, d.id, d.kind)
              r == [req[p] EXCEPT !.seen = {d} \cup rows, !.eui = d.eui,
                      !.steps = Unregistering(d.kind) \o <<"delete_rows", "commit">>]
          IN \/ /\ rows = {} /\ d.kind # "MQTT"
                /\ Fail(p)
             \/ /\ rows = {} \/ d.kind # "LoRaNode"
                /\ rows # {} \/ d.kind = "MQTT"
                /\ Go(p, r)
                /\ UNCHANGED <<db, redis>>
             \/ /\ d.kind = "LoRaNode"
                /\ \E n \in rows :
                      Go(p, [r EXCEPT !.dev_eui = n.dev_eui, !.addr = n.dev_addr])
                /\ UNCHANGED <<db, redis>>
    /\ UNCHANGED <<todo, bare>>

\* The row of a Snap device's type stays, and the broker account of a gateway
\* is found by its EUI.  The other transactions write these tables in the same
\* order, so the rows can be taken at once.
DeletedRows(p) ==
    {r \in req[p].seen : r.t # "snaps"}
    \cup {r \in Rows(p, "authority") : r.device = req[p].device}
    \cup {r \in Rows(p, "integration") :
             /\ r.kind = "Gateway"
             /\ \E g \in Table(req[p].seen, "gates") : r.eui = g.eui}

DeleteRows(p) ==
    /\ At(p, "delete_rows")
    /\ Delete(p, DeletedRows(p))
    /\ UNCHANGED <<todo, bare>>

-----------------------------------------------------------------------------
(* PUT /device/{id} *)

\* Read before the transaction begins.
ModifyFind(p) ==
    /\ At(p, "modify_find")
    /\ LET d == Owned(p, req[p].device) IN
       IF d = {} THEN Fail(p)
       ELSE /\ Go(p, Done([req[p] EXCEPT !.seen = d, !.eui = (CHOOSE x \in d : TRUE).eui]))
            /\ UNCHANGED <<db, redis>>
    /\ UNCHANGED <<todo, bare>>

\* A script the device does not have yet has to exist and is told to redis;
\* another column is told to redis once the node's row is found.
Script(p) ==
    /\ At(p, "script")
    /\ LET s == req[p].script
           same == \A d \in req[p].seen : d.script = s
           found == IF s = None THEN TypeRows(p, req[p].device, "LoRaNode") # {}
                    ELSE \E x \in Rows(p, "scripts") : x.id = s
       IN IF s # None /\ same
          THEN /\ Go(p, [req[p] EXCEPT !.steps = <<"modify_rows", "commit">>])
               /\ UNCHANGED <<db, redis>>
          ELSE IF found THEN Proceed(p) /\ UNCHANGED <<db, redis>> ELSE Fail(p)
    /\ UNCHANGED <<todo, bare>>

\* GET of the address under the device's EUI (not its dev_eui), EXISTS of the
\* record and HSET of one field: three awaits.
Locate(p) ==
    /\ At(p, "locate")
    /\ LET a == redis.eui[req[p].eui]
           r == Done([req[p] EXCEPT !.addr = a])
       IN Go(p, IF a = None THEN Done(Done(r)) ELSE r)
    /\ UNCHANGED <<db, redis, todo, bare>>

Exists(p) ==
    /\ At(p, "exists")
    /\ Go(p, IF redis.node[req[p].addr] = None THEN Done(Done(req[p]))
             ELSE Done(req[p]))
    /\ UNCHANGED <<db, redis, todo, bare>>

HSet(p) ==
    /\ At(p, "hset")
    /\ redis' = [redis EXCEPT !.node[req[p].addr] = IF @ = None THEN Partial ELSE @]
    /\ Proceed(p)
    /\ UNCHANGED <<db, todo, bare>>

\* A node's or a gateway's type row has to be there; it is written unless the
\* request selects a script, which is a column of the device's row.
ModifyRows(p) ==
    /\ At(p, "modify_rows")
    /\ \E d \in req[p].seen :
          LET rows == TypeRows(p, d.id, d.kind)
              own == {x \in Rows(p, "devices") : x.id = d.id}
              typed == d.kind \in {"LoRaNode", "Gateway"}
          IN \/ /\ (typed /\ rows = {}) \/ own = {}
                /\ Fail(p)
             \/ /\ typed /\ req[p].script = None
                /\ \E n \in rows : Update(p, n)
             \/ /\ typed /\ rows # {} /\ req[p].script # None
                /\ IF d.script = req[p].script
                   THEN Proceed(p) /\ UNCHANGED <<db, redis>>
                   ELSE \E x \in own : Update(p, [x EXCEPT !.script = req[p].script])
             \/ /\ ~typed
                /\ \E x \in own : Update(p, x)
    /\ UNCHANGED <<todo, bare>>

DeviceStep(p) ==
    \/ Address(p) \/ Check(p) \/ Device(p) \/ Node(p) \/ Gate(p) \/ Mqtt(p) \/ Snap(p)
    \/ SetEui(p) \/ DelEui(p) \/ SetAddr(p) \/ DelAddr(p)
    \/ SetGate(p) \/ DelGate(p) \/ SetSnap(p) \/ DelSnap(p)
    \/ DeviceCommit(p) \/ BlueFind(p) \/ BlueUpdate(p)
    \/ DeleteFind(p) \/ UnlinkAll(p) \/ FindType(p) \/ DeleteRows(p)
    \/ ModifyFind(p) \/ Script(p) \/ Locate(p) \/ Exists(p) \/ HSet(p) \/ ModifyRows(p)
=============================================================================

----------------------------- MODULE MCSnapApi -----------------------------
(***************************************************************************)
(* A user, ann, with a device of each type, a group of her own, a script   *)
(* and a broker account; bob has not signed up.  A scenario is a pair of   *)
(* requests, or three of them where the third has to meet what the others  *)
(* left; TLC interleaves them with each other and with Abort and Expire.   *)
(***************************************************************************)
EXTENDS SnapApi

ann == 1
default == 4
group == 5
node == 6
gate == 8
mqtt == 11
snap == 13
script == 24

MCStart ==
    {UserRow(ann, "ann"), TokenRow(2, ann, "Access"), TokenRow(3, ann, "Refresh"),
     GroupRow(default, ann, TRUE), GroupRow(group, ann, FALSE),
     DeviceRow(node, 901, "LoRaNode", ann), NodeRow(7, node, 901, 801),
     DeviceRow(gate, 902, "Gateway", ann), GateRow(9, gate, 902),
     IntegrationRow(10, ann, "Gateway", 902),
     DeviceRow(mqtt, 903, "MQTT", ann), MqttRow(12, mqtt),
     DeviceRow(snap, 904, "Snap", ann), SnapRow(14, snap, 904),
     ScriptRow(script, ann), IntegrationRow(25, ann, "Integration", None),
     LinkRow(19, ann, node, default), LinkRow(23, ann, node, group)}
    \cup {AuthorityRow(14 + i, <<node, gate, mqtt, snap>>[i], ann) : i \in 1..4}

Ask(op) == [Blank EXCEPT !.op = op, !.user = ann, !.name = "ann"]

Create(k, e, a, gs) == [Ask("create") EXCEPT !.kind = k, !.eui = e, !.dev_eui = e,
                                             !.addr = a, !.groups = gs]
Rebind(a) == [Ask("rebind") EXCEPT !.device = node, !.dev_eui = 901, !.addr = a]
Remove(d) == [Ask("delete") EXCEPT !.device = d]
Modify(d, k, s) == [Ask("modify") EXCEPT !.device = d, !.kind = k, !.script = s]
OfGroup(op, g, d, gs) == [Ask(op) EXCEPT !.group = g, !.device = d, !.groups = gs]
OfScript(op) == [Ask(op) EXCEPT !.script = script]
Anonymous(op, n) == [Ask(op) EXCEPT !.user = None, !.name = n]
Numbered(r, i) == [r EXCEPT !.no = i]

Creations ==
    <<Create("OTAA", 905, None, <<>>), Create("OTAA", 901, None, <<>>),
      Create("ABP", 901, 801, <<group>>), Create("ABP", 906, 802, <<>>),
      Create("Bluetooth", 905, 802, <<>>), Create("Gateway", 902, None, <<>>),
      Create("MQTT", 903, None, <<>>), Create("Snap", 904, None, <<>>)>>
Changes ==
    <<Rebind(801), Rebind(802), Modify(node, "LoRaNode", None),
      Modify(node, "LoRaNode", script), Modify(gate, "Gateway", None),
      Modify(mqtt, "MQTT", None)>>
Removals == <<Remove(node), Remove(gate), Remove(mqtt), Remove(snap)>>
Groups ==
    <<Ask("new_group"), OfGroup("edit_link", group, gate, <<group>>),
      OfGroup("edit_unlink", group, node, <<>>),
      OfGroup("erase_group", group, None, <<>>),
      OfGroup("erase_group", default, None, <<>>),
      OfGroup("unlink", default, node, <<>>),
      OfGroup("get_group", group, None, <<>>), Ask("get_all"),
      OfGroup("top", None, node, <<>>), OfGroup("top", group, node, <<>>)>>
Users ==
    <<Anonymous("signup", "ann"), Anonymous("signup", "bob"),
      Anonymous("login", "ann"), [Anonymous("refresh", "ann") EXCEPT !.user = ann],
      Anonymous("mail", "ann"), Anonymous("password", "ann"),
      Anonymous("delete_user", "ann"), Ask("info")>>
Others ==
    <<Ask("new_script"), OfScript("edit_script"), OfScript("drop_script"),
      Ask("new_integration"), [Ask("drop_integration") EXCEPT !.device = 25]>>

Menu == Creations \o Changes \o Removals \o Groups \o Users \o Others
N == Len(Menu)

Scenario(i, j) == {Numbered(Menu[i], 31), Numbered(Menu[j], 32)}

\* A late deletion, modification or Bluetooth update of a device that is deleted
\* and made anew; the same for a gateway and a Snap device; a list of groups
\* stored late; a user deleted and signed up again; the limit of mails.
Late(x, d, r) == {Numbered(x, 31), Numbered(Remove(d), 32), Numbered(r, 33)}
Mail == Anonymous("mail", "ann")

Triples ==
    {Late(x, node, Create("ABP", 901, 801, <<>>)) :
        x \in {Remove(node), Rebind(801), Rebind(802), Modify(node, "LoRaNode", None)}}
    \cup {Late(Remove(gate), gate, Create("Gateway", 902, None, <<>>)),
          Late(Remove(snap), snap, Create("Snap", 904, None, <<>>)),
          {Numbered(OfGroup("get_group", group, None, <<>>), 31),
           Numbered(OfGroup("erase_group", group, None, <<>>), 32),
           Numbered(Create("Snap", 905, None, <<group>>), 33)},
          {Numbered(Anonymous("delete_user", "ann"), 31),
           Numbered(Anonymous("signup", "ann"), 32), Numbered(Ask("get_all"), 33)},
          {Numbered(Mail, 31), Numbered(Mail, 32), Numbered(Mail, 33)}}

MCScenarios == UNION {{Scenario(i, j) : j \in i..N} : i \in 1..N} \cup Triples
=============================================================================

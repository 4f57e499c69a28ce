------------------------------ MODULE ApiGroup ------------------------------
(***************************************************************************)
(* Groups of devices, the list of groups cached per user, and the order of *)
(* the devices in a group.  The cache is emptied before the write commits  *)
(* (or, when a group is deleted, not at all), so a list read meanwhile can *)
(* be stored after it and stay.                                            *)
(***************************************************************************)
EXTENDS ApiStore

DefaultOf(p) == {g \in Rows(p, "groups") : g.user = req[p].user /\ g.default}
GroupsOf(p) == {g \in Rows(p, "groups") : g.user = req[p].user}

NewDefault(p) == GroupRow(NewId(p), req[p].user, TRUE)

-----------------------------------------------------------------------------
(* Linking a new device to the default group and to the groups it names *)

\* The default group is the cached one if a list with one is cached.
Default(p) ==
    /\ At(p, "default")
    /\ LET hit == {g \in CachedRows(req[p].user) : g.default} IN
       IF hit = {}
       THEN Go(p, [req[p] EXCEPT !.steps = <<"find_default">> \o Tail(@)])
       ELSE \E g \in hit : Go(p, Done([req[p] EXCEPT !.groups = <<g.id>> \o @]))
    /\ UNCHANGED <<db, redis, todo, bare>>

\* Otherwise it is the one in the table, and is created when there is none.
FindDefault(p) ==
    /\ At(p, "find_default")
    /\ IF DefaultOf(p) = {}
       THEN LET g == NewDefault(p) IN
            Statement(p, {g}, {}, [req[p] EXCEPT !.groups = <<g.id>> \o @], redis)
       ELSE /\ \E g \in DefaultOf(p) :
                  Go(p, Done([req[p] EXCEPT !.groups = <<g.id>> \o @]))
            /\ UNCHANGED <<db, redis>>
    /\ UNCHANGED <<todo, bare>>

\* The list is dropped from the cache and the link is added.
LinkDefault(p) ==
    /\ At(p, "link_default")
    /\ LET r == req[p] IN
       Statement(p, {LinkRow(NewId(p), r.user, r.device, Head(r.groups))}, {},
                 [r EXCEPT !.groups = Tail(@)], Uncached(r.user))
    /\ UNCHANGED <<todo, bare>>

\* One group of the list; a group that is not there fails the request, after
\* the device was told to redis.
Link(p) ==
    /\ At(p, "link")
    /\ LET r == req[p] IN
       IF r.groups = <<>> THEN Proceed(p) /\ UNCHANGED <<db, redis>>
       ELSE IF \E g \in Rows(p, "groups") : g.id = Head(r.groups)
            THEN Statement(p, {LinkRow(NewId(p), r.user, r.device, Head(r.groups))}, {},
                           [r EXCEPT !.groups = Tail(@), !.steps = <<"link">> \o @],
                           Uncached(r.user))
            ELSE Fail(p)
    /\ UNCHANGED <<todo, bare>>

-----------------------------------------------------------------------------
(* POST, PUT and DELETE of a group *)

NewGroup(p) ==
    /\ At(p, "new_group")
    /\ Insert(p, GroupRow(NewId(p), req[p].user, FALSE))
    /\ UNCHANGED <<todo, bare>>

\* PUT adds the device to the group ("link") or removes it ("uncache",
\* "unlink"), then writes the group's own row.  Another's group, the default
\* group and a device of another user are refused.
EditFind(p) ==
    /\ At(p, "edit_find")
    /\ IF /\ \E g \in GroupsOf(p) : g.id = req[p].group /\ ~g.default
          /\ Owned(p, req[p].device) # {}
       THEN Proceed(p) /\ UNCHANGED <<db, redis>>
       ELSE Fail(p)
    /\ UNCHANGED <<todo, bare>>

Unlink(p) ==
    /\ At(p, "unlink")
    /\ LET r == req[p] IN
       Delete(p, {l \in Rows(p, "links") : /\ l.device = r.device
                                           /\ l.user = r.user
                                           /\ l.group = r.group})
    /\ UNCHANGED <<todo, bare>>

\* Name and description are written if they change.
EditRow(p) ==
    /\ At(p, "edit_row")
    /\ LET rows == {g \in Rows(p, "groups") : g.id = req[p].group} IN
       \/ Proceed(p) /\ UNCHANGED <<db, redis>>
       \/ rows = {} /\ Fail(p)
       \/ \E g \in rows : Update(p, g)
    /\ UNCHANGED <<todo, bare>>

\* Mutant of EraseGroup: the default group is not kept.
EraseAnyGroup(p) ==
    /\ At(p, "erase_group")
    /\ LET rows == {g \in GroupsOf(p) : g.id = req[p].group} IN
       IF rows = {} THEN Fail(p) ELSE Delete(p, rows)
    /\ UNCHANGED <<todo, bare>>

\* DELETE leaves the links to the group and the cached list as they are.
EraseGroup(p) ==
    /\ At(p, "erase_group")
    /\ LET rows == {g \in GroupsOf(p) : g.id = req[p].group /\ ~g.default} IN
       IF rows = {} THEN Fail(p) ELSE Delete(p, rows)
    /\ UNCHANGED <<todo, bare>>

-----------------------------------------------------------------------------
(* GET of a group *)

\* A cached list that has the group (or a default one, when the user's own
\* devices are asked for) answers; what follows only reads.
LoadGroups(p) ==
    /\ At(p, "load_groups")
    /\ LET r == req[p]
           hit == {g \in CachedRows(r.user) :
                      IF r.group = None THEN g.default ELSE g.id = r.group}
       IN Go(p, IF hit # {} THEN [r EXCEPT !.steps = <<>>] ELSE Done(r))
    /\ UNCHANGED <<db, redis, todo, bare>>

\* The user's own devices: a default group in the table answers; without one
\* it is created, and the list is stored.
LookDefault(p) ==
    /\ At(p, "look_default")
    /\ IF DefaultOf(p) = {} THEN Insert(p, NewDefault(p))
       ELSE /\ Go(p, [req[p] EXCEPT !.steps = <<>>])
            /\ UNCHANGED <<db, redis>>
    /\ UNCHANGED <<todo, bare>>

ReadGroups(p) ==
    /\ At(p, "read_groups")
    /\ Go(p, Done([req[p] EXCEPT !.seen = GroupsOf(p)]))
    /\ UNCHANGED <<db, redis, todo, bare>>

SaveGroups(p) ==
    /\ At(p, "save_groups")
    /\ LET u == req[p].user IN
       redis' = [Uncached(u) EXCEPT !.groups = @ \cup {[user |-> u, rows |-> req[p].seen]}]
    /\ Proceed(p)
    /\ UNCHANGED <<db, todo, bare>>

-----------------------------------------------------------------------------
(* Moving a device to the top of a group *)

Orders(p, g) == {l.order : l \in {x \in Rows(p, "links") :
                                     x.group = g /\ x.user = req[p].user}}
Highest(p, g) == IF Orders(p, g) = {} THEN 0
                 ELSE CHOOSE o \in Orders(p, g) : \A x \in Orders(p, g) : x <= o

\* The highest order is read, then the link; without a link nothing changes.
Rank(p) ==
    /\ At(p, "rank")
    /\ LET r == req[p]
           g == IF r.group = None THEN Head(r.groups) ELSE r.group
           links == {l \in Rows(p, "links") :
                        l.group = g /\ l.user = r.user /\ l.device = r.device}
       IN IF links = {} THEN Fail(p)
          ELSE /\ \E l \in links :
                     Go(p, IF l.order # Highest(p, g) \/ Highest(p, g) = 0
                           THEN Done([r EXCEPT !.seen = {l}, !.count = Highest(p, g) + 1])
                           ELSE [r EXCEPT !.steps = <<>>])
               /\ UNCHANGED <<db, redis>>
    /\ UNCHANGED <<todo, bare>>

\* Mutant of Reorder: the link is inserted with its new order, not updated.
ReorderInsert(p) ==
    /\ At(p, "reorder")
    /\ \E l \in req[p].seen : Insert(p, [l EXCEPT !.order = req[p].count])
    /\ UNCHANGED <<todo, bare>>

Reorder(p) ==
    /\ At(p, "reorder")
    /\ \E l \in req[p].seen : Update(p, [l EXCEPT !.order = req[p].count])
    /\ UNCHANGED <<todo, bare>>

GroupStep(p) ==
    \/ Default(p) \/ FindDefault(p) \/ LinkDefault(p) \/ Link(p)
    \/ NewGroup(p) \/ EditFind(p) \/ Unlink(p) \/ EditRow(p) \/ EraseGroup(p)
    \/ LoadGroups(p) \/ LookDefault(p) \/ ReadGroups(p) \/ SaveGroups(p)
    \/ Rank(p) \/ Reorder(p)
=============================================================================

--------------------------- MODULE SnapApi_proofs ---------------------------
(***************************************************************************)
(* Proofs about the HTTP service: the rows of Postgres and the keys of     *)
(* redis agree whatever handlers run side by side, wait for each other,    *)
(* abort or are refused, for any number of requests.  Every handler's      *)
(* steps keep the invariant of SnapInvariant_proofs.                       *)
(***************************************************************************)
EXTENDS SnapInvariant_proofs

-----------------------------------------------------------------------------
(* Users, tokens, mails, scripts and accounts *)

\* A handler that finds its user.
LEMMA FindKeeps ==
    ASSUME Inv, NEW p \in Slots, NEW st \in Finding, NEW rows, rows \subseteq Vis(req[p]),
           Find(p, st, rows),
           \/ req[p].op \in FreeOps
           \/ req[p].op = "delete_user" /\ st = "find_user"
    PROVE  Inv'
<1> DEFINE o == req[p]
<1>1. At(p, st) /\ UNCHANGED <<todo, bare>>  BY DEF Find
<1>2. /\ o \in Request /\ Active(p) /\ Program(o) /\ Shape(o) /\ st \in Left(o)
      /\ \A t \in Left(o) : t = st \/ Level(st) < Level(t)
  BY <1>1, Turn
<1>3. CASE Fail(p)  BY <1>1, <1>2, <1>3, FailKeeps
<1>4. ASSUME NEW u \in rows, Go(p, Done([o EXCEPT !.user = u.id])), UNCHANGED <<db, redis>>
      PROVE  Inv'
  <2>1. u.id \in Nat
    <3>1. u \in Row  BY Places DEF Inv
    <3> QED  BY <3>1, RowIds
  <2>2. PICK s : s = [o EXCEPT !.user = u.id]  OBVIOUS
  <2>3. /\ s \in Request /\ Kin(s, o) /\ s.steps = o.steps /\ s.kind = o.kind
        /\ s.name = o.name /\ s.user = u.id /\ s.device = o.device /\ s.seen = o.seen
    BY <1>2, <2>1, <2>2 DEF Request, Kin
  <2>4. PICK r : r = Done(s)  OBVIOUS
  <2>5. /\ Left(r) = Left(o) \ {st} /\ Kin(r, o) /\ r.user = u.id /\ r.device = o.device
        /\ r.seen = o.seen
    BY <1>1, <2>3, <2>4, DoneTurn
  <2>6. r.op = o.op /\ r.add = o.add  BY <2>5 DEF Kin
  <2>7. st \notin Telling /\ st \notin {"device", "blue_find"}  BY DEF Finding, Telling
  <2>8. ReqRefs(r) \subseteq ReqRefs(o) \cup Ids(Vis(o))
    <3>1. u.id \in Ids(Vis(o))  BY DEF Ids
    <3>2. DeviceSet(r) => DeviceSet(o)  BY <2>5, <2>6, <2>7 DEF DeviceSet
    <3> QED  BY <2>5, <3>1, <3>2 DEF ReqRefs
  <2>9. Shape(r) /\ (o.op = "delete_user" => "drop_groups" \in Left(o))
    <3>1. CASE o.op \in FreeOps  BY <2>6, <3>1, FreeShape
    <3>2. CASE o.op = "delete_user" /\ st = "find_user"
      <4>1. DropShape(o)  BY <1>2, <3>2, ShapeFor
      <4>2. "drop_groups" \in Left(o)  BY <1>2, <3>2, <4>1 DEF DropShape
      <4>3. "valid_code" \notin Left(o)  BY <1>2, <3>2, Levels
      <4>4. DropShape(r)  BY <2>5, <2>6, <3>2, <4>1, <4>2, <4>3 DEF DropShape
      <4> QED  BY <2>6, <3>2, <4>2, <4>4, ShapeFor
    <3> QED  BY <3>1, <3>2
  <2>10. s.seen \subseteq Vis(o) \cup o.seen  BY <2>3
  <2>11. Go(p, r) /\ UNCHANGED <<db, redis, todo, bare>>  BY <1>1, <1>4, <2>2, <2>4
  <2> QED
    BY <1>1, <2>3, <2>4, <2>7, <2>8, <2>9, <2>10, <2>11, ReadTurn
<1> QED  BY <1>3, <1>4 DEF Find

\* A free handler goes on without a write.
LEMMA FreeProceeds ==
    ASSUME Inv, NEW p \in Slots, NEW st, At(p, st), Silent(st), st \notin Telling,
           Proceed(p), UNCHANGED <<db, redis, todo, bare>>,
           req[p].op \in FreeOps
    PROVE  Inv'
<1>1. req[p] \in Request /\ Tail(req[p].steps) \in Seq(StepNames)  BY Turn
<1>2. PICK r : r = Done(req[p])  OBVIOUS
<1>3. /\ r.op = req[p].op /\ r.user = req[p].user /\ r.device = req[p].device
      /\ r.kind = req[p].kind /\ r.txn = req[p].txn /\ r.name = req[p].name
      /\ r.steps = Tail(req[p].steps)
  BY <1>1, <1>2, DoneIs
<1>4. Left(r) = Left(req[p]) \ {st}  BY <1>3, DoneProgram
<1>5. ReqRefs(r) = ReqRefs(req[p])  BY <1>3, <1>4, SilentRefs
<1>6. Shape(r) /\ req[p].op # "delete_user"  BY <1>3, FreeShape
<1> QED  BY <1>2, <1>5, <1>6, ProceedKeeps

\* A free handler writes a key of redis that no row is compared with.
LEMMA FreeKey ==
    ASSUME Inv, NEW p \in Slots, NEW st, At(p, st), Silent(st), st \notin Telling, Proceed(p),
           db' = db, todo' = todo, bare' = bare, redis' \in Stored,
           redis'.node = redis.node, redis'.gate = redis.gate, redis'.snap = redis.snap,
           redis'.groups = redis.groups,
           redis'.session \subseteq redis.session \cup ReqRefs(req[p]),
           req[p].op \in FreeOps
    PROVE  Inv'
<1>1. /\ req[p] \in Request /\ Active(p) /\ Tail(req[p].steps) \in Seq(StepNames)
  BY Turn
<1>2. PICK r : r = Done(req[p])  OBVIOUS
<1>3. /\ r \in Request /\ Kin(r, req[p]) /\ r.op = req[p].op /\ r.kind = req[p].kind
      /\ r.txn = req[p].txn /\ r.name = req[p].name /\ r.steps = Tail(req[p].steps)
  BY <1>1, <1>2, DoneIs DEF Kin
<1>4. Left(r) = Left(req[p]) \ {st}  BY <1>3, DoneProgram
<1>5. Shape(r) /\ req[p].op # "delete_user"  BY <1>3, FreeShape
<1>6. ~req[p].txn  BY <1>1, FreeTxn
<1>7. StoreInv /\ OwnedInv  BY DEF Inv
<1>8. Go(p, r)  BY <1>2 DEF Proceed
<1>9. Quiet(p, r)  BY <1>1, <1>3, <1>7, <1>8, GoGoes DEF Quiet
<1>10. OwnedInv'
  <2>1. SameRecords  BY DEF SameRecords
  <2>2. Left(req[p]) \cap Telling \subseteq Left(r)  BY <1>4
  <2> QED  BY <1>7, <1>9, <2>1, <2>2, QuietOwned
<1>11. /\ redis'.groups \subseteq redis.groups
       /\ redis'.session \subseteq redis.session
             \cup (IF req[p].txn THEN {} ELSE ReqRefs(req[p]))
  BY <1>6
<1> QED  BY <1>2, <1>5, <1>10, <1>11, KeyKeeps

\* The steps of such handlers.
LEMMA FreeSteps ==
    ASSUME NEW r \in Request
    PROVE  /\ \A s \in {"new_script", "edit_script", "count_devices", "drop_script",
                        "new_integration", "drop_integration"} :
                 s \in Uses(r) => r.op \in FreeOps
           /\ r.op \in {"login", "refresh", "mail", "password", "info", "new_group",
                        "unlink"} => r.op \in FreeOps
<1>1. r.op \in Ops \cup {"idle"}  BY RequestIs
<1>2. CASE r.op = "create"  BY <1>2 DEF Uses, NodeKinds, LinkSteps, FreeOps
<1>3. CASE r.op = "rebind"  BY <1>3 DEF Uses, LinkSteps, FreeOps
<1>4. CASE r.op = "delete"  BY <1>4 DEF Uses, FreeOps
<1>5. CASE r.op = "modify"  BY <1>5 DEF Uses, FreeOps
<1>6. CASE r.op = "signup"  BY <1>6 DEF Uses, FreeOps
<1>7. CASE r.op = "delete_user"  BY <1>7 DEF Uses, FreeOps
<1>8. CASE r.op = "edit_link"  BY <1>8 DEF Uses, FreeOps, EditOps
<1>9. CASE r.op = "edit_unlink"  BY <1>9 DEF Uses, FreeOps, EditOps
<1>10. CASE r.op = "erase_group"  BY <1>10 DEF Uses, FreeOps, EditOps
<1>11. CASE r.op = "get_group"  BY <1>11 DEF Uses, FreeOps
<1>12. CASE r.op = "get_all"  BY <1>12 DEF Uses, FreeOps
<1>13. CASE r.op = "top"  BY <1>13 DEF Uses, FreeOps
<1>14. CASE r.op = "idle"  BY <1>14 DEF Uses, FreeOps
<1>15. CASE r.op \notin {"create", "rebind", "delete", "modify", "signup", "delete_user",
                         "edit_link", "edit_unlink", "erase_group", "get_group",
                         "get_all", "top", "idle"}
  BY <1>1, <1>15 DEF FreeOps, EditOps
<1> QED
  BY <1>2, <1>3, <1>4, <1>5, <1>6, <1>7, <1>8, <1>9, <1>10, <1>11, <1>12, <1>13, <1>14,
     <1>15

\* A free handler adds rows without a unique key.
LEMMA FreeInsert ==
    ASSUME Inv, NEW p \in Slots, NEW st, At(p, st), Silent(st), req[p].op \in FreeOps,
           NEW new, Statement(p, new, {}, req[p], redis), UNCHANGED <<todo, bare>>,
           new \subseteq Row, IsFiniteSet(new), UniqueIds(new),
           \A x \in new : /\ Created(p, x)
                          /\ x.t \in {"tokens", "scripts", "integration", "groups"}
                          /\ x.t = "groups" => ~x.default
    PROVE  Inv'
<1>1. Active(p)  BY Turn
<1>2. ~req[p].txn  BY <1>1, FreeTxn
<1>3. UniqueKeys(new)  BY DEF UniqueKeys, Shared, Keys
<1>4. Writable(p, new, {})  BY <1>3 DEF Writable
<1>5. Novel(new)  BY DEF Novel
<1>6. Loose(new, {})  BY DEF Loose, Typed
<1>7. Staying(new, {})  BY DEF Staying
<1>8. PICK r : r = After(req[p], new, {})  OBVIOUS
<1>9. Follows(r, req[p], new, {})  BY <1>8, OwnTurn
<1>10. Shape(r)  BY <1>9, FreeShape DEF Follows
<1> QED  BY <1>2, <1>4, <1>5, <1>6, <1>7, <1>8, <1>10, LooseKeeps

\* A free handler deletes rows.
LEMMA FreeErase ==
    ASSUME Inv, NEW p \in Slots, NEW st, At(p, st), Silent(st), req[p].op \in FreeOps,
           NEW rows, rows \subseteq Vis(req[p]), Delete(p, rows), UNCHANGED <<todo, bare>>,
           \A x \in rows : x.t \in {"scripts", "integration", "links"}
    PROVE  Inv'
<1>1. Active(p)  BY Turn
<1>2. ~req[p].txn  BY <1>1, FreeTxn
<1>3. PICK old : old = Ids(rows)  OBVIOUS
<1>4. Statement(p, {}, old, req[p], redis)  BY <1>3 DEF Delete
<1>5. ASSUME NEW x \in db, x.id \in old
      PROVE  x.t \in {"scripts", "integration", "links"}
  BY <1>3, <1>5, Erased
<1>6. Loose({}, old)  BY <1>5 DEF Loose, Typed
<1>7. Staying({}, old)  BY <1>5 DEF Staying
<1>8. PICK r : r = After(req[p], {}, old)  OBVIOUS
<1>9. Shape(r)
  <2>1. Follows(r, req[p], {}, old)  BY <1>8, OwnTurn
  <2> QED  BY <2>1, FreeShape DEF Follows
<1>10. Writable(p, {}, old) /\ Novel({})  BY NoRows
<1> QED  BY <1>2, <1>4, <1>6, <1>7, <1>8, <1>9, <1>10, LooseKeeps

\* A free handler writes a row as it is.
LEMMA FreeUpdate ==
    ASSUME Inv, NEW p \in Slots, NEW st, At(p, st), Silent(st), st \notin Telling,
           req[p].op \in FreeOps, NEW x \in Vis(req[p]),
           x.t \in {"users", "scripts"}, Update(p, x), UNCHANGED <<todo, bare>>
    PROVE  Inv'
<1>1. x \in Row  BY Places DEF Inv
<1>2. PICK new, old : new = {x} /\ old = {x.id}  OBVIOUS
<1>3. PICK r : r = After(req[p], new, old)  OBVIOUS
<1>4. Follows(r, req[p], new, old)  BY <1>1, <1>2, <1>3, OwnTurn
<1>5. Shape(r) /\ req[p].op # "delete_user"  BY <1>4, FreeShape DEF Follows
<1>6. r = After(req[p], {x}, {x.id})  BY <1>2, <1>3
<1>7. x.t \notin Typed \cup {"authority", "devices"}  BY DEF Typed
<1> QED  BY <1>1, <1>5, <1>6, <1>7, UpdateKeeps

\* The ids a statement takes are numbers.
LEMMA TakenIds ==
    ASSUME Inv, NEW p \in Slots, Active(p)
    PROVE  NewId(p) \in Nat /\ SecondId(p) \in Nat /\ NewId(p) # SecondId(p)
           /\ \A x \in Everywhere : {NewId(p), SecondId(p)} \cap Refs(x) = {}
<1>1. StoreInv /\ NumberInv /\ ApartInv /\ req[p] \in Request  BY DEF Inv, StoreInv
<1>2. PICK r : r = [req[p] EXCEPT !.made = req[p].made + 2]  OBVIOUS
<1>3. r.no = req[p].no /\ r.made = req[p].made + 2  BY <1>1, <1>2 DEF Request
<1> QED  BY <1>1, <1>3, NewIds

\* A table's rows are among those that p sees.
LEMMA RowsIn ==
    ASSUME NEW p \in Slots, NEW t, NEW x \in Rows(p, t)
    PROVE  x \in Vis(req[p]) /\ x.t = t
BY RowsSeen

\* A user that is found is known.
LEMMA UserKnown ==
    ASSUME Inv, NEW p \in Slots, NEW st, At(p, st), st \notin Finding,
           Level(st) >= 3 \/ Left(req[p]) \cap Finding = {}, req[p].op # "password"
    PROVE  req[p].user \in ReqRefs(req[p])
<1>1. /\ \A t \in Left(req[p]) : t = st \/ Level(st) < Level(t)
      /\ Active(p)
  BY Turn
<1>2. \A t \in Finding : Level(t) < 3  BY Levels DEF Finding
<1>3. \A t \in Finding : Level(t) \in Nat  BY Levels DEF Finding
<1>4. Left(req[p]) \cap Finding = {}
  <2>1. CASE Level(st) >= 3
    <3>1. ASSUME NEW t \in Left(req[p]), t \in Finding PROVE FALSE
      <4>1. Level(st) < Level(t)  BY <1>1, <3>1
      <4>2. Level(st) \in Nat  BY DEF Level
      <4> QED  BY <1>2, <1>3, <2>1, <3>1, <4>1, <4>2
    <3> QED  BY <3>1
  <2> QED  BY <2>1
<1> QED  BY <1>1, <1>4 DEF ReqRefs, UserSet, Active

\* The user is found by name or by a refresh token.
LEMMA FindingKeeps ==
    ASSUME Inv, NEW p \in Slots, LoginFind(p) \/ RefreshFind(p) \/ MailFind(p) \/ FindUser(p)
    PROVE  Inv'
<1>1. Named(p) \subseteq Vis(req[p])  BY RowsIn DEF Named
<1>2. CASE LoginFind(p)
  <2>1. At(p, "login_find")  BY <1>2 DEF LoginFind, Find
  <2>2. req[p] \in Request /\ req[p].op \in FreeOps  BY <2>1, Turn, StepOpsMore, FreeSteps
  <2>3. Find(p, "login_find", Named(p)) /\ "login_find" \in Finding
    BY <1>2 DEF LoginFind, Finding
  <2> QED  BY <1>1, <2>2, <2>3, FindKeeps
<1>3. CASE RefreshFind(p)
  <2>1. At(p, "refresh_find")  BY <1>3 DEF RefreshFind, Find
  <2>2. req[p] \in Request /\ req[p].op \in FreeOps  BY <2>1, Turn, StepOpsMore, FreeSteps
  <2> DEFINE rows == {u \in Rows(p, "users") : \E k \in Rows(p, "tokens") :
                                       /\ k.user = u.id
                                       /\ k.user = req[p].user
                                       /\ k.kind = "Refresh"}
  <2>3. rows \subseteq Vis(req[p])  BY RowsIn
  <2>4. Find(p, "refresh_find", rows) /\ "refresh_find" \in Finding
    BY <1>3 DEF RefreshFind, Finding
  <2> HIDE DEF rows
  <2> QED  BY <2>2, <2>3, <2>4, FindKeeps
<1>4. CASE MailFind(p)
  <2>1. At(p, "mail_find")  BY <1>4 DEF MailFind, Find
  <2>2. req[p] \in Request /\ req[p].op \in FreeOps  BY <2>1, Turn, StepOpsMore, FreeSteps
  <2>3. Find(p, "mail_find", Named(p)) /\ "mail_find" \in Finding
    BY <1>4 DEF MailFind, Finding
  <2> QED  BY <1>1, <2>2, <2>3, FindKeeps
<1>5. CASE FindUser(p)
  <2>1. At(p, "find_user")  BY <1>5 DEF FindUser, Find
  <2>2. req[p].op = "delete_user"  BY <2>1, Turn, StepOpsMore
  <2>3. Find(p, "find_user", Named(p)) /\ "find_user" \in Finding
    BY <1>5 DEF FindUser, Finding
  <2> QED  BY <1>1, <2>2, <2>3, FindKeeps
<1> QED  BY <1>2, <1>3, <1>4, <1>5

\* Both tokens are written.
LEMMA TokensKeeps ==
    ASSUME Inv, NEW p \in Slots, Tokens(p)
    PROVE  Inv'
<1>1. At(p, "tokens") /\ UNCHANGED <<todo, bare>>  BY DEF Tokens
<1>2. /\ req[p] \in Request /\ Active(p) /\ req[p].op \in FreeOps
  BY <1>1, Turn, StepOpsMore, FreeSteps
<1>3. req[p].user \in Nat  BY <1>2, RequestIs
<1>4. NewId(p) \in Nat /\ SecondId(p) \in Nat /\ NewId(p) # SecondId(p)
  BY <1>2, TakenIds
<1>5. PICK a, b : /\ a = TokenRow(NewId(p), req[p].user, "Access")
                  /\ b = TokenRow(SecondId(p), req[p].user, "Refresh")
  OBVIOUS
<1>6. /\ a \in TokenRows /\ b \in TokenRows /\ a.id = NewId(p) /\ b.id = SecondId(p)
      /\ a.t = "tokens" /\ b.t = "tokens"
  BY <1>3, <1>4, <1>5 DEF TokenRow, TokenRows
<1>7. PICK new : new = {a, b}  OBVIOUS
<1>8. new \subseteq Row  BY <1>6, <1>7 DEF Row
<1>9. IsFiniteSet(new)
  <2>1. IsFiniteSet({a}) /\ IsFiniteSet({b})  BY FS_Singleton
  <2>2. IsFiniteSet({a} \cup {b})  BY <2>1, FS_Union
  <2>3. new = {a} \cup {b}  BY <1>7
  <2> QED  BY <2>2, <2>3
<1>10. UniqueIds(new)  BY <1>4, <1>6, <1>7 DEF UniqueIds
<1>11. \A x \in new : /\ Created(p, x)
                      /\ x.t \in {"tokens", "scripts", "integration", "groups"}
                      /\ x.t = "groups" => ~x.default
  BY <1>6, <1>7 DEF Created, Refs, Typed
<1>12. Silent("tokens")  BY DEF Silent, Finding
<1>13. Statement(p, new, {}, req[p], redis)  BY <1>5, <1>7 DEF Tokens
<1> QED  BY <1>1, <1>2, <1>8, <1>9, <1>10, <1>11, <1>12, <1>13, FreeInsert

\* One row added by a free handler.
LEMMA FreeRow ==
    ASSUME Inv, NEW p \in Slots, NEW st, At(p, st), Silent(st), req[p].op \in FreeOps,
           NEW x \in Row, Insert(p, x), UNCHANGED <<todo, bare>>, Created(p, x),
           x.t \in {"tokens", "scripts", "integration", "groups"},
           x.t = "groups" => ~x.default
    PROVE  Inv'
<1>1. PICK new : new = {x}  OBVIOUS
<1>2. new \subseteq Row /\ IsFiniteSet(new) /\ UniqueIds(new)
  BY <1>1, FS_Singleton DEF UniqueIds
<1>3. Statement(p, new, {}, req[p], redis)  BY <1>1 DEF Insert
<1>4. \A y \in new : /\ Created(p, y)
                     /\ y.t \in {"tokens", "scripts", "integration", "groups"}
                     /\ y.t = "groups" => ~y.default
  BY <1>1
<1> QED  BY <1>2, <1>3, <1>4, FreeInsert

\* Scripts, broker accounts and groups are inserted.
LEMMA NewRowsKeep ==
    ASSUME Inv, NEW p \in Slots, NewScript(p) \/ NewIntegration(p) \/ NewGroup(p)
    PROVE  Inv'
<1>1. CASE NewScript(p)
  <2>1. At(p, "new_script") /\ UNCHANGED <<todo, bare>>  BY <1>1 DEF NewScript
  <2>2. req[p] \in Request /\ Active(p) /\ req[p].op \in FreeOps
    BY <2>1, Turn, FreeSteps
  <2>3. req[p].user \in Nat /\ NewId(p) \in Nat  BY <2>2, RequestIs, TakenIds
  <2>4. PICK x : x = ScriptRow(NewId(p), req[p].user)  OBVIOUS
  <2>5. x \in ScriptRows /\ x.id = NewId(p) /\ x.t = "scripts"
    BY <2>3, <2>4 DEF ScriptRow, ScriptRows
  <2>6. x \in Row /\ Created(p, x)  BY <2>5 DEF Row, Created, Refs, Typed
  <2>7. Insert(p, x) /\ Silent("new_script")
    BY <1>1, <2>4 DEF NewScript, Silent, Finding
  <2> QED  BY <2>1, <2>2, <2>5, <2>6, <2>7, FreeRow
<1>2. CASE NewIntegration(p)
  <2>1. At(p, "new_integration") /\ UNCHANGED <<todo, bare>>  BY <1>2 DEF NewIntegration
  <2>2. req[p] \in Request /\ Active(p) /\ req[p].op \in FreeOps
    BY <2>1, Turn, FreeSteps
  <2>3. req[p].user \in Nat /\ NewId(p) \in Nat  BY <2>2, RequestIs, TakenIds
  <2>4. PICK x : x = IntegrationRow(NewId(p), req[p].user, "Integration", None)  OBVIOUS
  <2>5. x \in IntegrationRows /\ x.id = NewId(p) /\ x.t = "integration"
    BY <2>3, <2>4 DEF IntegrationRow, IntegrationRows
  <2>6. x \in Row /\ Created(p, x)  BY <2>5 DEF Row, Created, Refs, Typed
  <2>7. Insert(p, x) /\ Silent("new_integration")
    BY <1>2, <2>4 DEF NewIntegration, Silent, Finding
  <2> QED  BY <2>1, <2>2, <2>5, <2>6, <2>7, FreeRow
<1>3. CASE NewGroup(p)
  <2>1. At(p, "new_group") /\ UNCHANGED <<todo, bare>>  BY <1>3 DEF NewGroup
  <2>2. /\ req[p] \in Request /\ Active(p) /\ req[p].op \in {"new_group", "unlink"}
        /\ req[p].op \in FreeOps
    BY <2>1, Turn, StepOpsMore, FreeSteps
  <2>3. req[p].user \in Nat /\ NewId(p) \in Nat  BY <2>2, RequestIs, TakenIds
  <2>4. PICK x : x = GroupRow(NewId(p), req[p].user, FALSE)  OBVIOUS
  <2>5. /\ x \in GroupRows /\ x.id = NewId(p) /\ x.t = "groups" /\ ~x.default
        /\ x.user = req[p].user
    BY <2>3, <2>4 DEF GroupRow, GroupRows
  <2>6. req[p].user \in ReqRefs(req[p])
    <3>1. Left(req[p]) \subseteq Uses(req[p])  BY <2>1, Turn DEF Program
    <3>2. Left(req[p]) \cap Finding = {}  BY <2>2, <3>1 DEF Uses, Finding
    <3> QED  BY <2>2, <3>2 DEF ReqRefs, UserSet
  <2>7. x \in Row /\ Created(p, x)  BY <2>5, <2>6 DEF Row, Created, Refs, Typed
  <2>8. Insert(p, x) /\ Silent("new_group")
    BY <1>3, <2>4 DEF NewGroup, Silent, Finding
  <2> QED  BY <2>1, <2>2, <2>5, <2>7, <2>8, FreeRow
<1> QED  BY <1>1, <1>2, <1>3

\* The session is stored.
LEMMA SessionKeeps ==
    ASSUME Inv, NEW p \in Slots, Session(p)
    PROVE  Inv'
<1>1. /\ At(p, "session") /\ UNCHANGED <<db, todo, bare>> /\ Proceed(p)
      /\ redis' = [redis EXCEPT !.session = @ \cup {req[p].user}]
  BY DEF Session
<1>2. req[p] \in Request /\ req[p].op \in {"login", "refresh"} /\ req[p].op \in FreeOps
  BY <1>1, Turn, StepOpsMore, FreeSteps
<1>3. req[p].user \in ReqRefs(req[p])
  <2>1. Level("session") >= 3 /\ "session" \notin Finding  BY Levels DEF Finding
  <2> QED  BY <1>1, <1>2, <2>1, UserKnown
<1>4. redis \in Stored /\ req[p].user \in Nat  BY <1>2, RequestIs DEF Inv, StoreInv
<1>5. /\ redis' \in Stored /\ redis'.node = redis.node /\ redis'.gate = redis.gate
      /\ redis'.snap = redis.snap /\ redis'.groups = redis.groups
      /\ redis'.session = redis.session \cup {req[p].user}
  BY <1>1, <1>4 DEF Stored
<1>6. Silent("session") /\ "session" \notin Telling  BY DEF Silent, Finding, Telling
<1> QED  BY <1>1, <1>2, <1>3, <1>5, <1>6, FreeKey

\* The count of mails is read.
LEMMA MailCountKeeps ==
    ASSUME Inv, NEW p \in Slots, MailCount(p)
    PROVE  Inv'
<1> DEFINE o == req[p]
           c == redis.sent[o.name]
<1>1. At(p, "mail_count") /\ UNCHANGED <<todo, bare>>  BY DEF MailCount
<1>2. /\ o \in Request /\ Active(p) /\ Program(o) /\ o.op = "mail" /\ o.op \in FreeOps
  BY <1>1, Turn, StepOpsMore, FreeSteps
<1>3. CASE Fail(p)  BY <1>1, <1>2, <1>3, FailKeeps
<1>4. CASE Go(p, Done([o EXCEPT !.count = c])) /\ UNCHANGED <<db, redis>>
  <2>1. c \in Nat
    <3>1. redis \in Stored /\ o.name \in Names  BY <1>2 DEF Inv, StoreInv, Program
    <3>2. redis.sent \in [Names -> 0 .. MaxCount]  BY <3>1 DEF Stored
    <3> QED  BY <3>1, <3>2
  <2> HIDE DEF c
  <2>2. PICK s : s = [o EXCEPT !.count = c]  OBVIOUS
  <2>3. /\ s \in Request /\ Kin(s, o) /\ s.steps = o.steps /\ s.kind = o.kind
        /\ s.name = o.name /\ s.user = o.user /\ s.device = o.device /\ s.seen = o.seen
    BY <1>2, <2>1, <2>2 DEF Request, Kin
  <2>4. PICK r : r = Done(s)  OBVIOUS
  <2>5. /\ Left(r) = Left(o) \ {"mail_count"} /\ Kin(r, o) /\ r.user = o.user
        /\ r.device = o.device /\ r.op = o.op
    BY <1>1, <2>3, <2>4, DoneTurn DEF Kin
  <2>6. Silent("mail_count") /\ "mail_count" \notin Telling
    BY DEF Silent, Finding, Telling
  <2>7. ReqRefs(r) = ReqRefs(o)  BY <2>5, <2>6, SilentRefs
  <2>8. Shape(r) /\ o.op # "delete_user"  BY <1>2, <2>5, FreeShape
  <2>9. Go(p, r) /\ UNCHANGED <<db, redis, todo, bare>>  BY <1>1, <1>4, <2>2, <2>4
  <2>10. s.seen \subseteq Vis(o) \cup o.seen /\ ReqRefs(r) \subseteq ReqRefs(o) \cup Ids(Vis(o))
    BY <2>3, <2>7
  <2> QED  BY <1>1, <2>3, <2>4, <2>6, <2>8, <2>9, <2>10, ReadTurn
<1> QED  BY <1>3, <1>4 DEF MailCount

\* The count is written back, and the code stored.
LEMMA MailSentKeeps ==
    ASSUME Inv, NEW p \in Slots, MailSent(p) \/ MailCode(p)
    PROVE  Inv'
<1>1. redis \in Stored  BY DEF Inv, StoreInv
<1>2. CASE MailSent(p)
  <2> DEFINE c == IF req[p].count >= MaxCount THEN MaxCount ELSE req[p].count + 1
  <2>1. /\ At(p, "mail_sent") /\ UNCHANGED <<db, todo, bare>> /\ Proceed(p)
        /\ redis' = [redis EXCEPT !.sent[req[p].name] = c]
    BY <1>2 DEF MailSent
  <2>2. /\ req[p] \in Request /\ req[p].op = "mail" /\ req[p].op \in FreeOps
        /\ Program(req[p])
    BY <2>1, Turn, StepOpsMore, FreeSteps
  <2>3. req[p].name \in Names /\ req[p].count \in Nat  BY <2>2, RequestIs DEF Program
  <2>4. c \in 0 .. MaxCount  BY <2>3, ApiAssumption
  <2> HIDE DEF c
  <2>5. /\ redis' \in Stored /\ redis'.node = redis.node /\ redis'.gate = redis.gate
        /\ redis'.snap = redis.snap /\ redis'.groups = redis.groups
        /\ redis'.session = redis.session
    BY <1>1, <2>1, <2>3, <2>4 DEF Stored
  <2>6. Silent("mail_sent") /\ "mail_sent" \notin Telling
    BY DEF Silent, Finding, Telling
  <2> QED  BY <2>1, <2>2, <2>5, <2>6, FreeKey
<1>3. CASE MailCode(p)
  <2>1. /\ At(p, "mail_code") /\ UNCHANGED <<db, todo, bare>> /\ Proceed(p)
        /\ redis' = [redis EXCEPT !.code = @ \cup {req[p].name}]
    BY <1>3 DEF MailCode
  <2>2. /\ req[p] \in Request /\ req[p].op = "mail" /\ req[p].op \in FreeOps
        /\ Program(req[p])
    BY <2>1, Turn, StepOpsMore, FreeSteps
  <2>3. req[p].name \in Names  BY <2>2 DEF Program
  <2>4. /\ redis' \in Stored /\ redis'.node = redis.node /\ redis'.gate = redis.gate
        /\ redis'.snap = redis.snap /\ redis'.groups = redis.groups
        /\ redis'.session = redis.session
    BY <1>1, <2>1, <2>3 DEF Stored
  <2>5. Silent("mail_code") /\ "mail_code" \notin Telling
    BY DEF Silent, Finding, Telling
  <2> QED  BY <2>1, <2>2, <2>4, <2>5, FreeKey
<1> QED  BY <1>2, <1>3

\* The code is checked.
LEMMA ValidCodeKeeps ==
    ASSUME Inv, NEW p \in Slots, ValidCode(p)
    PROVE  Inv'
<1> DEFINE o == req[p]
<1>1. At(p, "valid_code") /\ UNCHANGED <<todo, bare>>  BY DEF ValidCode
<1>2. /\ o \in Request /\ Active(p) /\ o.op \in {"delete_user", "password"} /\ Shape(o)
      /\ "valid_code" \in Left(o) /\ Tail(o.steps) \in Seq(StepNames)
  BY <1>1, Turn, StepOpsMore
<1>3. CASE Fail(p)  BY <1>1, <1>2, <1>3, FailKeeps
<1>4. CASE Proceed(p) /\ UNCHANGED <<db, redis>>
  <2>1. PICK r : r = Done(o)  OBVIOUS
  <2>2. /\ r.op = o.op /\ r.user = o.user /\ r.device = o.device /\ r.add = o.add
        /\ r.seen = o.seen
        /\ r.kind = o.kind /\ r.txn = o.txn /\ r.name = o.name /\ r.steps = Tail(o.steps)
    BY <1>2, <2>1, DoneIs
  <2>3. Left(r) = Left(o) \ {"valid_code"}  BY <1>1, <2>2, DoneProgram
  <2>4. CASE o.op = "password"
    <3>1. o.op \in FreeOps  BY <1>2, <2>4, FreeSteps
    <3>2. Shape(r) /\ o.op # "delete_user"  BY <2>2, <3>1, FreeShape
    <3>3. ReqRefs(r) \subseteq ReqRefs(o)
      BY <2>2, <2>4 DEF ReqRefs, UserSet, DeviceSet
    <3>4. "valid_code" \notin Telling  BY DEF Telling
    <3> QED  BY <1>1, <1>4, <2>1, <3>2, <3>3, <3>4, ProceedKeeps
  <2>5. CASE o.op = "delete_user"
    <3>1. DropShape(o)  BY <1>2, <2>5, ShapeFor
    <3>2. "find_user" \in Left(o) /\ "drop_groups" \in Left(o)
      BY <1>2, <3>1 DEF DropShape
    <3>3. ReqRefs(r) \subseteq ReqRefs(o)
      BY <2>2, <2>3, <2>5, <3>2 DEF ReqRefs, UserSet, DeviceSet, Finding
    <3>4. Shape(r)
      <4>1. DropShape(r)  BY <2>2, <2>3, <3>1 DEF DropShape
      <4> QED  BY <2>2, <2>5, <4>1, ShapeFor
    <3>5. "valid_code" \notin Telling  BY DEF Telling
    <3> QED  BY <1>1, <1>4, <2>1, <3>2, <3>3, <3>4, <3>5, ProceedKeeps
  <2> QED  BY <1>2, <2>4, <2>5
<1> QED  BY <1>3, <1>4 DEF ValidCode

\* A password, a picture or a script is written.
LEMMA SetKeeps ==
    ASSUME Inv, NEW p \in Slots, SetPassword(p) \/ SetInfo(p) \/ EditScript(p)
    PROVE  Inv'
<1>1. ASSUME NEW st \in {"set_password", "set_info", "edit_script"}, At(p, st),
             UNCHANGED <<todo, bare>>, NEW x, x \in Vis(req[p]),
             x.t \in {"users", "scripts"}, Update(p, x)
      PROVE  Inv'
  <2>1. req[p] \in Request /\ req[p].op \in FreeOps
    BY <1>1, Turn, StepOpsMore, FreeSteps
  <2>2. Silent(st) /\ st \notin Telling  BY DEF Silent, Finding, Telling
  <2> QED  BY <1>1, <2>1, <2>2, FreeUpdate
<1>2. ASSUME NEW st, At(p, st), UNCHANGED <<todo, bare>>, Fail(p)  PROVE Inv'
  <2>1. Active(p)  BY <1>2, Turn
  <2> QED  BY <1>2, <2>1, FailKeeps
<1>3. CASE SetPassword(p)
  <2>1. At(p, "set_password") /\ UNCHANGED <<todo, bare>>  BY <1>3 DEF SetPassword
  <2>2. CASE Fail(p)  BY <1>2, <2>1, <2>2
  <2>3. ASSUME NEW u \in Named(p), Update(p, u) PROVE Inv'
    <3>1. u \in Vis(req[p]) /\ u.t = "users"  BY RowsIn DEF Named
    <3> QED  BY <1>1, <2>1, <2>3, <3>1
  <2> QED  BY <1>3, <2>2, <2>3 DEF SetPassword
<1>4. CASE SetInfo(p)
  <2>1. At(p, "set_info") /\ UNCHANGED <<todo, bare>>  BY <1>4 DEF SetInfo
  <2>2. CASE Fail(p)  BY <1>2, <2>1, <2>2
  <2>3. ASSUME NEW u \in Rows(p, "users"), Update(p, u) PROVE Inv'
    <3>1. u \in Vis(req[p]) /\ u.t = "users"  BY RowsIn
    <3> QED  BY <1>1, <2>1, <2>3, <3>1
  <2> QED  BY <1>4, <2>2, <2>3 DEF SetInfo
<1>5. CASE EditScript(p)
  <2>1. At(p, "edit_script") /\ UNCHANGED <<todo, bare>>  BY <1>5 DEF EditScript
  <2>2. CASE Fail(p)  BY <1>2, <2>1, <2>2
  <2>3. ASSUME NEW s \in OwnScript(p), Update(p, s) PROVE Inv'
    <3>1. s \in Vis(req[p]) /\ s.t = "scripts"  BY RowsIn DEF OwnScript
    <3> QED  BY <1>1, <2>1, <2>3, <3>1
  <2> QED  BY <1>5, <2>2, <2>3 DEF EditScript
<1> QED  BY <1>3, <1>4, <1>5

\* Scripts and broker accounts are deleted, a script when no device uses it.
LEMMA ScriptsKeep ==
    ASSUME Inv, NEW p \in Slots, CountDevices(p) \/ DropScript(p) \/ DropIntegration(p)
    PROVE  Inv'
<1>1. ASSUME NEW st \in {"count_devices", "drop_script", "drop_integration"}, At(p, st)
      PROVE  req[p] \in Request /\ Active(p) /\ req[p].op \in FreeOps /\ Silent(st)
             /\ st \notin Telling
  BY <1>1, Turn, FreeSteps DEF Silent, Finding, Telling
<1>2. CASE CountDevices(p)
  <2>1. At(p, "count_devices") /\ UNCHANGED <<todo, bare>>  BY <1>2 DEF CountDevices
  <2>2. CASE Fail(p)  BY <1>1, <2>1, <2>2, FailKeeps
  <2>3. CASE Proceed(p) /\ UNCHANGED <<db, redis>>
    BY <1>1, <2>1, <2>3, FreeProceeds
  <2> QED  BY <1>2, <2>2, <2>3 DEF CountDevices
<1>3. CASE DropScript(p)
  <2>1. At(p, "drop_script") /\ UNCHANGED <<todo, bare>>  BY <1>3 DEF DropScript
  <2>2. CASE Fail(p)  BY <1>1, <2>1, <2>2, FailKeeps
  <2>3. CASE Delete(p, OwnScript(p))
    <3>1. OwnScript(p) \subseteq Vis(req[p]) /\ \A x \in OwnScript(p) : x.t = "scripts"
      BY RowsIn DEF OwnScript
    <3> QED  BY <1>1, <2>1, <2>3, <3>1, FreeErase
  <2> QED  BY <1>3, <2>2, <2>3 DEF DropScript
<1>4. CASE DropIntegration(p)
  <2>1. At(p, "drop_integration") /\ UNCHANGED <<todo, bare>>
    BY <1>4 DEF DropIntegration
  <2>2. PICK rows : rows = {r \in Rows(p, "integration") :
                               r.id = req[p].device /\ r.user = req[p].user}
    OBVIOUS
  <2>3. Delete(p, rows)  BY <1>4, <2>2 DEF DropIntegration
  <2>4. rows \subseteq Vis(req[p]) /\ \A x \in rows : x.t = "integration"
    BY <2>2, RowsIn
  <2> QED  BY <1>1, <2>1, <2>3, <2>4, FreeErase
<1> QED  BY <1>2, <1>3, <1>4

-----------------------------------------------------------------------------
(* Sign-up and the deletion of a user *)

\* The name is looked up.
LEMMA FindNameKeeps ==
    ASSUME Inv, NEW p \in Slots, FindName(p)
    PROVE  Inv'
<1> DEFINE o == req[p]
<1>1. At(p, "find_name") /\ UNCHANGED <<todo, bare>>  BY DEF FindName
<1>2. /\ o \in Request /\ Active(p) /\ o.op = "signup" /\ Shape(o)
      /\ "find_name" \in Left(o) /\ Tail(o.steps) \in Seq(StepNames)
  BY <1>1, Turn, StepOpsMore
<1>3. CASE Fail(p)  BY <1>1, <1>2, <1>3, FailKeeps
<1>4. CASE Proceed(p) /\ UNCHANGED <<db, redis>>
  <2>1. PICK r : r = Done(o)  OBVIOUS
  <2>2. /\ r.op = o.op /\ r.user = o.user /\ r.device = o.device /\ r.add = o.add
        /\ r.del = o.del /\ r.no = o.no /\ r.made = o.made
        /\ r.kind = o.kind /\ r.txn = o.txn /\ r.name = o.name /\ r.steps = Tail(o.steps)
    BY <1>2, <2>1, DoneIs
  <2>3. Left(r) = Left(o) \ {"find_name"}  BY <1>1, <2>2, DoneProgram
  <2>4. SignupShape(o)  BY <1>2, ShapeFor
  <2>5. "new_user" \in Left(o) /\ "new_user" \in Left(r)
    BY <1>2, <2>3, <2>4 DEF SignupShape
  <2>6. SignupShape(r)  BY <2>2, <2>3, <2>4, <2>5 DEF SignupShape
  <2>7. Shape(r)  BY <1>2, <2>2, <2>6, ShapeFor
  <2>8. ReqRefs(r) \subseteq ReqRefs(o)
    BY <1>2, <2>2, <2>5 DEF ReqRefs, UserSet, DeviceSet, Finding
  <2>9. "find_name" \notin Telling  BY DEF Telling
  <2> QED  BY <1>1, <1>2, <1>4, <2>1, <2>7, <2>8, <2>9, ProceedKeeps
<1> QED  BY <1>3, <1>4 DEF FindName

\* A new row written by a transaction.
LEMMA OneNew ==
    ASSUME NEW p \in Slots, NEW x \in Row, Created(p, x), NEW new, new = {x}
    PROVE  Writable(p, new, {}) /\ new \in SUBSET Row
BY FS_Singleton DEF Writable, UniqueIds, UniqueKeys

\* A request after an INSERT.
LEMMA InsertTurn ==
    ASSUME Inv, NEW p \in Slots, NEW st, At(p, st), NEW s \in Request, Kin(s, req[p]),
           s.steps = req[p].steps, s.kind = req[p].kind, s.name = req[p].name,
           NEW new \in SUBSET Row, NEW r, r = After(s, new, {})
    PROVE  Follows(r, s, new, {}) /\ Program(r) /\ Left(r) = Left(req[p]) \ {st}
<1>1. PICK old : old = {}  OBVIOUS
<1>2. r = After(s, new, old)  BY <1>1
<1>3. /\ Follows(r, s, new, old) /\ Program(r) /\ Left(r) = Left(req[p]) \ {st}
      /\ Tail(s.steps) \in Seq(StepNames)
  BY <1>2, StatementTurn
<1> QED  BY <1>1, <1>3

\* An INSERT replaces nothing.
LEMMA NothingOld ==
    ASSUME NEW new
    PROVE  Plain(new, {}) /\ Staying(new, {})
BY DEF Plain, Staying

\* The user's row is written, under an id nobody knows.
LEMMA NewUserKeeps ==
    ASSUME Inv, NEW p \in Slots, NewUser(p)
    PROVE  Inv'
<1> DEFINE o == req[p]
           i == NewId(p)
<1>1. /\ At(p, "new_user") /\ UNCHANGED <<todo, bare>>
      /\ Statement(p, {UserRow(i, o.name)}, {}, [o EXCEPT !.user = i], redis)
  BY DEF NewUser
<1>2. /\ o \in Request /\ Active(p) /\ Program(o) /\ o.op = "signup" /\ Shape(o)
      /\ "new_user" \in Left(o)
      /\ \A t \in Left(o) : t = "new_user" \/ Level("new_user") < Level(t)
  BY <1>1, Turn, StepOpsMore
<1>3. SignupShape(o)  BY <1>2, ShapeFor
<1>4. o.txn /\ o.name \in Names  BY <1>2, Transactions DEF Program
<1>5. i \in Nat /\ i \in {NewId(p), SecondId(p)}  BY <1>2, TakenIds
<1> HIDE DEF i
<1>6. PICK x : x = UserRow(i, o.name)  OBVIOUS
<1>7. x \in UserRows /\ x.id = i /\ x.t = "users"
  BY <1>4, <1>5, <1>6 DEF UserRow, UserRows
<1>8. x \in Row /\ Created(p, x)  BY <1>5, <1>7 DEF Row, Created, Refs, Typed
<1>9. PICK new : new = {x}  OBVIOUS
<1>10. Writable(p, new, {}) /\ new \in SUBSET Row  BY <1>8, <1>9, OneNew
<1>11. Fitting(p, new) /\ Novel(new)  BY <1>7, <1>9 DEF Fitting, Novel, Typed
<1>12. Plain(new, {}) /\ Staying(new, {})  BY NothingOld
<1>13. PICK s : s = [o EXCEPT !.user = i]  OBVIOUS
<1>14. /\ s \in Request /\ Kin(s, o) /\ s.steps = o.steps /\ s.kind = o.kind
       /\ s.name = o.name /\ s.user = i /\ s.device = o.device /\ s.seen = o.seen
  BY <1>2, <1>5, <1>13 DEF Request, Kin
<1>15. PICK r : r = After(s, new, {})  OBVIOUS
<1>16. Follows(r, s, new, {}) /\ Program(r) /\ Left(r) = Left(o) \ {"new_user"}
  BY <1>1, <1>10, <1>14, <1>15, InsertTurn
<1>17. /\ r.op = "signup" /\ r.user = i /\ r.add = {y \in o.add : y.id \notin {}} \cup new
       /\ r.del = o.del /\ r.no = o.no /\ r.made = o.made + 2
  BY <1>2, <1>4, <1>14, <1>16 DEF Follows, Kin
<1>18. Drawn(r, i)
  <2>1. StoreInv /\ NumberInv /\ ApartInv  BY DEF Inv
  <2> QED  BY <1>2, <1>5, <1>17, <2>1, NewIds
<1>19. "find_name" \notin Left(o)  BY <1>2, Levels
<1>20. SignupShape(r)
  <2>1. o.add = {} /\ "new_user_group" \in Left(o) /\ o.del = {}
    BY <1>2, <1>3 DEF SignupShape
  <2>2. r.add = {x} /\ r.del = {}  BY <1>9, <1>17, <2>1
  <2>3. "new_user_group" \in Left(r) /\ "new_user" \notin Left(r) /\ "find_name" \notin Left(r)
    BY <1>16, <1>19, <2>1
  <2> QED  BY <1>7, <1>17, <1>18, <2>2, <2>3 DEF SignupShape
<1>21. Shape(r)  BY <1>17, <1>20, ShapeFor
<1>22. ReqRefs(r) \subseteq {NewId(p), SecondId(p)} \cup ReqRefs(o)
  BY <1>5, <1>17 DEF ReqRefs, DeviceSet
<1>23. \A y \in new : Told(r, y)  BY <1>7, <1>9 DEF Told
<1>24. Statement(p, new, {}, s, redis)  BY <1>1, <1>6, <1>9, <1>13
<1>25. "new_user" \notin Telling  BY DEF Telling
<1>26. o.op # "delete_user"  BY <1>2
<1> QED
  BY <1>1, <1>4, <1>10, <1>11, <1>12, <1>14, <1>15, <1>21, <1>22, <1>23, <1>24, <1>25,
     <1>26, PlainKeeps

\* The default group is written in the same transaction.
LEMMA NewUserGroupKeeps ==
    ASSUME Inv, NEW p \in Slots, NewUserGroup(p)
    PROVE  Inv'
<1> DEFINE o == req[p]
<1>1. /\ At(p, "new_user_group") /\ UNCHANGED <<todo, bare>>
      /\ Statement(p, {GroupRow(NewId(p), o.user, TRUE)}, {}, o, Uncached(o.user))
  BY DEF NewUserGroup
<1>2. /\ o \in Request /\ Active(p) /\ Program(o) /\ o.op = "signup" /\ Shape(o)
      /\ "new_user_group" \in Left(o)
      /\ \A t \in Left(o) : t = "new_user_group" \/ Level("new_user_group") < Level(t)
  BY <1>1, Turn, StepOpsMore
<1>3. SignupShape(o)  BY <1>2, ShapeFor
<1>4. o.txn /\ o.user \in Nat  BY <1>2, Transactions, RequestIs DEF Program
<1>5. NewId(p) \in Nat  BY <1>2, TakenIds
<1>6. PICK x : x = GroupRow(NewId(p), o.user, TRUE)  OBVIOUS
<1>7. /\ x \in GroupRows /\ x.id = NewId(p) /\ x.t = "groups" /\ x.user = o.user
      /\ x.default
  BY <1>4, <1>5, <1>6 DEF GroupRow, GroupRows
<1>8. "new_user" \notin Left(o) /\ "find_name" \notin Left(o)  BY <1>2, Levels
<1>9. o.user \in ReqRefs(o)
  <2>1. Level("new_user_group") >= 3 /\ "new_user_group" \notin Finding
    BY Levels DEF Finding
  <2> QED  BY <1>1, <1>2, <2>1, UserKnown
<1>10. x \in Row /\ Created(p, x)  BY <1>7, <1>9 DEF Row, Created, Refs, Typed
<1>11. PICK new : new = {x}  OBVIOUS
<1>12. Writable(p, new, {}) /\ new \in SUBSET Row  BY <1>10, <1>11, OneNew
<1>13. Fitting(p, new)  BY <1>7, <1>11 DEF Fitting, Typed
<1>14. Novel(new)
  <2>1. Drawn(o, o.user)  BY <1>3, <1>8 DEF SignupShape
  <2>2. ~Known(o.user)  BY <1>4, <2>1 DEF Inv, ApartInv, Private
  <2>3. \A u \in db : u.id # o.user  BY <2>2 DEF Known, Refs
  <2> QED  BY <1>7, <1>11, <2>3 DEF Novel
<1>15. Plain(new, {}) /\ Staying(new, {})  BY NothingOld
<1>16. PICK s \in Request : s = o  BY <1>2
<1>17. /\ Kin(s, o) /\ s.steps = o.steps /\ s.kind = o.kind /\ s.name = o.name
       /\ s.user = o.user /\ s.seen = o.seen /\ s.device = o.device
  BY <1>16 DEF Kin
<1>18. PICK r : r = After(s, new, {})  OBVIOUS
<1>19. Follows(r, s, new, {}) /\ Program(r) /\ Left(r) = Left(o) \ {"new_user_group"}
  BY <1>1, <1>12, <1>17, <1>18, InsertTurn
<1>20. /\ r.op = "signup" /\ r.user = o.user
       /\ r.add = {y \in o.add : y.id \notin {}} \cup new
       /\ r.del = o.del /\ r.no = o.no /\ r.made = o.made + 2 /\ r.device = o.device
  BY <1>2, <1>4, <1>17, <1>19 DEF Follows, Kin
<1>21. SignupShape(r)
  <2>1. Drawn(r, r.user)
    <3>1. Drawn(o, o.user) /\ o.made \in Nat
      BY <1>2, <1>3, <1>8, RequestIs DEF SignupShape
    <3>2. PICK k \in Nat : 1 <= k /\ k <= o.made /\ o.user = o.no + Stride * k
      BY <3>1 DEF Drawn
    <3>3. k <= r.made  BY <1>20, <3>1, <3>2
    <3> QED  BY <1>20, <3>2, <3>3 DEF Drawn
  <2>2. r.add = o.add \cup {x} /\ r.del = {}  BY <1>3, <1>11, <1>20 DEF SignupShape
  <2>3. \A y \in o.add : y.t = "users" /\ y.id = o.user
    BY <1>2, <1>3 DEF SignupShape
  <2>4. \A y, z \in o.add : y.t = z.t => y = z  BY <1>3 DEF SignupShape
  <2>5. \A y, z \in r.add : y.t = z.t => y = z  BY <1>7, <2>2, <2>3, <2>4
  <2>6. /\ "new_user_group" \notin Left(r) /\ "new_user" \notin Left(r)
        /\ "find_name" \notin Left(r)
    BY <1>8, <1>19
  <2>7. \A y \in r.add : \/ y.t = "users" /\ y.id = r.user
                         \/ y.t = "groups" /\ y.user = r.user /\ y.default
    BY <1>7, <1>20, <2>2, <2>3
  <2> QED  BY <1>7, <2>1, <2>2, <2>5, <2>6, <2>7 DEF SignupShape
<1>22. Shape(r)  BY <1>20, <1>21, ShapeFor
<1>23. ReqRefs(r) \subseteq {NewId(p), SecondId(p)} \cup ReqRefs(o)
  <2>1. "new_user_group" \notin Finding \cup {"device", "blue_find"}  BY DEF Finding
  <2>2. Silent("new_user_group")  BY <2>1 DEF Silent
  <2>3. ReqRefs(r) = ReqRefs(o)  BY <1>2, <1>19, <1>20, <2>2, SilentRefs
  <2> QED  BY <2>3
<1>24. \A y \in new : Told(r, y)  BY <1>7, <1>11 DEF Told
<1>25. Statement(p, new, {}, s, Uncached(o.user))  BY <1>1, <1>6, <1>11, <1>16
<1>26. "new_user_group" \notin Telling  BY DEF Telling
<1>27. o.op # "delete_user"  BY <1>2
<1>28. PICK red : red = Uncached(o.user)  OBVIOUS
<1>29. red = redis \/ \E u : red = Uncached(u)  BY <1>28
<1>30. Statement(p, new, {}, s, red)  BY <1>25, <1>28
<1> QED
  BY <1>1, <1>4, <1>12, <1>13, <1>14, <1>15, <1>17, <1>18, <1>22, <1>23, <1>24, <1>29,
     <1>30, <1>26, <1>27, PlainKeeps

Turned(p, st, new, old, r) ==
    /\ Follows(r, req[p], new, old) /\ Program(r)
    /\ Left(r) = Left(req[p]) \ {st} /\ Tail(req[p].steps) \in Seq(StepNames)

\* A request that takes a step of its own.
LEMMA OwnTurned ==
    ASSUME Inv, NEW p \in Slots, NEW st, At(p, st),
           NEW new \in SUBSET Row, NEW old, NEW r, r = After(req[p], new, old)
    PROVE  Turned(p, st, new, old, r)
<1>1. req[p] \in Request  BY Turn
<1>2. PICK s \in Request : s = req[p]  BY <1>1
<1>3. /\ Kin(s, req[p]) /\ s.steps = req[p].steps /\ s.kind = req[p].kind
      /\ s.name = req[p].name /\ r = After(s, new, old)
  BY <1>2 DEF Kin
<1>4. /\ Follows(r, s, new, old) /\ Program(r) /\ Left(r) = Left(req[p]) \ {st}
      /\ Tail(s.steps) \in Seq(StepNames)
  BY <1>3, StatementTurn
<1> QED  BY <1>2, <1>4 DEF Turned

DropSteps == {"drop_scripts", "drop_devices", "drop_tokens", "drop_groups", "drop_links",
              "drop_user"}

\* What a user's deletion has left keeps its shape.
LEMMA DropShapeKept ==
    ASSUME Inv, NEW p \in Slots, NEW st \in DropSteps \cup {"collect"}, At(p, st),
           req[p].op = "delete_user", NEW r, r.op = req[p].op,
           Left(r) = Left(req[p]) \ {st}, r.add = {}, \A x \in r.seen : x.t = "devices"
    PROVE  Shape(r) /\ DropShape(req[p]) /\ (st = "drop_groups" => "drop_user" \in Left(r))
           /\ (Level(st) < 7 => "drop_groups" \in Left(req[p]))
<1> DEFINE o == req[p]
<1>1. /\ Shape(o) /\ st \in Left(o) /\ \A t \in Left(o) : t = st \/ Level(st) < Level(t)
  BY Turn
<1>2. DropShape(o)  BY <1>1, ShapeFor
<1>3. CASE st \in {"drop_scripts", "collect", "drop_devices", "drop_tokens"}
  <2>1. "drop_groups" \in Left(o) /\ "drop_user" \in Left(o)
    BY <1>1, <1>2, <1>3 DEF DropShape
  <2>2. "valid_code" \notin Left(o)  BY <1>1, <1>3, Levels
  <2>3. "drop_groups" \in Left(r) /\ "drop_user" \in Left(r) /\ "valid_code" \notin Left(r)
    BY <1>3, <2>1, <2>2
  <2>4. DropShape(r)  BY <2>3 DEF DropShape
  <2> QED  BY <1>2, <2>1, <2>3, <2>4, ShapeFor
<1>4. CASE st \in {"drop_groups", "drop_links", "drop_user"}
  <2>1. \A t \in {"valid_code", "find_user", "drop_scripts", "collect", "drop_devices",
                  "drop_tokens"} : t \notin Left(o)
    BY <1>1, <1>4, Levels
  <2>2. "drop_groups" \notin Left(r)  BY <1>1, <1>4, Levels
  <2>3. DropShape(r)  BY <2>1, <2>2 DEF DropShape
  <2>4. st = "drop_groups" => "drop_user" \in Left(r)  BY <1>1, <1>2 DEF DropShape
  <2>5. Level(st) >= 7  BY <1>4, Levels
  <2>6. Level(st) \in Nat  BY DEF Level
  <2> QED  BY <1>2, <2>3, <2>4, <2>5, <2>6, ShapeFor
<1> QED  BY <1>3, <1>4 DEF DropSteps

\* The default groups a user's deletion has taken are the user's.
LEMMA DropLeaving ==
    ASSUME Inv, NEW p \in Slots, NEW st \in DropSteps, At(p, st),
           req[p].op = "delete_user", NEW rows, rows \subseteq Vis(req[p]),
           NEW r, Writes(p, r, {}, Ids(rows)), r.user = req[p].user, req[p].add = {},
           Left(r) = Left(req[p]) \ {st}, st = "drop_groups" => "drop_user" \in Left(r),
           "drop_groups" \notin Left(r) \/ st # "drop_groups",
           \A x \in rows : x.t = "groups" => st = "drop_groups" /\ x.user = req[p].user,
           st = "drop_user" => \A u \in Vis(req[p]) : u.t = "users" /\ u.id = req[p].user
                                                      => u \in rows
    PROVE  Leaving(r)
<1> DEFINE o == req[p]
<1>1. /\ r.add = {} /\ r.op = "delete_user" /\ r.del = o.del \cup (Ids(rows) \cap Ids(db))
  BY DEF Writes, Counted
<1>2. Leaving(o)  BY DEF Inv, DefaultInv
<1>3. Vis(r) \subseteq Vis(o) /\ \A u \in Vis(r) : u.id \notin Ids(rows)
  BY <1>1 DEF Vis, Ids
<1>4. ASSUME NEW g \in db, g.t = "groups", g.default, g.id \in Removed(r)
      PROVE  /\ r.op = "delete_user" /\ g.user = r.user /\ "drop_groups" \notin Left(r)
             /\ "drop_user" \in Left(r) \/ \A u \in Vis(r) : u.t = "users" => u.id # g.user
  <2>1. CASE g.id \in o.del
    <3>1. g.id \in Removed(o)  BY <2>1 DEF Removed, Ids
    <3>2. /\ g.user = o.user /\ "drop_groups" \notin Left(o)
          /\ "drop_user" \in Left(o) \/ \A u \in Vis(o) : u.t = "users" => u.id # g.user
      BY <1>2, <1>4, <3>1 DEF Leaving
    <3>3. CASE st = "drop_user"
      <4>1. ASSUME NEW u \in Vis(r), u.t = "users", u.id = g.user PROVE FALSE
        <5>1. u \in rows  BY <1>3, <3>2, <3>3, <4>1
        <5> QED  BY <1>3, <5>1 DEF Ids
      <4> QED  BY <1>1, <3>2, <4>1
    <3>4. CASE st # "drop_user"  BY <1>1, <1>3, <3>2, <3>4
    <3> QED  BY <3>3, <3>4
  <2>2. CASE g.id \notin o.del
    <3>1. g.id \in Ids(rows)  BY <1>1, <1>4, <2>2 DEF Removed
    <3>2. g \in rows  BY <1>4, <3>1, Erased
    <3>3. st = "drop_groups" /\ g.user = o.user  BY <1>4, <3>2
    <3> QED  BY <1>1, <3>3
  <2> QED  BY <2>1, <2>2
<1> QED  BY <1>4 DEF Leaving

\* A statement of a user's deletion.
LEMMA DropKeeps ==
    ASSUME Inv, NEW p \in Slots, NEW st \in DropSteps, At(p, st),
           NEW red, red = redis \/ \E u : red = Uncached(u),
           NEW rows, rows \subseteq Vis(req[p]), Statement(p, {}, Ids(rows), req[p], red),
           UNCHANGED <<todo, bare>>,
           \A x \in rows : x.t = "groups" => st = "drop_groups" /\ x.user = req[p].user,
           st = "drop_user" => \A u \in Vis(req[p]) : u.t = "users" /\ u.id = req[p].user
                                                      => u \in rows,
           \/ \A x \in rows : x.t \notin Typed \cup {"authority", "devices"}
           \/ \A r : Writes(p, r, {}, Ids(rows)) => Jointly(r)
    PROVE  Inv'
<1> DEFINE o == req[p]
<1>1. /\ o \in Request /\ Active(p) /\ Program(o) /\ o.op = "delete_user"
      /\ st \in Left(o) /\ \A t \in Left(o) : t = st \/ Level(st) < Level(t)
  BY Turn, StepOpsMore DEF DropSteps
<1>2. o.txn  BY <1>1, Transactions DEF Program
<1>3. PICK old : old = Ids(rows)  OBVIOUS
<1>4. PICK new : new = {}  OBVIOUS
<1>5. new \in SUBSET Row  BY <1>4
<1>6. PICK r : r = After(o, new, old)  OBVIOUS
<1>7. /\ Follows(r, o, new, old) /\ Program(r) /\ Left(r) = Left(o) \ {st}
      /\ Tail(o.steps) \in Seq(StepNames)
  <2>1. Turned(p, st, new, old, r)  BY <1>5, <1>6, OwnTurned
  <2> QED  BY <2>1 DEF Turned
<1>8. o.add = {}
  <2>1. Shape(o)  BY Turn
  <2>2. DropShape(o)  BY <1>1, <2>1, ShapeFor
  <2> QED  BY <2>2 DEF DropShape
<1>9. /\ r.op = o.op /\ r.user = o.user /\ r.device = o.device /\ r.add = {}
      /\ r.seen = o.seen
  BY <1>2, <1>4, <1>7, <1>8 DEF Follows
<1>10. \A x \in o.seen : x.t = "devices"
  <2>1. Shape(o)  BY Turn
  <2>2. DropShape(o)  BY <1>1, <2>1, ShapeFor
  <2> QED  BY <2>2 DEF DropShape
<1>11. Shape(r) /\ (st = "drop_groups" => "drop_user" \in Left(r))
  BY <1>1, <1>7, <1>9, <1>10, DropShapeKept
<1>12. Writable(p, new, old) /\ Fitting(p, new) /\ Novel(new) /\ \A x \in new : Told(r, x)
  BY <1>4, NoRows
<1>13. ReqRefs(r) \subseteq {NewId(p), SecondId(p)} \cup ReqRefs(o)
  <2>1. Silent(st)  BY DEF Silent, Finding, DropSteps
  <2>2. ReqRefs(r) = ReqRefs(o)  BY <1>7, <1>9, <2>1, SilentRefs
  <2> QED  BY <2>2
<1>14. Left(o) \cap Telling \subseteq Left(r)  BY <1>7 DEF Telling, DropSteps
<1>15. ASSUME Writes(p, r, new, old) PROVE Jointly(r) /\ Leaving(r)
  <2>1. Writes(p, r, {}, Ids(rows))  BY <1>3, <1>4, <1>15
  <2>2. Jointly(r)
    <3>1. CASE \A x \in rows : x.t \notin Typed \cup {"authority", "devices"}
      <4>1. ASSUME NEW x \in db, x.id \in old
            PROVE  x.t \notin Typed \cup {"authority", "devices"}
        <5>1. PICK v \in rows : v.t = x.t  BY <1>3, <4>1, Erased
        <5> QED  BY <3>1, <5>1
      <4>2. Plain(new, old)  BY <4>1 DEF Plain
      <4>3. /\ StoreInv /\ NumberInv /\ ApartInv /\ IdInv /\ CompatInv /\ JointInv
        BY DEF Inv
      <4> QED  BY <1>12, <1>15, <4>2, <4>3, PlainJoint
    <3>2. CASE \A w : Writes(p, w, {}, Ids(rows)) => Jointly(w)  BY <2>1, <3>2
    <3> QED  BY <3>1, <3>2
  <2>3. Leaving(r)
    <3>1. "drop_groups" \notin Left(r) \/ st # "drop_groups"  BY <1>7
    <3> QED  BY <1>1, <1>7, <1>8, <1>9, <1>11, <2>1, <3>1, DropLeaving
  <2> QED  BY <2>2, <2>3
<1>16. Statement(p, new, old, o, red)  BY <1>3, <1>4
<1>17. PICK s \in Request : s = o  BY <1>1
<1>18. /\ Kin(s, o) /\ s.seen = o.seen /\ Tail(s.steps) \in Seq(StepNames)
       /\ Statement(p, new, old, s, red) /\ r = After(s, new, old)
  BY <1>6, <1>7, <1>16, <1>17 DEF Kin
<1>19. /\ o.txn => /\ Left(o) \cap Telling \subseteq Left(r)
                   /\ \A x \in new : Told(r, x)
       /\ Writes(p, r, new, old) => Jointly(r) /\ Leaving(r)
       /\ ~o.txn => Loose(new, old) /\ Staying(new, old)
  BY <1>2, <1>12, <1>14, <1>15
<1> QED
  BY <1>1, <1>7, <1>11, <1>12, <1>13, <1>18, <1>19, StatementKeeps

\* The devices of a user are deleted together with their rows.
LEMMA DropDevicesKeeps ==
    ASSUME Inv, NEW p \in Slots, DropDevices(p)
    PROVE  Inv'
<1> DEFINE o == req[p]
           ids == Ids(o.seen)
           nodes == Ids({d \in o.seen : d.kind = "LoRaNode"})
           gates == Ids({d \in o.seen : d.kind = "Gateway"})
<1>1. At(p, "drop_devices") /\ UNCHANGED <<todo, bare>>  BY DEF DropDevices
<1>2. PICK rows : rows = {r \in View(p) :
                            \/ r.t \in {"snaps", "nodes"} /\ r.device \in nodes
                            \/ r.t = "gates" /\ r.device \in gates
                            \/ r.t = "devices" /\ r.id \in ids
                            \/ r.t = "authority" /\ r.device \in ids}
  OBVIOUS
<1>3. Statement(p, {}, Ids(rows), o, redis)  BY <1>2 DEF DropDevices, Delete
<1>4. View(p) = Vis(o)  BY RowsSeen
<1>5. rows \subseteq Vis(o)  BY <1>2, <1>4
<1>6. \A x \in rows : x.t # "groups"  BY <1>2
<1>7. /\ o \in Request /\ o.op = "delete_user" /\ Shape(o)  BY <1>1, Turn, StepOpsMore
<1>8. /\ o.add = {} /\ \A x \in o.seen : x.t = "devices"
  <2>1. DropShape(o)  BY <1>7, ShapeFor
  <2> QED  BY <2>1 DEF DropShape
<1>9. StoreInv /\ CompatInv /\ Jointly(o)  BY DEF Inv, JointInv
<1>10. ASSUME NEW r, Writes(p, r, {}, Ids(rows)) PROVE Jointly(r)
  <2>1. r.add = {} /\ r.del = o.del \cup (Ids(rows) \cap Ids(db))
    BY <1>8, <1>10 DEF Writes
  <2>2. /\ Removed(r) = o.del \cup (Ids(rows) \cap Ids(db)) /\ Removed(o) = o.del
    BY <1>8, <2>1 DEF Removed, Ids
  <2>3. Vis(r) \subseteq Vis(o) /\ \A u \in Vis(r) : u.id \notin Ids(rows)
    BY <1>8, <2>1 DEF Vis, Ids
  <2>4. nodes \subseteq ids /\ gates \subseteq ids  BY DEF Ids
  <2>5. ASSUME NEW x \in db, NEW d \in Vis(r), x.t \in Typed \cup {"authority"},
               x.id \in Removed(r), d.t = "devices"
        PROVE  d.id # x.device
    <3>1. CASE x.id \in o.del  BY <1>9, <2>2, <2>3, <2>5, <3>1 DEF Jointly
    <3>2. CASE x.id \notin o.del
      <4>1. x.id \in Ids(rows)  BY <2>2, <2>5, <3>2
      <4>2. PICK v \in rows : v.t = x.t /\ v.device = x.device
        BY <1>5, <2>5, <4>1, Erased
      <4>3. v.device \in ids
        BY <1>2, <2>4, <2>5, <4>2 DEF Typed
      <4>4. ASSUME d.id = x.device PROVE FALSE
        <5>1. d \in rows
          <6>1. d.id \in ids /\ d \in View(p)  BY <1>4, <2>3, <4>2, <4>3, <4>4
          <6> HIDE DEF ids, nodes, gates
          <6> QED  BY <1>2, <2>5, <6>1
        <5> QED  BY <2>3, <5>1 DEF Ids
      <4> QED  BY <4>4
    <3> QED  BY <3>1, <3>2
  <2>6. ASSUME NEW d \in db, NEW x \in db, d.t = "devices", d.id \in Removed(r),
               x.t \in {"nodes", "gates"}, x.device = d.id
        PROVE  x.id \in Removed(r)
    <3>1. CASE d.id \in o.del
      <4>1. x.id \in Removed(o)  BY <1>9, <2>2, <2>6, <3>1 DEF Jointly
      <4> QED  BY <2>2, <4>1
    <3>2. CASE x.id \in o.del  BY <2>2, <3>2
    <3>3. CASE d.id \notin o.del /\ x.id \notin o.del
      <4>1. d.id \in Ids(rows)  BY <2>2, <2>6, <3>3
      <4>2. PICK v \in rows : v.id = d.id /\ v.t = d.t  BY <1>5, <2>6, <4>1, Erased
      <4>3. v.id \in ids  BY <1>2, <2>6, <4>2
      <4>4. PICK e \in o.seen : e.id = d.id  BY <4>2, <4>3 DEF Ids
      <4>5. e \in Everywhere /\ d \in Everywhere /\ x \in Everywhere /\ d \in Row
        BY <1>9, Places DEF Held
      <4>6. e.kind = d.kind  BY <1>8, <1>9, <4>4, <4>5, SameId
      <4>7. x.t = TypeTable(d.kind)
        <5>1. Compat(x, d)  BY <1>9, <4>5 DEF CompatInv
        <5> QED  BY <2>6, <5>1 DEF Compat, Typed
      <4>8. d \in DeviceRows  BY <2>6, <4>5, RowIds
      <4>9. d.kind \in {"LoRaNode", "Gateway", "MQTT", "Snap"}  BY <4>8 DEF DeviceRows
      <4>10. \/ x.t = "nodes" /\ e.kind = "LoRaNode"
             \/ x.t = "gates" /\ e.kind = "Gateway"
        BY <2>6, <4>6, <4>7, <4>9 DEF TypeTable
      <4>11. \/ x.t = "nodes" /\ x.device \in nodes
             \/ x.t = "gates" /\ x.device \in gates
        BY <2>6, <4>4, <4>10 DEF Ids
      <4>12. x \in View(p)  BY <1>4, <3>3 DEF Vis
      <4> HIDE DEF nodes, gates, ids
      <4>13. x \in rows  BY <1>2, <4>11, <4>12
      <4> QED  BY <2>2, <4>13 DEF Ids
    <3> QED  BY <3>1, <3>2, <3>3
  <2> QED  BY <2>5, <2>6 DEF Jointly
<1>11. "drop_devices" \in DropSteps  BY DEF DropSteps
<1>12. redis = redis \/ \E u : redis = Uncached(u)  OBVIOUS
<1> HIDE DEF ids, nodes, gates, o
<1>13. Statement(p, {}, Ids(rows), req[p], redis) /\ rows \subseteq Vis(req[p])
  BY <1>3, <1>5 DEF o
<1> QED  BY <1>1, <1>6, <1>10, <1>11, <1>12, <1>13, DropKeeps

\* The user's rows of one table are deleted.
LEMMA DropOwnKeeps ==
    ASSUME Inv, NEW p \in Slots, NEW st \in DropSteps \ {"drop_user", "drop_devices"},
           NEW t \in {"scripts", "tokens", "groups", "links"}, NEW red,
           red = redis \/ \E u : red = Uncached(u), DropOwn(p, st, t, red),
           t = "groups" => st = "drop_groups"
    PROVE  Inv'
<1>1. At(p, st) /\ UNCHANGED <<todo, bare>>  BY DEF DropOwn
<1>2. PICK rows : rows = {r \in Rows(p, t) : r.user = req[p].user}  OBVIOUS
<1>3. Statement(p, {}, Ids(rows), req[p], red)  BY <1>2 DEF DropOwn
<1>4. rows \subseteq Vis(req[p]) /\ \A x \in rows : x.t = t /\ x.user = req[p].user
  BY <1>2, RowsIn
<1>5. \A x \in rows : x.t \notin Typed \cup {"authority", "devices"}
  BY <1>4 DEF Typed
<1>6. st \in DropSteps /\ st # "drop_user"  OBVIOUS
<1> QED  BY <1>1, <1>3, <1>4, <1>5, <1>6, DropKeeps

\* The user's row goes, and with it the need of a default group.
LEMMA DropUserKeeps ==
    ASSUME Inv, NEW p \in Slots, DropUser(p)
    PROVE  Inv'
<1>1. At(p, "drop_user") /\ UNCHANGED <<todo, bare>>  BY DEF DropUser
<1>2. PICK rows : rows = {u \in Rows(p, "users") : u.id = req[p].user}  OBVIOUS
<1>3. Statement(p, {}, Ids(rows), req[p], redis)  BY <1>2 DEF DropUser, Delete
<1>4. rows \subseteq Vis(req[p]) /\ \A x \in rows : x.t = "users"
  BY <1>2, RowsIn
<1>5. \A x \in rows : x.t \notin Typed \cup {"authority", "devices"} /\ x.t # "groups"
  BY <1>4 DEF Typed
<1>6. \A u \in Vis(req[p]) : u.t = "users" /\ u.id = req[p].user => u \in rows
  BY <1>2, RowsSeen
<1>7. "drop_user" \in DropSteps  BY DEF DropSteps
<1>8. redis = redis \/ \E u : redis = Uncached(u)  OBVIOUS
<1> QED  BY <1>1, <1>3, <1>4, <1>5, <1>6, <1>7, <1>8, DropKeeps

\* The user's devices are read.
LEMMA CollectKeeps ==
    ASSUME Inv, NEW p \in Slots, Collect(p)
    PROVE  Inv'
<1> DEFINE o == req[p]
<1>1. PICK found : found = {d \in Rows(p, "devices") : Owned(p, d.id) # {}}  OBVIOUS
<1>2. /\ At(p, "collect") /\ UNCHANGED <<db, redis, todo, bare>>
      /\ Go(p, Done([o EXCEPT !.seen = found]))
  BY <1>1 DEF Collect
<1>3. /\ o \in Request /\ o.op = "delete_user"  BY <1>2, Turn, StepOpsMore
<1>4. found \subseteq Vis(o) /\ \A x \in found : x.t = "devices"  BY <1>1, RowsIn
<1>5. found \subseteq Row  BY <1>4, Places DEF Inv
<1>6. PICK s : s = [o EXCEPT !.seen = found]  OBVIOUS
<1>7. /\ s \in Request /\ Kin(s, o) /\ s.steps = o.steps /\ s.kind = o.kind
      /\ s.name = o.name /\ s.user = o.user /\ s.device = o.device /\ s.seen = found
  BY <1>3, <1>5, <1>6 DEF Request, Kin
<1>8. PICK r : r = Done(s)  OBVIOUS
<1>9. /\ Left(r) = Left(o) \ {"collect"} /\ r.user = o.user /\ r.device = o.device
      /\ r.op = o.op /\ r.add = o.add /\ r.seen = found
  BY <1>2, <1>7, <1>8, DoneTurn DEF Kin
<1>10. o.add = {}
  <2>1. Shape(o)  BY <1>2, Turn
  <2>2. DropShape(o)  BY <1>3, <2>1, ShapeFor
  <2> QED  BY <2>2 DEF DropShape
<1>11. Shape(r) /\ "drop_groups" \in Left(o)
  <2>1. Level("collect") < 7  BY Levels
  <2>2. "collect" \in DropSteps \cup {"collect"}  OBVIOUS
  <2> QED  BY <1>2, <1>3, <1>4, <1>9, <1>10, <2>1, <2>2, DropShapeKept
<1>12. ReqRefs(r) = ReqRefs(o) /\ "collect" \notin Telling
  <2>1. Silent("collect")  BY DEF Silent, Finding
  <2> QED  BY <1>9, <2>1, SilentRefs DEF Telling
<1>13. Go(p, r)  BY <1>2, <1>6, <1>8
<1>14. s.seen \subseteq Vis(o) \cup o.seen /\ ReqRefs(r) \subseteq ReqRefs(o) \cup Ids(Vis(o))
  BY <1>4, <1>7, <1>12
<1> QED  BY <1>2, <1>7, <1>8, <1>11, <1>12, <1>13, <1>14, ReadTurn

-----------------------------------------------------------------------------
(* Groups and their cached lists *)

\* A step put before the rest of a handler.
LEMMA ConsSteps ==
    ASSUME NEW s \in Seq(StepNames), NEW x \in StepNames, Ordered(s),
           \A t \in StepsIn(s) : Level(x) < Level(t), NEW w, w = <<x>> \o s
    PROVE  /\ w \in Seq(StepNames) /\ w # <<>> /\ Tail(w) = s /\ Ordered(w)
           /\ StepsIn(w) = {x} \cup StepsIn(s)
<1>1. w \in Seq(StepNames) /\ Len(w) = Len(s) + 1 /\ Len(s) \in Nat  OBVIOUS
<1>2. w[1] = x /\ \A i \in 2 .. Len(w) : w[i] = s[i - 1]  BY <1>1
<1>3. w # <<>> /\ Tail(w) = s
  <2>1. w # <<>>  BY <1>1
  <2>2. Tail(w) \in Seq(StepNames) /\ Len(Tail(w)) = Len(s)  BY <1>1, <2>1
  <2>3. ASSUME NEW i \in 1 .. Len(s) PROVE Tail(w)[i] = s[i]
    <3>1. Tail(w)[i] = w[i + 1]  BY <1>1, <2>1, <2>2
    <3> QED  BY <1>1, <1>2, <3>1
  <2> QED  BY <2>1, <2>2, <2>3
<1>4. Ordered(w)
  <2>1. ASSUME NEW i \in 1 .. Len(w), NEW j \in 1 .. Len(w), i < j
        PROVE  Level(w[i]) < Level(w[j])
    <3>1. j \in 2 .. Len(w) /\ j - 1 \in 1 .. Len(s) /\ w[j] = s[j - 1]
      BY <1>1, <1>2, <2>1
    <3>2. CASE i = 1  BY <1>2, <3>1, <3>2 DEF StepsIn
    <3>3. CASE i # 1
      <4>1. w[i] = s[i - 1] /\ i - 1 \in 1 .. Len(s) /\ i - 1 < j - 1
        BY <1>1, <1>2, <2>1, <3>3
      <4> QED  BY <3>1, <4>1 DEF Ordered
    <3> QED  BY <3>2, <3>3
  <2> QED  BY <2>1 DEF Ordered
<1>5. StepsIn(w) = {x} \cup StepsIn(s)
  <2>1. StepsIn(w) \subseteq {x} \cup StepsIn(s)
    <3>1. ASSUME NEW i \in 1 .. Len(w) PROVE w[i] \in {x} \cup StepsIn(s)
      <4>1. CASE i = 1  BY <1>2, <4>1
      <4>2. CASE i # 1
        <5>1. i - 1 \in 1 .. Len(s) /\ w[i] = s[i - 1]  BY <1>1, <1>2, <4>2
        <5> QED  BY <5>1 DEF StepsIn
      <4> QED  BY <4>1, <4>2
    <3> QED  BY <3>1 DEF StepsIn
  <2>2. x \in StepsIn(w)
    <3>1. 1 \in 1 .. Len(w)  BY <1>1
    <3> QED  BY <1>2, <3>1 DEF StepsIn
  <2>3. ASSUME NEW i \in 1 .. Len(s) PROVE s[i] \in StepsIn(w)
    <3>1. i + 1 \in 2 .. Len(w) /\ i + 1 \in 1 .. Len(w)  BY <1>1
    <3>2. w[i + 1] = s[i]  BY <1>2, <3>1
    <3> QED  BY <3>1, <3>2 DEF StepsIn
  <2> QED  BY <2>1, <2>2, <2>3 DEF StepsIn
<1> QED  BY <1>1, <1>3, <1>4, <1>5

\* While the links are written the device has its rows.
LEMMA LinkShape ==
    ASSUME Inv, NEW p \in Slots, NEW st \in LinkSteps \ {"device_commit"}, At(p, st),
           req[p].op \in {"create", "rebind", "top"},
           NEW r, r.op = req[p].op, r.kind = req[p].kind, r.del = req[p].del,
           r.seen = req[p].seen, r.eui = req[p].eui, r.dev_eui = req[p].dev_eui,
           r.addr = req[p].addr, r.device = req[p].device, r.user = req[p].user,
           NEW N, r.add = req[p].add \cup N, \A x \in N : x.t \in {"groups", "links"},
           Left(r) \subseteq Left(req[p]) \cup {"find_default"},
           /\ "link_default" \in Left(r) /\ Left(r) \cap {"default", "find_default"} = {}
           => r.groups # <<>>
    PROVE  Shape(r) /\ ReqRefs(r) = ReqRefs(req[p])
<1> DEFINE o == req[p]
           Before == RowSteps \cup Finding \cup {"device", "address", "blue_find",
                                                 "blue_update"}
<1>1. /\ Shape(o) /\ \A t \in Left(o) : t = st \/ Level(st) < Level(t)  BY Turn
<1>2. \A t \in Before : t \notin Left(o) /\ t \notin Left(r)
  <2>1. \A t \in Before : Level(t) \in {1, 2, 3, 4}  BY Levels DEF RowSteps, Finding
  <2>2. Level(st) \in {9, 10, 11, 12}  BY Levels DEF LinkSteps
  <2>3. \A t \in Before : t \notin Left(o)  BY <1>1, <2>1, <2>2
  <2>4. "find_default" \notin Before  BY DEF RowSteps, Finding
  <2> QED  BY <2>3, <2>4
<1>3. Left(o) \cap RowSteps = {} /\ Left(r) \cap RowSteps = {}  BY <1>2
<1>4. CASE o.op = "create"
  <2>1. CreateShape(o)  BY <1>1, <1>4, ShapeFor
  <2>2. "device" \notin Left(o) /\ "address" \notin Left(o)  BY <1>2
  <2>3. "device" \notin Left(r) /\ "address" \notin Left(r)  BY <1>2
  <2>4. \A s \in {"node", "gate", "snap"} : s \notin Left(r)  BY <1>2 DEF RowSteps
  <2>5. \A x \in r.add :
          /\ x.t \notin {"users", "authority"}
          /\ x.t = "devices" => /\ x.id = r.device /\ x.eui = r.eui /\ x.user = r.user
                                /\ x.kind = TypeOf(r.kind)
          /\ x.t \in Typed => Left(r) \cap RowSteps = {} /\ x.device = r.device
          /\ x.t = "nodes" => x.dev_addr = r.addr
    BY <1>3, <2>1 DEF CreateShape, Typed
  <2>6. (\E x \in r.add : x.t = "devices") /\ \E x \in r.add : x.t = TypeTable(TypeOf(r.kind))
    BY <1>3, <2>1, <2>2 DEF CreateShape
  <2>7. CreateShape(r)
    BY <2>1, <2>2, <2>3, <2>4, <2>5, <2>6 DEF CreateShape
  <2> QED  BY <1>2, <1>4, <2>7, ShapeFor DEF ReqRefs, UserSet, DeviceSet
<1>5. CASE o.op = "rebind"
  <2>1. RebindShape(o)  BY <1>1, <1>5, ShapeFor
  <2>2. "blue_find" \notin Left(r) /\ "blue_update" \notin Left(r)  BY <1>2
  <2>3. RebindShape(r)
    <3>1. \A x \in r.add :
            \/ x.t = "nodes" /\ x.device = r.device /\ x.dev_addr = r.addr /\ x.id \in r.del
            \/ x.t \in {"groups", "links"}
      BY <2>1 DEF RebindShape
    <3>2. r.del \subseteq Ids(r.add)  BY <2>1 DEF RebindShape, Ids
    <3> QED  BY <2>1, <2>2, <3>1, <3>2 DEF RebindShape
  <2> QED  BY <1>2, <1>5, <2>3, ShapeFor DEF ReqRefs, UserSet, DeviceSet
<1>6. CASE o.op = "top"
  <2>1. TopShape(o)  BY <1>1, <1>6, ShapeFor
  <2>2. TopShape(r)  BY <2>1 DEF TopShape
  <2> QED  BY <1>2, <1>6, <2>2, ShapeFor DEF ReqRefs, UserSet, DeviceSet
<1> QED  BY <1>4, <1>5, <1>6

\* A default group is new only for a user that is not committed.
LEMMA NovelDefault ==
    ASSUME Inv, NEW p \in Slots, req[p].op # "delete_user", DefaultOf(p) = {},
           NEW x, x.user = req[p].user, NEW new, new = {x}
    PROVE  Novel(new)
<1> DEFINE o == req[p]
<1>1. StoreInv /\ CompatInv /\ DefaultInv  BY DEF Inv
<1>2. ASSUME NEW u \in db, u.t = "users", u.id = o.user PROVE FALSE
  <2>1. PICK g \in db : TheDefault(g, u.id)  BY <1>1, <1>2 DEF DefaultInv
  <2>2. g.t = "groups" /\ g.default /\ g.user = o.user
    BY <1>2, <2>1 DEF TheDefault, IsDefault
  <2>3. g \notin Vis(o)  BY <2>2, RowsSeen DEF DefaultOf
  <2>4. g.id \in o.del  BY <2>3 DEF Vis
  <2>5. g.id \notin Removed(o)  BY <1>1, <2>2 DEF DefaultInv, Leaving
  <2>6. PICK y \in o.add : y.id = g.id  BY <2>4, <2>5 DEF Removed, Ids
  <2>7. y \in Everywhere /\ g \in Everywhere  BY <1>1, Places DEF Held
  <2>8. y = g  BY <1>1, <2>2, <2>6, <2>7, SameId
  <2> QED  BY <2>3, <2>6, <2>8 DEF Vis
<1> QED  BY <1>2 DEF Novel

\* A statement without a transaction, of a request that learns of a group.
LEMMA LooseRuns ==
    ASSUME Inv, NEW p \in Slots, NEW st, At(p, st), ~req[p].txn,
           NEW s \in Request, Kin(s, req[p]), s.seen = req[p].seen, s.steps = req[p].steps,
           s.kind = req[p].kind, s.name = req[p].name,
           NEW red, red = redis \/ \E u : red = Uncached(u),
           NEW new, NEW old, Statement(p, new, old, s, red), UNCHANGED <<todo, bare>>,
           Writable(p, new, old), Novel(new), Loose(new, old), Staying(new, old),
           NEW r, r = After(s, new, old), Shape(r),
           ReqRefs(r) \subseteq {NewId(p), SecondId(p)} \cup ReqRefs(req[p])
    PROVE  Inv'
<1>1. Active(p) /\ Tail(req[p].steps) \in Seq(StepNames)  BY Turn
<1>2. new \in SUBSET Row  BY DEF Writable
<1>3. /\ Follows(r, s, new, old) /\ Program(r) /\ Left(r) = Left(req[p]) \ {st}
      /\ Tail(s.steps) \in Seq(StepNames)
  BY <1>2, StatementTurn
<1>4. Fitting(p, new)  BY DEF Fitting, Loose, Typed
<1>5. ~Writes(p, r, new, old)  BY DEF Writes
<1>6. /\ req[p].txn => /\ Left(req[p]) \cap Telling \subseteq Left(r)
                       /\ \A x \in new : Told(r, x)
      /\ Writes(p, r, new, old) => Jointly(r) /\ Leaving(r)
      /\ ~req[p].txn => Loose(new, old) /\ Staying(new, old)
  BY <1>5
<1> QED  BY <1>1, <1>2, <1>3, <1>4, <1>6, StatementKeeps

\* A handler that ends early.
LEMMA EarlyEnd ==
    ASSUME Inv, NEW p \in Slots, Active(p), NEW r, r.steps = <<>>, Go(p, r),
           UNCHANGED <<db, redis, todo, bare>>
    PROVE  Inv'
<1>1. Fail(p)  BY DEF Go, Fail
<1> QED  BY <1>1, FailKeeps

\* Keys of redis that no row is compared with.
LEMMA RecordsKeep ==
    ASSUME Inv, NEW p \in Slots, NEW st, At(p, st), Silent(st), st \notin Telling, Proceed(p),
           db' = db, todo' = todo, bare' = bare, redis' \in Stored,
           redis'.node = redis.node, redis'.gate = redis.gate, redis'.snap = redis.snap,
           redis'.groups \subseteq redis.groups, redis'.session = redis.session,
           req[p].op # "delete_user", NEW r, r = Done(req[p]), Shape(r)
    PROVE  Inv'
<1>1. /\ req[p] \in Request /\ Active(p) /\ Tail(req[p].steps) \in Seq(StepNames)
  BY Turn
<1>2. /\ r \in Request /\ Kin(r, req[p]) /\ r.op = req[p].op /\ r.kind = req[p].kind
      /\ r.txn = req[p].txn /\ r.name = req[p].name /\ r.steps = Tail(req[p].steps)
  BY <1>1, DoneIs DEF Kin
<1>3. Left(r) = Left(req[p]) \ {st}  BY <1>2, DoneProgram
<1>4. StoreInv /\ OwnedInv  BY DEF Inv
<1>5. Go(p, r)  BY DEF Proceed
<1>6. Quiet(p, r)  BY <1>1, <1>2, <1>4, <1>5, GoGoes DEF Quiet
<1>7. OwnedInv'
  <2>1. SameRecords  BY DEF SameRecords
  <2>2. Left(req[p]) \cap Telling \subseteq Left(r)  BY <1>3
  <2> QED  BY <1>4, <1>6, <2>1, <2>2, QuietOwned
<1>8. redis'.session \subseteq redis.session
             \cup (IF req[p].txn THEN {} ELSE ReqRefs(req[p]))
  OBVIOUS
<1> QED  BY <1>7, <1>8, KeyKeeps

\* What the default group's row and a link are.
LEMMA GroupWritable ==
    ASSUME Inv, NEW p \in Slots, Active(p), req[p].user \in ReqRefs(req[p]),
           NEW d \in BOOLEAN, NEW x, x = GroupRow(NewId(p), req[p].user, d)
    PROVE  /\ x \in Row /\ x.id = NewId(p) /\ x.t = "groups" /\ x.user = req[p].user
           /\ x.default = d /\ Created(p, x) /\ x.id \in Nat
<1>1. req[p] \in Request  BY DEF Inv, StoreInv
<1>2. req[p].user \in Nat /\ NewId(p) \in Nat  BY <1>1, RequestIs, TakenIds
<1>3. /\ x \in GroupRows /\ x.id = NewId(p) /\ x.t = "groups" /\ x.user = req[p].user
      /\ x.default = d
  BY <1>2 DEF GroupRow, GroupRows
<1> QED  BY <1>2, <1>3 DEF Row, Created, Refs, Typed

\* A link may be written under a new id.
LEMMA LinkWritable ==
    ASSUME Inv, NEW p \in Slots, Active(p), NEW g \in Nat,
           NEW x, x = LinkRow(NewId(p), req[p].user, req[p].device, g)
    PROVE  x \in Row /\ x.id = NewId(p) /\ x.t = "links" /\ Created(p, x)
<1>1. req[p] \in Request  BY DEF Inv, StoreInv
<1>2. req[p].user \in Nat /\ req[p].device \in Nat /\ NewId(p) \in Nat
  BY <1>1, RequestIs, TakenIds
<1>3. x \in LinkRows /\ x.id = NewId(p) /\ x.t = "links"
  BY <1>2 DEF LinkRow, LinkRows
<1> QED  BY <1>3 DEF Row, Created, Refs, Typed

\* A new group or link of a transaction.
LEMMA LinkedKeeps ==
    ASSUME Inv, NEW p \in Slots, NEW st, At(p, st), st \notin Telling, req[p].txn,
           req[p].op # "delete_user",
           NEW s \in Request, Kin(s, req[p]), s.seen = req[p].seen, s.steps = req[p].steps,
           s.kind = req[p].kind, s.name = req[p].name,
           NEW red, red = redis \/ \E u : red = Uncached(u),
           NEW x \in Row, x.t \in {"groups", "links"}, Created(p, x),
           NEW new, new = {x}, Novel(new),
           Statement(p, new, {}, s, red), UNCHANGED <<todo, bare>>,
           NEW r, r = After(s, new, {}), Shape(r),
           ReqRefs(r) \subseteq {NewId(p), SecondId(p)} \cup ReqRefs(req[p])
    PROVE  Inv'
<1>1. Writable(p, new, {}) /\ new \in SUBSET Row  BY OneNew
<1>2. Fitting(p, new)  BY DEF Fitting, Typed
<1>3. PICK old : old = {}  OBVIOUS
<1>4. Plain(new, old) /\ Staying(new, old) /\ Writable(p, new, old)  BY <1>1, <1>3, NothingOld
<1>5. \A y \in new : Told(r, y)  BY DEF Told
<1>6. Statement(p, new, old, s, red) /\ r = After(s, new, old)  BY <1>3
<1> QED  BY <1>2, <1>4, <1>5, <1>6, PlainKeeps

\* The default group is taken from the cache, if a list with one is there.
LEMMA DefaultKeeps ==
    ASSUME Inv, NEW p \in Slots, Default(p)
    PROVE  Inv'
<1> DEFINE o == req[p]
           hit == {g \in CachedRows(o.user) : g.default}
<1>1. At(p, "default") /\ UNCHANGED <<db, redis, todo, bare>>  BY DEF Default
<1>2. /\ o \in Request /\ Active(p) /\ Program(o) /\ o.op \in {"create", "rebind", "top"}
      /\ "default" \in Left(o) /\ Tail(o.steps) \in Seq(StepNames) /\ Ordered(Tail(o.steps))
      /\ StepsIn(Tail(o.steps)) = Left(o) \ {"default"}
      /\ \A t \in Left(o) : t = "default" \/ Level("default") < Level(t)
  BY <1>1, Turn, StepOps
<1>3. "default" \in LinkSteps \ {"device_commit"} /\ "default" \notin Telling
  BY DEF LinkSteps, Telling
<1>4. o.op # "delete_user"  BY <1>2
<1>5. CASE hit = {} /\ Go(p, [o EXCEPT !.steps = <<"find_default">> \o Tail(@)])
  <2>1. \A t \in StepsIn(Tail(o.steps)) : Level("find_default") < Level(t)
    <3>1. Level("default") = 9 /\ Level("find_default") = 10  BY Levels
    <3>2. ASSUME NEW t \in StepsIn(Tail(o.steps)) PROVE 10 < Level(t)
      <4>1. t # "default" /\ t \in Left(o) /\ t # "find_default"
        BY <1>2, <3>2 DEF Program
      <4>2. Level(t) # 10  BY <4>1 DEF Level
      <4>3. Level(t) \in Nat  BY DEF Level
      <4> QED  BY <1>2, <3>1, <4>1, <4>2, <4>3
    <3> QED  BY <3>1, <3>2
  <2>2. PICK w : w = <<"find_default">> \o Tail(o.steps)  OBVIOUS
  <2>3. "find_default" \in StepNames  BY DEF StepNames
  <2>4. /\ w \in Seq(StepNames) /\ Ordered(w)
        /\ StepsIn(w) = {"find_default"} \cup (Left(o) \ {"default"})
    <3>1. StepsIn(w) = {"find_default"} \cup StepsIn(Tail(o.steps))
          /\ w \in Seq(StepNames) /\ Ordered(w)
      BY <1>2, <2>1, <2>2, <2>3, ConsSteps
    <3> QED  BY <1>2, <3>1
  <2>5. PICK r : r = [o EXCEPT !.steps = w]  OBVIOUS
  <2>6. /\ r \in Request /\ Kin(r, o) /\ r.steps = w /\ r.seen = o.seen /\ r.op = o.op
        /\ r.kind = o.kind /\ r.name = o.name /\ r.txn = o.txn /\ r.user = o.user
        /\ r.eui = o.eui /\ r.dev_eui = o.dev_eui /\ r.addr = o.addr
        /\ r.device = o.device /\ r.add = o.add /\ r.del = o.del
    BY <1>2, <2>4, <2>5 DEF Request, Kin
  <2>7. Left(r) = {"find_default"} \cup (Left(o) \ {"default"})
    BY <2>4, <2>6 DEF Left
  <2>8. Program(r)
    <3>1. Uses(r) = Uses(o)  BY <2>6 DEF Uses
    <3>2. "find_default" \in Uses(o)  BY <1>2 DEF Uses, LinkSteps
    <3>3. "default" \notin Left(r)  BY <2>7
    <3> QED  BY <1>2, <2>4, <2>6, <2>7, <3>1, <3>2, <3>3 DEF Program
  <2>9. Shape(r) /\ ReqRefs(r) = ReqRefs(o)
    <3> PICK N : N = {}  OBVIOUS
    <3>1. r.add = o.add \cup N /\ \A x \in N : x.t \in {"groups", "links"}  BY <2>6
    <3>2. Left(r) \subseteq Left(o) \cup {"find_default"}  BY <2>7
    <3>3. /\ "link_default" \in Left(r) /\ Left(r) \cap {"default", "find_default"} = {}
          => r.groups # <<>>
      BY <2>7
    <3> QED  BY <1>1, <1>2, <1>3, <2>6, <3>1, <3>2, <3>3, LinkShape
  <2>10. Left(o) \cap Telling \subseteq Left(r)  BY <1>3, <2>7
  <2>11. Go(p, r)  BY <1>5, <2>2, <2>5
  <2>12. /\ r.seen \subseteq Vis(o) \cup o.seen
         /\ ReqRefs(r) \subseteq ReqRefs(o) \cup Ids(Vis(o))
    BY <2>6, <2>9
  <2> QED
    BY <1>1, <1>2, <1>4, <2>6, <2>8, <2>9, <2>10, <2>11, <2>12, ReadKeeps
<1>6. ASSUME NEW g \in hit, Go(p, Done([o EXCEPT !.groups = <<g.id>> \o @]))
      PROVE  Inv'
  <2>1. g.id \in Nat
    <3>1. g \in CachedAll  BY DEF CachedRows, Cached, CachedAll
    <3>2. g \in Row  BY <3>1, Places DEF Inv
    <3> QED  BY <3>2, RowIds
  <2>2. PICK w : w = <<g.id>> \o o.groups  OBVIOUS
  <2>3. w \in Seq(Nat) /\ w # <<>>
    <3>1. o.groups \in Seq(Nat)  BY <1>2, RequestIs
    <3>2. w \in Seq(Nat) /\ Len(w) = 1 + Len(o.groups)  BY <2>1, <2>2, <3>1
    <3> QED  BY <3>1, <3>2
  <2>4. PICK s : s = [o EXCEPT !.groups = w]  OBVIOUS
  <2>5. /\ s \in Request /\ Kin(s, o) /\ s.steps = o.steps /\ s.seen = o.seen
        /\ s.kind = o.kind /\ s.name = o.name /\ s.user = o.user /\ s.groups = w
        /\ s.eui = o.eui /\ s.dev_eui = o.dev_eui /\ s.addr = o.addr
        /\ s.device = o.device
    BY <1>2, <2>3, <2>4 DEF Request, Kin
  <2>6. PICK r : r = Done(s)  OBVIOUS
  <2>7. /\ Left(r) = Left(o) \ {"default"} /\ Kin(r, o) /\ r.op = o.op
        /\ r.user = o.user /\ r.device = o.device /\ r.seen = o.seen /\ r.kind = o.kind
        /\ r.eui = o.eui /\ r.dev_eui = o.dev_eui /\ r.addr = o.addr /\ r.groups = w
        /\ r.add = o.add /\ r.del = o.del
    BY <1>1, <2>5, <2>6, DoneTurn DEF Kin
  <2>8. Shape(r) /\ ReqRefs(r) = ReqRefs(o)
    <3> PICK N : N = {}  OBVIOUS
    <3>1. r.add = o.add \cup N /\ \A x \in N : x.t \in {"groups", "links"}  BY <2>7
    <3>2. Left(r) \subseteq Left(o) \cup {"find_default"}  BY <2>7
    <3>3. /\ "link_default" \in Left(r) /\ Left(r) \cap {"default", "find_default"} = {}
          => r.groups # <<>>
      BY <2>3, <2>7
    <3> QED  BY <1>1, <1>2, <1>3, <2>7, <3>1, <3>2, <3>3, LinkShape
  <2>9. Go(p, r)  BY <1>6, <2>2, <2>4, <2>6
  <2>10. s.seen \subseteq Vis(o) \cup o.seen /\ ReqRefs(r) \subseteq ReqRefs(o) \cup Ids(Vis(o))
    BY <2>5, <2>8
  <2> QED  BY <1>1, <1>3, <1>4, <2>5, <2>6, <2>8, <2>9, <2>10, ReadTurn
<1> QED  BY <1>5, <1>6 DEF Default

\* Otherwise from the table; a user that is there has one.
LEMMA FindDefaultKeeps ==
    ASSUME Inv, NEW p \in Slots, FindDefault(p)
    PROVE  Inv'
<1> DEFINE o == req[p]
<1>1. At(p, "find_default") /\ UNCHANGED <<todo, bare>>  BY DEF FindDefault
<1>2. /\ o \in Request /\ Active(p) /\ Program(o) /\ o.op \in {"create", "rebind", "top"}
  BY <1>1, Turn, StepOps
<1>3. "find_default" \in LinkSteps \ {"device_commit"} /\ "find_default" \notin Telling
  BY DEF LinkSteps, Telling
<1>4. o.op # "delete_user"  BY <1>2
<1>5. o.user \in ReqRefs(o)
  <2>1. Level("find_default") >= 3 /\ "find_default" \notin Finding  BY Levels DEF Finding
  <2>2. o.op # "password"  BY <1>2
  <2> QED  BY <1>1, <2>1, <2>2, UserKnown
<1>6. ASSUME NEW i \in Nat, NEW s, s = [o EXCEPT !.groups = <<i>> \o @]
      PROVE  /\ s \in Request /\ Kin(s, o) /\ s.steps = o.steps /\ s.seen = o.seen
             /\ s.kind = o.kind /\ s.name = o.name /\ s.user = o.user /\ s.groups # <<>>
             /\ s.eui = o.eui /\ s.dev_eui = o.dev_eui /\ s.addr = o.addr
             /\ s.device = o.device
  <2>1. PICK w : w = <<i>> \o o.groups  OBVIOUS
  <2>2. w \in Seq(Nat) /\ w # <<>>
    <3>1. o.groups \in Seq(Nat)  BY <1>2, RequestIs
    <3>2. w \in Seq(Nat) /\ Len(w) = 1 + Len(o.groups)  BY <2>1, <3>1
    <3> QED  BY <3>1, <3>2
  <2>3. s = [o EXCEPT !.groups = w]  BY <1>6, <2>1
  <2> QED  BY <1>2, <2>2, <2>3 DEF Request, Kin
<1>7. ASSUME NEW g \in DefaultOf(p), Go(p, Done([o EXCEPT !.groups = <<g.id>> \o @])),
             UNCHANGED <<db, redis>>
      PROVE  Inv'
  <2>1. g.id \in Nat
    <3>1. g \in Vis(o)  BY RowsIn DEF DefaultOf
    <3>2. g \in Row  BY <3>1, Places DEF Inv
    <3> QED  BY <3>2, RowIds
  <2>2. PICK s : s = [o EXCEPT !.groups = <<g.id>> \o @]  OBVIOUS
  <2>3. /\ s \in Request /\ Kin(s, o) /\ s.steps = o.steps /\ s.seen = o.seen
        /\ s.kind = o.kind /\ s.name = o.name /\ s.user = o.user /\ s.groups # <<>>
        /\ s.eui = o.eui /\ s.dev_eui = o.dev_eui /\ s.addr = o.addr
        /\ s.device = o.device
    BY <1>6, <2>1, <2>2
  <2>4. PICK r : r = Done(s)  OBVIOUS
  <2>5. /\ Left(r) = Left(o) \ {"find_default"} /\ Kin(r, o) /\ r.op = o.op
        /\ r.user = o.user /\ r.device = o.device /\ r.seen = o.seen /\ r.kind = o.kind
        /\ r.eui = o.eui /\ r.dev_eui = o.dev_eui /\ r.addr = o.addr /\ r.groups # <<>>
        /\ r.add = o.add /\ r.del = o.del
    BY <1>1, <2>3, <2>4, DoneTurn DEF Kin
  <2>6. Shape(r) /\ ReqRefs(r) = ReqRefs(o)
    <3> PICK N : N = {}  OBVIOUS
    <3>1. r.add = o.add \cup N /\ \A x \in N : x.t \in {"groups", "links"}  BY <2>5
    <3>2. Left(r) \subseteq Left(o) \cup {"find_default"}  BY <2>5
    <3> QED  BY <1>1, <1>2, <1>3, <2>5, <3>1, <3>2, LinkShape
  <2>7. Go(p, r)  BY <1>7, <2>2, <2>4
  <2>8. s.seen \subseteq Vis(o) \cup o.seen /\ ReqRefs(r) \subseteq ReqRefs(o) \cup Ids(Vis(o))
    BY <2>3, <2>6
  <2> QED  BY <1>1, <1>3, <1>4, <1>7, <2>3, <2>4, <2>6, <2>7, <2>8, ReadTurn
<1>8. ASSUME DefaultOf(p) = {}, NEW g, g = NewDefault(p),
             Statement(p, {g}, {}, [o EXCEPT !.groups = <<g.id>> \o @], redis)
      PROVE  Inv'
  <2>1. /\ g \in Row /\ g.id = NewId(p) /\ g.t = "groups" /\ g.user = o.user
        /\ g.default = TRUE /\ Created(p, g) /\ g.id \in Nat
    <3>1. g = GroupRow(NewId(p), o.user, TRUE)  BY <1>8 DEF NewDefault
    <3> QED  BY <1>2, <1>5, <3>1, GroupWritable
  <2>2. PICK s : s = [o EXCEPT !.groups = <<g.id>> \o @]  OBVIOUS
  <2>3. /\ s \in Request /\ Kin(s, o) /\ s.steps = o.steps /\ s.seen = o.seen
        /\ s.kind = o.kind /\ s.name = o.name /\ s.user = o.user /\ s.groups # <<>>
        /\ s.eui = o.eui /\ s.dev_eui = o.dev_eui /\ s.addr = o.addr
        /\ s.device = o.device
    BY <1>6, <2>1, <2>2
  <2>4. PICK new : new = {g}  OBVIOUS
  <2>5. Novel(new)  BY <1>4, <1>8, <2>1, <2>4, NovelDefault
  <2>6. Writable(p, new, {}) /\ new \in SUBSET Row  BY <2>1, <2>4, OneNew
  <2>7. PICK r : r = After(s, new, {})  OBVIOUS
  <2>8. Follows(r, s, new, {}) /\ Program(r) /\ Left(r) = Left(o) \ {"find_default"}
    BY <1>1, <2>3, <2>6, <2>7, InsertTurn
  <2>9. PICK N : (N = IF s.txn THEN new ELSE {})  OBVIOUS
  <2>10. s.add = o.add /\ s.del = o.del /\ s.op = o.op  BY <2>3 DEF Kin
  <2>11. /\ r.op = o.op /\ r.kind = o.kind /\ r.seen = o.seen /\ r.eui = o.eui
         /\ r.dev_eui = o.dev_eui /\ r.addr = o.addr /\ r.device = o.device
         /\ r.user = o.user /\ r.groups # <<>> /\ r.del = o.del /\ r.add = o.add \cup N
    BY <2>3, <2>8, <2>9, <2>10 DEF Follows
  <2>12. Shape(r) /\ ReqRefs(r) = ReqRefs(o)
    <3>1. \A x \in N : x.t \in {"groups", "links"}  BY <2>1, <2>4, <2>9
    <3>2. Left(r) \subseteq Left(o) \cup {"find_default"}  BY <2>8
    <3> QED  BY <1>1, <1>2, <1>3, <2>11, <3>1, <3>2, LinkShape
  <2>13. Statement(p, new, {}, s, redis)  BY <1>8, <2>2, <2>4
  <2>14. redis = redis \/ \E u : redis = Uncached(u)  OBVIOUS
  <2>15. ReqRefs(r) \subseteq {NewId(p), SecondId(p)} \cup ReqRefs(o)  BY <2>12
  <2>16. CASE o.txn
    <3>1. g \in Row /\ g.t \in {"groups", "links"} /\ Created(p, g)  BY <2>1
    <3> QED
      BY <1>1, <1>3, <1>4, <2>3, <2>4, <2>5, <2>7, <2>12, <2>13, <2>14, <2>15, <2>16,
         <3>1, LinkedKeeps
  <2>17. CASE ~o.txn
    <3>1. PICK old : old = {}  OBVIOUS
    <3>2. Loose(new, old)  BY <2>1, <2>4, <3>1 DEF Loose, Typed
    <3>3. Staying(new, old) /\ Writable(p, new, old) /\ Statement(p, new, old, s, redis)
          /\ r = After(s, new, old)
      BY <2>6, <2>7, <2>13, <3>1, NothingOld
    <3> QED
      BY <1>1, <2>3, <2>5, <2>12, <2>14, <2>15, <2>17, <3>2, <3>3, LooseRuns
  <2> QED  BY <2>16, <2>17
<1> QED  BY <1>7, <1>8 DEF FindDefault

-----------------------------------------------------------------------------
(* Links of a device, and what GET, PUT and DELETE of a group do *)

\* A request with one group less to link.
LEMMA TailGroups ==
    ASSUME NEW o \in Request, o.groups # <<>>, NEW s, s = [o EXCEPT !.groups = Tail(@)]
    PROVE  /\ s \in Request /\ Kin(s, o) /\ s.steps = o.steps /\ s.seen = o.seen
           /\ s.kind = o.kind /\ s.name = o.name /\ s.user = o.user
           /\ s.eui = o.eui /\ s.dev_eui = o.dev_eui /\ s.addr = o.addr
           /\ s.device = o.device /\ s.groups = Tail(o.groups) /\ Head(o.groups) \in Nat
<1>1. o.groups \in Seq(Nat)  BY RequestIs
<1>2. PICK w : w = Tail(o.groups)  OBVIOUS
<1>3. w \in Seq(Nat) /\ Head(o.groups) \in Nat  BY <1>1, <1>2
<1>4. s = [o EXCEPT !.groups = w]  BY <1>2
<1> QED  BY <1>2, <1>3, <1>4, ZenonT(60) DEF Request, Kin

\* The device is linked to the default group.
LEMMA LinkDefaultKeeps ==
    ASSUME Inv, NEW p \in Slots, LinkDefault(p)
    PROVE  Inv'
<1> DEFINE o == req[p]
<1>1. At(p, "link_default") /\ UNCHANGED <<todo, bare>>  BY DEF LinkDefault
<1>2. /\ o \in Request /\ Active(p) /\ Program(o) /\ o.op \in {"create", "rebind"}
      /\ Shape(o) /\ "link_default" \in Left(o)
      /\ \A t \in Left(o) : t = "link_default" \/ Level("link_default") < Level(t)
  BY <1>1, Turn, StepOps
<1>3. "link_default" \in LinkSteps \ {"device_commit"} /\ "link_default" \notin Telling
  BY DEF LinkSteps, Telling
<1>4. o.op # "delete_user" /\ o.txn
  BY <1>2, Transactions DEF Program
<1>5. o.groups # <<>>
  <2>1. Left(o) \cap {"default", "find_default"} = {}
    <3>1. Level("default") = 9 /\ Level("find_default") = 10 /\ Level("link_default") = 11
      BY Levels
    <3> QED  BY <1>2, <3>1
  <2>2. CreateShape(o) \/ RebindShape(o)  BY <1>2, ShapeFor
  <2> QED  BY <1>2, <2>1, <2>2 DEF CreateShape, RebindShape
<1>6. PICK s : s = [o EXCEPT !.groups = Tail(@)]  OBVIOUS
<1>7. /\ s \in Request /\ Kin(s, o) /\ s.steps = o.steps /\ s.seen = o.seen
      /\ s.kind = o.kind /\ s.name = o.name /\ s.user = o.user
      /\ s.eui = o.eui /\ s.dev_eui = o.dev_eui /\ s.addr = o.addr
      /\ s.device = o.device /\ s.groups = Tail(o.groups) /\ Head(o.groups) \in Nat
  BY <1>2, <1>5, <1>6, TailGroups
<1>8. PICK x : x = LinkRow(NewId(p), o.user, o.device, Head(o.groups))  OBVIOUS
<1>9. x \in Row /\ x.t = "links" /\ Created(p, x)  BY <1>2, <1>7, <1>8, LinkWritable
<1>10. PICK new : new = {x}  OBVIOUS
<1>11. PICK red : red = Uncached(o.user)  OBVIOUS
<1>12. Statement(p, new, {}, s, red)  BY <1>6, <1>8, <1>10, <1>11 DEF LinkDefault
<1>13. Novel(new)  BY <1>9, <1>10 DEF Novel
<1>14. new \in SUBSET Row  BY <1>9, <1>10
<1>15. PICK r : r = After(s, new, {})  OBVIOUS
<1>16. Follows(r, s, new, {}) /\ Program(r) /\ Left(r) = Left(o) \ {"link_default"}
  BY <1>1, <1>7, <1>14, <1>15, InsertTurn
<1>17. s.add = o.add /\ s.del = o.del /\ s.op = o.op /\ s.txn  BY <1>4, <1>7 DEF Kin
<1>18. /\ r.op = o.op /\ r.kind = o.kind /\ r.seen = o.seen /\ r.eui = o.eui
       /\ r.dev_eui = o.dev_eui /\ r.addr = o.addr /\ r.device = o.device
       /\ r.user = o.user /\ r.del = o.del /\ r.add = o.add \cup new
  BY <1>7, <1>16, <1>17 DEF Follows
<1>19. Shape(r) /\ ReqRefs(r) = ReqRefs(o)
  <2>1. \A y \in new : y.t \in {"groups", "links"}  BY <1>9, <1>10
  <2>2. Left(r) \subseteq Left(o) \cup {"find_default"} /\ "link_default" \notin Left(r)
    BY <1>16
  <2>3. o.op \in {"create", "rebind", "top"}  BY <1>2
  <2> QED  BY <1>1, <1>3, <1>18, <2>1, <2>2, <2>3, LinkShape
<1>20. red = redis \/ \E u : red = Uncached(u)  BY <1>11
<1>21. ReqRefs(r) \subseteq {NewId(p), SecondId(p)} \cup ReqRefs(o)  BY <1>19
<1>22. x.t \in {"groups", "links"}  BY <1>9
<1> QED
  BY <1>1, <1>3, <1>4, <1>7, <1>9, <1>10, <1>12, <1>13, <1>15, <1>19, <1>20, <1>21, <1>22,
     LinkedKeeps

\* A step of a handler that runs a group's list on.
LEMMA LinkMore ==
    ASSUME Inv, NEW p \in Slots, At(p, "link"), req[p].groups # <<>>,
           NEW s, s = [req[p] EXCEPT !.groups = Tail(@), !.steps = <<"link">> \o @],
           NEW x, x = LinkRow(NewId(p), req[p].user, req[p].device, Head(req[p].groups)),
           NEW new, new = {x}, NEW red, red = Uncached(req[p].user),
           Statement(p, new, {}, s, red), UNCHANGED <<todo, bare>>
    PROVE  Inv'
<1> DEFINE o == req[p]
<1>1. /\ o \in Request /\ Active(p) /\ Program(o) /\ Shape(o) /\ "link" \in Left(o)
      /\ o.op \in {"create", "rebind"} \cup EditOps
      /\ \A t \in Left(o) : t = "link" \/ Level("link") < Level(t)
  BY Turn, StepOpsMore
<1>2. o.op # "delete_user" /\ o.txn
  BY <1>1, Transactions DEF Program, EditOps
<1>3. PICK w : w = <<"link">> \o o.steps  OBVIOUS
<1>4. w \in Seq(StepNames) /\ Tail(w) = o.steps /\ o.steps \in Seq(StepNames)
  <2>1. o.steps \in Seq(StepNames)  BY <1>1, RequestIs
  <2>2. "link" \in StepNames  BY DEF StepNames
  <2>3. w \in Seq(StepNames) /\ Len(w) = Len(o.steps) + 1 /\ w # <<>>  BY <1>3, <2>1, <2>2
  <2>4. Tail(w) \in Seq(StepNames) /\ Len(Tail(w)) = Len(o.steps)  BY <2>1, <2>3
  <2>5. ASSUME NEW i \in 1 .. Len(o.steps) PROVE Tail(w)[i] = o.steps[i]
    <3>1. Tail(w)[i] = w[i + 1]  BY <2>1, <2>3, <2>4
    <3>2. w[i + 1] = o.steps[i]  BY <1>3, <2>1, <2>2
    <3> QED  BY <3>1, <3>2
  <2> QED  BY <2>1, <2>3, <2>4, <2>5
<1>5. PICK g : g = Tail(o.groups)  OBVIOUS
<1>6. g \in Seq(Nat) /\ Head(o.groups) \in Nat
  <2>1. o.groups \in Seq(Nat)  BY <1>1, RequestIs
  <2> QED  BY <1>5, <2>1
<1>7. s = [o EXCEPT !.groups = g, !.steps = w]  BY <1>3, <1>5
<1>8. /\ s \in Request /\ Kin(s, o) /\ s.steps = w /\ s.seen = o.seen
      /\ s.kind = o.kind /\ s.name = o.name /\ s.user = o.user
      /\ s.eui = o.eui /\ s.dev_eui = o.dev_eui /\ s.addr = o.addr
      /\ s.device = o.device
  BY <1>1, <1>4, <1>6, <1>7, ZenonT(60) DEF Request, Kin
<1>9. x \in Row /\ x.t = "links" /\ Created(p, x)  BY <1>1, <1>6, LinkWritable
<1>10. PICK old : old = {}  OBVIOUS
<1>11. Writable(p, new, old) /\ new \in SUBSET Row  BY <1>9, <1>10, OneNew
<1>12. Fitting(p, new) /\ Novel(new)  BY <1>9 DEF Fitting, Novel, Typed
<1>13. Plain(new, old) /\ Staying(new, old)  BY <1>10, NothingOld
<1>14. PICK r : r = After(s, new, old)  OBVIOUS
<1>15. Tail(s.steps) \in Seq(StepNames)  BY <1>4, <1>8
<1>16. Follows(r, s, new, old)
  BY <1>8, <1>11, <1>14, <1>15, AfterIs DEF Inv
<1>17. s.add = o.add /\ s.del = o.del /\ s.op = o.op /\ s.txn /\ (s.txn <=> o.txn)
  BY <1>2, <1>8 DEF Kin
<1>18. /\ r.op = o.op /\ r.kind = o.kind /\ r.seen = o.seen /\ r.eui = o.eui
       /\ r.dev_eui = o.dev_eui /\ r.addr = o.addr /\ r.device = o.device
       /\ r.user = o.user /\ r.name = o.name /\ (r.txn <=> o.txn)
       /\ r.del = o.del /\ r.add = o.add \cup new /\ r.steps = o.steps
  <2>1. r.del = s.del \cup (old \cap Ids(db)) /\ r.add = {y \in s.add : y.id \notin old} \cup new
    BY <1>16, <1>17 DEF Follows
  <2>2. r.del = o.del /\ r.add = o.add \cup new  BY <1>10, <1>17, <2>1
  <2>3. r.txn = s.txn  BY <1>16 DEF Follows
  <2> QED  BY <1>4, <1>8, <1>16, <1>17, <2>2, <2>3 DEF Follows
<1>19. Left(r) = Left(o) /\ Program(r)
  <2>1. Left(r) = Left(o)  BY <1>18 DEF Left
  <2>2. Uses(r) = Uses(o)  BY <1>18 DEF Uses
  <2> QED  BY <1>1, <1>18, <2>1, <2>2 DEF Program
<1>20. Shape(r) /\ ReqRefs(r) = ReqRefs(o)
  <2>1. CASE o.op \in {"create", "rebind"}
    <3>1. \A y \in new : y.t \in {"groups", "links"}  BY <1>9
    <3>2. Left(r) \subseteq Left(o) \cup {"find_default"}  BY <1>19
    <3>3. o.op \in {"create", "rebind", "top"}  BY <2>1
    <3>4. "link" \in LinkSteps \ {"device_commit"}  BY DEF LinkSteps
    <3>5. "link_default" \notin Left(r)
      <4>1. Level("link") = 12 /\ Level("link_default") = 11  BY Levels
      <4> QED  BY <1>1, <1>19, <4>1
    <3> QED  BY <1>18, <3>1, <3>2, <3>3, <3>4, <3>5, LinkShape
  <2>2. CASE o.op \in EditOps
    <3>1. EditShape(o)  BY <1>1, <2>2, ShapeFor
    <3>2. EditShape(r)  BY <1>9, <1>18, <3>1 DEF EditShape
    <3> QED  BY <1>18, <1>19, <2>2, <3>2, ShapeFor DEF ReqRefs, UserSet, DeviceSet
  <2> QED  BY <1>1, <2>1, <2>2
<1>21. red = redis \/ \E u : red = Uncached(u)  OBVIOUS
<1>22. ReqRefs(r) \subseteq {NewId(p), SecondId(p)} \cup ReqRefs(o)  BY <1>20
<1>23. o.txn => /\ Left(o) \cap Telling \subseteq Left(r) /\ \A y \in new : Told(r, y)
  BY <1>9, <1>19 DEF Told
<1>24. Writes(p, r, new, old) => Jointly(r) /\ Leaving(r)
  BY <1>2, <1>11, <1>13, PlainJoint, PlainLeaving DEF Inv
<1>25. ~o.txn => Loose(new, old) /\ Staying(new, old)  BY <1>2
<1>26. Statement(p, new, old, s, red)  BY <1>10
<1> QED
  BY <1>1, <1>8, <1>11, <1>12, <1>14, <1>15, <1>19, <1>20, <1>21, <1>22, <1>23, <1>24,
     <1>25, <1>26, StatementKeeps

\* The device is linked to the groups the request names.
LEMMA LinkKeeps ==
    ASSUME Inv, NEW p \in Slots, Link(p)
    PROVE  Inv'
<1> DEFINE o == req[p]
<1>1. At(p, "link") /\ UNCHANGED <<todo, bare>>  BY DEF Link
<1>2. /\ o \in Request /\ Active(p) /\ Program(o) /\ Shape(o) /\ "link" \in Left(o)
      /\ o.op \in {"create", "rebind"} \cup EditOps /\ Tail(o.steps) \in Seq(StepNames)
  BY <1>1, Turn, StepOpsMore
<1>3. CASE o.groups = <<>> /\ Proceed(p) /\ UNCHANGED <<db, redis>>
  <2>1. PICK r : r = Done(o)  OBVIOUS
  <2>2. /\ r.op = o.op /\ r.kind = o.kind /\ r.txn = o.txn /\ r.name = o.name
        /\ r.steps = Tail(o.steps) /\ r.del = o.del /\ r.seen = o.seen /\ r.eui = o.eui
        /\ r.dev_eui = o.dev_eui /\ r.addr = o.addr /\ r.device = o.device
        /\ r.user = o.user /\ r.add = o.add
    BY <1>2, <2>1, DoneIs
  <2>3. Left(r) = Left(o) \ {"link"}  BY <1>1, <2>2, DoneProgram
  <2>4. Shape(r) /\ ReqRefs(r) = ReqRefs(o)
    <3>1. CASE o.op \in {"create", "rebind"}
      <4>1. PICK N : N = {}  OBVIOUS
      <4>2. r.add = o.add \cup N /\ \A y \in N : y.t \in {"groups", "links"}  BY <2>2, <4>1
      <4>3. Left(r) \subseteq Left(o) \cup {"find_default"}  BY <2>3
      <4>4. o.op \in {"create", "rebind", "top"}  BY <3>1
      <4>5. "link" \in LinkSteps \ {"device_commit"}  BY DEF LinkSteps
      <4>6. "link_default" \notin Left(r)
        <5>1. Level("link") = 12 /\ Level("link_default") = 11  BY Levels
        <5>2. \A t \in Left(o) : t = "link" \/ Level("link") < Level(t)  BY <1>1, Turn
        <5> QED  BY <2>3, <5>1, <5>2
      <4> QED  BY <1>1, <2>2, <4>2, <4>3, <4>4, <4>5, <4>6, LinkShape
    <3>2. CASE o.op \in EditOps
      <4>1. EditShape(r)
        <5>1. EditShape(o)  BY <1>2, <3>2, ShapeFor
        <5> QED  BY <2>2, <5>1 DEF EditShape
      <4>2. Silent("link")  BY DEF Silent, Finding
      <4> QED  BY <2>2, <2>3, <3>2, <4>1, <4>2, ShapeFor, SilentRefs
    <3> QED  BY <1>2, <3>1, <3>2
  <2>5. "link" \notin Telling /\ o.op # "delete_user"  BY <1>2 DEF Telling, EditOps
  <2> QED  BY <1>1, <1>3, <2>1, <2>4, <2>5, ProceedKeeps
<1>4. CASE Fail(p)  BY <1>1, <1>2, <1>4, FailKeeps
<1>5. ASSUME o.groups # <<>>,
             Statement(p, {LinkRow(NewId(p), o.user, o.device, Head(o.groups))}, {},
                       [o EXCEPT !.groups = Tail(@), !.steps = <<"link">> \o @],
                       Uncached(o.user))
      PROVE  Inv'
  <2>1. PICK s : s = [o EXCEPT !.groups = Tail(@), !.steps = <<"link">> \o @]  OBVIOUS
  <2>2. PICK x : x = LinkRow(NewId(p), o.user, o.device, Head(o.groups))  OBVIOUS
  <2>3. PICK new : new = {x}  OBVIOUS
  <2>4. PICK red : red = Uncached(o.user)  OBVIOUS
  <2>5. Statement(p, new, {}, s, red)  BY <1>5, <2>1, <2>2, <2>3, <2>4
  <2> QED  BY <1>1, <1>5, <2>1, <2>2, <2>3, <2>4, <2>5, LinkMore
<1> QED  BY <1>3, <1>4, <1>5 DEF Link

\* Rows deleted in a transaction that no device and no default group is among.
LEMMA EraseKeeps ==
    ASSUME Inv, NEW p \in Slots, NEW st, At(p, st), Silent(st), st \notin Telling, req[p].txn,
           req[p].op # "delete_user", NEW rows, rows \subseteq Vis(req[p]), Delete(p, rows),
           UNCHANGED <<todo, bare>>,
           \A x \in rows : /\ x.t \notin Typed \cup {"authority", "devices"}
                           /\ x.t = "groups" => ~x.default,
           \A r : Turned(p, st, {}, Ids(rows), r) => Shape(r)
    PROVE  Inv'
<1> DEFINE o == req[p]
<1>1. o \in Request /\ Active(p)  BY Turn
<1>2. PICK new : new = {}  OBVIOUS
<1>3. PICK old : old = Ids(rows)  OBVIOUS
<1>4. /\ Writable(p, new, old) /\ Fitting(p, new) /\ Novel(new)
      /\ \A r : \A x \in new : Told(r, x)
  BY <1>2, NoRows
<1>5. PICK r : r = After(o, new, old)  OBVIOUS
<1>6. Turned(p, st, new, old, r)
  <2>1. new \in SUBSET Row  BY <1>2
  <2> QED  BY <1>5, <2>1, OwnTurned
<1>7. Shape(r)  BY <1>2, <1>3, <1>6
<1>8. Plain(new, old)
  <2>1. ASSUME NEW x \in db, x.t \in Typed \cup {"authority", "devices"}, x.id \in old
        PROVE  FALSE
    <3>1. \E v \in rows : v.t = x.t  BY <1>3, <2>1, Erased
    <3> QED  BY <2>1, <3>1
  <2> QED  BY <2>1 DEF Plain
<1>9. Staying(new, old)
  <2>1. ASSUME NEW g \in db, g.t = "groups", g.default, g.id \in old
        PROVE  FALSE
    <3>1. PICK v \in rows : v.t = g.t /\ (g.t \notin {"nodes", "devices", "links"} => g = v)
      BY <1>3, <2>1, Erased
    <3> QED  BY <2>1, <3>1
  <2> QED  BY <2>1 DEF Staying
<1>10. Kin(o, o)  BY DEF Kin
<1>11. ReqRefs(r) \subseteq {NewId(p), SecondId(p)} \cup ReqRefs(o)
  <2>1. Left(r) = Left(o) \ {st} /\ r.op = o.op /\ r.user = o.user /\ r.device = o.device
    BY <1>6 DEF Turned, Follows
  <2> QED  BY <2>1, SilentRefs
<1>12. Statement(p, new, old, o, redis)  BY <1>2, <1>3 DEF Delete
<1>13. PICK red : red = redis  OBVIOUS
<1>14. Statement(p, new, old, o, red) /\ (red = redis \/ \E u : red = Uncached(u))
  BY <1>12, <1>13
<1> QED
  BY <1>1, <1>4, <1>5, <1>7, <1>8, <1>9, <1>10, <1>11, <1>14, PlainKeeps

\* What PUT or DELETE of a group has written keeps its shape.
LEMMA EditKept ==
    ASSUME NEW p \in Slots, NEW st, NEW old, NEW r, Turned(p, st, {}, old, r),
           req[p].txn, req[p].op \in EditOps, Shape(req[p])
    PROVE  Shape(r)
<1>1. /\ r.op = req[p].op /\ r.add = {x \in req[p].add : x.id \notin old}
      /\ req[p].del \subseteq r.del
  BY DEF Turned, Follows
<1>2. EditShape(req[p])  BY ShapeFor
<1>3. EditShape(r)  BY <1>1, <1>2 DEF EditShape
<1> QED  BY <1>1, <1>3, ShapeFor

\* Such a request after a statement.
LEMMA EditTurn ==
    ASSUME Inv, NEW p \in Slots, NEW st, At(p, st), req[p].op \in EditOps
    PROVE  req[p].txn /\ req[p].op # "delete_user" /\ Shape(req[p]) /\ Active(p)
           /\ EditShape(req[p]) /\ req[p] \in Request /\ Tail(req[p].steps) \in Seq(StepNames)
<1>1. Program(req[p]) /\ Shape(req[p])  BY Turn
<1> QED  BY <1>1, Turn, Transactions, ShapeFor DEF Program, EditOps

\* Such a request goes on without a statement.
LEMMA EditProceeds ==
    ASSUME Inv, NEW p \in Slots, NEW st \in {"edit_find", "edit_row"}, At(p, st),
           Proceed(p), UNCHANGED <<db, redis, todo, bare>>
    PROVE  Inv'
<1> DEFINE o == req[p]
<1>1. o.op \in EditOps  BY Turn, StepOpsMore
<1>2. PICK r : r = Done(o)  OBVIOUS
<1>3. /\ r.op = o.op /\ r.kind = o.kind /\ r.txn = o.txn /\ r.name = o.name
      /\ r.steps = Tail(o.steps) /\ r.del = o.del /\ r.add = o.add
      /\ r.device = o.device /\ r.user = o.user
  BY <1>1, <1>2, EditTurn, DoneIs
<1>4. Left(r) = Left(o) \ {st}  BY <1>3, DoneProgram
<1>5. Shape(r)
  <2>1. EditShape(r)  BY <1>1, <1>3, EditTurn DEF EditShape
  <2> QED  BY <1>1, <1>3, <2>1, ShapeFor
<1>6. Silent(st) /\ st \notin Telling  BY DEF Silent, Finding, Telling
<1>7. ReqRefs(r) \subseteq ReqRefs(o)  BY <1>3, <1>4, <1>6, SilentRefs
<1>8. o.op # "delete_user"  BY <1>1, EditTurn
<1> QED  BY <1>2, <1>5, <1>6, <1>7, <1>8, ProceedKeeps

\* The group and the device are looked up.
LEMMA EditFindKeeps ==
    ASSUME Inv, NEW p \in Slots, EditFind(p)
    PROVE  Inv'
<1>1. At(p, "edit_find") /\ UNCHANGED <<todo, bare>>  BY DEF EditFind
<1>2. CASE Proceed(p) /\ UNCHANGED <<db, redis>>  BY <1>1, <1>2, EditProceeds
<1>3. CASE Fail(p)  BY <1>1, <1>3, Turn, FailKeeps
<1> QED  BY <1>2, <1>3 DEF EditFind

\* The device's links to the group are deleted.
LEMMA UnlinkKeeps ==
    ASSUME Inv, NEW p \in Slots, Unlink(p)
    PROVE  Inv'
<1> DEFINE o == req[p]
           rows == {l \in Rows(p, "links") : /\ l.device = o.device
                                             /\ l.user = o.user
                                             /\ l.group = o.group}
<1>1. At(p, "unlink") /\ UNCHANGED <<todo, bare>> /\ Delete(p, rows)  BY DEF Unlink
<1>2. o \in Request /\ o.op \in {"new_group", "unlink"} \cup EditOps
  BY <1>1, Turn, StepOpsMore
<1>3. rows \subseteq Vis(o) /\ \A x \in rows : x.t = "links"  BY RowsIn
<1>4. Silent("unlink") /\ "unlink" \notin Telling  BY DEF Silent, Finding, Telling
<1> HIDE DEF rows
<1>5. CASE o.op \in {"new_group", "unlink"}
  <2>1. o.op \in FreeOps  BY <1>2, <1>5, FreeSteps
  <2>2. \A x \in rows : x.t \in {"scripts", "integration", "links"}  BY <1>3
  <2> QED  BY <1>1, <1>3, <1>4, <2>1, <2>2, FreeErase
<1>6. CASE o.op \in EditOps
  <2>1. \A x \in rows : /\ x.t \notin Typed \cup {"authority", "devices"}
                        /\ x.t = "groups" => ~x.default
    BY <1>3 DEF Typed
  <2>2. \A r : Turned(p, "unlink", {}, Ids(rows), r) => Shape(r)
    BY <1>1, <1>6, EditTurn, EditKept
  <2>3. o.txn /\ o.op # "delete_user"  BY <1>1, <1>6, EditTurn
  <2> QED  BY <1>1, <1>3, <1>4, <2>1, <2>2, <2>3, EraseKeeps
<1> QED  BY <1>2, <1>5, <1>6

\* A group is deleted that is not the default one.
LEMMA EraseGroupKeeps ==
    ASSUME Inv, NEW p \in Slots, EraseGroup(p)
    PROVE  Inv'
<1> DEFINE o == req[p]
<1>1. PICK rows : rows = {g \in GroupsOf(p) : g.id = o.group /\ ~g.default}  OBVIOUS
<1>2. At(p, "erase_group") /\ UNCHANGED <<todo, bare>> /\ (Fail(p) \/ Delete(p, rows))
  BY <1>1 DEF EraseGroup
<1>3. o \in Request /\ o.op \in EditOps  BY <1>2, Turn, StepOpsMore
<1>4. rows \subseteq Vis(o) /\ \A x \in rows : x.t = "groups" /\ ~x.default
  BY <1>1, RowsIn DEF GroupsOf
<1>5. Silent("erase_group") /\ "erase_group" \notin Telling
  BY DEF Silent, Finding, Telling
<1>6. CASE Fail(p)  BY <1>2, <1>6, Turn, FailKeeps
<1>7. CASE Delete(p, rows)
  <2>1. \A x \in rows : /\ x.t \notin Typed \cup {"authority", "devices"}
                        /\ x.t = "groups" => ~x.default
    BY <1>4 DEF Typed
  <2>2. \A r : Turned(p, "erase_group", {}, Ids(rows), r) => Shape(r)
    BY <1>2, <1>3, EditTurn, EditKept
  <2>3. o.txn /\ o.op # "delete_user"  BY <1>2, <1>3, EditTurn
  <2> QED  BY <1>2, <1>4, <1>5, <1>7, <2>1, <2>2, <2>3, EraseKeeps
<1> QED  BY <1>2, <1>6, <1>7

\* The group's own row is written.
LEMMA EditRowKeeps ==
    ASSUME Inv, NEW p \in Slots, EditRow(p)
    PROVE  Inv'
<1> DEFINE o == req[p]
<1>1. /\ At(p, "edit_row") /\ UNCHANGED <<todo, bare>>
      /\ \/ Proceed(p) /\ UNCHANGED <<db, redis>>
         \/ Fail(p) \/ \E g \in Rows(p, "groups") : Update(p, g)
  BY DEF EditRow
<1>2. o \in Request /\ o.op \in EditOps  BY <1>1, Turn, StepOpsMore
<1>3. CASE Fail(p)  BY <1>1, <1>3, Turn, FailKeeps
<1>4. ASSUME NEW g \in Rows(p, "groups"), Update(p, g) PROVE Inv'
  <2>1. g \in Vis(o) /\ g.t = "groups"  BY RowsIn
  <2>2. g \in Row  BY <2>1, Places DEF Inv
  <2>3. Silent("edit_row") /\ "edit_row" \notin Telling  BY DEF Silent, Finding, Telling
  <2>4. PICK new : new = {g}  OBVIOUS
  <2>5. PICK old : old = {g.id}  OBVIOUS
  <2>6. PICK r : r = After(o, new, old)  OBVIOUS
  <2>7. new \in SUBSET Row  BY <2>2, <2>4
  <2>8. Turned(p, "edit_row", new, old, r)  BY <1>1, <2>6, <2>7, OwnTurned
  <2>9. o.txn /\ EditShape(o) /\ o.op # "delete_user"  BY <1>1, <1>2, EditTurn
  <2>10. /\ r.op = o.op /\ r.add = {x \in o.add : x.id \notin old} \cup new
         /\ r.del = o.del \cup (old \cap Ids(db))
    BY <2>8, <2>9 DEF Turned, Follows
  <2>11. g.id \in r.del
    <3>1. CASE g \in o.add  BY <2>1, <2>9, <2>10, <3>1 DEF EditShape
    <3>2. CASE g \in db  BY <2>5, <2>10, <3>2 DEF Ids
    <3> QED  BY <2>1, <3>1, <3>2 DEF Vis
  <2>12. EditShape(r)
    <3>1. \A x \in o.add : x.t = "links" \/ (x.t = "groups" /\ x.id \in r.del)
      BY <2>9, <2>10 DEF EditShape
    <3> QED  BY <2>1, <2>4, <2>10, <2>11, <3>1 DEF EditShape
  <2>13. Shape(r)  BY <1>2, <2>10, <2>12, ShapeFor
  <2>14. r = After(o, {g}, {g.id})  BY <2>4, <2>5, <2>6
  <2> QED  BY <1>1, <1>4, <2>1, <2>2, <2>3, <2>9, <2>13, <2>14, UpdateKeeps
<1>5. CASE Proceed(p) /\ UNCHANGED <<db, redis>>  BY <1>1, <1>5, EditProceeds
<1> QED  BY <1>1, <1>3, <1>4, <1>5

\* GET of a group or of all: no transaction.
LEMMA GetTurn ==
    ASSUME Inv, NEW p \in Slots, NEW st, At(p, st), req[p].op \in {"get_group", "get_all"}
    PROVE  /\ ~req[p].txn /\ req[p].op # "delete_user" /\ Active(p) /\ GetShape(req[p])
           /\ req[p] \in Request /\ Tail(req[p].steps) \in Seq(StepNames)
           /\ req[p].user \in ReqRefs(req[p]) /\ req[p].user \in Nat
<1>1. Program(req[p]) /\ Shape(req[p]) /\ Active(p) /\ req[p] \in Request  BY Turn
<1>2. ~req[p].txn  BY <1>1, FreeTxn
<1>3. req[p].user \in ReqRefs(req[p])
  <2>1. Left(req[p]) \subseteq Uses(req[p])  BY <1>1 DEF Program
  <2>2. Left(req[p]) \cap Finding = {}  BY <2>1 DEF Uses, Finding
  <2> QED  BY <2>2 DEF ReqRefs, UserSet
<1> QED  BY <1>1, <1>2, <1>3, Turn, ShapeFor, RequestIs

\* The cached list answers, or the table is read next.
LEMMA LoadGroupsKeeps ==
    ASSUME Inv, NEW p \in Slots, LoadGroups(p)
    PROVE  Inv'
<1> DEFINE o == req[p]
<1>1. /\ At(p, "load_groups") /\ UNCHANGED <<db, redis, todo, bare>>
      /\ Go(p, [o EXCEPT !.steps = <<>>]) \/ Go(p, Done(o))
  BY DEF LoadGroups
<1>2. o \in Request /\ Active(p) /\ o.op \in {"get_group", "get_all"}  BY <1>1, Turn, StepOpsMore
<1>3. CASE Go(p, [o EXCEPT !.steps = <<>>])
  <2>1. PICK r : r = [o EXCEPT !.steps = <<>>]  OBVIOUS
  <2>2. r.steps = <<>>  BY <1>2, <2>1 DEF Request
  <2>3. Go(p, r)  BY <1>3, <2>1
  <2> QED  BY <1>1, <1>2, <2>2, <2>3, EarlyEnd
<1>4. CASE Go(p, Done(o))
  <2>1. PICK r : r = Done(o)  OBVIOUS
  <2>2. /\ r.op = o.op /\ r.kind = o.kind /\ r.txn = o.txn /\ r.name = o.name
        /\ r.steps = Tail(o.steps) /\ r.seen = o.seen
        /\ r.device = o.device /\ r.user = o.user
    BY <1>1, <1>2, <2>1, GetTurn, DoneIs
  <2>3. Left(r) = Left(o) \ {"load_groups"}  BY <1>1, <2>2, DoneProgram
  <2>4. Shape(r)
    <3>1. GetShape(r)  BY <1>1, <1>2, <2>2, <2>3, GetTurn DEF GetShape
    <3> QED  BY <1>2, <2>2, <3>1, ShapeFor
  <2>5. Silent("load_groups") /\ "load_groups" \notin Telling  BY DEF Silent, Finding, Telling
  <2>6. ReqRefs(r) \subseteq ReqRefs(o)  BY <2>2, <2>3, <2>5, SilentRefs
  <2>7. o.op # "delete_user" /\ Proceed(p)  BY <1>2, <1>4 DEF Proceed
  <2> QED  BY <1>1, <2>1, <2>4, <2>5, <2>6, <2>7, ProceedKeeps
<1> QED  BY <1>1, <1>3, <1>4

\* The default group is looked up in the table.
LEMMA LookDefaultKeeps ==
    ASSUME Inv, NEW p \in Slots, LookDefault(p)
    PROVE  Inv'
<1> DEFINE o == req[p]
<1>1. At(p, "look_default") /\ UNCHANGED <<todo, bare>>  BY DEF LookDefault
<1>2. o \in Request /\ Active(p) /\ o.op \in {"get_group", "get_all"}  BY <1>1, Turn, StepOpsMore
<1>3. ~o.txn /\ o.op # "delete_user" /\ GetShape(o) /\ o.user \in ReqRefs(o)
  BY <1>1, <1>2, GetTurn
<1>4. CASE Go(p, [o EXCEPT !.steps = <<>>]) /\ UNCHANGED <<db, redis>>
  <2>1. PICK r : r = [o EXCEPT !.steps = <<>>]  OBVIOUS
  <2>2. r.steps = <<>>  BY <1>2, <2>1 DEF Request
  <2>3. Go(p, r)  BY <1>4, <2>1
  <2> QED  BY <1>1, <1>2, <1>4, <2>2, <2>3, EarlyEnd
<1>5. ASSUME DefaultOf(p) = {}, Insert(p, NewDefault(p)) PROVE Inv'
  <2>1. PICK g : g = GroupRow(NewId(p), o.user, TRUE)  OBVIOUS
  <2>2. g \in Row /\ g.t = "groups" /\ g.user = o.user /\ Created(p, g)
    BY <1>2, <1>3, <2>1, GroupWritable
  <2>3. PICK new : new = {g}  OBVIOUS
  <2>4. PICK old : old = {}  OBVIOUS
  <2>5. PICK red : red = redis  OBVIOUS
  <2>6. Statement(p, new, old, o, red)
    BY <1>5, <2>1, <2>3, <2>4, <2>5 DEF Insert, NewDefault
  <2>7. Novel(new)  BY <1>3, <1>5, <2>2, <2>3, NovelDefault
  <2>8. Writable(p, new, old) /\ new \in SUBSET Row  BY <2>2, <2>3, <2>4, OneNew
  <2>9. Loose(new, old)  BY <2>2, <2>3, <2>4 DEF Loose, Typed
  <2>10. Staying(new, old)  BY <2>4, NothingOld
  <2>11. PICK r : r = After(o, new, old)  OBVIOUS
  <2>12. Turned(p, "look_default", new, old, r)  BY <1>1, <2>8, <2>11, OwnTurned
  <2>13. /\ r.op = o.op /\ r.seen = o.seen /\ r.user = o.user
         /\ Left(r) = Left(o) \ {"look_default"}
    BY <2>12 DEF Turned, Follows
  <2>14. Shape(r)
    <3>1. GetShape(r)  BY <1>3, <2>13 DEF GetShape
    <3> QED  BY <1>2, <2>13, <3>1, ShapeFor
  <2>15. Silent("look_default") /\ (red = redis \/ \E u : red = Uncached(u))
    BY <2>5 DEF Silent, Finding
  <2> QED
    BY <1>1, <1>3, <2>6, <2>7, <2>8, <2>9, <2>10, <2>11, <2>14, <2>15, LooseKeeps
<1> QED  BY <1>4, <1>5 DEF LookDefault

\* The cached list is dropped.
LEMMA UncacheKeeps ==
    ASSUME Inv, NEW p \in Slots, Uncache(p)
    PROVE  Inv'
<1> DEFINE o == req[p]
<1>1. /\ At(p, "uncache") /\ UNCHANGED <<db, todo, bare>> /\ redis' = Uncached(o.user)
      /\ Proceed(p)
  BY DEF Uncache
<1>2. /\ o \in Request /\ Active(p) /\ Tail(o.steps) \in Seq(StepNames) /\ Shape(o)
      /\ o.op \in {"new_group", "unlink", "get_group", "get_all"} \cup EditOps
  BY <1>1, Turn, StepOpsMore
<1>3. PICK r : r = Done(o)  OBVIOUS
<1>4. /\ r.op = o.op /\ r.kind = o.kind /\ r.txn = o.txn /\ r.name = o.name
      /\ r.steps = Tail(o.steps) /\ r.seen = o.seen /\ r.add = o.add /\ r.del = o.del
      /\ r.user = o.user
  BY <1>2, <1>3, DoneIs
<1>5. Left(r) = Left(o) \ {"uncache"}  BY <1>1, <1>4, DoneProgram
<1>6. Shape(r)
  <2>1. CASE o.op \in {"new_group", "unlink"}
    <3>1. r.op \in FreeOps  BY <1>2, <1>4, <2>1, FreeSteps
    <3> QED  BY <3>1, FreeShape
  <2>2. CASE o.op \in {"get_group", "get_all"}
    <3>1. GetShape(r)  BY <1>1, <1>4, <1>5, <2>2, GetTurn DEF GetShape
    <3> QED  BY <1>4, <2>2, <3>1, ShapeFor
  <2>3. CASE o.op \in EditOps
    <3>1. EditShape(r)  BY <1>1, <1>4, <2>3, EditTurn DEF EditShape
    <3> QED  BY <1>4, <2>3, <3>1, ShapeFor
  <2> QED  BY <1>2, <2>1, <2>2, <2>3
<1>7. Silent("uncache") /\ "uncache" \notin Telling  BY DEF Silent, Finding, Telling
<1>8. /\ redis' \in Stored /\ redis'.node = redis.node /\ redis'.gate = redis.gate
      /\ redis'.snap = redis.snap /\ redis'.session = redis.session
      /\ redis'.groups \subseteq redis.groups
  <2>1. Trims  BY <1>1 DEF Trims
  <2>2. redis \in Stored  BY DEF Inv, StoreInv
  <2> QED  BY <2>1, <2>2, TrimsKeep
<1>9. o.op # "delete_user"  BY <1>2 DEF EditOps
<1> QED  BY <1>1, <1>3, <1>6, <1>7, <1>8, <1>9, RecordsKeep

\* The user's groups are read.
LEMMA ReadGroupsKeeps ==
    ASSUME Inv, NEW p \in Slots, ReadGroups(p)
    PROVE  Inv'
<1> DEFINE o == req[p]
<1>1. At(p, "read_groups") /\ UNCHANGED <<db, redis, todo, bare>>  BY DEF ReadGroups
<1>2. o \in Request /\ Active(p) /\ o.op \in {"get_group", "get_all"}  BY <1>1, Turn, StepOpsMore
<1>3. PICK n : n = GroupsOf(p)  OBVIOUS
<1>4. n \subseteq Vis(o) /\ \A x \in n : x.t = "groups" /\ x.user = o.user
  BY <1>3, RowsIn DEF GroupsOf
<1>5. n \subseteq Row  BY <1>4, Places DEF Inv
<1>6. PICK s : s = [o EXCEPT !.seen = n]  OBVIOUS
<1>7. /\ s \in Request /\ Kin(s, o) /\ s.steps = o.steps /\ s.seen = n
      /\ s.kind = o.kind /\ s.name = o.name /\ s.user = o.user /\ s.device = o.device
  BY <1>2, <1>5, <1>6 DEF Request, Kin
<1>8. PICK r : r = Done(s)  OBVIOUS
<1>9. /\ Left(r) = Left(o) \ {"read_groups"} /\ Kin(r, o) /\ r.op = o.op
      /\ r.user = o.user /\ r.device = o.device /\ r.seen = n
  BY <1>1, <1>7, <1>8, DoneTurn DEF Kin
<1>10. Shape(r)
  <2>1. GetShape(r)  BY <1>4, <1>9 DEF GetShape
  <2> QED  BY <1>2, <1>9, <2>1, ShapeFor
<1>11. Go(p, r)  BY <1>3, <1>6, <1>8 DEF ReadGroups
<1>12. Silent("read_groups") /\ "read_groups" \notin Telling  BY DEF Silent, Finding, Telling
<1>13. /\ s.seen \subseteq Vis(o) \cup o.seen /\ o.op # "delete_user"
       /\ ReqRefs(r) \subseteq ReqRefs(o) \cup Ids(Vis(o))
  BY <1>2, <1>4, <1>7, <1>9, <1>12, SilentRefs
<1> QED  BY <1>1, <1>7, <1>8, <1>10, <1>11, <1>12, <1>13, ReadTurn

\* A list is stored as it was read.
LEMMA SaveGroupsKeeps ==
    ASSUME Inv, NEW p \in Slots, SaveGroups(p)
    PROVE  Inv'
<1> DEFINE o == req[p]
<1>1. At(p, "save_groups") /\ UNCHANGED <<db, todo, bare>> /\ Proceed(p)  BY DEF SaveGroups
<1>2. o \in Request /\ Active(p) /\ o.op \in {"get_group", "get_all"}
  BY <1>1, Turn, StepOpsMore
<1>3. /\ ~o.txn /\ o.op # "delete_user" /\ GetShape(o) /\ o.user \in Nat
      /\ Tail(o.steps) \in Seq(StepNames)
  BY <1>1, <1>2, GetTurn
<1>4. PICK c : c = [user |-> o.user, rows |-> o.seen]  OBVIOUS
<1>5. PICK g : g = (redis.groups \ Cached(o.user)) \cup {c}  OBVIOUS
<1>6. redis \in Stored  BY DEF Inv, StoreInv
<1>7. redis' = [redis EXCEPT !.groups = g]
  BY <1>4, <1>5, <1>6 DEF SaveGroups, Uncached, Stored
<1>8. c \in [user : Nat, rows : SUBSET Row] /\ c.rows = o.seen /\ c.user = o.user
  BY <1>2, <1>3, <1>4, RequestIs
<1>9. /\ redis' \in Stored /\ redis'.node = redis.node /\ redis'.gate = redis.gate
      /\ redis'.snap = redis.snap /\ redis'.session = redis.session /\ redis'.groups = g
  <2>1. g \in SUBSET [user : Nat, rows : SUBSET Row]  BY <1>5, <1>6, <1>8 DEF Stored
  <2> QED  BY <1>6, <1>7, <2>1 DEF Stored
<1>10. PICK r : r = Done(o)  OBVIOUS
<1>11. /\ r \in Request /\ Kin(r, o) /\ r.op = o.op /\ r.kind = o.kind /\ r.txn = o.txn
       /\ r.name = o.name /\ r.steps = Tail(o.steps) /\ r.seen = o.seen
       /\ r.user = o.user /\ r.device = o.device
  BY <1>2, <1>3, <1>10, DoneIs DEF Kin
<1>12. Left(r) = Left(o) \ {"save_groups"} /\ Program(r)  BY <1>1, <1>11, DoneProgram
<1>13. Shape(r)
  <2>1. GetShape(r)  BY <1>3, <1>11, <1>12 DEF GetShape
  <2> QED  BY <1>2, <1>11, <2>1, ShapeFor
<1>14. Silent("save_groups") /\ "save_groups" \notin Telling  BY DEF Silent, Finding, Telling
<1>15. ReqRefs(r) = ReqRefs(o)  BY <1>11, <1>12, <1>14, SilentRefs
<1>16. CachedAll' \subseteq CachedAll \cup o.seen
  BY <1>5, <1>8, <1>9 DEF CachedAll
<1>17. Reading(p, r)
  BY <1>3, <1>9, <1>11, <1>15, <1>16 DEF Reading
<1>18. ASSUME NEW d \in redis'.groups
       PROVE  d \in redis.groups \/ \A x \in d.rows : x.t = "groups" /\ x.user = d.user
  <2>1. CASE d = c
    <3>1. "read_groups" \notin Left(o)
      <4>1. Level("save_groups") = 5 /\ Level("read_groups") = 4  BY Levels
      <4>2. \A t \in Left(o) : t = "save_groups" \/ Level("save_groups") < Level(t)
        BY <1>1, Turn
      <4> QED  BY <4>1, <4>2
    <3> QED  BY <1>3, <1>8, <2>1, <3>1 DEF GetShape
  <2>2. CASE d # c  BY <1>5, <1>9, <2>2
  <2> QED  BY <2>1, <2>2
<1>19. Go(p, r)  BY <1>1, <1>10 DEF Proceed
<1>20. OwnedInv'
  <2>1. StoreInv /\ OwnedInv  BY DEF Inv
  <2>2. Quiet(p, r)  BY <1>1, <1>2, <1>11, <1>19, <2>1, GoGoes DEF Quiet
  <2>3. SameRecords  BY <1>1, <1>9 DEF SameRecords
  <2>4. Left(o) \cap Telling \subseteq Left(r)  BY <1>12, <1>14
  <2> QED  BY <2>1, <2>2, <2>3, <2>4, QuietOwned
<1> QED
  BY <1>1, <1>2, <1>3, <1>9, <1>11, <1>12, <1>13, <1>17, <1>18, <1>19, <1>20, QuietKeeps

-----------------------------------------------------------------------------
(* Moving a device to the top of a group *)

\* A finite set of links has one that is not below any other.
LEMMA TopLink ==
    ASSUME NEW L \in SUBSET LinkRows, IsFiniteSet(L), L # {}
    PROVE  \E l \in L : \A m \in L : m.order <= l.order
<1> DEFINE up(l) == {m \in L : m.order > l.order}
           T == {up(l) : l \in L}
<1>1. \A l \in L : l.order \in Nat  BY DEF LinkRows
<1>2. IsWellFoundedOn(StrictSubsetOrdering(L), FiniteSubsetsOf(L))
  BY FS_StrictSubsetOrderingWellFounded
<1>3. FiniteSubsetsOf(L) = SUBSET L  BY FS_FiniteSubsetsOfFinite
<1>4. T \subseteq SUBSET L /\ T # {}  OBVIOUS
<1>5. PICK u \in T : \A v \in T : <<v, u>> \notin StrictSubsetOrdering(L)
  <2> HIDE DEF T
  <2> QED  BY <1>2, <1>3, <1>4, WFMin
<1>6. PICK l \in L : u = up(l)  OBVIOUS
<1>7. ASSUME NEW m \in L, ~(m.order <= l.order) PROVE FALSE
  <2>1. m.order > l.order  BY <1>1, <1>7
  <2>2. up(m) \subseteq up(l)
    <3>1. ASSUME NEW k \in L, k.order > m.order PROVE k.order > l.order
      BY <1>1, <2>1, <3>1
    <3> QED  BY <3>1
  <2>3. m \in up(l) /\ m \notin up(m)  BY <1>1, <2>1
  <2>4. up(m) \in T /\ up(m) \in SUBSET L /\ up(l) \in SUBSET L  OBVIOUS
  <2>5. up(m) # up(l)  BY <2>3
  <2>6. <<up(m), up(l)>> \in StrictSubsetOrdering(L)
    <3> HIDE DEF up
    <3> QED  BY <2>2, <2>4, <2>5 DEF StrictSubsetOrdering
  <2> QED  BY <1>5, <1>6, <2>4, <2>6
<1> QED  BY <1>7

\* The highest order of a group's links is a number.
LEMMA HighestIs ==
    ASSUME Inv, NEW p \in Slots, ~req[p].txn, NEW g
    PROVE  Highest(p, g) \in Nat
<1> DEFINE L == {x \in Rows(p, "links") : x.group = g /\ x.user = req[p].user}
<1>1. CASE Orders(p, g) = {}  BY <1>1 DEF Highest
<1>2. CASE Orders(p, g) # {}
  <2>1. StoreInv /\ Locked(req[p])  BY DEF Inv, IdInv
  <2>2. req[p].add = {}  BY <2>1 DEF Locked
  <2>3. L \subseteq Vis(req[p]) /\ \A x \in L : x.t = "links"  BY RowsIn
  <2>4. L \subseteq db  BY <2>2, <2>3 DEF Vis
  <2>5. L \subseteq LinkRows
    <3>1. \A x \in L : x \in Row  BY <2>1, <2>4 DEF StoreInv
    <3> QED  BY <2>3, <3>1, RowIds
  <2>6. IsFiniteSet(L)
    <3> HIDE DEF L
    <3> QED  BY <2>1, <2>4, FS_Subset DEF StoreInv
  <2>7. L # {}  BY <1>2 DEF Orders
  <2>8. PICK l \in L : \A m \in L : m.order <= l.order
    <3> HIDE DEF L
    <3> QED  BY <2>5, <2>6, <2>7, TopLink
  <2>9. l.order \in Orders(p, g) /\ \A x \in Orders(p, g) : x <= l.order
    BY <2>8 DEF Orders
  <2>10. Orders(p, g) \subseteq Nat
    <3>1. \A x \in L : x.order \in Nat  BY <2>5 DEF LinkRows
    <3> QED  BY <3>1 DEF Orders
  <2>11. Highest(p, g) \in Orders(p, g)  BY <1>2, <2>9 DEF Highest
  <2> QED  BY <2>10, <2>11
<1> QED  BY <1>1, <1>2

\* The highest order and the link are read.
LEMMA RankKeeps ==
    ASSUME Inv, NEW p \in Slots, Rank(p)
    PROVE  Inv'
<1> DEFINE o == req[p]
<1>1. At(p, "rank") /\ UNCHANGED <<todo, bare>>  BY DEF Rank
<1>2. o \in Request /\ Active(p) /\ o.op = "top" /\ Shape(o)  BY <1>1, Turn, StepOpsMore
<1>3. ~o.txn  BY <1>2, FreeTxn
<1>4. Silent("rank") /\ "rank" \notin Telling  BY DEF Silent, Finding, Telling
<1>5. CASE Fail(p)  BY <1>1, <1>2, <1>5, FailKeeps
<1>6. ASSUME NEW g, NEW l \in Rows(p, "links"), UNCHANGED <<db, redis>>,
             Go(p, Done([o EXCEPT !.seen = {l}, !.count = Highest(p, g) + 1]))
      PROVE  Inv'
  <2>1. PICK h : h = Highest(p, g) + 1  OBVIOUS
  <2>2. h \in Nat  BY <1>3, <2>1, HighestIs
  <2>3. l \in Vis(o) /\ l.t = "links"  BY RowsIn
  <2>4. l \in Row  BY <2>3, Places DEF Inv
  <2>5. PICK n : n = {l}  OBVIOUS
  <2>6. PICK s : s = [o EXCEPT !.seen = n, !.count = h]  OBVIOUS
  <2>7. /\ s \in Request /\ Kin(s, o) /\ s.steps = o.steps /\ s.seen = n
        /\ s.kind = o.kind /\ s.name = o.name /\ s.user = o.user /\ s.device = o.device
    BY <1>2, <2>2, <2>4, <2>5, <2>6 DEF Request, Kin
  <2>8. PICK r : r = Done(s)  OBVIOUS
  <2>9. /\ Left(r) = Left(o) \ {"rank"} /\ Kin(r, o) /\ r.op = o.op
        /\ r.user = o.user /\ r.device = o.device /\ r.seen = n
    BY <1>1, <2>7, <2>8, DoneTurn DEF Kin
  <2>10. Shape(r)
    <3>1. TopShape(r)  BY <2>3, <2>5, <2>9 DEF TopShape
    <3> QED  BY <1>2, <2>9, <3>1, ShapeFor
  <2>11. Go(p, r)  BY <1>6, <2>1, <2>5, <2>6, <2>8
  <2>12. /\ s.seen \subseteq Vis(o) \cup o.seen /\ o.op # "delete_user"
         /\ ReqRefs(r) \subseteq ReqRefs(o) \cup Ids(Vis(o))
    BY <1>2, <1>4, <2>3, <2>5, <2>7, <2>9, SilentRefs
  <2> QED  BY <1>1, <1>4, <1>6, <2>7, <2>8, <2>10, <2>11, <2>12, ReadTurn
<1>7. CASE Go(p, [o EXCEPT !.steps = <<>>]) /\ UNCHANGED <<db, redis>>
  <2>1. PICK r : r = [o EXCEPT !.steps = <<>>]  OBVIOUS
  <2>2. r.steps = <<>>  BY <1>2, <2>1 DEF Request
  <2>3. Go(p, r)  BY <1>7, <2>1
  <2> QED  BY <1>1, <1>2, <1>7, <2>2, <2>3, EarlyEnd
<1> QED  BY <1>5, <1>6, <1>7 DEF Rank

\* The link is written with its new order.
LEMMA ReorderKeeps ==
    ASSUME Inv, NEW p \in Slots, Reorder(p)
    PROVE  Inv'
<1> DEFINE o == req[p]
<1>1. PICK l \in o.seen : /\ At(p, "reorder") /\ UNCHANGED <<todo, bare>>
                          /\ Update(p, [l EXCEPT !.order = o.count])
  BY DEF Reorder
<1>2. o \in Request /\ Active(p) /\ o.op = "top" /\ Shape(o)  BY <1>1, Turn, StepOpsMore
<1>3. Silent("reorder") /\ "reorder" \notin Telling  BY DEF Silent, Finding, Telling
<1>4. PICK x : x = [l EXCEPT !.order = o.count]  OBVIOUS
<1>5. l \in Everywhere /\ l \in Row  BY Places DEF Inv, Held
<1>6. l.t = "links" /\ l \in LinkRows
  <2>1. l.t = "links"  BY <1>2, ShapeFor DEF TopShape
  <2> QED  BY <1>5, <2>1, RowIds
<1>7. x \in LinkRows /\ x.id = l.id /\ x.t = "links" /\ Fixed(x) = Fixed(l)
  <2>1. o.count \in Nat  BY <1>2, RequestIs
  <2>2. x \in LinkRows /\ x.id = l.id /\ x.t = "links"  BY <1>4, <1>6, <2>1 DEF LinkRows
  <2>3. [x EXCEPT !.order = 0] = [l EXCEPT !.order = 0]  BY <1>4, <1>6 DEF LinkRows
  <2>4. Fixed(x) = [x EXCEPT !.order = 0] /\ Fixed(l) = [l EXCEPT !.order = 0]
    BY <1>6, <2>2 DEF Fixed
  <2> QED  BY <2>2, <2>3, <2>4
<1>8. CASE Fail(p)  BY <1>1, <1>2, <1>8, FailKeeps
<1>9. ASSUME NEW v \in View(p), v.id = x.id PROVE Inv'
  <2>1. v \in Vis(o) /\ v \in Everywhere  BY RowsSeen, Places DEF Inv
  <2>2. Fixed(x) = Fixed(v)  BY <1>5, <1>7, <1>9, <2>1, SameId DEF Inv
  <2>3. PICK new : new = {x}  OBVIOUS
  <2>4. PICK old : old = {x.id}  OBVIOUS
  <2>5. PICK r : r = After(o, new, old)  OBVIOUS
  <2>6. x \in Row /\ new \in SUBSET Row  BY <1>7, <2>3 DEF Row
  <2>7. Turned(p, "reorder", new, old, r)  BY <1>1, <2>5, <2>6, OwnTurned
  <2>8. Shape(r)
    <3>1. r.op = o.op /\ r.seen = o.seen  BY <2>7 DEF Turned, Follows
    <3>2. TopShape(r)  BY <1>2, <3>1, ShapeFor DEF TopShape
    <3> QED  BY <1>2, <3>1, <3>2, ShapeFor
  <2>9. Update(p, x) /\ r = After(o, {x}, {x.id})  BY <1>1, <1>4, <2>3, <2>4, <2>5
  <2>10. x.t \notin Typed \cup {"authority", "devices"} /\ x.t # "nodes" /\ o.op # "delete_user"
    BY <1>2, <1>7 DEF Typed
  <2> QED  BY <1>1, <1>3, <2>1, <2>2, <2>6, <2>8, <2>9, <2>10, UpdateKeeps
<1> QED  BY <1>1, <1>4, <1>8, <1>9 DEF Update

-----------------------------------------------------------------------------
(* POST of a device *)

\* A creation that takes a step.
LEMMA CreateTurn ==
    ASSUME Inv, NEW p \in Slots, NEW st, At(p, st), req[p].op = "create"
    PROVE  /\ req[p].txn /\ CreateShape(req[p]) /\ Active(p) /\ req[p] \in Request
           /\ Tail(req[p].steps) \in Seq(StepNames) /\ st \in Left(req[p])
           /\ Left(req[p]) \subseteq Uses(req[p])
           /\ \A t \in Left(req[p]) : t = st \/ Level(st) < Level(t)
           /\ req[p].user \in Nat /\ req[p].device \in Nat /\ req[p].name \in Names
<1>1. Program(req[p]) /\ Shape(req[p])  BY Turn
<1>2. CreateShape(req[p])  BY <1>1, ShapeFor
<1>3. req[p].txn /\ Left(req[p]) \subseteq Uses(req[p])  BY <1>1, Transactions DEF Program
<1>4. req[p].user \in Nat /\ req[p].device \in Nat /\ req[p].name \in Names
  BY <1>1, Turn, RequestIs DEF Program
<1> QED  BY <1>2, <1>3, <1>4, Turn

\* A step of POST before the device's row is written.
LEMMA EarlyShape ==
    ASSUME NEW o, CreateShape(o), NEW st \in {"address", "check"}, st \in Left(o),
           \A t \in Left(o) : t = st \/ Level(st) < Level(t),
           NEW r, r.op = "create", r.kind = o.kind, r.del = o.del, r.seen = o.seen,
           r.eui = o.eui, r.dev_eui = o.dev_eui, r.device = o.device, r.user = o.user,
           r.add = o.add, r.groups = o.groups, Left(r) = Left(o) \ {st},
           (r.addr = o.addr /\ st = "check") \/ (r.addr \in Addrs /\ r.add = {})
    PROVE  Shape(r)
<1> DEFINE L == Left(o)
<1>1. "address" \notin Left(r)
  <2>1. Level("check") = 2 /\ Level("address") = 1  BY Levels
  <2> QED  BY <2>1
<1>2. st # "device" /\ st \notin RowSteps \cup LinkSteps \cup {"set_addr", "set_gate", "set_snap"}
  BY DEF RowSteps, LinkSteps
<1>3. Left(r) \cap RowSteps = L \cap RowSteps  BY <1>2
<1>4. \A t \in LinkSteps \cup {"set_addr", "set_gate", "set_snap", "device"} \cup RowSteps :
         t \in Left(r) <=> t \in L
  BY <1>2
<1>5. r.kind \in NodeKinds => r.addr \in Addrs
  <2>1. CASE st = "check"
    <3>1. "address" \notin L
      <4>1. Level("check") = 2 /\ Level("address") = 1  BY Levels
      <4> QED  BY <2>1, <4>1
    <3> QED  BY <3>1 DEF CreateShape
  <2>2. CASE st = "address"  BY <2>2
  <2> QED  BY <2>1, <2>2
<1>7. /\ "node" \in Left(r) => "set_addr" \in Left(r)
      /\ "gate" \in Left(r) => "set_gate" \in Left(r)
      /\ "snap" \in Left(r) => "set_snap" \in Left(r)
  BY <1>4 DEF CreateShape, RowSteps
<1>8. /\ "link_default" \in Left(r) /\ Left(r) \cap {"default", "find_default"} = {}
      => r.groups # <<>>
  <2>1. /\ "link_default" \in Left(r) => "link_default" \in L
        /\ L \cap {"default", "find_default"} = Left(r) \cap {"default", "find_default"}
    BY <1>4 DEF LinkSteps
  <2> QED  BY <2>1 DEF CreateShape
<1>9. CreateShape(r)
  <2>1. "device" \in Left(r) => r.add = {} /\ Left(r) \cap RowSteps # {}
    BY <1>3, <1>4 DEF CreateShape
  <2>2. "device" \notin Left(r) => \E x \in r.add : x.t = "devices"
    BY <1>4 DEF CreateShape
  <2>3. Left(r) \cap RowSteps = {} => \E x \in r.add : x.t = TypeTable(TypeOf(r.kind))
    BY <1>3 DEF CreateShape
  <2>4. \A x \in r.add :
          /\ x.t \notin {"users", "authority"}
          /\ x.t = "devices" => /\ x.id = r.device /\ x.eui = r.eui /\ x.user = r.user
                                /\ x.kind = TypeOf(r.kind)
          /\ x.t \in Typed => Left(r) \cap RowSteps = {} /\ x.device = r.device
          /\ x.t = "nodes" => x.dev_addr = r.addr
    BY <1>3 DEF CreateShape
  <2> QED
    BY <1>1, <1>5, <1>7, <1>8, <2>1, <2>2, <2>3, <2>4 DEF CreateShape
<1> QED  BY <1>9, ShapeFor

\* A random address is chosen.
LEMMA AddressKeeps ==
    ASSUME Inv, NEW p \in Slots, Address(p)
    PROVE  Inv'
<1> DEFINE o == req[p]
<1>1. At(p, "address") /\ UNCHANGED <<todo, bare>>  BY DEF Address
<1>2. o.op = "create"  BY <1>1, Turn, StepOps
<1>3. /\ o \in Request /\ CreateShape(o) /\ "address" \in Left(o) /\ Active(p)
      /\ \A t \in Left(o) : t = "address" \/ Level("address") < Level(t)
  BY <1>1, <1>2, CreateTurn
<1>4. CASE Fail(p)  BY <1>1, <1>3, <1>4, FailKeeps
<1>5. ASSUME NEW a \in Addrs, UNCHANGED <<db, redis>>, Go(p, Done([o EXCEPT !.addr = a]))
      PROVE  Inv'
  <2>1. PICK s : s = [o EXCEPT !.addr = a]  OBVIOUS
  <2>2. /\ s \in Request /\ Kin(s, o) /\ s.steps = o.steps /\ s.seen = o.seen
        /\ s.kind = o.kind /\ s.name = o.name /\ s.user = o.user /\ s.device = o.device
        /\ s.eui = o.eui /\ s.dev_eui = o.dev_eui /\ s.addr = a /\ s.groups = o.groups
    BY <1>3, <2>1 DEF Request, Kin
  <2>3. PICK r : r = Done(s)  OBVIOUS
  <2>4. /\ Left(r) = Left(o) \ {"address"} /\ Kin(r, o) /\ r.op = o.op
        /\ r.user = o.user /\ r.device = o.device /\ r.seen = o.seen /\ r.kind = o.kind
        /\ r.eui = o.eui /\ r.dev_eui = o.dev_eui /\ r.addr = a /\ r.add = o.add
        /\ r.del = o.del /\ r.groups = o.groups
    BY <1>1, <2>2, <2>3, DoneTurn DEF Kin
  <2>5. o.add = {}  BY <1>3 DEF CreateShape
  <2>6. PICK st : st = "address"  OBVIOUS
  <2>7. Shape(r)
    <3>1. /\ st \in {"address", "check"} /\ st \in Left(o) /\ Left(r) = Left(o) \ {st}
          /\ \A t \in Left(o) : t = st \/ Level(st) < Level(t)
      BY <1>3, <2>4, <2>6
    <3>2. (r.addr = o.addr /\ st = "check") \/ (r.addr \in Addrs /\ r.add = {})
      BY <2>4, <2>5
    <3>3. r.op = "create"  BY <1>2, <2>4
    <3> QED  BY <1>3, <2>4, <3>1, <3>2, <3>3, EarlyShape
  <2>8. Silent("address") /\ "address" \notin Telling  BY DEF Silent, Finding, Telling
  <2>9. /\ s.seen \subseteq Vis(o) \cup o.seen /\ o.op # "delete_user"
        /\ ReqRefs(r) \subseteq ReqRefs(o) \cup Ids(Vis(o))
    BY <1>2, <2>2, <2>4, <2>8, SilentRefs
  <2>10. Go(p, r)  BY <1>5, <2>1, <2>3
  <2> QED  BY <1>1, <1>5, <2>2, <2>3, <2>7, <2>8, <2>9, <2>10, ReadTurn
<1> QED  BY <1>4, <1>5 DEF Address

\* The EUI or the address is looked up in redis.
LEMMA CheckKeeps ==
    ASSUME Inv, NEW p \in Slots, Check(p)
    PROVE  Inv'
<1> DEFINE o == req[p]
<1>1. /\ At(p, "check") /\ UNCHANGED <<todo, bare>>
      /\ Fail(p) \/ (Proceed(p) /\ UNCHANGED <<db, redis>>)
  BY DEF Check
<1>2. o.op = "create"  BY <1>1, Turn, StepOps
<1>3. /\ o \in Request /\ CreateShape(o) /\ "check" \in Left(o) /\ Active(p)
      /\ \A t \in Left(o) : t = "check" \/ Level("check") < Level(t)
      /\ Tail(o.steps) \in Seq(StepNames)
  BY <1>1, <1>2, CreateTurn
<1>4. CASE Fail(p)  BY <1>1, <1>3, <1>4, FailKeeps
<1>5. CASE Proceed(p) /\ UNCHANGED <<db, redis>>
  <2>1. PICK r : r = Done(o)  OBVIOUS
  <2>2. /\ r.op = o.op /\ r.kind = o.kind /\ r.txn = o.txn /\ r.name = o.name
        /\ r.steps = Tail(o.steps) /\ r.del = o.del /\ r.seen = o.seen /\ r.eui = o.eui
        /\ r.dev_eui = o.dev_eui /\ r.addr = o.addr /\ r.device = o.device
        /\ r.user = o.user /\ r.add = o.add /\ r.groups = o.groups
    BY <1>3, <2>1, DoneIs
  <2>3. Left(r) = Left(o) \ {"check"}  BY <1>1, <2>2, DoneProgram
  <2>4. PICK st : st = "check"  OBVIOUS
  <2>5. Shape(r)
    <3>1. /\ st \in {"address", "check"} /\ st \in Left(o) /\ Left(r) = Left(o) \ {st}
          /\ \A t \in Left(o) : t = st \/ Level(st) < Level(t)
      BY <1>3, <2>3, <2>4
    <3>2. (r.addr = o.addr /\ st = "check") \/ (r.addr \in Addrs /\ r.add = {})
      BY <2>2, <2>4
    <3>3. r.op = "create"  BY <1>2, <2>2
    <3> QED  BY <1>3, <2>2, <3>1, <3>2, <3>3, EarlyShape
  <2>6. Silent("check") /\ "check" \notin Telling  BY DEF Silent, Finding, Telling
  <2>7. ReqRefs(r) \subseteq ReqRefs(o) /\ o.op # "delete_user"
    BY <1>2, <2>2, <2>3, <2>6, SilentRefs
  <2> QED  BY <1>1, <1>5, <2>1, <2>5, <2>6, <2>7, ProceedKeeps
<1> QED  BY <1>1, <1>4, <1>5

\* What a kind of device has for its type.
LEMMA KindTypes ==
    ASSUME NEW k \in Kinds \ {"LoRaNode"}
    PROVE  /\ TypeOf(k) \in {"LoRaNode", "Gateway", "MQTT", "Snap"}
           /\ k \in NodeKinds <=> TypeOf(k) = "LoRaNode"
           /\ k = "Gateway" <=> TypeOf(k) = "Gateway"
           /\ k = "MQTT" <=> TypeOf(k) = "MQTT"
           /\ k = "Snap" <=> TypeOf(k) = "Snap"
           /\ TypeTable("LoRaNode") = "nodes" /\ TypeTable("Gateway") = "gates"
           /\ TypeTable("MQTT") = "mqtts" /\ TypeTable("Snap") = "snaps"
BY DEF Kinds, TypeOf, IsNode, NodeKinds, TypeTable

\* The one row of a type that a handler of POST writes.
LEMMA OneRowStep ==
    ASSUME NEW r, r.op = "create", Left(r) \subseteq Uses(r), NEW st \in RowSteps, st \in Left(r)
    PROVE  /\ Left(r) \cap RowSteps = {st}
           /\ st = "node" => r.kind \in NodeKinds
           /\ st = "gate" => r.kind = "Gateway"
           /\ st = "mqtt" => r.kind = "MQTT"
           /\ st = "snap" => r.kind = "Snap"
<1>1. \A t \in Left(r) \cap RowSteps :
         \/ t = "node" /\ r.kind \in NodeKinds
         \/ t = "gate" /\ r.kind = "Gateway"
         \/ t = "mqtt" /\ r.kind = "MQTT"
         \/ t = "snap" /\ r.kind = "Snap"
  BY StepOps DEF RowSteps
<1> QED  BY <1>1 DEF NodeKinds

\* The row of the device is written.
LEMMA DeviceKeeps ==
    ASSUME Inv, NEW p \in Slots, Device(p)
    PROVE  Inv'
<1> DEFINE o == req[p]
<1>1. PICK i : i = NewId(p)  OBVIOUS
<1>2. PICK x : x = DeviceRow(i, o.eui, TypeOf(o.kind), o.user)  OBVIOUS
<1>3. PICK s : s = [o EXCEPT !.device = i]  OBVIOUS
<1>4. PICK new : new = {x}  OBVIOUS
<1>5. PICK old : old = {}  OBVIOUS
<1>6. PICK red : red = redis  OBVIOUS
<1>7. /\ At(p, "device") /\ UNCHANGED <<todo, bare>>
      /\ Fail(p) \/ Statement(p, new, old, s, red)
  BY <1>1, <1>2, <1>3, <1>4, <1>5, <1>6 DEF Device
<1>8. o.op = "create"  BY <1>7, Turn, StepOps
<1>9. /\ o \in Request /\ CreateShape(o) /\ "device" \in Left(o) /\ Active(p) /\ o.txn
      /\ \A t \in Left(o) : t = "device" \/ Level("device") < Level(t)
      /\ Left(o) \subseteq Uses(o) /\ o.user \in Nat
  BY <1>7, <1>8, CreateTurn
<1>10. CASE Fail(p)  BY <1>7, <1>9, <1>10, FailKeeps
<1>11. CASE Statement(p, new, old, s, red)
  <2>1. i \in Nat  BY <1>1, <1>9, TakenIds
  <2>2. /\ s \in Request /\ Kin(s, o) /\ s.steps = o.steps /\ s.seen = o.seen
        /\ s.kind = o.kind /\ s.name = o.name /\ s.user = o.user /\ s.device = i
        /\ s.eui = o.eui /\ s.dev_eui = o.dev_eui /\ s.addr = o.addr /\ s.groups = o.groups
    BY <1>3, <1>9, <2>1 DEF Request, Kin
  <2>3. o.kind \in Kinds \ {"LoRaNode"} /\ o.eui \in Euis  BY <1>9 DEF CreateShape
  <2>4. /\ x \in DeviceRows /\ x.t = "devices" /\ x.id = i /\ x.eui = o.eui
        /\ x.user = o.user /\ x.kind = TypeOf(o.kind)
    BY <1>2, <1>9, <2>1, <2>3, KindTypes DEF DeviceRow, DeviceRows, None
  <2>5. x \in Row  BY <2>4 DEF Row
  <2>6. Created(p, x)  BY <1>1, <2>4 DEF Created, Refs, Typed
  <2>7. Writable(p, new, old) /\ new \in SUBSET Row  BY <1>4, <1>5, <2>5, <2>6, OneNew
  <2>8. Fitting(p, new) /\ Novel(new)  BY <1>4, <2>4 DEF Fitting, Novel, Typed
  <2>9. Plain(new, old) /\ Staying(new, old)  BY <1>5, NothingOld
  <2>10. PICK r : r = After(s, new, old)  OBVIOUS
  <2>11. Follows(r, s, new, old) /\ Program(r) /\ Left(r) = Left(o) \ {"device"}
    BY <1>7, <2>2, <2>7, <2>10, StatementTurn
  <2>12. s.add = {} /\ s.del = {} /\ s.op = o.op /\ s.txn = o.txn /\ o.seen = {}
    BY <1>9, <2>2 DEF Kin, CreateShape
  <2>13. /\ r.op = o.op /\ r.kind = o.kind /\ r.seen = {} /\ r.eui = o.eui
         /\ r.dev_eui = o.dev_eui /\ r.addr = o.addr /\ r.device = i /\ r.groups = o.groups
         /\ r.user = o.user /\ r.del = {} /\ r.add = new
    <3>1. r.add = {y \in s.add : y.id \notin old} \cup new /\ r.del = s.del \cup (old \cap Ids(db))
      BY <1>9, <2>11, <2>12 DEF Follows
    <3>2. r.add = new /\ r.del = {}  BY <1>5, <2>12, <3>1
    <3> QED  BY <2>2, <2>11, <2>12, <3>2 DEF Follows
  <2>14. "address" \notin Left(r)
    <3>1. Level("address") = 1 /\ Level("device") = 3  BY Levels
    <3> QED  BY <1>9, <2>11, <3>1
  <2>15. /\ "node" \in Left(r) => "set_addr" \in Left(r)
         /\ "gate" \in Left(r) => "set_gate" \in Left(r)
         /\ "snap" \in Left(r) => "set_snap" \in Left(r)
         /\ Left(r) \cap RowSteps = Left(o) \cap RowSteps /\ Left(o) \cap RowSteps # {}
    BY <1>9, <2>11 DEF CreateShape, RowSteps
  <2>16. Shape(r)
    <3>1. /\ "link_default" \in Left(r) /\ Left(r) \cap {"default", "find_default"} = {}
          => r.groups # <<>>
      BY <1>9, <2>11, <2>13 DEF CreateShape
    <3>2. x \in r.add /\ \A y \in r.add : y = x  BY <1>4, <2>13
    <3>3. CreateShape(r)
      <4>1. \A y \in r.add :
              /\ y.t \notin {"users", "authority"}
              /\ y.t = "devices" => /\ y.id = r.device /\ y.eui = r.eui /\ y.user = r.user
                                    /\ y.kind = TypeOf(r.kind)
              /\ y.t \in Typed => Left(r) \cap RowSteps = {} /\ y.device = r.device
              /\ y.t = "nodes" => y.dev_addr = r.addr
        BY <2>4, <2>13, <3>2 DEF Typed
      <4>2. r.kind \in NodeKinds /\ "address" \notin Left(r) => r.addr \in Addrs
        BY <1>9, <2>11, <2>13 DEF CreateShape
      <4>3. "device" \notin Left(r)  BY <2>11
      <4>4. \E y \in r.add : y.t = "devices"  BY <2>4, <3>2
      <4>5. r.dev_eui \in Euis  BY <1>9, <2>13 DEF CreateShape
      <4> QED
        BY <2>3, <2>13, <2>14, <2>15, <3>1, <4>1, <4>2, <4>3, <4>4, <4>5 DEF CreateShape
    <3> QED  BY <1>8, <2>13, <3>3, ShapeFor
  <2>17. \A y \in new : Told(r, y)
    <3>1. ASSUME x.kind = "Gateway" PROVE "set_gate" \in Left(r)
      <4>1. o.kind = "Gateway"  BY <2>3, <2>4, <3>1, KindTypes
      <4>2. PICK t \in RowSteps : t \in Left(o)  BY <2>15
      <4>3. t = "gate"  BY <1>8, <1>9, <4>1, <4>2, OneRowStep DEF RowSteps, NodeKinds
      <4> QED  BY <2>15, <4>2, <4>3
    <3>2. ASSUME x.kind = "Snap" PROVE "set_snap" \in Left(r)
      <4>1. o.kind = "Snap"  BY <2>3, <2>4, <3>2, KindTypes
      <4>2. PICK t \in RowSteps : t \in Left(o)  BY <2>15
      <4>3. t = "snap"  BY <1>8, <1>9, <4>1, <4>2, OneRowStep DEF RowSteps, NodeKinds
      <4> QED  BY <2>15, <4>2, <4>3
    <3> QED  BY <1>4, <2>4, <3>1, <3>2 DEF Told
  <2>18. ReqRefs(r) \subseteq {NewId(p), SecondId(p)} \cup ReqRefs(o)
    <3>1. UserSet(r) <=> UserSet(o)
      <4>1. "device" \notin Finding  BY DEF Finding
      <4> QED  BY <2>11, <2>13, <4>1 DEF UserSet
    <3> QED  BY <1>1, <2>13, <3>1 DEF ReqRefs
  <2>19. "device" \notin Telling /\ o.op # "delete_user" /\ (red = redis \/ \E u : red = Uncached(u))
    BY <1>6, <1>8 DEF Telling
  <2> QED
    BY <1>7, <1>9, <1>11, <2>2, <2>7, <2>8, <2>9, <2>10, <2>16, <2>17, <2>18, <2>19,
       PlainKeeps
<1> QED  BY <1>7, <1>10, <1>11

\* Nobody has seen a row that tells of a device in the making, but the handler itself.
LEMMA NewDevice ==
    ASSUME Inv, NEW p \in Slots, req[p].op = "create", Active(p), CreateShape(req[p]),
           "device" \notin Left(req[p]), NEW y \in Everywhere, req[p].device \in Refs(y)
    PROVE  y \in req[p].add
<1> DEFINE o == req[p]
<1>1. PICK d \in o.add : d.t = "devices" /\ d.id = o.device  BY DEF CreateShape
<1>2. IdInv /\ ApartInv /\ ProgramInv  BY DEF Inv
<1>3. o.del = {} /\ o.seen = {}  BY DEF CreateShape
<1>4. o.txn /\ Drawn(o, o.device)
  <2>1. Locked(o)  BY <1>2 DEF IdInv
  <2> QED  BY <1>1, <1>3, <2>1 DEF Locked
<1>5. ~Known(o.device) /\ \A q \in Slots \ {p} : ~KnownTo(req[q], o.device)
  BY <1>2, <1>4 DEF ApartInv, Private
<1>6. y \notin db \cup CachedAll  BY <1>5 DEF Known
<1>7. \A q \in Slots \ {p} : y \notin Held(req[q])  BY <1>5 DEF KnownTo
<1>8. PICK q \in Slots : y \in Held(req[q])  BY <1>6 DEF Everywhere
<1> QED  BY <1>3, <1>7, <1>8 DEF Held

\* The row of the device's type, with a broker account beside it for a gateway.
LEMMA TypedKeeps ==
    ASSUME Inv, NEW p \in Slots, NEW st \in RowSteps, At(p, st),
           NEW x \in Row, x.t \in Typed, x.t = TypeTable(TypeOf(req[p].kind)), x.id = NewId(p),
           x.device = req[p].device, x.t = "nodes" => x.dev_addr = req[p].addr,
           NEW y \in Row, y = x \/ (y.t = "integration" /\ y.id = SecondId(p)),
           NEW new, new = {x, y}, Statement(p, new, {}, req[p], redis),
           UNCHANGED <<todo, bare>>
    PROVE  Inv'
<1> DEFINE o == req[p]
<1>1. o.op = "create"  BY Turn, StepOps DEF RowSteps
<1>2. /\ o \in Request /\ CreateShape(o) /\ st \in Left(o) /\ Active(p) /\ o.txn
      /\ \A t \in Left(o) : t = st \/ Level(st) < Level(t)
      /\ Left(o) \subseteq Uses(o)
  BY <1>1, CreateTurn
<1>3. /\ Left(o) \cap RowSteps = {st}
      /\ st = "node" => o.kind \in NodeKinds
      /\ st = "gate" => o.kind = "Gateway"
      /\ st = "mqtt" => o.kind = "MQTT"
      /\ st = "snap" => o.kind = "Snap"
  BY <1>1, <1>2, OneRowStep
<1>4. "device" \notin Left(o) /\ "address" \notin Left(o) /\ st # "device"
  <2>1. Level("address") = 1 /\ Level("device") = 3 /\ Level(st) = 4  BY Levels DEF RowSteps
  <2> QED  BY <1>2, <2>1
<1>5. PICK d \in o.add : d.t = "devices"  BY <1>2, <1>4 DEF CreateShape
<1>6. d.id = o.device /\ d.kind = TypeOf(o.kind)  BY <1>2, <1>5 DEF CreateShape
<1>7. \A z \in o.add : z.t \notin Typed
  BY <1>2, <1>3 DEF CreateShape
<1>8. StoreInv /\ CompatInv  BY DEF Inv
<1>9. ASSUME NEW z \in Everywhere
      PROVE  /\ z.t = "devices" /\ z.id = x.device => x.t = TypeTable(z.kind)
             /\ z.t = x.t => z.device # x.device
  <2>1. ASSUME z.t = "devices", z.id = x.device PROVE x.t = TypeTable(z.kind)
    <3>1. d \in Everywhere  BY <1>5, <1>8, Places DEF Held
    <3>2. z.kind = d.kind  BY <1>5, <1>6, <1>8, <2>1, <3>1, SameId
    <3> QED  BY <1>6, <3>2
  <2>2. ASSUME z.t = x.t, z.device = x.device PROVE FALSE
    <3>1. o.device \in Refs(z)  BY <2>2 DEF Refs
    <3>2. z \in o.add  BY <1>1, <1>2, <1>4, <3>1, NewDevice
    <3> QED  BY <1>7, <2>2, <3>2
  <2> QED  BY <2>1, <2>2
<1>10. \A z, w \in new : z.t \in Typed /\ z # w => w.t \notin Typed \cup {"devices"}
  BY DEF Typed
<1>11. Fitting(p, new)
  <2>1. \A z \in new : z.t \in Typed => z = x  BY DEF Typed
  <2> QED  BY <1>9, <1>10, <2>1 DEF Fitting
<1>12. PICK old : old = {}  OBVIOUS
<1>13. Created(p, x)
  <2>1. Refs(x) = {x.id, o.device}  BY DEF Refs, Typed
  <2>2. o.device \in ReqRefs(o)  BY <1>1, <1>4 DEF ReqRefs, DeviceSet
  <2> QED  BY <2>1, <2>2 DEF Created
<1>14. \A z \in new : Created(p, z)
  <2>1. y.t = "integration" /\ y.id = SecondId(p) => Created(p, y)  BY DEF Created, Refs, Typed
  <2> QED  BY <1>13, <2>1
<1>15. Writable(p, new, old)
  <2>1. IsFiniteSet(new)
    <3>1. IsFiniteSet({x}) /\ IsFiniteSet({y})  BY FS_Singleton
    <3>2. {x} \cup {y} = new  OBVIOUS
    <3> QED  BY <3>1, <3>2, FS_Union
  <2>2. UniqueIds(new)
    <3>1. NewId(p) # SecondId(p)  BY <1>2, TakenIds
    <3> QED  BY <3>1 DEF UniqueIds
  <2>3. UniqueKeys(new)
    <3>1. y.t = "integration" => Keys(y) = {}  BY DEF Keys
    <3> QED  BY <3>1 DEF UniqueKeys, Shared
  <2> QED  BY <1>14, <2>1, <2>2, <2>3 DEF Writable
<1>16. new \in SUBSET Row /\ Novel(new)  BY DEF Novel, Typed
<1>17. Plain(new, old) /\ Staying(new, old)  BY <1>12, NothingOld
<1>18. PICK r : r = After(o, new, old)  OBVIOUS
<1>19. Turned(p, st, new, old, r)  BY <1>16, <1>18, OwnTurned
<1>20. /\ r.op = o.op /\ r.kind = o.kind /\ r.seen = o.seen /\ r.eui = o.eui
       /\ r.dev_eui = o.dev_eui /\ r.addr = o.addr /\ r.device = o.device
       /\ r.groups = o.groups /\ r.user = o.user /\ r.del = o.del /\ r.add = o.add \cup new
       /\ Left(r) = Left(o) \ {st}
  <2>1. r.add = {z \in o.add : z.id \notin old} \cup new /\ r.del = o.del \cup (old \cap Ids(db))
    BY <1>2, <1>19 DEF Turned, Follows
  <2>2. r.add = o.add \cup new /\ r.del = o.del  BY <1>12, <2>1
  <2> QED  BY <1>19, <2>2 DEF Turned, Follows
<1>21. Left(r) \cap RowSteps = {}  BY <1>3, <1>20
<1>22. Shape(r)
  <2>1. /\ "link_default" \in Left(r) /\ Left(r) \cap {"default", "find_default"} = {}
        => r.groups # <<>>
    BY <1>2, <1>20 DEF CreateShape, RowSteps
  <2>2. \A z \in r.add :
          /\ z.t \notin {"users", "authority"}
          /\ z.t = "devices" => /\ z.id = r.device /\ z.eui = r.eui /\ z.user = r.user
                                /\ z.kind = TypeOf(r.kind)
          /\ z.t \in Typed => Left(r) \cap RowSteps = {} /\ z.device = r.device
          /\ z.t = "nodes" => z.dev_addr = r.addr
    <3>1. ASSUME NEW z \in o.add
          PROVE /\ z.t \notin {"users", "authority"} /\ z.t \notin Typed
                /\ z.t = "devices" => /\ z.id = r.device /\ z.eui = r.eui /\ z.user = r.user
                                      /\ z.kind = TypeOf(r.kind)
      BY <1>2, <1>7, <1>20 DEF CreateShape
    <3> QED  BY <1>20, <1>21, <3>1 DEF Typed
  <2>3. r.kind \in NodeKinds => r.addr \in Addrs  BY <1>2, <1>4, <1>20 DEF CreateShape
  <2>4. \E z \in r.add : z.t = "devices"  BY <1>5, <1>20
  <2>5. \E z \in r.add : z.t = TypeTable(TypeOf(r.kind))  BY <1>20
  <2>6. "node" \notin Left(r) /\ "gate" \notin Left(r) /\ "snap" \notin Left(r)
    BY <1>21 DEF RowSteps
  <2>7. "device" \notin Left(r) /\ "address" \notin Left(r)  BY <1>4, <1>20
  <2>8. CreateShape(r)
    BY <1>2, <1>20, <1>21, <2>1, <2>2, <2>3, <2>4, <2>5, <2>6, <2>7 DEF CreateShape
  <2> QED  BY <1>1, <1>20, <2>8, ShapeFor
<1>23. \A z \in new : Told(r, z)
  <2>1. x.t = "nodes" => "set_addr" \in Left(r)
    <3>1. ASSUME x.t = "nodes" PROVE st = "node"
      <4>1. o.kind \in Kinds \ {"LoRaNode"}  BY <1>2 DEF CreateShape
      <4>2. TypeOf(o.kind) = "LoRaNode"  BY <3>1, <4>1, KindTypes
      <4>3. o.kind \in NodeKinds  BY <4>1, <4>2, KindTypes
      <4> QED  BY <1>3, <4>3 DEF RowSteps, NodeKinds
    <3>2. "set_addr" # st  BY DEF RowSteps
    <3> QED  BY <1>2, <1>20, <3>1, <3>2 DEF CreateShape
  <2> QED  BY <2>1 DEF Told, Typed
<1>24. Silent(st) /\ st \notin Telling  BY DEF RowSteps, Silent, Finding, Telling
<1>25. ReqRefs(r) \subseteq {NewId(p), SecondId(p)} \cup ReqRefs(o)
  BY <1>20, <1>24, SilentRefs
<1>26. PICK red : red = redis  OBVIOUS
<1>27. Statement(p, new, old, o, red) /\ (red = redis \/ \E u : red = Uncached(u))
  BY <1>12, <1>26
<1>28. Kin(o, o) /\ o.op # "delete_user"  BY <1>1 DEF Kin
<1> QED
  BY <1>2, <1>11, <1>15, <1>16, <1>17, <1>18, <1>22, <1>23, <1>24, <1>25, <1>27, <1>28,
     PlainKeeps

\* The row of its type is written.
LEMMA RowKeeps ==
    ASSUME Inv, NEW p \in Slots, Node(p) \/ Gate(p) \/ Mqtt(p) \/ Snap(p)
    PROVE  Inv'
<1> DEFINE o == req[p]
<1>1. PICK st \in RowSteps : At(p, st) /\ UNCHANGED <<todo, bare>>
                             /\ (st = "node" <=> Node(p)) /\ (st = "gate" <=> Gate(p))
                             /\ (st = "mqtt" <=> Mqtt(p)) /\ (st = "snap" <=> Snap(p))
  BY DEF Node, Gate, Mqtt, Snap, RowSteps, At
<1>2. o.op = "create"  BY <1>1, Turn, StepOps DEF RowSteps
<1>3. /\ o \in Request /\ CreateShape(o) /\ st \in Left(o) /\ Active(p)
      /\ Left(o) \subseteq Uses(o) /\ o.user \in Nat /\ o.device \in Nat
      /\ \A t \in Left(o) : t = st \/ Level(st) < Level(t)
  BY <1>1, <1>2, CreateTurn
<1>4. /\ st = "node" => o.kind \in NodeKinds
      /\ st = "gate" => o.kind = "Gateway"
      /\ st = "mqtt" => o.kind = "MQTT"
      /\ st = "snap" => o.kind = "Snap"
  BY <1>2, <1>3, OneRowStep
<1>5. NewId(p) \in Nat /\ SecondId(p) \in Nat  BY <1>3, TakenIds
<1>6. o.kind \in Kinds \ {"LoRaNode"} /\ o.eui \in Euis /\ o.dev_eui \in Euis
  BY <1>3 DEF CreateShape
<1>7. CASE st = "node"
  <2>1. PICK x : x = NodeRow(NewId(p), o.device, o.dev_eui, o.addr)  OBVIOUS
  <2>2. o.addr \in Addrs
    <3>1. Level("address") = 1 /\ Level("node") = 4  BY Levels
    <3>2. "address" \notin Left(o)  BY <1>3, <1>7, <3>1
    <3> QED  BY <1>3, <1>4, <1>7, <3>2 DEF CreateShape
  <2>3. /\ x \in NodeRows /\ x.t = "nodes" /\ x.id = NewId(p) /\ x.device = o.device
        /\ x.dev_addr = o.addr
    BY <1>3, <1>5, <1>6, <2>1, <2>2 DEF NodeRow, NodeRows
  <2>4. x.t = TypeTable(TypeOf(o.kind))  BY <1>4, <1>6, <1>7, <2>3, KindTypes
  <2>5. PICK new : new = {x, x}  OBVIOUS
  <2>6. Statement(p, new, {}, o, redis)
    <3>1. new = {x}  BY <2>5
    <3> QED  BY <1>1, <1>7, <2>1, <3>1 DEF Node, Insert
  <2>7. x \in Row /\ x.t \in Typed  BY <2>3 DEF Row, Typed
  <2> QED  BY <1>1, <2>3, <2>4, <2>5, <2>6, <2>7, TypedKeeps
<1>8. CASE st = "gate"
  <2>1. PICK x : x = GateRow(NewId(p), o.device, o.eui)  OBVIOUS
  <2>2. PICK y : y = IntegrationRow(SecondId(p), o.user, "Gateway", o.eui)  OBVIOUS
  <2>3. x \in GateRows /\ x.t = "gates" /\ x.id = NewId(p) /\ x.device = o.device
    BY <1>3, <1>5, <1>6, <2>1 DEF GateRow, GateRows
  <2>4. y \in IntegrationRows /\ y.t = "integration" /\ y.id = SecondId(p)
    BY <1>3, <1>5, <1>6, <2>2 DEF IntegrationRow, IntegrationRows
  <2>5. x.t = TypeTable(TypeOf(o.kind))  BY <1>4, <1>6, <1>8, <2>3, KindTypes
  <2>6. PICK new : new = {x, y}  OBVIOUS
  <2>7. Statement(p, new, {}, o, redis)
    BY <1>1, <1>8, <2>1, <2>2, <2>6 DEF Gate
  <2>8. x \in Row /\ x.t \in Typed /\ y \in Row  BY <2>3, <2>4 DEF Row, Typed
  <2>9. x.t # "nodes"  BY <2>3
  <2> QED  BY <1>1, <2>3, <2>4, <2>5, <2>6, <2>7, <2>8, <2>9, TypedKeeps
<1>9. CASE st = "mqtt"
  <2>1. PICK x : x = MqttRow(NewId(p), o.device)  OBVIOUS
  <2>2. x \in MqttRows /\ x.t = "mqtts" /\ x.id = NewId(p) /\ x.device = o.device
    BY <1>3, <1>5, <2>1 DEF MqttRow, MqttRows
  <2>3. x.t = TypeTable(TypeOf(o.kind))  BY <1>4, <1>6, <1>9, <2>2, KindTypes
  <2>4. PICK new : new = {x, x}  OBVIOUS
  <2>5. Statement(p, new, {}, o, redis)
    <3>1. new = {x}  BY <2>4
    <3> QED  BY <1>1, <1>9, <2>1, <3>1 DEF Mqtt, Insert
  <2>6. x \in Row /\ x.t \in Typed /\ x.t # "nodes"  BY <2>2 DEF Row, Typed
  <2> QED  BY <1>1, <2>2, <2>3, <2>4, <2>5, <2>6, TypedKeeps
<1>10. CASE st = "snap"
  <2>1. PICK x : x = SnapRow(NewId(p), o.device, o.eui)  OBVIOUS
  <2>2. x \in SnapRows /\ x.t = "snaps" /\ x.id = NewId(p) /\ x.device = o.device
    BY <1>3, <1>5, <1>6, <2>1 DEF SnapRow, SnapRows
  <2>3. x.t = TypeTable(TypeOf(o.kind))  BY <1>4, <1>6, <1>10, <2>2, KindTypes
  <2>4. PICK new : new = {x, x}  OBVIOUS
  <2>5. Statement(p, new, {}, o, redis)
    <3>1. new = {x}  BY <2>4
    <3> QED  BY <1>1, <1>10, <2>1, <3>1 DEF Snap, Insert
  <2>6. x \in Row /\ x.t \in Typed /\ x.t # "nodes"  BY <2>2 DEF Row, Typed
  <2> QED  BY <1>1, <2>2, <2>3, <2>4, <2>5, <2>6, TypedKeeps
<1> QED  BY <1>7, <1>8, <1>9, <1>10 DEF RowSteps

-----------------------------------------------------------------------------
(* Keys of redis, written and deleted *)

KeySteps == {"set_eui", "del_eui", "set_addr", "del_addr", "set_gate", "del_gate",
             "set_snap", "del_snap"}

\* Handlers that write redis keep their shape.
LEMMA KeyShape ==
    ASSUME Inv, NEW p \in Slots, NEW st \in KeySteps \cup {"hset"}, At(p, st),
           NEW r, r = Done(req[p])
    PROVE  Shape(r) /\ req[p].op # "delete_user" /\ req[p].txn
<1> DEFINE o == req[p]
           L == Left(o)
<1>1. /\ o \in Request /\ Program(o) /\ Shape(o) /\ st \in L /\ st \in Uses(o)
      /\ Tail(o.steps) \in Seq(StepNames)
      /\ \A t \in L : t = st \/ Level(st) < Level(t)
  BY Turn
<1>2. /\ r.op = o.op /\ r.kind = o.kind /\ r.txn = o.txn /\ r.name = o.name
      /\ r.steps = Tail(o.steps) /\ r.del = o.del /\ r.seen = o.seen /\ r.eui = o.eui
      /\ r.dev_eui = o.dev_eui /\ r.addr = o.addr /\ r.device = o.device
      /\ r.user = o.user /\ r.add = o.add /\ r.groups = o.groups
  BY <1>1, DoneIs
<1>3. Left(r) = L \ {st}  BY <1>2, DoneProgram
<1>4. \/ o.op \in {"create", "rebind", "delete"} /\ st # "hset"
      \/ o.op = "modify" /\ st = "hset"
  <2>1. st = "hset" => o.op = "modify"  BY <1>1, StepOps
  <2>2. st \in {"set_eui", "set_addr"} => o.op \in {"create", "rebind"}  BY <1>1, StepOps
  <2>3. st \in {"del_eui", "del_addr"} => o.op \in {"rebind", "delete"}  BY <1>1, StepOps
  <2>4. st \in {"del_gate", "del_snap"} => o.op = "delete"  BY <1>1, StepOps
  <2>5. st = "set_gate" => o.op = "create"  BY <1>1, StepOps
  <2>6. st = "set_snap" => o.op = "create"  BY <1>1, StepOps
  <2> QED  BY <2>1, <2>2, <2>3, <2>4, <2>5, <2>6 DEF KeySteps
<1>5. o.txn /\ o.op # "delete_user"
  <2>1. o.op \in {"create", "rebind", "delete", "modify"}  BY <1>4
  <2> QED  BY <1>1, <2>1, Transactions DEF Program
<1>6. Level(st) \in {5, 6, 7, 8}  BY Levels DEF KeySteps
<1>7. \A t \in {"address", "check", "device", "blue_find", "blue_update", "delete_find",
                "find_type", "locate", "exists"} \cup RowSteps : t \notin L
  <2>1. \A t \in {"address", "check", "device", "blue_find", "blue_update", "delete_find",
                  "find_type", "locate", "exists"} \cup RowSteps : Level(t) \in {1, 2, 3, 4}
    BY Levels DEF RowSteps
  <2> QED  BY <1>1, <1>6, <2>1
<1>8. \A t \in {"link_default", "default", "find_default"} : t \in Left(r) <=> t \in L
  BY <1>3 DEF KeySteps
<1>9. CASE o.op = "create"
  <2>1. CreateShape(o)  BY <1>1, <1>9, ShapeFor
  <2>2. /\ "link_default" \in Left(r) /\ Left(r) \cap {"default", "find_default"} = {}
        => r.groups # <<>>
    BY <1>2, <1>8, <2>1 DEF CreateShape
  <2>3. L \cap RowSteps = {} /\ Left(r) \cap RowSteps = {}  BY <1>3, <1>7
  <2>4. /\ "device" \notin Left(r) /\ "address" \notin Left(r) /\ "node" \notin Left(r)
        /\ "gate" \notin Left(r) /\ "snap" \notin Left(r) /\ "device" \notin L
        /\ "address" \notin L
    BY <1>3, <1>7 DEF RowSteps
  <2>5. \A x \in r.add :
          /\ x.t \notin {"users", "authority"}
          /\ x.t = "devices" => /\ x.id = r.device /\ x.eui = r.eui /\ x.user = r.user
                                /\ x.kind = TypeOf(r.kind)
          /\ x.t \in Typed => Left(r) \cap RowSteps = {} /\ x.device = r.device
          /\ x.t = "nodes" => x.dev_addr = r.addr
    BY <1>2, <2>1, <2>3 DEF CreateShape
  <2>6. (\E x \in r.add : x.t = "devices") /\ \E x \in r.add : x.t = TypeTable(TypeOf(r.kind))
    BY <1>2, <2>1, <2>3, <2>4 DEF CreateShape
  <2>7. CreateShape(r)
    BY <1>2, <2>1, <2>2, <2>4, <2>5, <2>6 DEF CreateShape
  <2> QED  BY <1>2, <1>5, <1>9, <2>7, ShapeFor
<1>10. CASE o.op = "rebind"
  <2>1. RebindShape(o)  BY <1>1, <1>10, ShapeFor
  <2>2. "blue_find" \notin Left(r) /\ "blue_update" \notin Left(r)  BY <1>3, <1>7
  <2>3. RebindShape(r)  BY <1>2, <1>8, <2>1, <2>2 DEF RebindShape
  <2> QED  BY <1>2, <1>5, <1>10, <2>3, ShapeFor
<1>11. CASE o.op = "delete"
  <2>1. DeleteShape(o)  BY <1>1, <1>11, ShapeFor
  <2>2. /\ "delete_find" \notin Left(r) /\ "find_type" \notin Left(r)
        /\ "delete_find" \notin L /\ "find_type" \notin L
    BY <1>3, <1>7
  <2>3. DeleteShape(r)  BY <1>2, <2>1, <2>2 DEF DeleteShape
  <2> QED  BY <1>2, <1>5, <1>11, <2>3, ShapeFor
<1>12. CASE o.op = "modify"
  <2>1. ModifyShape(o)  BY <1>1, <1>12, ShapeFor
  <2>2. "locate" \notin Left(r) /\ "exists" \notin Left(r)  BY <1>3, <1>7
  <2>3. ModifyShape(r)  BY <1>2, <2>1, <2>2 DEF ModifyShape
  <2> QED  BY <1>2, <1>5, <1>12, <2>3, ShapeFor
<1> QED  BY <1>4, <1>9, <1>10, <1>11, <1>12

\* What redis holds for a row stays right for it.
Kept(x) ==
    /\ x.t = "nodes" /\ RecordOf(x.dev_addr, x.device)
       => x.dev_addr \in bare' \/ redis'.node[x.dev_addr] \in {None, Partial, x.device}
    /\ x.t = "devices" /\ x.kind = "Gateway" /\ redis.gate[x.eui] \in {None, x.id}
       => redis'.gate[x.eui] \in {None, x.id}
    /\ x.t = "devices" /\ x.kind = "Snap" /\ redis.snap[x.eui] \in {None, x.id}
       => redis'.snap[x.eui] \in {None, x.id}

\* Writing a key of redis leaves the records of other nodes alone.
LEMMA KeyOwned ==
    ASSUME Inv, NEW p \in Slots, NEW st, At(p, st), Proceed(p), db' = db,
           \A x \in db : Kept(x),
           \A q \in Slots : \A x \in req[q].add : Kept(x),
           \A x \in req[p].add :
              /\ st = "set_addr" /\ x.t = "nodes" =>
                    x.dev_addr \in bare' \/ redis'.node[x.dev_addr] \in {None, Partial, x.device}
              /\ st = "set_gate" /\ x.t = "devices" /\ x.kind = "Gateway" =>
                    redis'.gate[x.eui] \in {None, x.id}
              /\ st = "set_snap" /\ x.t = "devices" /\ x.kind = "Snap" =>
                    redis'.snap[x.eui] \in {None, x.id}
    PROVE  OwnedInv'
<1> DEFINE o == req[p]
<1>1. req \in [Slots -> Request] /\ OwnedInv /\ StoreInv  BY DEF Inv, StoreInv
<1>2. o \in Request /\ Tail(o.steps) \in Seq(StepNames)  BY Turn
<1>3. PICK r : r = Done(o)  OBVIOUS
<1>4. /\ r \in Request /\ r.add = o.add /\ r.op = o.op /\ r.kind = o.kind /\ r.txn = o.txn
      /\ r.name = o.name /\ r.steps = Tail(o.steps)
  BY <1>2, <1>3, DoneIs
<1>5. Left(r) = Left(o) \ {st}  BY <1>4, DoneProgram
<1>6. Goes(p, r)  BY <1>1, <1>3, <1>4, GoGoes DEF Proceed
<1>7. RecordOwned'
  <2>1. \A x \in db : x.t = "nodes" => RecordOf(x.dev_addr, x.device)
    BY <1>1 DEF OwnedInv, RecordOwned, RecordOf, Table
  <2>2. \A x \in db : x.t = "devices" =>
          /\ x.kind = "Gateway" => redis.gate[x.eui] \in {None, x.id}
          /\ x.kind = "Snap" => redis.snap[x.eui] \in {None, x.id}
    BY <1>1 DEF OwnedInv, RecordOwned, Table
  <2> QED  BY <2>1, <2>2 DEF RecordOwned, Kept, Table
<1>8. ASSUME NEW q \in Slots, NEW x \in req'[q].add PROVE Told(req[q], x)'
  <2>1. req'[q] = req[q] \/ (q = p /\ req'[q] = r)
    BY <1>1, <1>6, <1>8, GoesTo, BlankSlot
  <2>2. x \in req[q].add  BY <1>4, <1>8, <2>1
  <2>3. Told(req[q], x) /\ Kept(x)  BY <1>1, <2>2 DEF OwnedInv
  <2>4. CASE req'[q] = req[q]  BY <2>3, <2>4 DEF Told, RecordOf, Kept
  <2>5. CASE q = p /\ req'[q] = r
    <3>1. x.t = "nodes" => "set_addr" \in Left(r) \/ x.dev_addr \in bare'
                           \/ redis'.node[x.dev_addr] \in {None, Partial, x.device}
      BY <1>5, <2>2, <2>3, <2>5 DEF Told, Kept
    <3>2. x.t = "devices" /\ x.kind = "Gateway" =>
             "set_gate" \in Left(r) \/ redis'.gate[x.eui] \in {None, x.id}
      BY <1>5, <2>2, <2>3, <2>5 DEF Told, Kept
    <3>3. x.t = "devices" /\ x.kind = "Snap" =>
             "set_snap" \in Left(r) \/ redis'.snap[x.eui] \in {None, x.id}
      BY <1>5, <2>2, <2>3, <2>5 DEF Told, Kept
    <3> QED  BY <2>5, <3>1, <3>2, <3>3 DEF Told, RecordOf
  <2> QED  BY <2>1, <2>4, <2>5
<1> QED  BY <1>7, <1>8 DEF OwnedInv

\* A field of redis with one key written.
Written(f, key, value) ==
    /\ redis' \in Stored /\ redis'.groups = redis.groups
    /\ redis'.session = redis.session
    /\ redis'.node = IF f = "node" THEN [redis.node EXCEPT ![key] = value] ELSE redis.node
    /\ redis'.gate = IF f = "gate" THEN [redis.gate EXCEPT ![key] = value] ELSE redis.gate
    /\ redis'.snap = IF f = "snap" THEN [redis.snap EXCEPT ![key] = value] ELSE redis.snap

\* A key that is written is of its type.
LEMMA KeyWritten ==
    ASSUME redis \in Stored, NEW key, NEW value,
           NEW f \in {"node", "eui", "gate", "snap"},
           redis' = [redis EXCEPT ![f][key] = value],
           f = "node" => value \in Nat \cup {Partial},
           f = "eui" => value \in Addrs \cup {None},
           f \in {"gate", "snap"} => value \in Nat
    PROVE  Written(f, key, value)
<1>1. CASE f = "node"
  <2>1. redis' = [redis EXCEPT !.node = [@ EXCEPT ![key] = value]]  BY <1>1
  <2> QED  BY <1>1, <2>1 DEF Stored, Written
<1>2. CASE f = "eui"
  <2>1. redis' = [redis EXCEPT !.eui = [@ EXCEPT ![key] = value]]  BY <1>2
  <2> QED  BY <1>2, <2>1 DEF Stored, Written
<1>3. CASE f = "gate"
  <2>1. redis' = [redis EXCEPT !.gate = [@ EXCEPT ![key] = value]]  BY <1>3
  <2> QED  BY <1>3, <2>1 DEF Stored, Written
<1>4. CASE f = "snap"
  <2>1. redis' = [redis EXCEPT !.snap = [@ EXCEPT ![key] = value]]  BY <1>4
  <2> QED  BY <1>4, <2>1 DEF Stored, Written
<1> QED  BY <1>1, <1>2, <1>3, <1>4

\* A handler after it has written a key.
LEMMA KeyDone ==
    ASSUME Inv, NEW p \in Slots, NEW st \in KeySteps \cup {"hset"}, At(p, st), Proceed(p),
           db' = db, todo' = todo, redis' \in Stored, redis'.groups = redis.groups,
           redis'.session = redis.session, OwnedInv'
    PROVE  Inv'
<1>1. PICK r : r = Done(req[p])  OBVIOUS
<1>2. Shape(r) /\ req[p].op # "delete_user"  BY <1>1, KeyShape
<1>3. Silent(st)  BY DEF Silent, KeySteps, Finding
<1>4. redis'.session \subseteq redis.session
             \cup (IF req[p].txn THEN {} ELSE ReqRefs(req[p]))
  OBVIOUS
<1>5. redis'.groups \subseteq redis.groups  OBVIOUS
<1> QED  BY <1>1, <1>2, <1>3, <1>4, <1>5, KeyKeeps

\* A key that is deleted, and a record that is made anew.
LEMMA ClearKeeps ==
    ASSUME Inv, NEW p \in Slots, NEW st \in (KeySteps \cup {"hset"}) \ Telling, At(p, st),
           Proceed(p), UNCHANGED <<db, todo, bare>>, redis' \in Stored,
           redis'.groups = redis.groups, redis'.session = redis.session,
           \A a \in Addrs : redis'.node[a] \in {redis.node[a], None, Partial},
           \A e \in Euis : /\ redis'.gate[e] \in {redis.gate[e], None}
                           /\ redis'.snap[e] \in {redis.snap[e], None}
    PROVE  Inv'
<1>1. ASSUME NEW x \in Everywhere PROVE Kept(x)
  <2>1. x \in Row  BY Places DEF Inv
  <2>2. x.t = "nodes" => x.dev_addr \in Addrs  BY <2>1, RowIds DEF NodeRows
  <2>3. x.t = "devices" => x.eui \in Euis  BY <2>1, RowIds DEF DeviceRows
  <2> QED  BY <2>2, <2>3 DEF Kept, RecordOf
<1>2. db \subseteq Everywhere /\ \A q \in Slots : req[q].add \subseteq Everywhere
  BY Places DEF Inv, Held
<1>3. st # "set_addr" /\ st # "set_gate" /\ st # "set_snap"  BY DEF Telling
<1>4. OwnedInv'
  <2>1. (\A x \in db : Kept(x)) /\ \A q \in Slots : \A x \in req[q].add : Kept(x)
    BY <1>1, <1>2
  <2>2. \A x \in req[p].add :
          /\ st = "set_addr" /\ x.t = "nodes" =>
                x.dev_addr \in bare' \/ redis'.node[x.dev_addr] \in {None, Partial, x.device}
          /\ st = "set_gate" /\ x.t = "devices" /\ x.kind = "Gateway" =>
                redis'.gate[x.eui] \in {None, x.id}
          /\ st = "set_snap" /\ x.t = "devices" /\ x.kind = "Snap" =>
                redis'.snap[x.eui] \in {None, x.id}
    BY <1>3
  <2>3. db' = db  OBVIOUS
  <2> QED  BY <2>1, <2>2, <2>3, KeyOwned
<1>5. st \in KeySteps \cup {"hset"} /\ db' = db /\ todo' = todo  OBVIOUS
<1> QED  BY <1>4, <1>5, KeyDone

\* Keys are deleted: what is not there is nobody else's.
LEMMA DelKeeps ==
    ASSUME Inv, NEW p \in Slots, DelAddr(p) \/ DelGate(p) \/ DelSnap(p) \/ DelEui(p)
    PROVE  Inv'
<1>0. PICK st \in {"del_addr", "del_gate", "del_snap", "del_eui"},
           f \in {"node", "gate", "snap", "eui"} :
         \E key : Key(p, st, f, key, None) /\ UNCHANGED bare
  BY DEF DelAddr, DelGate, DelSnap, DelEui
<1>1. PICK key : Key(p, st, f, key, None) /\ UNCHANGED bare  BY <1>0
<1>2. /\ At(p, st) /\ redis' = [redis EXCEPT ![f][key] = None] /\ Proceed(p)
      /\ UNCHANGED <<db, todo, bare>>
  BY <1>1 DEF Key
<1>3. redis \in Stored  BY DEF Inv, StoreInv
<1>4. Written(f, key, None)
  <2>1. None \in Nat \cup {Partial} /\ None \in Addrs \cup {None} /\ None \in Nat  BY DEF None
  <2>2. f \in {"node", "eui", "gate", "snap"}  OBVIOUS
  <2>3. PICK v : v = None  OBVIOUS
  <2>4. Written(f, key, v)
    <3>1. redis' = [redis EXCEPT ![f][key] = v]  BY <1>2, <2>3
    <3>2. /\ f = "node" => v \in Nat \cup {Partial}
          /\ f = "eui" => v \in Addrs \cup {None}
          /\ f \in {"gate", "snap"} => v \in Nat
      BY <2>1, <2>3
    <3> QED  BY <1>3, <2>2, <3>1, <3>2, KeyWritten
  <2> QED  BY <2>3, <2>4
<1>5. st \in (KeySteps \cup {"hset"}) \ Telling  BY DEF KeySteps, Telling
<1>6. \A a \in Addrs : redis'.node[a] \in {redis.node[a], None, Partial}
  BY <1>3, <1>4 DEF Stored, Written
<1>7. \A e \in Euis : /\ redis'.gate[e] \in {redis.gate[e], None}
                      /\ redis'.snap[e] \in {redis.snap[e], None}
  BY <1>3, <1>4 DEF Stored, Written
<1>8. redis' \in Stored /\ redis'.groups = redis.groups /\ redis'.session = redis.session
  BY <1>4 DEF Written
<1> QED  BY <1>2, <1>5, <1>6, <1>7, <1>8, ClearKeeps

\* One field of a record is written; a record made anew is partial.
LEMMA HSetKeeps ==
    ASSUME Inv, NEW p \in Slots, HSet(p)
    PROVE  Inv'
<1> DEFINE a == req[p].addr
<1>1. /\ At(p, "hset") /\ Proceed(p) /\ UNCHANGED <<db, todo, bare>>
      /\ redis' = [redis EXCEPT !.node[a] = IF @ = None THEN Partial ELSE @]
  BY DEF HSet
<1>2. redis \in Stored  BY DEF Inv, StoreInv
<1>3. PICK n : n = [redis.node EXCEPT ![a] = IF @ = None THEN Partial ELSE @]  OBVIOUS
<1>4. redis' = [redis EXCEPT !.node = n]  BY <1>1, <1>3
<1>5. n \in [Addrs -> Nat \cup {Partial}]  BY <1>2, <1>3 DEF Stored
<1>6. /\ redis' \in Stored /\ redis'.groups = redis.groups
      /\ redis'.session = redis.session /\ redis'.node = n /\ redis'.gate = redis.gate
      /\ redis'.snap = redis.snap
  BY <1>2, <1>4, <1>5 DEF Stored
<1>7. PICK st : st = "hset"  OBVIOUS
<1>8. st \in (KeySteps \cup {"hset"}) \ Telling /\ At(p, st)  BY <1>1, <1>7 DEF Telling
<1>9. \A b \in Addrs : redis'.node[b] \in {redis.node[b], None, Partial}
  BY <1>2, <1>3, <1>6 DEF Stored
<1>10. \A e \in Euis : /\ redis'.gate[e] \in {redis.gate[e], None}
                       /\ redis'.snap[e] \in {redis.snap[e], None}
  BY <1>6
<1> QED  BY <1>1, <1>6, <1>8, <1>9, <1>10, ClearKeeps

\* The address is stored under the EUI.
LEMMA SetEuiKeeps ==
    ASSUME Inv, NEW p \in Slots, SetEui(p)
    PROVE  Inv'
<1> DEFINE o == req[p]
<1>1. /\ At(p, "set_eui") /\ redis' = [redis EXCEPT !["eui"][o.dev_eui] = o.addr]
      /\ Proceed(p) /\ UNCHANGED <<db, todo, bare>>
  BY DEF SetEui, Key
<1>2. redis \in Stored /\ o \in Request  BY <1>1, Turn DEF Inv, StoreInv
<1>3. PICK v : v = o.addr  OBVIOUS
<1>4. PICK k : k = o.dev_eui  OBVIOUS
<1>5. PICK f : f = "eui"  OBVIOUS
<1>6. v \in Addrs \cup {None}  BY <1>2, <1>3, RequestIs
<1>7. Written(f, k, v)
  <2>1. redis' = [redis EXCEPT ![f][k] = v]  BY <1>1, <1>3, <1>4, <1>5
  <2>2. /\ f = "node" => v \in Nat \cup {Partial}
        /\ f = "eui" => v \in Addrs \cup {None}
        /\ f \in {"gate", "snap"} => v \in Nat
    BY <1>5, <1>6
  <2>3. f \in {"node", "eui", "gate", "snap"}  BY <1>5
  <2> QED  BY <1>2, <2>1, <2>2, <2>3, KeyWritten
<1>8. PICK st : st = "set_eui"  OBVIOUS
<1>9. st \in (KeySteps \cup {"hset"}) \ Telling /\ At(p, st)
  BY <1>1, <1>8 DEF KeySteps, Telling
<1>10. \A b \in Addrs : redis'.node[b] \in {redis.node[b], None, Partial}  BY <1>5, <1>7 DEF Written
<1>11. \A e \in Euis : /\ redis'.gate[e] \in {redis.gate[e], None}
                       /\ redis'.snap[e] \in {redis.snap[e], None}
  BY <1>5, <1>7 DEF Written
<1>12. redis' \in Stored /\ redis'.groups = redis.groups /\ redis'.session = redis.session
  BY <1>7 DEF Written
<1> QED  BY <1>1, <1>9, <1>10, <1>11, <1>12, ClearKeeps

\* The rows that share a key with a row a transaction has written are its own, but for
\* those that it replaces.
LEMMA KeyHolders ==
    ASSUME Inv, NEW p \in Slots, NEW w \in req[p].add, NEW x, Shared(w, x),
           NEW q \in Slots, x \in db \/ x \in req[q].add
    PROVE  (x \in db /\ x.id \in req[p].del) \/ (x \in req[q].add /\ q = p)
BY DEF Inv, KeyInv

\* The record is stored under the address, with or without the row's lock.
LEMMA SetAddrKeeps ==
    ASSUME Inv, NEW p \in Slots, SetAddr(p)
    PROVE  Inv'
<1> DEFINE o == req[p]
           a == o.addr
<1>1. /\ At(p, "set_addr") /\ redis' = [redis EXCEPT !["node"][a] = o.device]
      /\ Proceed(p) /\ UNCHANGED <<db, todo>>
      /\ bare' = IF \E r \in o.add : r.t = "nodes" THEN bare ELSE bare \cup {a}
  BY DEF SetAddr, Key
<1>2. /\ redis \in Stored /\ o \in Request /\ o.device \in Nat /\ Shape(o)
      /\ o.op \in {"create", "rebind"}
  BY <1>1, Turn, StepOps, RequestIs DEF Inv, StoreInv
<1>3. Written("node", a, o.device)
  <2>1. PICK v : v = o.device  OBVIOUS
  <2>2. PICK k : k = a  OBVIOUS
  <2>3. PICK f : f = "node"  OBVIOUS
  <2>4. redis' = [redis EXCEPT ![f][k] = v]  BY <1>1, <2>1, <2>2, <2>3
  <2>5. /\ f = "node" => v \in Nat \cup {Partial}
        /\ f = "eui" => v \in Addrs \cup {None}
        /\ f \in {"gate", "snap"} => v \in Nat
    BY <1>2, <2>1, <2>3
  <2>6. f \in {"node", "eui", "gate", "snap"}  BY <2>3
  <2>7. Written(f, k, v)  BY <1>2, <2>4, <2>5, <2>6, KeyWritten
  <2> QED  BY <2>1, <2>2, <2>3, <2>7
<1>4. /\ redis'.node = [redis.node EXCEPT ![a] = o.device] /\ redis'.gate = redis.gate
      /\ redis'.snap = redis.snap
  BY <1>3 DEF Written
<1>5. redis.node \in [Addrs -> Nat \cup {Partial}]  BY <1>2 DEF Stored
<1>6. ASSUME NEW w \in o.add, w.t = "nodes"
      PROVE  /\ w.dev_addr = a /\ w.device = o.device
             /\ \A z \in Everywhere : z.id \in o.del /\ z.t = "nodes" => z.device = o.device
  <2>1. CASE o.op = "create"
    <3>1. CreateShape(o)  BY <1>2, <2>1, ShapeFor
    <3> QED  BY <1>6, <3>1 DEF CreateShape, Typed
  <2>2. CASE o.op = "rebind"
    <3>1. RebindShape(o)  BY <1>2, <2>2, ShapeFor
    <3>2. w.dev_addr = a /\ w.device = o.device  BY <1>6, <3>1 DEF RebindShape
    <3>3. ASSUME NEW z \in Everywhere, z.id \in o.del, z.t = "nodes" PROVE z.device = o.device
      <4>1. PICK y \in o.add : y.id = z.id  BY <3>1, <3>3 DEF RebindShape, Ids
      <4>2. y \in Everywhere  BY Places DEF Inv, Held
      <4>3. y.t = z.t /\ y.device = z.device  BY <3>3, <4>1, <4>2, SameId DEF Inv, Typed
      <4> QED  BY <3>1, <3>3, <4>3 DEF RebindShape
    <3> QED  BY <3>2, <3>3
  <2> QED  BY <1>2, <2>1, <2>2
<1>7. ASSUME NEW x \in Everywhere, x.t = "nodes", NEW q \in Slots,
             x \in db \/ x \in req[q].add
      PROVE  RecordOf(x.dev_addr, x.device) \/ q = p =>
                x.dev_addr \in bare' \/ redis'.node[x.dev_addr] \in {None, Partial, x.device}
                \/ (x \notin o.add /\ ~RecordOf(x.dev_addr, x.device))
  <2>1. x \in Row  BY Places DEF Inv
  <2>2. x.dev_addr \in Addrs  BY <1>7, <2>1, RowIds DEF NodeRows
  <2>3. CASE x.dev_addr # a
    <3>1. redis'.node[x.dev_addr] = redis.node[x.dev_addr]  BY <1>4, <1>5, <2>2, <2>3
    <3>2. x \in o.add => x.dev_addr = a  BY <1>6, <1>7
    <3> QED  BY <1>1, <2>3, <3>1, <3>2 DEF RecordOf
  <2>4. CASE x.dev_addr = a
    <3>1. redis'.node[a] = o.device  BY <1>4, <1>5, <2>2, <2>4
    <3>2. CASE ~\E r \in o.add : r.t = "nodes"  BY <1>1, <2>4, <3>2
    <3>3. ASSUME NEW w \in o.add, w.t = "nodes" PROVE x.device = o.device
      <4>1. w.dev_addr = a  BY <1>6, <3>3
      <4>2. Shared(w, x)
        <5>1. <<"dev_addr", a>> \in Keys(w)  BY <3>3, <4>1 DEF Keys
        <5>2. <<"dev_addr", a>> \in Keys(x)  BY <1>7, <2>4 DEF Keys
        <5> QED  BY <5>1, <5>2 DEF Shared
      <4>3. (x \in db /\ x.id \in o.del) \/ (x \in req[q].add /\ q = p)
        BY <1>7, <4>2, KeyHolders
      <4> QED  BY <1>6, <1>7, <3>3, <4>3
    <3> QED  BY <2>4, <3>1, <3>2, <3>3
  <2> QED  BY <2>3, <2>4
<1>8. db \subseteq Everywhere /\ \A q \in Slots : req[q].add \subseteq Everywhere
  BY Places DEF Inv, Held
<1>9. ASSUME NEW x \in Everywhere, NEW q \in Slots, x \in db \/ x \in req[q].add
      PROVE  Kept(x)
  <2>1. x.t = "nodes" /\ RecordOf(x.dev_addr, x.device)
        => x.dev_addr \in bare' \/ redis'.node[x.dev_addr] \in {None, Partial, x.device}
    BY <1>7, <1>9
  <2> QED  BY <1>4, <2>1 DEF Kept
<1>10. OwnedInv'
  <2>1. \A x \in db : Kept(x)  BY <1>8, <1>9
  <2>2. \A q \in Slots : \A x \in req[q].add : Kept(x)  BY <1>8, <1>9
  <2>3. PICK st : st = "set_addr"  OBVIOUS
  <2>4. \A x \in o.add :
          /\ st = "set_addr" /\ x.t = "nodes" =>
                x.dev_addr \in bare' \/ redis'.node[x.dev_addr] \in {None, Partial, x.device}
          /\ st = "set_gate" /\ x.t = "devices" /\ x.kind = "Gateway" =>
                redis'.gate[x.eui] \in {None, x.id}
          /\ st = "set_snap" /\ x.t = "devices" /\ x.kind = "Snap" =>
                redis'.snap[x.eui] \in {None, x.id}
    BY <1>7, <1>8, <2>3
  <2>5. At(p, st) /\ Proceed(p) /\ db' = db  BY <1>1, <2>3
  <2> QED  BY <2>1, <2>2, <2>4, <2>5, KeyOwned
<1>11. redis' \in Stored /\ redis'.groups = redis.groups /\ redis'.session = redis.session
  BY <1>3 DEF Written
<1>12. "set_addr" \in KeySteps \cup {"hset"}  BY DEF KeySteps
<1>13. db' = db /\ todo' = todo  BY <1>1
<1> QED  BY <1>1, <1>10, <1>11, <1>12, <1>13, KeyDone

\* A gateway or a Snap device is told to redis while its row is not committed.
LEMMA SetDeviceKeeps ==
    ASSUME Inv, NEW p \in Slots, SetGate(p) \/ SetSnap(p)
    PROVE  Inv'
<1> DEFINE o == req[p]
           e == o.eui
<1>1. PICK st \in {"set_gate", "set_snap"}, f \in {"gate", "snap"} :
         /\ Key(p, st, f, e, o.device) /\ UNCHANGED bare
         /\ f = "gate" <=> st = "set_gate"
  BY DEF SetGate, SetSnap
<1>2. /\ At(p, st) /\ redis' = [redis EXCEPT ![f][e] = o.device]
      /\ Proceed(p) /\ db' = db /\ todo' = todo /\ bare' = bare
  BY <1>1 DEF Key
<1>3. o.op = "create"  BY <1>2, Turn, StepOps
<1>4. /\ redis \in Stored /\ o \in Request /\ o.device \in Nat /\ CreateShape(o)
      /\ \A t \in Left(o) : t = st \/ Level(st) < Level(t)
  BY <1>2, <1>3, CreateTurn DEF Inv, StoreInv
<1>5. Written(f, e, o.device)
  <2>1. PICK v : v = o.device  OBVIOUS
  <2>2. PICK k : k = e  OBVIOUS
  <2>3. redis' = [redis EXCEPT ![f][k] = v]  BY <1>2, <2>1, <2>2
  <2>4. /\ f = "node" => v \in Nat \cup {Partial}
        /\ f = "eui" => v \in Addrs \cup {None}
        /\ f \in {"gate", "snap"} => v \in Nat
    BY <1>4, <2>1
  <2>5. f \in {"node", "eui", "gate", "snap"}  OBVIOUS
  <2>6. Written(f, k, v)  BY <1>4, <2>3, <2>4, <2>5, KeyWritten
  <2> QED  BY <2>1, <2>2, <2>6
<1>6. "device" \notin Left(o)
  <2>1. Level("device") = 3 /\ Level("set_gate") = 8 /\ Level("set_snap") = 8  BY Levels
  <2> QED  BY <1>4, <2>1
<1>7. PICK d \in o.add : d.t = "devices" /\ d.eui = e /\ d.id = o.device
  BY <1>4, <1>6 DEF CreateShape
<1>8. ASSUME NEW x \in Everywhere, x.t = "devices", x.eui = e, NEW q \in Slots,
             x \in db \/ x \in req[q].add
      PROVE  x.id = o.device
  <2>1. Shared(d, x)
    <3>1. <<"eui", e>> \in Keys(d) /\ <<"eui", e>> \in Keys(x)  BY <1>7, <1>8 DEF Keys
    <3> QED  BY <3>1 DEF Shared
  <2>2. (x \in db /\ x.id \in o.del) \/ (x \in req[q].add /\ q = p)
    BY <1>8, <2>1, KeyHolders
  <2> QED  BY <1>4, <1>8, <2>2 DEF CreateShape
<1>9. redis.gate \in [Euis -> Nat] /\ redis.snap \in [Euis -> Nat]  BY <1>4 DEF Stored
<1>10. ASSUME NEW x \in Everywhere, NEW q \in Slots, x \in db \/ x \in req[q].add
       PROVE  /\ Kept(x)
              /\ x \in o.add /\ x.t = "devices" =>
                    /\ st = "set_gate" => redis'.gate[x.eui] \in {None, x.id}
                    /\ st = "set_snap" => redis'.snap[x.eui] \in {None, x.id}
  <2>1. redis'.node = redis.node
    BY <1>5 DEF Written
  <2>2. x.t = "devices" => x.eui \in Euis
    <3>1. x \in Row  BY Places DEF Inv
    <3> QED  BY <3>1, RowIds DEF DeviceRows
  <2>3. x.t = "devices" => redis'.gate[x.eui] \in {redis.gate[x.eui], x.id}
    <3>1. CASE f = "gate"
      <4>1. redis'.gate = [redis.gate EXCEPT ![e] = o.device]  BY <1>5, <3>1 DEF Written
      <4> QED  BY <1>8, <1>9, <1>10, <2>2, <4>1
    <3>2. CASE f # "gate"  BY <1>5, <3>2 DEF Written
    <3> QED  BY <3>1, <3>2
  <2>4. x.t = "devices" => redis'.snap[x.eui] \in {redis.snap[x.eui], x.id}
    <3>1. CASE f = "snap"
      <4>1. redis'.snap = [redis.snap EXCEPT ![e] = o.device]  BY <1>5, <3>1 DEF Written
      <4> QED  BY <1>8, <1>9, <1>10, <2>2, <4>1
    <3>2. CASE f # "snap"  BY <1>5, <3>2 DEF Written
    <3> QED  BY <3>1, <3>2
  <2>5. Kept(x)  BY <1>2, <2>1, <2>3, <2>4 DEF Kept, RecordOf
  <2>6. ASSUME x \in o.add, x.t = "devices"
        PROVE  /\ st = "set_gate" => redis'.gate[x.eui] \in {None, x.id}
               /\ st = "set_snap" => redis'.snap[x.eui] \in {None, x.id}
    <3>1. x.eui = e /\ x.id = o.device  BY <1>4, <2>6 DEF CreateShape
    <3>2. CASE st = "set_gate"
      <4>1. redis'.gate = [redis.gate EXCEPT ![e] = o.device]
        BY <1>1, <1>5, <3>2 DEF Written
      <4> QED  BY <1>9, <2>2, <2>6, <3>1, <3>2, <4>1
    <3>3. CASE st = "set_snap"
      <4>1. redis'.snap = [redis.snap EXCEPT ![e] = o.device]
        BY <1>1, <1>5, <3>3 DEF Written
      <4> QED  BY <1>9, <2>2, <2>6, <3>1, <3>3, <4>1
    <3> QED  BY <3>2, <3>3
  <2> QED  BY <2>5, <2>6
<1>11. db \subseteq Everywhere /\ \A q \in Slots : req[q].add \subseteq Everywhere
  BY Places DEF Inv, Held
<1>12. OwnedInv'
  <2>1. \A x \in db : Kept(x)  BY <1>10, <1>11
  <2>2. \A q \in Slots : \A x \in req[q].add : Kept(x)  BY <1>10, <1>11
  <2>3. \A x \in o.add :
          /\ st = "set_addr" /\ x.t = "nodes" =>
                x.dev_addr \in bare' \/ redis'.node[x.dev_addr] \in {None, Partial, x.device}
          /\ st = "set_gate" /\ x.t = "devices" /\ x.kind = "Gateway" =>
                redis'.gate[x.eui] \in {None, x.id}
          /\ st = "set_snap" /\ x.t = "devices" /\ x.kind = "Snap" =>
                redis'.snap[x.eui] \in {None, x.id}
    BY <1>10, <1>11
  <2> QED  BY <1>2, <2>1, <2>2, <2>3, KeyOwned
<1>13. redis' \in Stored /\ redis'.groups = redis.groups /\ redis'.session = redis.session
  BY <1>5 DEF Written
<1>14. st \in KeySteps \cup {"hset"}  BY DEF KeySteps
<1> QED  BY <1>2, <1>12, <1>13, <1>14, KeyDone

-----------------------------------------------------------------------------
(* A node set up over Bluetooth that exists already *)

\* A device set up once more that takes a step.
LEMMA RebindTurn ==
    ASSUME Inv, NEW p \in Slots, NEW st, At(p, st), req[p].op = "rebind"
    PROVE  /\ req[p].txn /\ RebindShape(req[p]) /\ Active(p) /\ req[p] \in Request
           /\ Tail(req[p].steps) \in Seq(StepNames) /\ st \in Left(req[p])
           /\ \A t \in Left(req[p]) : t = st \/ Level(st) < Level(t)
           /\ req[p].device \in Nat
<1>1. Program(req[p]) /\ Shape(req[p]) /\ req[p] \in Request  BY Turn
<1> QED  BY <1>1, Turn, Transactions, ShapeFor, RequestIs DEF Program

\* The node is looked up.
LEMMA BlueFindKeeps ==
    ASSUME Inv, NEW p \in Slots, BlueFind(p)
    PROVE  Inv'
<1> DEFINE o == req[p]
<1>1. At(p, "blue_find") /\ UNCHANGED <<todo, bare>>  BY DEF BlueFind
<1>2. o.op = "rebind"  BY <1>1, Turn, StepOps
<1>3. /\ o.txn /\ RebindShape(o) /\ Active(p) /\ o \in Request /\ "blue_find" \in Left(o)
  BY <1>1, <1>2, RebindTurn
<1>4. CASE Fail(p)  BY <1>1, <1>3, <1>4, FailKeeps
<1>5. CASE ~Fail(p)
  <2>1. PICK mine : mine = {n \in Rows(p, "nodes") : n.device = o.device}  OBVIOUS
  <2>2. /\ Owned(p, o.device) # {} /\ UNCHANGED <<db, redis>>
        /\ Go(p, Done([o EXCEPT !.seen = mine]))
    BY <1>5, <2>1 DEF BlueFind
  <2>3. mine \subseteq Vis(o) /\ \A x \in mine : x.t = "nodes" /\ x.device = o.device
    BY <2>1, RowsIn
  <2>4. mine \subseteq Row  BY <2>3, Places DEF Inv
  <2>5. PICK s : s = [o EXCEPT !.seen = mine]  OBVIOUS
  <2>6. /\ s \in Request /\ Kin(s, o) /\ s.steps = o.steps /\ s.seen = mine
        /\ s.kind = o.kind /\ s.name = o.name /\ s.user = o.user /\ s.device = o.device
        /\ s.dev_eui = o.dev_eui /\ s.addr = o.addr /\ s.groups = o.groups
    BY <1>3, <2>4, <2>5 DEF Request, Kin
  <2>7. PICK r : r = Done(s)  OBVIOUS
  <2>8. /\ Left(r) = Left(o) \ {"blue_find"} /\ Kin(r, o) /\ r.user = o.user
        /\ r.device = o.device /\ r.seen = mine /\ r.dev_eui = o.dev_eui
        /\ r.addr = o.addr /\ r.groups = o.groups
    BY <1>1, <2>6, <2>7, DoneTurn
  <2>9. r.op = o.op /\ r.add = o.add /\ r.del = o.del  BY <2>8 DEF Kin
  <2>10. Shape(r)
    <3>1. RebindShape(r)  BY <1>3, <2>3, <2>8, <2>9 DEF RebindShape
    <3> QED  BY <1>2, <2>9, <3>1, ShapeFor
  <2>11. ReqRefs(r) \subseteq ReqRefs(o) \cup Ids(Vis(o))
    <3>1. PICK d \in Vis(o) : d.id = o.device
      <4>1. PICK d \in Rows(p, "devices") : d.id = o.device  BY <2>2 DEF Owned
      <4> QED  BY <4>1, RowsIn
    <3>2. o.device \in Ids(Vis(o))  BY <3>1 DEF Ids
    <3>3. UserSet(r) => UserSet(o)  BY <2>8, <2>9 DEF UserSet, Finding
    <3> QED  BY <2>8, <3>2, <3>3 DEF ReqRefs
  <2>12. "blue_find" \notin Telling /\ o.op # "delete_user"  BY <1>2 DEF Telling
  <2>13. s.seen \subseteq Vis(o) \cup o.seen  BY <2>3, <2>6
  <2>14. Go(p, r)  BY <2>2, <2>5, <2>7
  <2> QED  BY <1>1, <2>2, <2>6, <2>7, <2>10, <2>11, <2>12, <2>13, <2>14, ReadTurn
<1> QED  BY <1>4, <1>5

\* The node is written, if it changes.
LEMMA BlueUpdateKeeps ==
    ASSUME Inv, NEW p \in Slots, BlueUpdate(p)
    PROVE  Inv'
<1> DEFINE o == req[p]
<1>1. PICK l \in o.seen :
         /\ At(p, "blue_update") /\ UNCHANGED <<todo, bare>>
         /\ LET new == [l EXCEPT !.dev_eui = o.dev_eui, !.dev_addr = o.addr]
            IN (Proceed(p) /\ UNCHANGED <<db, redis>>) \/ Update(p, new)
  BY DEF BlueUpdate
<1>2. o.op = "rebind"  BY <1>1, Turn, StepOps
<1>3. /\ o.txn /\ RebindShape(o) /\ Active(p) /\ o \in Request /\ "blue_update" \in Left(o)
      /\ \A t \in Left(o) : t = "blue_update" \/ Level("blue_update") < Level(t)
      /\ o.device \in Nat
  BY <1>1, <1>2, RebindTurn
<1>4. Silent("blue_update") /\ "blue_update" \notin Telling  BY DEF Silent, Finding, Telling
<1>5. PICK x : x = [l EXCEPT !.dev_eui = o.dev_eui, !.dev_addr = o.addr]  OBVIOUS
<1>6. l \in Everywhere /\ l \in Row  BY Places DEF Inv, Held
<1>7. /\ l.t = "nodes" /\ l.device = o.device /\ o.dev_eui \in Euis /\ o.addr \in Addrs
      /\ "set_addr" \in Left(o)
  BY <1>1, <1>3 DEF RebindShape
<1>8. l \in NodeRows  BY <1>6, <1>7, RowIds
<1>9. /\ x \in NodeRows /\ x.id = l.id /\ x.t = "nodes" /\ Fixed(x) = Fixed(l)
      /\ x.device = o.device /\ x.dev_addr = o.addr
  <2>1. /\ x \in NodeRows /\ x.id = l.id /\ x.t = "nodes" /\ x.device = o.device
        /\ x.dev_addr = o.addr
    BY <1>5, <1>7, <1>8 DEF NodeRows
  <2>2. [x EXCEPT !.dev_eui = None, !.dev_addr = None]
        = [l EXCEPT !.dev_eui = None, !.dev_addr = None]
    BY <1>5, <1>8 DEF NodeRows
  <2>3. /\ Fixed(x) = [x EXCEPT !.dev_eui = None, !.dev_addr = None]
        /\ Fixed(l) = [l EXCEPT !.dev_eui = None, !.dev_addr = None]
    BY <1>7, <2>1 DEF Fixed
  <2> QED  BY <2>1, <2>2, <2>3
<1>10. CASE Fail(p)  BY <1>1, <1>3, <1>10, FailKeeps
<1>11. CASE Proceed(p) /\ UNCHANGED <<db, redis>>
  <2>1. PICK r : r = Done(o)  OBVIOUS
  <2>2. /\ r.op = o.op /\ r.kind = o.kind /\ r.txn = o.txn /\ r.name = o.name
        /\ r.steps = Tail(o.steps) /\ r.del = o.del /\ r.add = o.add /\ r.seen = o.seen
        /\ r.device = o.device /\ r.user = o.user /\ r.dev_eui = o.dev_eui
        /\ r.addr = o.addr /\ r.groups = o.groups
    BY <1>1, <1>2, <1>3, <2>1, RebindTurn, DoneIs
  <2>3. Left(r) = Left(o) \ {"blue_update"}  BY <1>1, <2>2, DoneProgram
  <2>4. "blue_find" \notin Left(o)  BY <1>3, Levels
  <2>5. RebindShape(r)  BY <1>3, <2>2, <2>3, <2>4 DEF RebindShape
  <2>6. Shape(r)  BY <1>2, <2>2, <2>5, ShapeFor
  <2>7. ReqRefs(r) \subseteq ReqRefs(o)  BY <1>4, <2>2, <2>3, SilentRefs
  <2>8. o.op # "delete_user"  BY <1>2
  <2> QED  BY <1>1, <1>4, <1>11, <2>1, <2>6, <2>7, <2>8, ProceedKeeps
<1>12. ASSUME NEW v \in View(p), v.id = x.id, Update(p, x) PROVE Inv'
  <2>1. v \in Vis(o) /\ v \in Everywhere  BY RowsSeen, Places DEF Inv
  <2>2. Fixed(x) = Fixed(v)  BY <1>6, <1>9, <1>12, <2>1, SameId DEF Inv
  <2>3. PICK new : new = {x}  OBVIOUS
  <2>4. PICK old : old = {x.id}  OBVIOUS
  <2>5. PICK r : r = After(o, new, old)  OBVIOUS
  <2>6. x \in Row /\ new \in SUBSET Row  BY <1>9, <2>3 DEF Row
  <2>7. Turned(p, "blue_update", new, old, r)  BY <1>1, <2>5, <2>6, OwnTurned
  <2>8. Shape(r)
    <3>1. /\ r.op = o.op /\ r.seen = o.seen /\ r.dev_eui = o.dev_eui /\ r.addr = o.addr
          /\ r.device = o.device /\ r.groups = o.groups
          /\ Left(r) = Left(o) \ {"blue_update"}
          /\ r.add = {y \in o.add : y.id \notin old} \cup new
          /\ r.del = o.del \cup (old \cap Ids(db))
      BY <1>3, <2>7 DEF Turned, Follows
    <3>2. "blue_find" \notin Left(o)  BY <1>3, Levels
    <3>3. o.del \subseteq Ids(o.add)  BY <1>3 DEF RebindShape
    <3>4. r.del \subseteq Ids(r.add)  BY <2>3, <2>4, <3>1, <3>3 DEF Ids
    <3>5. x.id \in r.del
      <4>1. CASE v \in db  BY <1>12, <2>4, <3>1, <4>1 DEF Ids
      <4>2. CASE v \in o.add
        <5>1. v.t = "nodes"  BY <1>6, <1>7, <1>9, <1>12, <2>1, SameId DEF Inv
        <5>2. v.id \in o.del  BY <1>3, <4>2, <5>1 DEF RebindShape
        <5> QED  BY <1>12, <3>1, <5>2
      <4> QED  BY <2>1, <4>1, <4>2 DEF Vis
    <3>6. \A y \in r.add :
            \/ y.t = "nodes" /\ y.device = r.device /\ y.dev_addr = r.addr /\ y.id \in r.del
            \/ y.t \in {"groups", "links"}
      <4>1. \A y \in o.add :
            \/ y.t = "nodes" /\ y.device = o.device /\ y.dev_addr = o.addr /\ y.id \in o.del
            \/ y.t \in {"groups", "links"}
        BY <1>3 DEF RebindShape
      <4> QED  BY <1>9, <2>3, <3>1, <3>5, <4>1
    <3>7. RebindShape(r)  BY <1>3, <3>1, <3>2, <3>4, <3>6 DEF RebindShape
    <3> QED  BY <1>2, <3>1, <3>7, ShapeFor
  <2>9. r = After(o, {x}, {x.id})  BY <2>3, <2>4, <2>5
  <2>10. /\ x.t \in Typed \cup {"authority", "devices"} => o.txn
         /\ o.op # "delete_user"
    BY <1>2, <1>3
  <2> QED
    BY <1>1, <1>4, <1>7, <1>12, <2>1, <2>2, <2>6, <2>8, <2>9, <2>10, UpdateKeeps
<1> QED  BY <1>1, <1>5, <1>10, <1>11, <1>12 DEF Update

-----------------------------------------------------------------------------
(* Deleting a device *)

\* A deletion that takes a step.
LEMMA DeleteTurn ==
    ASSUME Inv, NEW p \in Slots, NEW st, At(p, st), req[p].op = "delete"
    PROVE  /\ req[p].txn /\ DeleteShape(req[p]) /\ Active(p) /\ req[p] \in Request
           /\ Tail(req[p].steps) \in Seq(StepNames) /\ st \in Left(req[p])
           /\ \A t \in Left(req[p]) : t = st \/ Level(st) < Level(t)
           /\ Program(req[p])
<1>1. Program(req[p]) /\ Shape(req[p]) /\ req[p] \in Request  BY Turn
<1> QED  BY <1>1, Turn, Transactions, ShapeFor DEF Program

\* The rows a request owns a device by are one row.
LEMMA OwnedOne ==
    ASSUME Inv, NEW p \in Slots, NEW D, D = Owned(p, req[p].device), D # {}
    PROVE  \E d \in Vis(req[p]) : /\ D = {d} /\ d.t = "devices" /\ d.id = req[p].device
                                  /\ d \in DeviceRows
<1>1. PICK d \in Rows(p, "devices") : d \in D /\ d.id = req[p].device  BY DEF Owned
<1>2. d \in Vis(req[p]) /\ d.t = "devices"  BY <1>1, RowsIn
<1>3. D = {d}
  <2>1. ASSUME NEW x \in D PROVE x = d
    <3>1. x \in Rows(p, "devices") /\ x.id = req[p].device  BY DEF Owned
    <3>2. x \in Vis(req[p])  BY <3>1, RowsIn
    <3> QED  BY <1>1, <1>2, <3>1, <3>2, VisUnique DEF UniqueIds
  <2> QED  BY <1>1, <2>1
<1>4. d \in Row  BY <1>2, Places DEF Inv
<1> QED  BY <1>1, <1>2, <1>3, <1>4, RowIds

\* The device is looked up.
LEMMA DeleteFindKeeps ==
    ASSUME Inv, NEW p \in Slots, DeleteFind(p)
    PROVE  Inv'
<1> DEFINE o == req[p]
<1>1. At(p, "delete_find") /\ UNCHANGED <<todo, bare>>  BY DEF DeleteFind
<1>2. o.op = "delete"  BY <1>1, Turn, StepOps
<1>3. /\ o.txn /\ DeleteShape(o) /\ Active(p) /\ o \in Request /\ "delete_find" \in Left(o)
  BY <1>1, <1>2, DeleteTurn
<1>4. Silent("delete_find") /\ "delete_find" \notin Telling  BY DEF Silent, Finding, Telling
<1>5. CASE Fail(p)  BY <1>1, <1>3, <1>5, FailKeeps
<1>6. CASE ~Fail(p)
  <2>1. PICK n : n = Owned(p, o.device)  OBVIOUS
  <2>2. n # {} /\ UNCHANGED <<db, redis>> /\ Go(p, Done([o EXCEPT !.seen = n]))
    BY <1>6, <2>1 DEF DeleteFind
  <2>3. PICK d \in Vis(o) : n = {d} /\ d.t = "devices" /\ d.id = o.device
    BY <2>1, <2>2, OwnedOne
  <2>4. d \in Row  BY <2>3, Places DEF Inv
  <2>5. PICK s : s = [o EXCEPT !.seen = n]  OBVIOUS
  <2>6. /\ s \in Request /\ Kin(s, o) /\ s.steps = o.steps /\ s.seen = n
        /\ s.kind = o.kind /\ s.name = o.name /\ s.user = o.user /\ s.device = o.device
    BY <1>3, <2>3, <2>4, <2>5 DEF Request, Kin
  <2>7. PICK r : r = Done(s)  OBVIOUS
  <2>8. /\ Left(r) = Left(o) \ {"delete_find"} /\ Kin(r, o) /\ r.user = o.user
        /\ r.device = o.device /\ r.seen = n
    BY <1>1, <2>6, <2>7, DoneTurn
  <2>9. r.op = o.op /\ r.add = o.add  BY <2>8 DEF Kin
  <2>10. Shape(r)
    <3>1. "find_type" \in Left(r)  BY <1>3, <2>8 DEF DeleteShape
    <3>2. r.add = {}  BY <1>3, <2>9 DEF DeleteShape
    <3>3. DeleteShape(r)  BY <2>3, <2>8, <3>1, <3>2 DEF DeleteShape
    <3> QED  BY <1>2, <2>9, <3>3, ShapeFor
  <2>11. ReqRefs(r) \subseteq ReqRefs(o) \cup Ids(Vis(o))  BY <1>4, <2>8, <2>9, SilentRefs
  <2>12. s.seen \subseteq Vis(o) \cup o.seen /\ o.op # "delete_user"
    BY <1>2, <2>3, <2>6
  <2>13. Go(p, r)  BY <2>2, <2>5, <2>7
  <2> QED  BY <1>1, <1>4, <2>2, <2>6, <2>7, <2>10, <2>11, <2>12, <2>13, ReadTurn
<1> QED  BY <1>5, <1>6

\* Its links are deleted.
LEMMA UnlinkAllKeeps ==
    ASSUME Inv, NEW p \in Slots, UnlinkAll(p)
    PROVE  Inv'
<1> DEFINE o == req[p]
<1>1. PICK rows : rows = {l \in Rows(p, "links") : l.device = o.device}  OBVIOUS
<1>2. At(p, "unlink_all") /\ UNCHANGED <<todo, bare>> /\ Delete(p, rows)
  BY <1>1 DEF UnlinkAll
<1>3. o.op = "delete"  BY <1>2, Turn, StepOps
<1>4. /\ o.txn /\ DeleteShape(o) /\ Active(p) /\ o \in Request
      /\ \A t \in Left(o) : t = "unlink_all" \/ Level("unlink_all") < Level(t)
  BY <1>2, <1>3, DeleteTurn
<1>5. rows \subseteq Vis(o) /\ \A x \in rows : x.t = "links"  BY <1>1, RowsIn
<1>6. Silent("unlink_all") /\ "unlink_all" \notin Telling  BY DEF Silent, Finding, Telling
<1>7. \A x \in rows : /\ x.t \notin Typed \cup {"authority", "devices"}
                      /\ x.t = "groups" => ~x.default
  BY <1>5 DEF Typed
<1>8. ASSUME NEW r, Turned(p, "unlink_all", {}, Ids(rows), r) PROVE Shape(r)
  <2>1. /\ r.op = o.op /\ r.seen = o.seen /\ r.device = o.device
        /\ Left(r) = Left(o) \ {"unlink_all"}
        /\ r.add = {y \in o.add : y.id \notin Ids(rows)}
    BY <1>4, <1>8 DEF Turned, Follows
  <2>2. "delete_find" \notin Left(o)  BY <1>4, Levels
  <2>3. DeleteShape(r)  BY <1>4, <2>1, <2>2 DEF DeleteShape
  <2> QED  BY <1>3, <2>1, <2>3, ShapeFor
<1>9. o.op # "delete_user"  BY <1>3
<1> QED  BY <1>2, <1>4, <1>5, <1>6, <1>7, <1>8, <1>9, EraseKeeps

\* The steps of a handler are in order.
Runs(w, S) == w \in Seq(StepNames) /\ w # <<>> /\ Ordered(w) /\ StepsIn(w) = S

\* Two lists of steps, the levels of the one below those of the other.
LEMMA JoinRuns ==
    ASSUME NEW s, NEW S, Runs(s, S), NEW t, NEW T, Runs(t, T),
           \A a \in S, b \in T : Level(a) < Level(b)
    PROVE  Runs(s \o t, S \cup T)
<1>1. /\ s \in Seq(StepNames) /\ s # <<>> /\ Ordered(s) /\ StepsIn(s) = S
      /\ t \in Seq(StepNames) /\ t # <<>> /\ Ordered(t) /\ StepsIn(t) = T
  BY DEF Runs
<1>2. PICK w : w = s \o t  OBVIOUS
<1>3. /\ w \in Seq(StepNames) /\ w # <<>> /\ Len(w) = Len(s) + Len(t)
      /\ Len(s) \in Nat /\ Len(t) \in Nat
      /\ \A i \in 1 .. Len(s) : w[i] = s[i] /\ s[i] \in S
      /\ \A i \in Len(s) + 1 .. Len(w) : w[i] = t[i - Len(s)]
  BY <1>1, <1>2 DEF StepsIn
<1>4. \A i \in Len(s) + 1 .. Len(w) : w[i] \in T /\ i - Len(s) \in 1 .. Len(t)
  BY <1>1, <1>3, SMTT(40) DEF StepsIn
<1>5. Ordered(w)
  <2>1. ASSUME NEW i \in 1 .. Len(w), NEW j \in 1 .. Len(w), i < j
        PROVE  Level(w[i]) < Level(w[j])
    <3>1. CASE j <= Len(s)
      <4>1. i \in 1 .. Len(s) /\ j \in 1 .. Len(s)  BY <1>3, <2>1, <3>1
      <4> QED  BY <1>1, <1>3, <2>1, <4>1 DEF Ordered
    <3>2. CASE i <= Len(s) /\ j > Len(s)
      <4>1. i \in 1 .. Len(s) /\ j \in Len(s) + 1 .. Len(w)  BY <1>3, <2>1, <3>2
      <4> QED  BY <1>3, <1>4, <4>1
    <3>3. CASE i > Len(s)
      <4>1. i \in Len(s) + 1 .. Len(w) /\ j \in Len(s) + 1 .. Len(w)
        BY <1>3, <2>1, <3>3
      <4>2. i - Len(s) \in 1 .. Len(t) /\ j - Len(s) \in 1 .. Len(t)
            /\ i - Len(s) < j - Len(s)
        BY <1>3, <1>4, <2>1, <4>1
      <4>3. w[i] = t[i - Len(s)] /\ w[j] = t[j - Len(s)]  BY <1>3, <4>1
      <4> QED  BY <1>1, <4>2, <4>3 DEF Ordered
    <3> QED  BY <1>3, <3>1, <3>2, <3>3
  <2> QED  BY <2>1 DEF Ordered
<1>6. StepsIn(w) = S \cup T
  <2>1. StepsIn(w) \subseteq S \cup T
    <3>1. ASSUME NEW i \in 1 .. Len(w) PROVE w[i] \in S \cup T
      <4>1. i \in 1 .. Len(s) \/ i \in Len(s) + 1 .. Len(w)  BY <1>3
      <4> QED  BY <1>3, <1>4, <4>1
    <3> QED  BY <3>1 DEF StepsIn
  <2>2. ASSUME NEW a \in S PROVE a \in StepsIn(w)
    <3>1. PICK i \in 1 .. Len(s) : a = s[i]  BY <1>1 DEF StepsIn
    <3>2. i \in 1 .. Len(w) /\ w[i] = a  BY <1>3, <3>1
    <3> QED  BY <3>2 DEF StepsIn
  <2>3. ASSUME NEW b \in T PROVE b \in StepsIn(w)
    <3>1. PICK i \in 1 .. Len(t) : b = t[i]  BY <1>1 DEF StepsIn
    <3>2. i + Len(s) \in Len(s) + 1 .. Len(w) /\ (i + Len(s)) - Len(s) = i
          /\ i + Len(s) \in 1 .. Len(w)
      BY <1>3
    <3>3. w[i + Len(s)] = b  BY <1>3, <3>1, <3>2
    <3> QED  BY <3>2, <3>3 DEF StepsIn
  <2> QED  BY <2>1, <2>2, <2>3
<1> QED  BY <1>2, <1>3, <1>5, <1>6 DEF Runs

\* The lists of steps a deletion chooses from.
LEMMA DeletionRuns ==
    ASSUME NEW w
    PROVE  /\ w = <<"del_eui", "del_addr">> => Runs(w, {"del_eui", "del_addr"})
           /\ w = <<"del_gate">> => Runs(w, {"del_gate"})
           /\ w = <<"del_snap">> => Runs(w, {"del_snap"})
           /\ w = <<"delete_rows", "commit">> => Runs(w, {"delete_rows", "commit"})
<1>1. ASSUME w = <<"del_eui", "del_addr">> PROVE Runs(w, {"del_eui", "del_addr"})
  <2>1. w \in Seq(StepNames) /\ w # <<>> /\ 1 .. Len(w) = {1, 2}
    BY <1>1 DEF StepNames
  <2> QED  BY <1>1, <2>1, Levels DEF Runs, Ordered, StepsIn
<1>2. ASSUME w = <<"del_gate">> PROVE Runs(w, {"del_gate"})
  <2>1. w \in Seq(StepNames) /\ w # <<>> /\ 1 .. Len(w) = {1}  BY <1>2 DEF StepNames
  <2> QED  BY <1>2, <2>1 DEF Runs, Ordered, StepsIn
<1>3. ASSUME w = <<"del_snap">> PROVE Runs(w, {"del_snap"})
  <2>1. w \in Seq(StepNames) /\ w # <<>> /\ 1 .. Len(w) = {1}  BY <1>3 DEF StepNames
  <2> QED  BY <1>3, <2>1 DEF Runs, Ordered, StepsIn
<1>4. ASSUME w = <<"delete_rows", "commit">> PROVE Runs(w, {"delete_rows", "commit"})
  <2>1. w \in Seq(StepNames) /\ w # <<>> /\ 1 .. Len(w) = {1, 2}
    BY <1>4 DEF StepNames
  <2> QED  BY <1>4, <2>1, Levels DEF Runs, Ordered, StepsIn
<1> QED  BY <1>1, <1>2, <1>3, <1>4

\* The steps a deletion has left once it knows the type.
LEMMA UnregisteringRuns ==
    ASSUME NEW k \in {"LoRaNode", "Gateway", "MQTT", "Snap"}, NEW w,
           w = Unregistering(k) \o <<"delete_rows", "commit">>
    PROVE  \E S : Runs(w, S) /\ S \subseteq {"del_eui", "del_addr", "del_gate", "del_snap",
                                            "delete_rows", "commit"}
<1>1. PICK t : t = <<"delete_rows", "commit">>  OBVIOUS
<1>2. Runs(t, {"delete_rows", "commit"})  BY <1>1, DeletionRuns
<1>3. PICK u : u = Unregistering(k)  OBVIOUS
<1>4. u = <<"del_eui", "del_addr">> \/ u = <<"del_gate">> \/ u = <<"del_snap">> \/ u = <<>>
  BY <1>3, Zenon DEF Unregistering
<1>5. w = u \o t  BY <1>1, <1>3
<1>6. CASE u = <<>>
  <2>1. t \in Seq(StepNames)  BY <1>2 DEF Runs
  <2>2. w = t
    <3> HIDE <1>1
    <3> QED  BY <1>5, <1>6, <2>1
  <2> QED  BY <1>2, <2>2
<1>7. CASE u # <<>>
  <2>1. PICK U : Runs(u, U) /\ U \subseteq {"del_eui", "del_addr", "del_gate", "del_snap"}
    BY <1>4, <1>7, DeletionRuns
  <2>2. PICK T : T = {"delete_rows", "commit"}  OBVIOUS
  <2>3. \A a \in U, b \in T : Level(a) < Level(b)
    <3>1. \A a \in U : Level(a) = 5 \/ Level(a) = 6  BY <2>1, Levels
    <3>2. \A b \in T : Level(b) = 13 \/ Level(b) = 15  BY <2>2, Levels
    <3> QED  BY <3>1, <3>2
  <2>4. PICK V : V = U \cup T  OBVIOUS
  <2>5. Runs(w, V)
    <3>1. Runs(t, T) /\ Runs(u, U)  BY <1>2, <2>1, <2>2
    <3>2. Runs(u \o t, U \cup T)  BY <2>3, <3>1, JoinRuns
    <3> QED  BY <1>5, <2>4, <3>2
  <2>6. V \subseteq {"del_eui", "del_addr", "del_gate", "del_snap", "delete_rows", "commit"}
    BY <2>1, <2>2, <2>4
  <2> QED  BY <2>5, <2>6
<1> QED  BY <1>6, <1>7

\* The type's row found, a deletion goes on with the keys and the rows.
LEMMA TypeFound ==
    ASSUME Inv, NEW p \in Slots, At(p, "find_type"), UNCHANGED <<db, redis, todo, bare>>,
           NEW d \in req[p].seen, d \in DeviceRows, d.id = req[p].device,
           NEW rows, rows \subseteq Vis(req[p]),
           \A x \in rows : x.t = TypeTable(d.kind) /\ x.device = d.id,
           d.kind \in {"LoRaNode", "Gateway"} => rows # {},
           NEW e \in Euis \cup {None}, NEW a \in Addrs \cup {None},
           NEW w, NEW S, Runs(w, S), S \subseteq {"del_eui", "del_addr", "del_gate",
                                                  "del_snap", "delete_rows", "commit"},
           NEW n, n = {d} \cup rows, NEW u, u = d.eui,
           NEW r, Go(p, r),
           r = [req[p] EXCEPT !.seen = n, !.eui = u, !.steps = w, !.dev_eui = e, !.addr = a]
    PROVE  Inv'
<1> DEFINE o == req[p]
<1>1. o.op = "delete"  BY Turn, StepOps
<1>2. /\ o.txn /\ DeleteShape(o) /\ Active(p) /\ o \in Request /\ "find_type" \in Left(o)
      /\ \A t \in Left(o) : t = "find_type" \/ Level("find_type") < Level(t)
      /\ Program(o)
  BY <1>1, DeleteTurn
<1>3. w \in Seq(StepNames)  BY DEF Runs
<1>4. rows \subseteq Row /\ d \in Row
  <2>1. rows \subseteq Row  BY Places DEF Inv
  <2> QED  BY <2>1 DEF Row
<1>5. d.eui \in Euis /\ d.t = "devices"  BY DEF DeviceRows
<1>6. /\ r \in Request /\ Kin(r, o) /\ r.steps = w /\ r.seen = n /\ r.op = o.op
      /\ r.kind = o.kind /\ r.name = o.name /\ r.user = o.user /\ r.device = o.device
      /\ r.add = o.add /\ r.txn = o.txn
  <2>1. n \in SUBSET Row  BY <1>4
  <2>2. PICK q : q = o  OBVIOUS
  <2>3. u \in Euis /\ q \in Request  BY <1>2, <1>5, <2>2
  <2>4. r = [q EXCEPT !.seen = n, !.eui = u, !.steps = w, !.dev_eui = e, !.addr = a]
    BY <2>2
  <2>5. /\ r \in Request /\ Kin(r, q) /\ r.steps = w /\ r.seen = n /\ r.op = q.op
        /\ r.kind = q.kind /\ r.name = q.name /\ r.user = q.user /\ r.device = q.device
        /\ r.add = q.add /\ r.txn = q.txn
    <3> HIDE <2>2
    <3>1. PICK s : s = [q EXCEPT !.seen = n, !.eui = u, !.steps = w]  OBVIOUS
    <3>2. /\ s \in Request /\ Kin(s, q) /\ s.steps = w /\ s.seen = n /\ s.kind = q.kind
          /\ s.name = q.name /\ s.user = q.user /\ s.device = q.device
      BY <1>3, <2>1, <2>3, <3>1, ZenonT(60) DEF Request, Kin
    <3>3. r = [s EXCEPT !.dev_eui = e, !.addr = a]  BY <2>4, <3>1
    <3>4. /\ r \in Request /\ Kin(r, s) /\ r.steps = s.steps /\ r.seen = s.seen
          /\ r.kind = s.kind /\ r.name = s.name /\ r.user = s.user /\ r.device = s.device
      <4>1. r \in Request  BY <3>2, <3>3, ZenonT(60) DEF Request
      <4> QED  BY <3>2, <3>3, <4>1 DEF Request, Kin
    <3> QED  BY <3>2, <3>4 DEF Kin
  <2> QED  BY <2>2, <2>5
<1>7. Left(r) = S /\ Ordered(r.steps)  BY <1>6 DEF Runs, Left
<1>8. Program(r)
  <2>1. Left(r) \subseteq Uses(r)  BY <1>1, <1>3, <1>6, <1>7 DEF Uses
  <2>2. "default" \notin Left(r)  BY <1>3, <1>7
  <2>3. (o.txn <=> o.op \in Transacted) /\ o.name \in Names  BY <1>1, <1>2 DEF Program
  <2> QED  BY <1>6, <1>7, <2>1, <2>2, <2>3 DEF Program
<1>9. Shape(r)
  <2>1. r.add = {}  BY <1>2, <1>6 DEF DeleteShape
  <2>2. "delete_find" \notin Left(r) /\ "find_type" \notin Left(r)  BY <1>3, <1>7
  <2>3. d.kind \in {"LoRaNode", "Gateway"} => \E x \in n : x.t = TypeTable(d.kind)
    OBVIOUS
  <2>4. \A x \in n : x = d \/ (x.t = TypeTable(d.kind) /\ x.device = d.id)  OBVIOUS
  <2>5. d \in n  OBVIOUS
  <2>6. DeleteShape(r)  BY <1>5, <1>6, <2>1, <2>2, <2>3, <2>4, <2>5 DEF DeleteShape
  <2> QED  BY <1>1, <1>6, <2>6, ShapeFor
<1>10. ReqRefs(r) \subseteq ReqRefs(o) \cup Ids(Vis(o))
  <2>1. Left(o) \cap Finding = {}  BY <1>1, <1>2, StepOpsMore DEF Program, Finding
  <2>2. ~DeviceSet(r)  BY <1>1, <1>6 DEF DeviceSet
  <2> QED  BY <1>1, <1>6, <2>1, <2>2 DEF ReqRefs, UserSet
<1>11. Left(o) \cap Telling \subseteq Left(r)
  BY <1>1, <1>2, StepOps DEF Program, Telling
<1>12. r.seen \subseteq Vis(o) \cup o.seen /\ o.op # "delete_user"  BY <1>1, <1>6
<1> QED  BY <1>2, <1>6, <1>8, <1>9, <1>10, <1>11, <1>12, ReadKeeps

\* The row of the device's type is looked up.
LEMMA FindTypeKeeps ==
    ASSUME Inv, NEW p \in Slots, FindType(p)
    PROVE  Inv'
<1> DEFINE o == req[p]
<1>1. At(p, "find_type") /\ UNCHANGED <<todo, bare>>  BY DEF FindType
<1>2. o.op = "delete"  BY <1>1, Turn, StepOps
<1>3. /\ DeleteShape(o) /\ Active(p) /\ o \in Request /\ "find_type" \in Left(o)
      /\ \A t \in Left(o) : t = "find_type" \/ Level("find_type") < Level(t)
  BY <1>1, <1>2, DeleteTurn
<1>4. PICK d \in o.seen : o.seen = {d} /\ d.t = "devices" /\ d.id = o.device
  <2>1. "delete_find" \notin Left(o)  BY <1>3, Levels
  <2> QED  BY <1>3, <2>1 DEF DeleteShape
<1>5. d \in DeviceRows
  <2>1. d \in Row  BY Places DEF Inv, Held
  <2> QED  BY <1>4, <2>1, RowIds
<1>6. PICK rows : rows = TypeRows(p, d.id, d.kind)  OBVIOUS
<1>7. /\ rows \subseteq Vis(o)
      /\ \A x \in rows : x.t = TypeTable(d.kind) /\ x.device = d.id
  BY <1>6, RowsIn DEF TypeRows
<1>8. PICK w : w = Unregistering(d.kind) \o <<"delete_rows", "commit">>  OBVIOUS
<1>15. PICK S : Runs(w, S) /\ S \subseteq {"del_eui", "del_addr", "del_gate", "del_snap",
                                           "delete_rows", "commit"}
  BY <1>5, <1>8, UnregisteringRuns DEF DeviceRows
<1>16. PICK u : u = d.eui  OBVIOUS
<1>9. PICK n : n = {d} \cup rows  OBVIOUS
<1>10. PICK r : r = [o EXCEPT !.seen = n, !.eui = u, !.steps = w]  OBVIOUS
<1>11. \/ Fail(p)
       \/ /\ rows = {} \/ d.kind # "LoRaNode"
          /\ rows # {} \/ d.kind = "MQTT"
          /\ Go(p, r)
          /\ UNCHANGED <<db, redis>>
       \/ /\ d.kind = "LoRaNode"
          /\ \E x \in rows : Go(p, [r EXCEPT !.dev_eui = x.dev_eui, !.addr = x.dev_addr])
          /\ UNCHANGED <<db, redis>>
  BY <1>4, <1>6, <1>8, <1>9, <1>10, <1>16 DEF FindType
<1>12. CASE Fail(p)  BY <1>1, <1>3, <1>12, FailKeeps
<1>13. CASE /\ rows # {} \/ d.kind = "MQTT"
            /\ Go(p, r)
            /\ UNCHANGED <<db, redis>>
  <2>1. PICK e : e = o.dev_eui  OBVIOUS
  <2>2. PICK a : a = o.addr  OBVIOUS
  <2>3. r = [o EXCEPT !.seen = n, !.eui = u, !.steps = w, !.dev_eui = e, !.addr = a]
    BY <1>3, <1>10, <2>1, <2>2 DEF Request
  <2>4. e \in Euis \cup {None} /\ a \in Addrs \cup {None}
    BY <1>3, <2>1, <2>2, RequestIs
  <2>5. d.kind \in {"LoRaNode", "Gateway"} => rows # {}  BY <1>13
  <2> QED
    BY <1>1, <1>4, <1>5, <1>7, <1>9, <1>15, <1>16, <1>13, <2>3, <2>4, <2>5, TypeFound
<1>14. ASSUME NEW x \in rows, d.kind = "LoRaNode", UNCHANGED <<db, redis>>,
              Go(p, [r EXCEPT !.dev_eui = x.dev_eui, !.addr = x.dev_addr])
       PROVE  Inv'
  <2>1. PICK e : e = x.dev_eui  OBVIOUS
  <2>2. PICK a : a = x.dev_addr  OBVIOUS
  <2>3. PICK s : s = [o EXCEPT !.seen = n, !.eui = u, !.steps = w, !.dev_eui = e,
                               !.addr = a]
    OBVIOUS
  <2>4. s = [r EXCEPT !.dev_eui = x.dev_eui, !.addr = x.dev_addr]
    BY <1>3, <1>10, <2>1, <2>2, <2>3 DEF Request
  <2>5. e \in Euis \cup {None} /\ a \in Addrs \cup {None}
    <3>1. x.t = "nodes" /\ x \in Row
      <4>1. x \in Row  BY <1>7, Places DEF Inv
      <4> QED  BY <1>7, <1>14, <4>1 DEF TypeTable
    <3>2. x \in NodeRows  BY <3>1, RowIds
    <3> QED  BY <2>1, <2>2, <3>2 DEF NodeRows
  <2>6. /\ Go(p, s) /\ UNCHANGED <<db, redis, todo, bare>>
        /\ d.kind \in {"LoRaNode", "Gateway"} => rows # {}
    BY <1>1, <1>14, <2>4
  <2> QED
    BY <1>1, <1>4, <1>5, <1>7, <1>9, <1>15, <1>16, <2>3, <2>5, <2>6, TypeFound
<1> QED  BY <1>11, <1>12, <1>13, <1>14

\* Every version of a row that goes is of the same table and device.
LEMMA ErasedSeen ==
    ASSUME Inv, NEW rows, rows \subseteq Everywhere, NEW x \in Everywhere, x.id \in Ids(rows)
    PROVE  \E v \in rows : /\ v.id = x.id /\ v.t = x.t
                           /\ x.t = "devices" => v.kind = x.kind
                           /\ x.t \in Typed \cup {"authority"} => v.device = x.device
<1>1. PICK v \in rows : v.id = x.id  BY DEF Ids
<1>2. v \in Everywhere  OBVIOUS
<1> QED  BY <1>1, <1>2, SameId DEF Inv

\* The rows a deletion removes are those of one device.
LEMMA DeletedIs ==
    ASSUME Inv, NEW p \in Slots, At(p, "delete_rows"), NEW rows, rows = DeletedRows(p)
    PROVE  /\ rows \subseteq Everywhere /\ \A x \in rows : x.t # "groups"
           /\ \E d \in req[p].seen :
                /\ d \in rows /\ d.t = "devices" /\ d \in DeviceRows
                /\ \A x \in rows : x.t = "devices" => x = d
                /\ \A x \in rows : x.t \in Typed \cup {"authority"} => x.device = d.id
                /\ d.kind \in {"LoRaNode", "Gateway"} =>
                      \E x \in rows : x.t = TypeTable(d.kind) /\ x.device = d.id
<1> DEFINE o == req[p]
<1>1. o.op = "delete"  BY Turn, StepOps
<1>2. /\ DeleteShape(o) /\ \A t \in Left(o) : t = "delete_rows" \/ Level("delete_rows") < Level(t)
  BY <1>1, DeleteTurn
<1>3. "delete_find" \notin Left(o) /\ "find_type" \notin Left(o)  BY <1>2, Levels
<1>4. PICK d \in o.seen :
         /\ d.t = "devices" /\ d.id = o.device
         /\ \A x \in o.seen : x = d \/ (x.t = TypeTable(d.kind) /\ x.device = d.id)
         /\ d.kind \in {"LoRaNode", "Gateway"} => \E x \in o.seen : x.t = TypeTable(d.kind)
  BY <1>2, <1>3 DEF DeleteShape
<1>5. o.seen \subseteq Everywhere /\ d \in Row  BY Places DEF Inv, Held
<1>6. d \in DeviceRows  BY <1>4, <1>5, RowIds
<1>7. d.kind \in {"LoRaNode", "Gateway", "MQTT", "Snap"}  BY <1>6 DEF DeviceRows
<1>8. TypeTable(d.kind) \in Typed  BY <1>7 DEF TypeTable, Typed
<1>9. d.kind \in {"LoRaNode", "Gateway"} => TypeTable(d.kind) # "snaps"  BY DEF TypeTable
<1>10. ASSUME NEW x \in rows
       PROVE  \/ x \in o.seen /\ x.t # "snaps"
              \/ x \in Vis(o) /\ x.t = "authority" /\ x.device = o.device
              \/ x \in Vis(o) /\ x.t = "integration"
  BY RowsIn DEF DeletedRows
<1>11. \A x \in o.seen : x.t # "snaps" => x \in rows  BY DEF DeletedRows
<1>12. rows \subseteq Everywhere
  <2>1. Vis(o) \subseteq Everywhere  BY Places DEF Inv
  <2> QED  BY <1>5, <1>10, <2>1
<1>13. \A x \in rows : x.t # "groups"  BY <1>4, <1>8, <1>10 DEF Typed
<1>14. d \in rows  BY <1>4, <1>11
<1>15. \A x \in rows : x.t = "devices" => x = d  BY <1>4, <1>8, <1>10 DEF Typed
<1>16. \A x \in rows : x.t \in Typed \cup {"authority"} => x.device = d.id
  BY <1>4, <1>8, <1>10 DEF Typed
<1>17. ASSUME d.kind \in {"LoRaNode", "Gateway"}
       PROVE  \E x \in rows : x.t = TypeTable(d.kind) /\ x.device = d.id
  <2>1. PICK x \in o.seen : x.t = TypeTable(d.kind)  BY <1>4, <1>17
  <2>2. x # d  BY <1>4, <1>8, <2>1 DEF Typed
  <2>3. x \in rows  BY <1>9, <1>11, <1>17, <2>1
  <2> QED  BY <1>4, <2>1, <2>2, <2>3
<1> QED  BY <1>4, <1>6, <1>12, <1>13, <1>14, <1>15, <1>16, <1>17

\* The device, the row of its type and its authorities are deleted together.
LEMMA DeleteRowsKeeps ==
    ASSUME Inv, NEW p \in Slots, DeleteRows(p)
    PROVE  Inv'
<1> DEFINE o == req[p]
<1>1. PICK rows : rows = DeletedRows(p)  OBVIOUS
<1>2. /\ At(p, "delete_rows") /\ UNCHANGED <<todo, bare>>
      /\ Statement(p, {}, Ids(rows), o, redis)
  BY <1>1 DEF DeleteRows, Delete
<1>3. o.op = "delete"  BY <1>2, Turn, StepOps
<1>4. /\ o.txn /\ DeleteShape(o) /\ Active(p) /\ o \in Request
      /\ \A t \in Left(o) : t = "delete_rows" \/ Level("delete_rows") < Level(t)
      /\ Left(o) \subseteq Uses(o)
  BY <1>2, <1>3, DeleteTurn DEF Program
<1>5. /\ rows \subseteq Everywhere /\ \A x \in rows : x.t # "groups"
      /\ \E d \in o.seen :
           /\ d \in rows /\ d.t = "devices" /\ d \in DeviceRows
           /\ \A x \in rows : x.t = "devices" => x = d
           /\ \A x \in rows : x.t \in Typed \cup {"authority"} => x.device = d.id
           /\ d.kind \in {"LoRaNode", "Gateway"} =>
                 \E x \in rows : x.t = TypeTable(d.kind) /\ x.device = d.id
  BY <1>1, <1>2, DeletedIs
<1>6. PICK dd \in rows :
           /\ dd.t = "devices" /\ dd \in DeviceRows
           /\ \A x \in rows : x.t = "devices" => x = dd
           /\ \A x \in rows : x.t \in Typed \cup {"authority"} => x.device = dd.id
           /\ dd.kind \in {"LoRaNode", "Gateway"} =>
                 \E x \in rows : x.t = TypeTable(dd.kind) /\ x.device = dd.id
  BY <1>5
<1>7. PICK old : old = Ids(rows)  OBVIOUS
<1>8. PICK new : new = {}  OBVIOUS
<1>9. new \in SUBSET Row  BY <1>8
<1>10. PICK r : r = After(o, new, old)  OBVIOUS
<1>11. Turned(p, "delete_rows", new, old, r)  BY <1>2, <1>9, <1>10, OwnTurned
<1>12. o.add = {}  BY <1>4 DEF DeleteShape
<1>13. /\ r.op = o.op /\ r.user = o.user /\ r.device = o.device /\ r.add = {}
       /\ r.seen = o.seen /\ Program(r) /\ Left(r) = Left(o) \ {"delete_rows"}
       /\ Tail(o.steps) \in Seq(StepNames) /\ r.del = o.del \cup (old \cap Ids(db))
  BY <1>4, <1>8, <1>11, <1>12 DEF Turned, Follows
<1>14. Shape(r)
  <2>1. "delete_find" \notin Left(o) /\ "find_type" \notin Left(o)  BY <1>4, Levels
  <2>2. DeleteShape(r)  BY <1>4, <1>13, <2>1 DEF DeleteShape
  <2> QED  BY <1>3, <1>13, <2>2, ShapeFor
<1>15. Writable(p, new, old) /\ Fitting(p, new) /\ Novel(new) /\ \A x \in new : Told(r, x)
  BY <1>8, NoRows
<1>16. ReqRefs(r) \subseteq {NewId(p), SecondId(p)} \cup ReqRefs(o)
  <2>1. Silent("delete_rows")  BY DEF Silent, Finding
  <2> QED  BY <1>13, <2>1, SilentRefs
<1>17. Left(o) \cap Telling \subseteq Left(r)  BY <1>13 DEF Telling
<1>18. db \subseteq Everywhere /\ StoreInv /\ CompatInv /\ Jointly(o) /\ DefaultInv
  BY Places DEF Inv, JointInv
<1>19. /\ Removed(r) = o.del \cup (old \cap Ids(db)) /\ Removed(o) = o.del
       /\ Vis(r) \subseteq Vis(o) /\ \A u \in Vis(r) : u.id \notin old
  BY <1>12, <1>13 DEF Removed, Ids, Vis
<1>20. ASSUME NEW x \in db, NEW d \in Vis(r), x.t \in Typed \cup {"authority"},
              x.id \in Removed(r), d.t = "devices"
       PROVE  d.id # x.device
  <2>1. CASE x.id \in o.del  BY <1>18, <1>19, <1>20, <2>1 DEF Jointly
  <2>2. CASE x.id \in old
    <3>1. PICK v \in rows : v.t = x.t /\ v.device = x.device
      BY <1>5, <1>7, <1>18, <1>20, <2>2, ErasedSeen
    <3>2. x.device = dd.id  BY <1>6, <1>20, <3>1
    <3>3. dd.id \in old  BY <1>7 DEF Ids
    <3> QED  BY <1>19, <3>2, <3>3
  <2> QED  BY <1>19, <1>20, <2>1, <2>2
<1>21. ASSUME NEW d \in db, NEW x \in db, d.t = "devices", d.id \in Removed(r),
              x.t \in {"nodes", "gates"}, x.device = d.id
       PROVE  x.id \in Removed(r)
  <2>1. CASE d.id \in o.del
    <3>1. x.id \in Removed(o)  BY <1>18, <1>19, <1>21, <2>1 DEF Jointly
    <3> QED  BY <1>19, <3>1
  <2>2. CASE d.id \in old
    <3>1. PICK v \in rows : v.id = d.id /\ v.t = d.t /\ v.kind = d.kind
      BY <1>5, <1>7, <1>18, <1>21, <2>2, ErasedSeen
    <3>2. v = dd  BY <1>6, <1>21, <3>1
    <3>3. d \in Everywhere /\ x \in Everywhere  BY <1>18
    <3>4. x.t = TypeTable(d.kind)
      <4>1. Compat(x, d)  BY <1>18, <3>3 DEF CompatInv
      <4> QED  BY <1>21, <4>1 DEF Compat, Typed
    <3>5. dd.kind \in {"LoRaNode", "Gateway", "MQTT", "Snap"}  BY <1>6 DEF DeviceRows
    <3>6. dd.kind \in {"LoRaNode", "Gateway"}
      BY <1>21, <3>1, <3>2, <3>4, <3>5 DEF TypeTable
    <3>7. PICK y \in rows : y.t = TypeTable(dd.kind) /\ y.device = dd.id  BY <1>6, <3>6
    <3>8. y.t = x.t /\ y.device = x.device  BY <1>21, <3>1, <3>2, <3>4, <3>7
    <3>9. y \in Everywhere  BY <1>5
    <3>10. x.id = y.id
      <4>1. Compat(x, y)  BY <1>18, <3>3, <3>9 DEF CompatInv
      <4> QED  BY <1>21, <3>8, <4>1 DEF Compat, Typed
    <3>11. x.id \in old /\ x.id \in Ids(db)  BY <1>7, <3>10 DEF Ids
    <3> QED  BY <1>19, <3>11
  <2> QED  BY <1>19, <1>21, <2>1, <2>2
<1>22. ASSUME Writes(p, r, new, old) PROVE Jointly(r) /\ Leaving(r)
  <2>1. Jointly(r)  BY <1>20, <1>21 DEF Jointly
  <2>2. Staying(new, old)
    <3>1. ASSUME NEW g \in db, g.t = "groups", g.id \in old PROVE FALSE
      <4>1. PICK v \in rows : v.t = g.t  BY <1>5, <1>7, <1>18, <3>1, ErasedSeen
      <4> QED  BY <1>5, <3>1, <4>1
    <3> QED  BY <3>1 DEF Staying
  <2>3. Leaving(r)  BY <1>3, <1>18, <1>22, <2>2, PlainLeaving
  <2> QED  BY <2>1, <2>3
<1>23. PICK s \in Request : s = o  BY <1>4
<1>24. PICK red : red = redis  OBVIOUS
<1>25. /\ Kin(s, o) /\ s.seen = o.seen /\ Tail(s.steps) \in Seq(StepNames)
       /\ Statement(p, new, old, s, red) /\ r = After(s, new, old)
       /\ (red = redis \/ \E u : red = Uncached(u))
  BY <1>2, <1>7, <1>8, <1>10, <1>13, <1>23, <1>24 DEF Kin
<1>26. /\ o.txn => /\ Left(o) \cap Telling \subseteq Left(r)
                   /\ \A x \in new : Told(r, x)
       /\ Writes(p, r, new, old) => Jointly(r) /\ Leaving(r)
       /\ ~o.txn => Loose(new, old) /\ Staying(new, old)
  BY <1>4, <1>15, <1>17, <1>22
<1> QED
  BY <1>2, <1>4, <1>13, <1>14, <1>15, <1>16, <1>25, <1>26, StatementKeeps

-----------------------------------------------------------------------------
(* Modifying a device *)

\* A modification that takes a step.
LEMMA ModifyTurn ==
    ASSUME Inv, NEW p \in Slots, NEW st, At(p, st), req[p].op = "modify"
    PROVE  /\ req[p].txn /\ ModifyShape(req[p]) /\ Active(p) /\ req[p] \in Request
           /\ Tail(req[p].steps) \in Seq(StepNames) /\ st \in Left(req[p])
           /\ \A t \in Left(req[p]) : t = st \/ Level(st) < Level(t)
           /\ Program(req[p]) /\ Left(req[p]) \cap (Finding \cup Telling) = {}
           /\ Left(req[p]) \subseteq {"modify_find", "script", "locate", "exists", "hset",
                                      "modify_rows", "commit"}
<1>1. Program(req[p]) /\ Shape(req[p]) /\ req[p] \in Request  BY Turn
<1>2. Left(req[p]) \subseteq {"modify_find", "script", "locate", "exists", "hset",
                              "modify_rows", "commit"}
  BY <1>1 DEF Program, Uses
<1>3. Left(req[p]) \cap (Finding \cup Telling) = {}  BY <1>2 DEF Finding, Telling
<1> QED  BY <1>1, <1>2, <1>3, Turn, Transactions, ShapeFor DEF Program

\* A modification goes on without a write.
LEMMA ModifyGoes ==
    ASSUME Inv, NEW p \in Slots, NEW st, At(p, st), req[p].op = "modify",
           NEW r \in Request, Kin(r, req[p]), r.kind = req[p].kind, r.name = req[p].name,
           r.user = req[p].user, r.device = req[p].device, Ordered(r.steps),
           Left(r) \subseteq Left(req[p]) \cup {"modify_rows", "commit"},
           r.seen \subseteq Vis(req[p]) \cup req[p].seen, \A x \in r.seen : x.t = "devices",
           "locate" \in Left(r) => r.eui \in Euis /\ {"exists", "hset"} \subseteq Left(r),
           "exists" \in Left(r) => "hset" \in Left(r),
           Go(p, r), UNCHANGED <<db, redis, todo, bare>>
    PROVE  Inv'
<1> DEFINE o == req[p]
<1>1. /\ o.txn /\ ModifyShape(o) /\ Active(p) /\ Program(o)
      /\ Left(o) \cap (Finding \cup Telling) = {}
      /\ Left(o) \subseteq {"modify_find", "script", "locate", "exists", "hset",
                            "modify_rows", "commit"}
  BY ModifyTurn
<1>2. /\ r.op = "modify" /\ r.add = o.add /\ r.del = o.del /\ r.txn = o.txn  BY DEF Kin
<1>3. Program(r)
  <2>1. Left(r) \subseteq Uses(r)  BY <1>1, <1>2 DEF Uses
  <2>2. "default" \notin Left(r)  BY <1>1
  <2>3. (o.txn <=> o.op \in Transacted) /\ o.name \in Names  BY <1>1 DEF Program
  <2> QED  BY <1>2, <2>1, <2>2, <2>3 DEF Program
<1>4. Shape(r)
  <2>1. ModifyShape(r)  BY <1>1, <1>2 DEF ModifyShape
  <2> QED  BY <1>2, <2>1, ShapeFor
<1>5. ReqRefs(r) \subseteq ReqRefs(o) \cup Ids(Vis(o))
  <2>1. ~DeviceSet(r)  BY <1>2 DEF DeviceSet
  <2>2. UserSet(r) => UserSet(o)  BY <1>1, <1>2 DEF UserSet
  <2> QED  BY <2>1, <2>2 DEF ReqRefs
<1>6. Left(o) \cap Telling \subseteq Left(r) /\ o.op # "delete_user"  BY <1>1
<1> QED  BY <1>1, <1>3, <1>4, <1>5, <1>6, ReadKeeps

\* The device is looked up.
LEMMA ModifyFindKeeps ==
    ASSUME Inv, NEW p \in Slots, ModifyFind(p)
    PROVE  Inv'
<1> DEFINE o == req[p]
<1>1. At(p, "modify_find") /\ UNCHANGED <<todo, bare>>  BY DEF ModifyFind
<1>2. o.op = "modify"  BY <1>1, Turn, StepOps
<1>3. /\ ModifyShape(o) /\ Active(p) /\ o \in Request  BY <1>1, <1>2, ModifyTurn
<1>4. CASE Fail(p)  BY <1>1, <1>3, <1>4, FailKeeps
<1>5. CASE ~Fail(p)
  <2>1. PICK n : n = Owned(p, o.device)  OBVIOUS
  <2>2. /\ n # {} /\ UNCHANGED <<db, redis>>
        /\ Go(p, Done([o EXCEPT !.seen = n, !.eui = (CHOOSE x \in n : TRUE).eui]))
    BY <1>5, <2>1 DEF ModifyFind
  <2>3. PICK d \in Vis(o) : n = {d} /\ d.t = "devices" /\ d \in DeviceRows
    BY <2>1, <2>2, OwnedOne
  <2>4. d \in Row  BY <2>3, Places DEF Inv
  <2>5. PICK e : e = (CHOOSE x \in n : TRUE).eui  OBVIOUS
  <2>6. e \in Euis
    <3>1. (CHOOSE x \in n : TRUE) \in n  BY <2>3
    <3>2. e = d.eui  BY <2>3, <2>5, <3>1
    <3> QED  BY <2>3, <3>2 DEF DeviceRows
  <2>7. PICK s : s = [o EXCEPT !.seen = n, !.eui = e]  OBVIOUS
  <2>8. n \in SUBSET Row  BY <2>3, <2>4
  <2>9. /\ s \in Request /\ Kin(s, o) /\ s.steps = o.steps /\ s.seen = n /\ s.eui = e
        /\ s.kind = o.kind /\ s.name = o.name /\ s.user = o.user /\ s.device = o.device
    BY <1>3, <2>6, <2>7, <2>8 DEF Request, Kin
  <2>10. PICK r : r = Done(s)  OBVIOUS
  <2>11. /\ Left(r) = Left(o) \ {"modify_find"} /\ Kin(r, o) /\ r.user = o.user
         /\ r.device = o.device /\ r.seen = n /\ r.eui = e /\ r.kind = o.kind
         /\ r \in Request /\ Program(r) /\ r.steps = Tail(o.steps)
    BY <1>1, <2>9, <2>10, DoneTurn
  <2>12. r.name = o.name
    <3>1. Tail(s.steps) \in Seq(StepNames)  BY <1>1, <2>9, Turn
    <3> QED  BY <2>9, <2>10, <3>1, DoneIs
  <2>13. Ordered(r.steps)  BY <2>11 DEF Program
  <2>14. /\ "locate" \in Left(r) => r.eui \in Euis /\ {"exists", "hset"} \subseteq Left(r)
         /\ "exists" \in Left(r) => "hset" \in Left(r)
    BY <1>3, <2>6, <2>11 DEF ModifyShape
  <2>15. /\ r.seen \subseteq Vis(o) \cup o.seen /\ \A x \in r.seen : x.t = "devices"
         /\ Left(r) \subseteq Left(o) \cup {"modify_rows", "commit"}
    BY <2>3, <2>11
  <2>16. Go(p, r) /\ UNCHANGED <<db, redis, todo, bare>>
    BY <1>1, <2>2, <2>5, <2>7, <2>10
  <2> QED  BY <1>1, <1>2, <2>11, <2>12, <2>13, <2>14, <2>15, <2>16, ModifyGoes
<1> QED  BY <1>4, <1>5

\* The next step of a modification, or the one after it.
LEMMA ModifyNext ==
    ASSUME Inv, NEW p \in Slots, NEW st \in {"script", "locate", "exists"}, At(p, st),
           req[p].op = "modify", NEW a \in Addrs \cup {None},
           NEW s, s = [req[p] EXCEPT !.addr = a] \/ s = req[p], NEW r, Go(p, r),
           UNCHANGED <<db, redis, todo, bare>>,
           \/ r = Done(s)
           \/ st = "exists" /\ r = Done(Done(s))
           \/ st = "locate" /\ r = Done(Done(Done(s)))
    PROVE  Inv'
<1> DEFINE o == req[p]
<1>1. /\ ModifyShape(o) /\ Active(p) /\ o \in Request /\ Program(o)
      /\ Tail(o.steps) \in Seq(StepNames) /\ st \in Left(o)
      /\ \A t \in Left(o) : t = st \/ Level(st) < Level(t)
      /\ Left(o) \subseteq {"modify_find", "script", "locate", "exists", "hset",
                            "modify_rows", "commit"}
  BY ModifyTurn
<1>2. Ordered(Tail(o.steps)) /\ StepsIn(Tail(o.steps)) = Left(o) \ {st}  BY Turn
<1>3. /\ s \in Request /\ Kin(s, o) /\ s.steps = o.steps /\ s.seen = o.seen /\ s.eui = o.eui
      /\ s.kind = o.kind /\ s.name = o.name /\ s.user = o.user /\ s.device = o.device
  <2>1. CASE s = o  BY <1>1, <2>1 DEF Kin
  <2>2. CASE s = [o EXCEPT !.addr = a]  BY <1>1, <2>2 DEF Request, Kin
  <2> QED  BY <2>1, <2>2
<1>4. PICK s1 : s1 = Done(s)  OBVIOUS
<1>5. /\ s1 \in Request /\ Kin(s1, o) /\ s1.steps = Tail(o.steps) /\ s1.seen = o.seen
      /\ s1.eui = o.eui /\ s1.kind = o.kind /\ s1.name = o.name /\ s1.user = o.user
      /\ s1.device = o.device
  BY <1>1, <1>3, <1>4, DoneIs DEF Kin
<1>6. "modify_find" \notin Left(o) /\ \A x \in o.seen : x.t = "devices"
  <2>1. "modify_find" \notin Left(o)  BY <1>1, Levels
  <2> QED  BY <1>1, <2>1 DEF ModifyShape
<1>7. /\ "locate" \in Left(o) => o.eui \in Euis /\ {"exists", "hset"} \subseteq Left(o)
      /\ "exists" \in Left(o) => "hset" \in Left(o)
  BY <1>1, <1>6 DEF ModifyShape
<1>8. ASSUME NEW w \in Request, Kin(w, o), w.seen = o.seen, w.eui = o.eui, w.kind = o.kind,
             w.name = o.name, w.user = o.user, w.device = o.device, Ordered(w.steps),
             Left(w) \subseteq Left(o) \ {st},
             "locate" \in Left(w) => {"exists", "hset"} \subseteq Left(w),
             "exists" \in Left(w) => "hset" \in Left(w), Go(p, w)
      PROVE  Inv'
  BY <1>6, <1>7, <1>8, ModifyGoes
<1>9. CASE r = Done(s)
  <2>1. r = s1 /\ Left(s1) = Left(o) \ {st} /\ Ordered(s1.steps)
    BY <1>2, <1>4, <1>5, <1>9 DEF Left
  <2>2. /\ "locate" \in Left(s1) => {"exists", "hset"} \subseteq Left(s1)
        /\ "exists" \in Left(s1) => "hset" \in Left(s1)
        /\ Left(s1) \subseteq Left(o) \ {st}
    <3>1. st = "exists" => "locate" \notin Left(o)  BY <1>1, Levels
    <3> QED  BY <1>7, <2>1, <3>1
  <2> QED  BY <1>5, <1>8, <2>1, <2>2
<1>10. CASE st = "exists" /\ r = Done(Done(s))
  <2>1. "locate" \notin Left(o) /\ "hset" \in Left(o)  BY <1>1, <1>7, <1>10, Levels
  <2>2. Tail(o.steps) # <<>>
    <3>1. "hset" \in StepsIn(Tail(o.steps))  BY <1>2, <1>10, <2>1
    <3> QED  BY <3>1 DEF StepsIn
  <2>3. PICK t : t = Tail(o.steps)  OBVIOUS
  <2>4. /\ Tail(t) \in Seq(StepNames) /\ Ordered(Tail(t))
        /\ StepsIn(Tail(t)) \subseteq Left(o) \ {st}
    BY <1>1, <1>2, <2>2, <2>3, StepsTail
  <2>5. PICK s2 : s2 = Done(s1)  OBVIOUS
  <2>6. /\ s2 \in Request /\ Kin(s2, o) /\ s2.steps = Tail(t) /\ s2.seen = o.seen
        /\ s2.eui = o.eui /\ s2.kind = o.kind /\ s2.name = o.name /\ s2.user = o.user
        /\ s2.device = o.device
    BY <1>5, <2>3, <2>4, <2>5, DoneIs, ZenonT(60) DEF Kin
  <2>7. Left(s2) \subseteq Left(o) \ {st} /\ Ordered(s2.steps)  BY <2>4, <2>6 DEF Left
  <2>8. "locate" \notin Left(s2) /\ "exists" \notin Left(s2)  BY <1>10, <2>1, <2>7
  <2>9. Go(p, s2)  BY <1>4, <1>10, <2>5
  <2> QED  BY <1>8, <2>6, <2>7, <2>8, <2>9
<1>11. CASE st = "locate" /\ r = Done(Done(Done(s)))
  <2>1. "exists" \in Left(o) /\ "hset" \in Left(o)  BY <1>1, <1>7, <1>11
  <2>2. PICK t : t = Tail(o.steps)  OBVIOUS
  <2>3. /\ t \in Seq(StepNames) /\ Ordered(t) /\ StepsIn(t) = Left(o) \ {st} /\ t # <<>>
    <3>1. "hset" \in StepsIn(Tail(o.steps))  BY <1>2, <1>11, <2>1
    <3> QED  BY <1>1, <1>2, <2>2, <3>1 DEF StepsIn
  <2>4. PICK h : h = Head(t)  OBVIOUS
  <2>5. /\ Tail(t) \in Seq(StepNames) /\ Ordered(Tail(t)) /\ h \in StepsIn(t)
        /\ StepsIn(Tail(t)) = StepsIn(t) \ {h}
        /\ \A b \in StepsIn(t) : b = h \/ Level(h) < Level(b)
    BY <2>3, <2>4, StepsTail
  <2>6. h = "exists"
    <3>1. h \in {"script", "exists", "hset", "modify_rows", "commit"}
      BY <1>1, <1>6, <1>11, <2>3, <2>5
    <3>2. "script" \notin Left(o)  BY <1>1, <1>11, Levels
    <3>3. h # "script"  BY <2>3, <2>5, <3>2
    <3>4. h = "exists" \/ Level(h) < Level("exists")  BY <1>11, <2>1, <2>3, <2>5
    <3> QED  BY <3>1, <3>3, <3>4, Levels
  <2>7. PICK u : u = Tail(t)  OBVIOUS
  <2>8. /\ u \in Seq(StepNames) /\ Ordered(u) /\ u # <<>>
        /\ StepsIn(u) = (Left(o) \ {st}) \ {"exists"}
    <3>1. "hset" \in StepsIn(u)  BY <1>11, <2>1, <2>3, <2>5, <2>6, <2>7
    <3>2. u # <<>>  BY <3>1 DEF StepsIn
    <3> QED  BY <2>3, <2>5, <2>6, <2>7, <3>2
  <2>9. /\ Tail(u) \in Seq(StepNames) /\ Ordered(Tail(u))
        /\ StepsIn(Tail(u)) \subseteq (Left(o) \ {st}) \ {"exists"}
    BY <2>8, StepsTail
  <2>10. PICK s2 : s2 = Done(s1)  OBVIOUS
  <2>11. /\ s2 \in Request /\ Kin(s2, o) /\ s2.steps = u /\ s2.seen = o.seen
         /\ s2.eui = o.eui /\ s2.kind = o.kind /\ s2.name = o.name /\ s2.user = o.user
         /\ s2.device = o.device
    BY <1>5, <2>2, <2>7, <2>8, <2>10, DoneIs DEF Kin
  <2>12. PICK s3 : s3 = Done(s2)  OBVIOUS
  <2>13. /\ s3 \in Request /\ Kin(s3, o) /\ s3.steps = Tail(u) /\ s3.seen = o.seen
         /\ s3.eui = o.eui /\ s3.kind = o.kind /\ s3.name = o.name /\ s3.user = o.user
         /\ s3.device = o.device
    BY <2>9, <2>11, <2>12, DoneIs DEF Kin
  <2>14. Left(s3) \subseteq (Left(o) \ {st}) \ {"exists"} /\ Ordered(s3.steps)
    BY <2>9, <2>13 DEF Left
  <2>15. /\ "locate" \notin Left(s3) /\ "exists" \notin Left(s3)
         /\ Left(s3) \subseteq Left(o) \ {st}
    BY <1>11, <2>14
  <2>16. Go(p, s3)  BY <1>4, <1>11, <2>10, <2>12
  <2> QED  BY <1>8, <2>13, <2>14, <2>15, <2>16
<1> QED  BY <1>9, <1>10, <1>11

\* The script is looked up, or the node's row.
LEMMA ScriptKeeps ==
    ASSUME Inv, NEW p \in Slots, Script(p)
    PROVE  Inv'
<1> DEFINE o == req[p]
<1>1. PICK w : w = <<"modify_rows", "commit">>  OBVIOUS
<1>2. /\ At(p, "script") /\ UNCHANGED <<todo, bare>>
      /\ \/ Go(p, [o EXCEPT !.steps = w]) /\ UNCHANGED <<db, redis>>
         \/ Proceed(p) /\ UNCHANGED <<db, redis>>
         \/ Fail(p)
  BY <1>1 DEF Script
<1>3. o.op = "modify"  BY <1>2, Turn, StepOps
<1>4. /\ ModifyShape(o) /\ Active(p) /\ o \in Request
      /\ \A t \in Left(o) : t = "script" \/ Level("script") < Level(t)
  BY <1>2, <1>3, ModifyTurn
<1>5. CASE Fail(p)  BY <1>2, <1>4, <1>5, FailKeeps
<1>6. CASE Proceed(p) /\ UNCHANGED <<db, redis>>
  <2>1. PICK a : a = None  OBVIOUS
  <2>2. PICK r : r = Done(o)  OBVIOUS
  <2>3. PICK s : s = o  OBVIOUS
  <2>4. PICK st : st = "script"  OBVIOUS
  <2>5. /\ Go(p, r) /\ r = Done(s) /\ a \in Addrs \cup {None}
        /\ (s = [req[p] EXCEPT !.addr = a] \/ s = req[p])
        /\ st \in {"script", "locate", "exists"} /\ At(p, st)
    BY <1>2, <1>6, <2>1, <2>2, <2>3, <2>4 DEF Proceed
  <2> QED  BY <1>2, <1>3, <1>6, <2>5, ModifyNext
<1>7. CASE Go(p, [o EXCEPT !.steps = w]) /\ UNCHANGED <<db, redis>>
  <2>1. w \in Seq(StepNames) /\ Ordered(w) /\ StepsIn(w) = {"modify_rows", "commit"}
    <3>1. w \in Seq(StepNames) /\ 1 .. Len(w) = {1, 2}  BY <1>1 DEF StepNames
    <3> QED  BY <1>1, <3>1, Levels DEF Ordered, StepsIn
  <2>2. PICK r : r = [o EXCEPT !.steps = w]  OBVIOUS
  <2>3. /\ r \in Request /\ Kin(r, o) /\ r.steps = w /\ r.seen = o.seen /\ r.kind = o.kind
        /\ r.name = o.name /\ r.user = o.user /\ r.device = o.device
    <3> HIDE <1>1
    <3> QED  BY <1>4, <2>1, <2>2 DEF Request, Kin
  <2>4. Left(r) = {"modify_rows", "commit"} /\ Ordered(r.steps)  BY <2>1, <2>3 DEF Left
  <2>5. \A x \in r.seen : x.t = "devices"  BY <1>4, <2>3 DEF ModifyShape
  <2>6. /\ "locate" \in Left(r) => r.eui \in Euis /\ {"exists", "hset"} \subseteq Left(r)
        /\ "exists" \in Left(r) => "hset" \in Left(r)
        /\ Left(r) \subseteq Left(o) \cup {"modify_rows", "commit"}
        /\ r.seen \subseteq Vis(o) \cup o.seen
    BY <2>3, <2>4
  <2>7. Go(p, r) /\ UNCHANGED <<db, redis, todo, bare>>  BY <1>2, <1>7, <2>2
  <2> QED  BY <1>2, <1>3, <2>3, <2>4, <2>5, <2>6, <2>7, ModifyGoes
<1> QED  BY <1>2, <1>5, <1>6, <1>7

\* The address is read from redis.
LEMMA LocateKeeps ==
    ASSUME Inv, NEW p \in Slots, Locate(p)
    PROVE  Inv'
<1> DEFINE o == req[p]
<1>1. PICK a : a = redis.eui[o.eui]  OBVIOUS
<1>2. PICK s : s = [o EXCEPT !.addr = a]  OBVIOUS
<1>3. PICK r : r = IF a = None THEN Done(Done(Done(s))) ELSE Done(s)  OBVIOUS
<1>4. /\ At(p, "locate") /\ UNCHANGED <<db, redis, todo, bare>> /\ Go(p, r)
  BY <1>1, <1>2, <1>3 DEF Locate
<1>5. o.op = "modify"  BY <1>4, Turn, StepOps
<1>6. /\ ModifyShape(o) /\ "locate" \in Left(o)
      /\ \A t \in Left(o) : t = "locate" \/ Level("locate") < Level(t)
  BY <1>4, <1>5, ModifyTurn
<1>7. a \in Addrs \cup {None}
  <2>1. "modify_find" \notin Left(o)  BY <1>6, Levels
  <2>2. o.eui \in Euis  BY <1>6, <2>1 DEF ModifyShape
  <2>3. redis.eui \in [Euis -> Addrs \cup {None}]  BY DEF Inv, StoreInv, Stored
  <2> QED  BY <1>1, <2>2, <2>3
<1>8. PICK st : st = "locate"  OBVIOUS
<1>9. /\ st \in {"script", "locate", "exists"} /\ At(p, st)
      /\ (s = [req[p] EXCEPT !.addr = a] \/ s = req[p])
      /\ \/ r = Done(s)
         \/ st = "exists" /\ r = Done(Done(s))
         \/ st = "locate" /\ r = Done(Done(Done(s)))
  BY <1>2, <1>3, <1>4, <1>8
<1> QED  BY <1>4, <1>5, <1>7, <1>9, ModifyNext

\* The record is looked up.
LEMMA ExistsKeeps ==
    ASSUME Inv, NEW p \in Slots, Exists(p)
    PROVE  Inv'
<1> DEFINE o == req[p]
<1>1. PICK s : s = o  OBVIOUS
<1>2. PICK r : r = IF redis.node[o.addr] = None THEN Done(Done(s)) ELSE Done(s)  OBVIOUS
<1>3. At(p, "exists") /\ UNCHANGED <<db, redis, todo, bare>> /\ Go(p, r)
  BY <1>1, <1>2 DEF Exists
<1>4. o.op = "modify"  BY <1>3, Turn, StepOps
<1>5. PICK a : a = None  OBVIOUS
<1>6. PICK st : st = "exists"  OBVIOUS
<1>7. /\ st \in {"script", "locate", "exists"} /\ At(p, st) /\ a \in Addrs \cup {None}
      /\ (s = [req[p] EXCEPT !.addr = a] \/ s = req[p])
      /\ \/ r = Done(s)
         \/ st = "exists" /\ r = Done(Done(s))
         \/ st = "locate" /\ r = Done(Done(Done(s)))
  BY <1>1, <1>2, <1>3, <1>5, <1>6
<1> QED  BY <1>3, <1>4, <1>7, ModifyNext

\* An UPDATE that leaves the addresses of a node as they are.
LEMMA ModifyUpdates ==
    ASSUME Inv, NEW p \in Slots, At(p, "modify_rows"), NEW v \in Vis(req[p]), NEW x \in Row,
           Fixed(x) = Fixed(v), x.t \in {"nodes", "gates", "devices"},
           x = v \/ x.t # "nodes", Update(p, x), UNCHANGED <<todo, bare>>
    PROVE  Inv'
<1> DEFINE o == req[p]
<1>1. o.op = "modify"  BY Turn, StepOps
<1>2. /\ o.txn /\ ModifyShape(o) /\ Active(p) /\ o \in Request
      /\ \A t \in Left(o) : t = "modify_rows" \/ Level("modify_rows") < Level(t)
  BY <1>1, ModifyTurn
<1>3. Silent("modify_rows") /\ "modify_rows" \notin Telling
  BY DEF Silent, Finding, Telling
<1>4. PICK new : new = {x}  OBVIOUS
<1>5. PICK old : old = {x.id}  OBVIOUS
<1>6. PICK r : r = After(o, new, old)  OBVIOUS
<1>7. new \in SUBSET Row  BY <1>4
<1>8. Turned(p, "modify_rows", new, old, r)  BY <1>6, <1>7, OwnTurned
<1>9. v \in Row /\ x.id = v.id
  <2>1. v \in Row  BY Places DEF Inv
  <2> QED  BY <2>1, FixedSame
<1>10. Shape(r)
  <2>1. /\ r.op = o.op /\ r.seen = o.seen /\ Left(r) = Left(o) \ {"modify_rows"}
        /\ r.add = {y \in o.add : y.id \notin old} \cup new
        /\ r.del = o.del \cup (old \cap Ids(db))
    BY <1>2, <1>8 DEF Turned, Follows
  <2>2. o.del \subseteq Ids(o.add)
        /\ \A y \in o.add : y.id \in o.del /\ y.t \in {"nodes", "gates", "devices"}
    BY <1>2 DEF ModifyShape
  <2>3. r.del \subseteq Ids(r.add)  BY <1>4, <1>5, <2>1, <2>2 DEF Ids
  <2>4. x.id \in r.del
    <3>1. CASE v \in db  BY <1>5, <1>9, <2>1, <3>1 DEF Ids
    <3>2. CASE v \in o.add  BY <1>9, <2>1, <2>2, <3>2
    <3> QED  BY <3>1, <3>2 DEF Vis
  <2>5. \A y \in r.add : y.id \in r.del /\ y.t \in {"nodes", "gates", "devices"}
    BY <1>4, <2>1, <2>2, <2>4
  <2>6. "locate" \notin Left(r) /\ "exists" \notin Left(r)  BY <1>2, <2>1, Levels
  <2>7. ModifyShape(r)  BY <1>2, <2>1, <2>3, <2>5, <2>6 DEF ModifyShape
  <2> QED  BY <1>1, <2>1, <2>7, ShapeFor
<1>11. r = After(o, {x}, {x.id})  BY <1>4, <1>5, <1>6
<1>12. /\ x.t \in Typed \cup {"authority", "devices"} => o.txn
       /\ o.op # "delete_user" /\ (x = v \/ x.t # "nodes" \/ "set_addr" \in Left(o))
  BY <1>1, <1>2
<1> QED  BY <1>3, <1>10, <1>11, <1>12, UpdateKeeps

\* The row of the device's type is written, or the device's own.
LEMMA ModifyRowsKeeps ==
    ASSUME Inv, NEW p \in Slots, ModifyRows(p)
    PROVE  Inv'
<1> DEFINE o == req[p]
<1>1. PICK d \in o.seen :
         LET rows == TypeRows(p, d.id, d.kind)
             own == {x \in Rows(p, "devices") : x.id = d.id}
         IN \/ Fail(p)
            \/ /\ d.kind \in {"LoRaNode", "Gateway"}
               /\ \E n \in rows : Update(p, n)
            \/ Proceed(p) /\ UNCHANGED <<db, redis>>
            \/ \E x \in own : Update(p, [x EXCEPT !.script = o.script])
            \/ \E x \in own : Update(p, x)
  BY DEF ModifyRows
<1>2. At(p, "modify_rows") /\ UNCHANGED <<todo, bare>>  BY DEF ModifyRows
<1>3. o.op = "modify"  BY <1>2, Turn, StepOps
<1>4. /\ ModifyShape(o) /\ Active(p) /\ o \in Request
      /\ Tail(o.steps) \in Seq(StepNames) /\ Ordered(Tail(o.steps))
      /\ StepsIn(Tail(o.steps)) = Left(o) \ {"modify_rows"}
      /\ \A t \in Left(o) : t = "modify_rows" \/ Level("modify_rows") < Level(t)
  BY <1>2, <1>3, Turn, ModifyTurn
<1>5. CASE Fail(p)  BY <1>2, <1>4, <1>5, FailKeeps
<1>6. ASSUME NEW n \in TypeRows(p, d.id, d.kind), d.kind \in {"LoRaNode", "Gateway"},
             Update(p, n)
      PROVE  Inv'
  <2>1. n \in Vis(o) /\ n.t \in {"nodes", "gates"}
    BY <1>6, RowsIn DEF TypeRows, TypeTable
  <2>2. n \in Row  BY <2>1, Places DEF Inv
  <2> QED  BY <1>2, <1>6, <2>1, <2>2, ModifyUpdates
<1>7. CASE Proceed(p) /\ UNCHANGED <<db, redis>>
  <2>1. PICK r : r = Done(o)  OBVIOUS
  <2>2. /\ r \in Request /\ Kin(r, o) /\ r.steps = Tail(o.steps) /\ r.seen = o.seen
        /\ r.kind = o.kind /\ r.name = o.name /\ r.user = o.user /\ r.device = o.device
    BY <1>4, <2>1, DoneIs DEF Kin
  <2>3. /\ Left(r) = Left(o) \ {"modify_rows"} /\ Ordered(r.steps)  BY <1>4, <2>2 DEF Left
  <2>4. "locate" \notin Left(r) /\ "exists" \notin Left(r)  BY <1>4, <2>3, Levels
  <2>5. /\ \A x \in r.seen : x.t = "devices"
        /\ "locate" \in Left(r) => r.eui \in Euis /\ {"exists", "hset"} \subseteq Left(r)
        /\ "exists" \in Left(r) => "hset" \in Left(r)
        /\ Left(r) \subseteq Left(o) \cup {"modify_rows", "commit"}
        /\ r.seen \subseteq Vis(o) \cup o.seen
    BY <1>4, <2>2, <2>3, <2>4 DEF ModifyShape
  <2>6. Go(p, r) /\ UNCHANGED <<db, redis, todo, bare>>
    BY <1>2, <1>7, <2>1 DEF Proceed
  <2> QED  BY <1>2, <1>3, <2>2, <2>3, <2>5, <2>6, ModifyGoes
<1>8. ASSUME NEW v \in Rows(p, "devices"),
             Update(p, [v EXCEPT !.script = o.script]) \/ Update(p, v)
      PROVE  Inv'
  <2>1. v \in Vis(o) /\ v.t = "devices"  BY RowsIn
  <2>2. v \in Row  BY <2>1, Places DEF Inv
  <2>3. v \in DeviceRows  BY <2>1, <2>2, RowIds
  <2>4. CASE Update(p, v)  BY <1>2, <2>1, <2>2, <2>4, ModifyUpdates
  <2>5. CASE Update(p, [v EXCEPT !.script = o.script])
    <3>1. PICK x : x = [v EXCEPT !.script = o.script]  OBVIOUS
    <3>2. o.script \in Nat  BY <1>4, RequestIs
    <3>3. x \in DeviceRows /\ x.t = "devices"  BY <2>3, <3>1, <3>2 DEF DeviceRows
    <3>4. Fixed(x) = Fixed(v)
      <4>1. [x EXCEPT !.script = None] = [v EXCEPT !.script = None]
        BY <2>3, <3>1 DEF DeviceRows
      <4> QED  BY <2>1, <3>3, <4>1 DEF Fixed
    <3>5. x \in Row  BY <3>3 DEF Row
    <3>6. Update(p, x)  BY <2>5, <3>1
    <3> QED  BY <1>2, <2>1, <3>3, <3>4, <3>5, <3>6, ModifyUpdates
  <2> QED  BY <1>8, <2>4, <2>5
<1> QED  BY <1>1, <1>5, <1>6, <1>7, <1>8

-----------------------------------------------------------------------------
(* Commits.  What a transaction has written is finite: each row has an id of *)
(* its own, taken from db or drawn.                                          *)

\* As many ids as rows.
LEMMA IdsFinite ==
    ASSUME NEW rows, UniqueIds(rows)
    PROVE  /\ IsFiniteSet(rows) => IsFiniteSet(Ids(rows))
           /\ IsFiniteSet(rows) => Cardinality(Ids(rows)) = Cardinality(rows)
           /\ IsFiniteSet(Ids(rows)) => IsFiniteSet(rows)
<1> DEFINE T == Ids(rows)
<1>1. PICK f : f = [x \in rows |-> x.id]  OBVIOUS
<1>2. f \in [rows -> T] /\ \A x \in rows : f[x] = x.id  BY <1>1 DEF Ids
<1>3. \A x, y \in rows : f[x] = f[y] => x = y  BY <1>2 DEF UniqueIds
<1>4. \A i \in T : \E x \in rows : f[x] = i  BY <1>2 DEF Ids
<1> HIDE DEF T
<1>5. f \in Injection(rows, T)  BY <1>2, <1>3 DEF Injection, IsInjective
<1>6. f \in Surjection(rows, T)  BY <1>2, <1>4 DEF Surjection
<1>7. IsFiniteSet(rows) => /\ IsFiniteSet(T) /\ Cardinality(T) = Cardinality(rows)
  BY <1>5, <1>6, FS_Surjection
<1>8. IsFiniteSet(T) => IsFiniteSet(rows)  BY <1>5, FS_Injection
<1> QED  BY <1>7, <1>8 DEF T

\* The ids a request has drawn have a bound.
LEMMA DrawnBound ==
    ASSUME NEW r, r.no \in Nat, r.made \in Nat, NEW i, Drawn(r, i)
    PROVE  i \in Nat /\ i <= r.no + Stride * r.made
<1>1. PICK k \in Nat : 1 <= k /\ k <= r.made /\ i = r.no + Stride * k  BY DEF Drawn
<1>2. PICK n : n = r.no  OBVIOUS
<1>3. PICK m : m = r.made  OBVIOUS
<1>4. n \in Nat /\ m \in Nat /\ k <= m /\ i = n + Stride * k /\ Stride \in Nat
  BY <1>1, <1>2, <1>3, ApiAssumption
<1>5. Stride * k <= Stride * m  BY ONLY <1>4, k \in Nat, SMT
<1>6. Stride * k \in Nat /\ Stride * m \in Nat  BY ONLY <1>4, k \in Nat, SMT
<1>7. i \in Nat /\ i <= n + Stride * m
  <2>1. PICK a : a = Stride * k  OBVIOUS
  <2>2. PICK b : b = Stride * m  OBVIOUS
  <2>3. a \in Nat /\ b \in Nat /\ a <= b /\ i = n + a  BY <2>1, <2>2, <1>4, <1>5, <1>6
  <2>4. i \in Nat /\ i <= n + b  BY <2>3, <1>4
  <2> QED  BY <2>2, <2>4
<1> QED  BY <1>2, <1>3, <1>7

\* What a transaction has written is finite, and so is what it sees.
LEMMA AddFinite ==
    ASSUME StoreInv, IdInv, NEW p \in Slots
    PROVE  IsFiniteSet(req[p].add) /\ IsFiniteSet(View(p))
<1> DEFINE r == req[p]
<1>1. r \in Request /\ IsFiniteSet(db) /\ UniqueIds(db) /\ Locked(r)
  BY DEF StoreInv, IdInv
<1>2. r.no \in Nat /\ r.made \in Nat  BY <1>1, RequestIs
<1>3. /\ UniqueIds(r.add) /\ r.del \subseteq Ids(db)
      /\ \A x \in r.add : x.id \in r.del \/ Drawn(r, x.id)
  BY <1>1 DEF Locked
<1>4. PICK n : n = r.no + Stride * r.made  OBVIOUS
<1> DEFINE D == {i \in Nat : i <= n}
<1>5. n \in Nat
  <2>1. PICK m : m = r.made  OBVIOUS
  <2>2. m \in Nat /\ Stride \in Nat  BY <2>1, <1>2, ApiAssumption
  <2>3. Stride * m \in Nat  BY ONLY <2>2, SMT
  <2> QED  BY <2>1, <2>3, <1>2, <1>4
<1>6. \A x \in r.add : x.id \in Ids(db) \cup D
  <2> SUFFICES ASSUME NEW x \in r.add, Drawn(r, x.id) PROVE x.id \in D  BY <1>3
  <2>1. x.id \in Nat /\ x.id <= r.no + Stride * r.made  BY <1>2, DrawnBound
  <2> QED  BY <2>1, <1>4
<1>7. IsFiniteSet(D)  BY <1>5, FS_BoundedSetOfNaturals
<1>8. IsFiniteSet(Ids(db))  BY <1>1, IdsFinite
<1>9. Ids(r.add) \subseteq Ids(db) \cup D  BY <1>6 DEF Ids
<1> HIDE DEF D
<1>10. PICK S : S = Ids(db)  OBVIOUS
<1>11. IsFiniteSet(S \cup D)  BY <1>7, <1>8, <1>10, FS_Union
<1>12. PICK T : T = Ids(r.add)  OBVIOUS
<1>13. T \in SUBSET (S \cup D)  BY <1>9, <1>10, <1>12
<1>14. IsFiniteSet(T)  BY <1>11, <1>13, FS_Subset
<1>15. IsFiniteSet(r.add)  BY <1>3, <1>12, <1>14, IdsFinite
<1>16. PICK V : V = {x \in db : x.id \notin r.del}  OBVIOUS
<1>17. IsFiniteSet(V)  BY <1>1, <1>16, FS_Subset
<1>18. PICK W : W = r.add  OBVIOUS
<1>19. IsFiniteSet(V \cup W)  BY <1>15, <1>17, <1>18, FS_Union
<1> QED  BY <1>15, <1>16, <1>18, <1>19 DEF View

\* A commit needs no more than that the new devices and users are whole: of the
\* rows it removes JointInv and Leaving have told.
Begets(A, N) ==
    /\ \A d \in A : d.t = "devices" /\ d.id \notin Ids(db) =>
          /\ \E x \in A : x.t = TypeTable(d.kind) /\ x.device = d.id
          /\ \E a \in N : a.t = "authority" /\ a.device = d.id /\ a.user = d.user
    /\ \A x \in A : x.t \in {"nodes", "gates"} /\ x.id \notin Ids(db) =>
          \E d \in A : d.t = "devices" /\ d.id = x.device /\ d.id \notin Ids(db)
    /\ \A u \in A : u.t = "users" /\ u.id \notin Ids(db) =>
          \E g \in A : /\ IsDefault(g, u.id)
                       /\ \A x \in A : IsDefault(x, u.id) => x = g

\* What a commit keeps, from what the new rows bring with them.
LEMMA CommitDone ==
    ASSUME Inv, NEW p \in Slots, Active(p), req[p].txn,
           NEW s \in {"commit", "device_commit"}, At(p, s),
           NEW N, N \subseteq Row, IsFiniteSet(N), UniqueIds(N),
           \A x \in N : x.t = "authority" /\ Created(p, x),
           db' = View(p) \cup N, Proceed(p), UNCHANGED <<redis, todo, bare>>,
           Begets(req[p].add, N)
    PROVE  Inv'
<1>1. PICK A : A = req[p].add \cup N  OBVIOUS
<1>2. PICK D : D = req[p].del  OBVIOUS
<1>3. /\ StoreInv /\ IdInv /\ ProgramInv /\ Jointly(req[p]) /\ Leaving(req[p])
  BY DEF Inv, JointInv, DefaultInv
<1>4. Left(req[p]) = {s}  BY <1>3, LastStep
<1>5. IsFiniteSet(View(p))  BY <1>3, AddFinite
<1>6. IsFiniteSet(db')
  <2>1. PICK V : V = View(p)  OBVIOUS
  <2>2. IsFiniteSet(V \cup N)  BY <2>1, <1>5, FS_Union
  <2> QED  BY <2>1, <2>2
<1>7. \A i \in D : i \in Ids(A) <=> i \in Ids(req[p].add)
  BY <1>1, <1>2, CommitIssues
<1>8. \A i : i \in D \ Ids(A) <=> i \in Removed(req[p])  BY <1>2, <1>7 DEF Removed
<1>9. View(p) = Vis(req[p])  BY DEF View, Vis
<1>10. Families(A, D)
  <2>1. \A x \in db, d \in db' : /\ x.t \in Typed \cup {"authority"} /\ x.id \in D \ Ids(A)
                                 /\ d.t = "devices"
                                 => d.id # x.device
    BY <1>3, <1>8, <1>9 DEF Jointly
  <2>2. \A d, x \in db : /\ d.t = "devices" /\ d.id \in D \ Ids(A)
                         /\ x.t \in {"nodes", "gates"} /\ x.device = d.id
                         => x.id \in D \ Ids(A)
    BY <1>3, <1>8 DEF Jointly
  <2>3. \A d \in A : d.t = "devices" /\ d.id \notin Ids(db) =>
          /\ \E x \in A : x.t = TypeTable(d.kind) /\ x.device = d.id
          /\ \E a \in A : a.t = "authority" /\ a.device = d.id /\ a.user = d.user
    BY <1>1 DEF Begets
  <2>4. \A x \in A : x.t \in {"nodes", "gates"} /\ x.id \notin Ids(db) =>
          \E d \in A : d.t = "devices" /\ d.id = x.device /\ d.id \notin Ids(db)
    BY <1>1 DEF Begets
  <2> QED  BY <2>1, <2>2, <2>3, <2>4 DEF Families
<1>11. Inherits(A, D)
  <2>1. \A g \in db : g.t = "groups" /\ g.default /\ g.id \in D \ Ids(A) =>
           \A u \in db' : u.t = "users" => u.id # g.user
    BY <1>3, <1>4, <1>8, <1>9 DEF Leaving
  <2>2. \A u \in A : u.t = "users" /\ u.id \notin Ids(db) =>
           \E g \in A : /\ IsDefault(g, u.id)
                        /\ \A x \in A : IsDefault(x, u.id) => x = g
    BY <1>1 DEF Begets, IsDefault
  <2> QED  BY <2>1, <2>2 DEF Inherits
<1>12. /\ Families(req[p].add \cup N, req[p].del) /\ Inherits(req[p].add \cup N, req[p].del)
  BY <1>1, <1>2, <1>10, <1>11
<1> QED  BY <1>6, <1>12, CommitKeeps

\* The end of a transaction.
LEMMA CommitStep ==
    ASSUME Inv, NEW p \in Slots, Commit(p)
    PROVE  Inv'
<1> DEFINE r == req[p]
<1>1. StoreInv /\ IdInv /\ ProgramInv  BY DEF Inv
<1>2. At(p, "commit") /\ db' = View(p) /\ Proceed(p) /\ UNCHANGED <<redis, todo, bare>>
  BY DEF Commit
<1>3. Left(r) = {"commit"}  BY <1>1, <1>2, LastStep
<1>4. Active(p) /\ Program(r) /\ Shape(r) /\ "commit" \in Uses(r)  BY <1>2, Turn
<1>5. r.op \in {"delete", "modify", "signup", "delete_user"} \cup EditOps
  BY <1>4, StepOpsMore
<1>6. r.txn  BY <1>4, <1>5, Transactions DEF Program
<1>7. r.add \subseteq Row /\ Locked(r)  BY <1>1 DEF StoreInv, IdInv, Request
<1>8. PICK N : N = {}  OBVIOUS
<1>9. Begets(r.add, N)
  <2>1. CASE r.op = "delete"
    <3>1. r.add = {}  BY <2>1, <1>4, ShapeFor DEF DeleteShape
    <3> QED  BY <3>1 DEF Begets
  <2>2. CASE r.op = "delete_user"
    <3>1. r.add = {}  BY <2>2, <1>4, ShapeFor DEF DropShape
    <3> QED  BY <3>1 DEF Begets
  <2>3. CASE r.op = "modify"
    <3>1. ModifyShape(r)  BY <2>3, <1>4, ShapeFor
    <3>2. \A x \in r.add : x.id \in Ids(db)  BY <3>1, <1>7 DEF ModifyShape, Locked
    <3> QED  BY <3>2 DEF Begets
  <2>4. CASE r.op \in EditOps
    <3>1. EditShape(r)  BY <2>4, <1>4, ShapeFor
    <3>2. \A x \in r.add : x.t \in {"links", "groups"}  BY <3>1 DEF EditShape
    <3> QED  BY <3>2 DEF Begets
  <2>5. CASE r.op = "signup"
    <3>1. SignupShape(r)  BY <2>5, <1>4, ShapeFor
    <3>2. /\ \E x \in r.add : x.t = "groups"
          /\ \A x \in r.add : \/ x.t = "users" /\ x.id = r.user
                              \/ x.t = "groups" /\ x.user = r.user /\ x.default
          /\ \A x, y \in r.add : x.t = y.t => x = y
      BY <3>1, <1>3 DEF SignupShape
    <3> QED  BY <3>2 DEF Begets, IsDefault
  <2> QED  BY <1>5, <2>1, <2>2, <2>3, <2>4, <2>5
<1>10. N \subseteq Row /\ IsFiniteSet(N) /\ UniqueIds(N)
  BY <1>8, FS_EmptySet DEF UniqueIds
<1>11. \A x \in N : x.t = "authority" /\ Created(p, x)  BY <1>8
<1>12. db' = View(p) \cup N  BY <1>2, <1>8
<1>13. PICK s \in {"commit", "device_commit"} : s = "commit"  OBVIOUS
<1>14. At(p, s)  BY <1>2, <1>13
<1> HIDE <1>8, <1>13
<1> QED  BY <1>2, <1>4, <1>6, <1>9, <1>10, <1>11, <1>12, <1>14, CommitDone

\* The end of the transaction of a new device.
LEMMA DeviceCommitStep ==
    ASSUME Inv, NEW p \in Slots, DeviceCommit(p)
    PROVE  Inv'
<1> DEFINE r == req[p]
<1>1. StoreInv /\ NumberInv /\ ApartInv /\ IdInv /\ ProgramInv  BY DEF Inv
<1>2. PICK a : a = AuthorityRow(NewId(p), r.device, r.user)  OBVIOUS
<1>3. PICK N : N = {a}  OBVIOUS
<1>4. /\ At(p, "device_commit") /\ Proceed(p) /\ UNCHANGED <<redis, todo, bare>>
      /\ db' = View(p) \cup N
  BY <1>2, <1>3 DEF DeviceCommit
<1>5. Left(r) = {"device_commit"}  BY <1>1, <1>4, LastStep
<1>6. /\ Active(p) /\ Program(r) /\ Shape(r) /\ "device_commit" \in Uses(r)
      /\ r \in Request
  BY <1>4, Turn
<1>7. r.op \in {"create", "rebind"}  BY <1>6, StepOps
<1>8. r.txn  BY <1>6, <1>7, Transactions DEF Program
<1>9. r.add \subseteq Row /\ Locked(r) /\ r.device \in Nat /\ r.user \in Nat
  BY <1>1, <1>6, RequestIs DEF IdInv
<1>10. NewId(p) \in Nat
  <2>1. PICK m : m = [r EXCEPT !.made = @ + 2]  OBVIOUS
  <2>2. m.no = r.no /\ m.made = r.made + 2  BY <2>1, <1>6 DEF Request
  <2> QED  BY <1>1, <1>6, <2>2, NewIds
<1>11. a.t = "authority" /\ a.id = NewId(p) /\ a.device = r.device /\ a.user = r.user
  BY <1>2 DEF AuthorityRow
<1>12. a \in Row  BY <1>2, <1>9, <1>10 DEF AuthorityRow, AuthorityRows, Row
<1>13. DeviceSet(r)  BY <1>5, <1>7 DEF DeviceSet
<1>14. Created(p, a)
  <2>1. Refs(a) = {NewId(p), r.device}  BY <1>11 DEF Refs
  <2>2. r.device \in ReqRefs(r)  BY <1>13 DEF ReqRefs
  <2> QED  BY <2>1, <2>2, <1>11 DEF Created
<1>15. Begets(r.add, N)
  <2>1. CASE r.op = "create"
    <3>1. CreateShape(r)  BY <2>1, <1>6, ShapeFor
    <3>2. /\ r.kind \in Kinds \ {"LoRaNode"} /\ r.del = {}
          /\ \E x \in r.add : x.t = "devices"
          /\ \E x \in r.add : x.t = TypeTable(TypeOf(r.kind))
          /\ \A x \in r.add :
                /\ x.t # "users"
                /\ x.t = "devices" => /\ x.id = r.device /\ x.user = r.user
                                      /\ x.kind = TypeOf(r.kind)
                /\ x.t \in Typed => x.device = r.device
      BY <3>1, <1>5 DEF CreateShape, RowSteps
    <3>3. TypeTable(TypeOf(r.kind)) \in Typed
      BY <3>2 DEF Kinds, TypeTable, TypeOf, IsNode, Typed
    <3>4. \A x \in r.add : x.id \notin Ids(db)  BY <3>2, <1>9 DEF Locked
    <3>5. \A d \in r.add : d.t = "devices" =>
             /\ \E x \in r.add : x.t = TypeTable(d.kind) /\ x.device = d.id
             /\ \E x \in N : x.t = "authority" /\ x.device = d.id /\ x.user = d.user
      BY <3>2, <3>3, <1>3, <1>11
    <3>6. \A x \in r.add : x.t \in {"nodes", "gates"} =>
             \E d \in r.add : d.t = "devices" /\ d.id = x.device /\ d.id \notin Ids(db)
      BY <3>2, <3>4 DEF Typed
    <3> QED  BY <3>2, <3>5, <3>6 DEF Begets
  <2>2. CASE r.op = "rebind"
    <3>1. RebindShape(r)  BY <2>2, <1>6, ShapeFor
    <3>2. \A x \in r.add : x.id \in Ids(db) \/ x.t \in {"groups", "links"}
      BY <3>1, <1>9 DEF RebindShape, Locked
    <3> QED  BY <3>2 DEF Begets
  <2> QED  BY <1>7, <2>1, <2>2
<1>16. N \subseteq Row /\ IsFiniteSet(N) /\ UniqueIds(N)
  BY <1>3, <1>12, FS_Singleton DEF UniqueIds
<1>17. \A x \in N : x.t = "authority" /\ Created(p, x)  BY <1>3, <1>11, <1>14
<1>18. PICK s \in {"commit", "device_commit"} : s = "device_commit"  OBVIOUS
<1>19. At(p, s)  BY <1>4, <1>18
<1> HIDE <1>2, <1>3, <1>18
<1> QED  BY <1>4, <1>6, <1>8, <1>15, <1>16, <1>17, <1>19, CommitDone

\* A handler that fails, or whose client has gone.
LEMMA DeadlockStep ==
    ASSUME Inv, NEW p \in Slots, Deadlock(p)
    PROVE  Inv'
<1>1. waits[p] # {} /\ Fail(p) /\ UNCHANGED <<todo, bare>>  BY DEF Deadlock, InCycle
<1>2. Active(p)  BY <1>1 DEF Inv, StoreInv
<1> QED  BY <1>1, <1>2, FailKeeps

\* A handler that is given up leaves nothing in the tables.
LEMMA AbortStep ==
    ASSUME Inv, NEW p \in Slots, Abort(p)
    PROVE  Inv'
<1>1. Active(p) /\ Fail(p) /\ UNCHANGED <<todo, bare>>  BY DEF Abort
<1> QED  BY <1>1, FailKeeps

\* Nothing rests on a session, a code or a count being there.
LEMMA KeysExpire ==
    ASSUME Inv, UNCHANGED <<db, req, waits, todo, bare>>, redis' \in Stored,
           redis'.node = redis.node, redis'.gate = redis.gate, redis'.snap = redis.snap,
           redis'.groups = redis.groups, redis'.session \subseteq redis.session
    PROVE  Inv'
<1>1. /\ StoreInv /\ NumberInv /\ ApartInv /\ IdInv /\ CompatInv /\ KeyInv
      /\ ProgramInv /\ OwnedInv /\ JointInv /\ DefaultInv
  BY DEF Inv
<1>2. CachedAll' = CachedAll  BY DEF CachedAll
<1>3. Everywhere' = Everywhere  BY <1>2 DEF Everywhere
<1>4. StoreInv'  BY <1>1 DEF StoreInv, Active
<1>5. NumberInv'  BY <1>1 DEF NumberInv, Active
<1>6. \A i : Known(i)' => Known(i)  BY <1>2 DEF Known
<1>7. ApartInv'  BY <1>1, <1>6 DEF ApartInv, Apart, Private, Active
<1>8. IdInv'  BY <1>1 DEF IdInv, Locked
<1>9. CompatInv'  BY <1>1, <1>3 DEF CompatInv
<1>10. KeyInv'  BY <1>1 DEF KeyInv
<1>11. ProgramInv'  BY <1>1 DEF ProgramInv
<1>12. OwnedInv'  BY <1>1 DEF OwnedInv, RecordOwned, Told, RecordOf
<1>13. JointInv'  BY <1>1 DEF JointInv, StoredWhole, Jointly, Vis
<1>14. DefaultInv'  BY <1>1, <1>3 DEF DefaultInv, TheDefault, Leaving, Vis
<1> QED  BY <1>4, <1>5, <1>7, <1>8, <1>9, <1>10, <1>11, <1>12, <1>13, <1>14 DEF Inv

\* Keys of redis expire.
LEMMA ExpireStep ==
    ASSUME Inv, Expire
    PROVE  Inv'
<1>1. redis \in Stored  BY DEF Inv, StoreInv
<1>2. UNCHANGED <<db, req, waits, todo, bare>>  BY DEF Expire
<1>3. CASE \E u \in redis.session : redis' = [redis EXCEPT !.session = @ \ {u}]
  <2>1. /\ redis' \in Stored /\ redis'.session \subseteq redis.session
        /\ redis'.node = redis.node /\ redis'.gate = redis.gate /\ redis'.snap = redis.snap
        /\ redis'.groups = redis.groups
    BY <1>1, <1>3 DEF Stored
  <2> QED  BY <1>2, <2>1, KeysExpire
<1>4. CASE \E n \in redis.code : redis' = [redis EXCEPT !.code = @ \ {n}]
  <2>1. /\ redis' \in Stored /\ redis'.session \subseteq redis.session
        /\ redis'.node = redis.node /\ redis'.gate = redis.gate /\ redis'.snap = redis.snap
        /\ redis'.groups = redis.groups
    BY <1>1, <1>4 DEF Stored
  <2> QED  BY <1>2, <2>1, KeysExpire
<1>5. CASE \E n \in Names : redis' = [redis EXCEPT !.sent[n] = 0]
  <2>1. 0 \in 0 .. MaxCount  BY ApiAssumption
  <2>2. /\ redis' \in Stored /\ redis'.session \subseteq redis.session
        /\ redis'.node = redis.node /\ redis'.gate = redis.gate /\ redis'.snap = redis.snap
        /\ redis'.groups = redis.groups
    BY <1>1, <1>5, <2>1 DEF Stored
  <2> QED  BY <1>2, <2>2, KeysExpire
<1> QED  BY <1>3, <1>4, <1>5 DEF Expire

\* Nothing happens.
LEMMA Stutter ==
    ASSUME Inv, UNCHANGED apiVars
    PROVE  Inv'
<1>1. UNCHANGED <<db, redis, req, waits, todo, bare>>  BY DEF apiVars
<1>2. redis' \in Stored  BY <1>1 DEF Inv, StoreInv
<1> QED  BY <1>1, <1>2, KeysExpire

-----------------------------------------------------------------------------
(* Arrivals.  The handlers, one list of steps at a time. *)

\* The handlers of the devices, up to the links.
LEMMA DeviceRuns ==
    ASSUME NEW w
    PROVE  /\ w = <<"address", "check", "device", "node", "set_eui", "set_addr">> =>
              Runs(w, {"address", "check", "device", "node", "set_eui", "set_addr"})
           /\ w = <<"check", "device", "node", "set_eui", "set_addr">> =>
              Runs(w, {"check", "device", "node", "set_eui", "set_addr"})
           /\ w = <<"device", "gate", "set_gate">> =>
              Runs(w, {"device", "gate", "set_gate"})
           /\ w = <<"device", "mqtt">> => Runs(w, {"device", "mqtt"})
           /\ w = <<"device", "snap", "set_snap">> =>
              Runs(w, {"device", "snap", "set_snap"})
           /\ w = <<"blue_find", "blue_update", "del_eui", "del_addr", "set_eui",
                     "set_addr">> =>
              Runs(w, {"blue_find", "blue_update", "del_eui", "del_addr", "set_eui",
                        "set_addr"})
           /\ w = <<"default", "link_default", "link", "device_commit">> =>
              Runs(w, {"default", "link_default", "link", "device_commit"})
           /\ w = <<"delete_find", "unlink_all", "find_type">> =>
              Runs(w, {"delete_find", "unlink_all", "find_type"})
           /\ w = <<"modify_find", "script", "locate", "exists", "hset",
                     "modify_rows", "commit">> =>
              Runs(w, {"modify_find", "script", "locate", "exists", "hset",
                        "modify_rows", "commit"})
           /\ w = <<"modify_find", "modify_rows", "commit">> =>
              Runs(w, {"modify_find", "modify_rows", "commit"})
<1>1. ASSUME w = <<"address", "check", "device", "node", "set_eui", "set_addr">>
      PROVE  Runs(w, {"address", "check", "device", "node", "set_eui", "set_addr"})
  <2>1. w \in Seq(StepNames) /\ w # <<>> /\ 1 .. Len(w) = {1, 2, 3, 4, 5, 6}
    BY <1>1 DEF StepNames
  <2> QED  BY <1>1, <2>1, Levels DEF Runs, Ordered, StepsIn
<1>2. ASSUME w = <<"check", "device", "node", "set_eui", "set_addr">>
      PROVE  Runs(w, {"check", "device", "node", "set_eui", "set_addr"})
  <2>1. w \in Seq(StepNames) /\ w # <<>> /\ 1 .. Len(w) = {1, 2, 3, 4, 5}
    BY <1>2 DEF StepNames
  <2> QED  BY <1>2, <2>1, Levels DEF Runs, Ordered, StepsIn
<1>3. ASSUME w = <<"device", "gate", "set_gate">>
      PROVE  Runs(w, {"device", "gate", "set_gate"})
  <2>1. w \in Seq(StepNames) /\ w # <<>> /\ 1 .. Len(w) = {1, 2, 3}
    BY <1>3 DEF StepNames
  <2> QED  BY <1>3, <2>1, Levels DEF Runs, Ordered, StepsIn
<1>4. ASSUME w = <<"device", "mqtt">>
      PROVE  Runs(w, {"device", "mqtt"})
  <2>1. w \in Seq(StepNames) /\ w # <<>> /\ 1 .. Len(w) = {1, 2}
    BY <1>4 DEF StepNames
  <2> QED  BY <1>4, <2>1, Levels DEF Runs, Ordered, StepsIn
<1>5. ASSUME w = <<"device", "snap", "set_snap">>
      PROVE  Runs(w, {"device", "snap", "set_snap"})
  <2>1. w \in Seq(StepNames) /\ w # <<>> /\ 1 .. Len(w) = {1, 2, 3}
    BY <1>5 DEF StepNames
  <2> QED  BY <1>5, <2>1, Levels DEF Runs, Ordered, StepsIn
<1>6. ASSUME w = <<"blue_find", "blue_update", "del_eui", "del_addr", "set_eui",
                   "set_addr">>
      PROVE  Runs(w, {"blue_find", "blue_update", "del_eui", "del_addr", "set_eui",
                      "set_addr"})
  <2>1. w \in Seq(StepNames) /\ w # <<>> /\ 1 .. Len(w) = {1, 2, 3, 4, 5, 6}
    BY <1>6 DEF StepNames
  <2> QED  BY <1>6, <2>1, Levels DEF Runs, Ordered, StepsIn
<1>7. ASSUME w = <<"default", "link_default", "link", "device_commit">>
      PROVE  Runs(w, {"default", "link_default", "link", "device_commit"})
  <2>1. w \in Seq(StepNames) /\ w # <<>> /\ 1 .. Len(w) = {1, 2, 3, 4}
    BY <1>7 DEF StepNames
  <2> QED  BY <1>7, <2>1, Levels DEF Runs, Ordered, StepsIn
<1>8. ASSUME w = <<"delete_find", "unlink_all", "find_type">>
      PROVE  Runs(w, {"delete_find", "unlink_all", "find_type"})
  <2>1. w \in Seq(StepNames) /\ w # <<>> /\ 1 .. Len(w) = {1, 2, 3}
    BY <1>8 DEF StepNames
  <2> QED  BY <1>8, <2>1, Levels DEF Runs, Ordered, StepsIn
<1>9. ASSUME w = <<"modify_find", "script", "locate", "exists", "hset", "modify_rows",
                   "commit">>
      PROVE  Runs(w, {"modify_find", "script", "locate", "exists", "hset",
                      "modify_rows", "commit"})
  <2>1. w \in Seq(StepNames) /\ w # <<>> /\ 1 .. Len(w) = {1, 2, 3, 4, 5, 6, 7}
    BY <1>9 DEF StepNames
  <2> QED  BY <1>9, <2>1, Levels DEF Runs, Ordered, StepsIn
<1>10. ASSUME w = <<"modify_find", "modify_rows", "commit">>
      PROVE  Runs(w, {"modify_find", "modify_rows", "commit"})
  <2>1. w \in Seq(StepNames) /\ w # <<>> /\ 1 .. Len(w) = {1, 2, 3}
    BY <1>10 DEF StepNames
  <2> QED  BY <1>10, <2>1, Levels DEF Runs, Ordered, StepsIn
<1> QED  BY <1>1, <1>2, <1>3, <1>4, <1>5, <1>6, <1>7, <1>8, <1>9, <1>10

\* Those of the groups.
LEMMA GroupRuns ==
    ASSUME NEW w
    PROVE  /\ w = <<"new_group", "uncache">> => Runs(w, {"new_group", "uncache"})
           /\ w = <<"edit_find", "link", "edit_row", "commit">> =>
              Runs(w, {"edit_find", "link", "edit_row", "commit"})
           /\ w = <<"edit_find", "uncache", "unlink", "edit_row", "commit">> =>
              Runs(w, {"edit_find", "uncache", "unlink", "edit_row", "commit"})
           /\ w = <<"erase_group", "commit">> => Runs(w, {"erase_group", "commit"})
           /\ w = <<"uncache", "unlink">> => Runs(w, {"uncache", "unlink"})
           /\ w = <<"load_groups", "read_groups", "save_groups">> =>
              Runs(w, {"load_groups", "read_groups", "save_groups"})
           /\ w = <<"load_groups", "look_default", "uncache", "read_groups",
                     "save_groups">> =>
              Runs(w, {"load_groups", "look_default", "uncache", "read_groups",
                        "save_groups"})
           /\ w = <<"default", "rank", "reorder">> =>
              Runs(w, {"default", "rank", "reorder"})
           /\ w = <<"rank", "reorder">> => Runs(w, {"rank", "reorder"})
<1>1. ASSUME w = <<"new_group", "uncache">>
      PROVE  Runs(w, {"new_group", "uncache"})
  <2>1. w \in Seq(StepNames) /\ w # <<>> /\ 1 .. Len(w) = {1, 2}
    BY <1>1 DEF StepNames
  <2> QED  BY <1>1, <2>1, Levels DEF Runs, Ordered, StepsIn
<1>2. ASSUME w = <<"edit_find", "link", "edit_row", "commit">>
      PROVE  Runs(w, {"edit_find", "link", "edit_row", "commit"})
  <2>1. w \in Seq(StepNames) /\ w # <<>> /\ 1 .. Len(w) = {1, 2, 3, 4}
    BY <1>2 DEF StepNames
  <2> QED  BY <1>2, <2>1, Levels DEF Runs, Ordered, StepsIn
<1>3. ASSUME w = <<"edit_find", "uncache", "unlink", "edit_row", "commit">>
      PROVE  Runs(w, {"edit_find", "uncache", "unlink", "edit_row", "commit"})
  <2>1. w \in Seq(StepNames) /\ w # <<>> /\ 1 .. Len(w) = {1, 2, 3, 4, 5}
    BY <1>3 DEF StepNames
  <2> QED  BY <1>3, <2>1, Levels DEF Runs, Ordered, StepsIn
<1>4. ASSUME w = <<"erase_group", "commit">>
      PROVE  Runs(w, {"erase_group", "commit"})
  <2>1. w \in Seq(StepNames) /\ w # <<>> /\ 1 .. Len(w) = {1, 2}
    BY <1>4 DEF StepNames
  <2> QED  BY <1>4, <2>1, Levels DEF Runs, Ordered, StepsIn
<1>5. ASSUME w = <<"uncache", "unlink">>
      PROVE  Runs(w, {"uncache", "unlink"})
  <2>1. w \in Seq(StepNames) /\ w # <<>> /\ 1 .. Len(w) = {1, 2}
    BY <1>5 DEF StepNames
  <2> QED  BY <1>5, <2>1, Levels DEF Runs, Ordered, StepsIn
<1>6. ASSUME w = <<"load_groups", "read_groups", "save_groups">>
      PROVE  Runs(w, {"load_groups", "read_groups", "save_groups"})
  <2>1. w \in Seq(StepNames) /\ w # <<>> /\ 1 .. Len(w) = {1, 2, 3}
    BY <1>6 DEF StepNames
  <2> QED  BY <1>6, <2>1, Levels DEF Runs, Ordered, StepsIn
<1>7. ASSUME w = <<"load_groups", "look_default", "uncache", "read_groups",
                   "save_groups">>
      PROVE  Runs(w, {"load_groups", "look_default", "uncache", "read_groups",
                      "save_groups"})
  <2>1. w \in Seq(StepNames) /\ w # <<>> /\ 1 .. Len(w) = {1, 2, 3, 4, 5}
    BY <1>7 DEF StepNames
  <2> QED  BY <1>7, <2>1, Levels DEF Runs, Ordered, StepsIn
<1>8. ASSUME w = <<"default", "rank", "reorder">>
      PROVE  Runs(w, {"default", "rank", "reorder"})
  <2>1. w \in Seq(StepNames) /\ w # <<>> /\ 1 .. Len(w) = {1, 2, 3}
    BY <1>8 DEF StepNames
  <2> QED  BY <1>8, <2>1, Levels DEF Runs, Ordered, StepsIn
<1>9. ASSUME w = <<"rank", "reorder">>
      PROVE  Runs(w, {"rank", "reorder"})
  <2>1. w \in Seq(StepNames) /\ w # <<>> /\ 1 .. Len(w) = {1, 2}
    BY <1>9 DEF StepNames
  <2> QED  BY <1>9, <2>1, Levels DEF Runs, Ordered, StepsIn
<1> QED  BY <1>1, <1>2, <1>3, <1>4, <1>5, <1>6, <1>7, <1>8, <1>9

\* Those of the users.
LEMMA UserRuns ==
    ASSUME NEW w
    PROVE  /\ w = <<"login_find", "tokens", "session">> =>
              Runs(w, {"login_find", "tokens", "session"})
           /\ w = <<"refresh_find", "tokens", "session">> =>
              Runs(w, {"refresh_find", "tokens", "session"})
           /\ w = <<"find_name", "new_user", "new_user_group", "commit">> =>
              Runs(w, {"find_name", "new_user", "new_user_group", "commit"})
           /\ w = <<"mail_find", "mail_count", "mail_sent", "mail_code">> =>
              Runs(w, {"mail_find", "mail_count", "mail_sent", "mail_code"})
           /\ w = <<"valid_code", "set_password">> =>
              Runs(w, {"valid_code", "set_password"})
           /\ w = <<"valid_code", "find_user">> =>
              Runs(w, {"valid_code", "find_user"})
           /\ w = <<"drop_scripts", "collect", "drop_devices", "drop_tokens",
                     "drop_groups", "drop_links", "drop_user", "commit">> =>
              Runs(w, {"drop_scripts", "collect", "drop_devices", "drop_tokens",
                        "drop_groups", "drop_links", "drop_user", "commit"})
           /\ w = <<"count_devices", "drop_script">> =>
              Runs(w, {"count_devices", "drop_script"})
<1>1. ASSUME w = <<"login_find", "tokens", "session">>
      PROVE  Runs(w, {"login_find", "tokens", "session"})
  <2>1. w \in Seq(StepNames) /\ w # <<>> /\ 1 .. Len(w) = {1, 2, 3}
    BY <1>1 DEF StepNames
  <2> QED  BY <1>1, <2>1, Levels DEF Runs, Ordered, StepsIn
<1>2. ASSUME w = <<"refresh_find", "tokens", "session">>
      PROVE  Runs(w, {"refresh_find", "tokens", "session"})
  <2>1. w \in Seq(StepNames) /\ w # <<>> /\ 1 .. Len(w) = {1, 2, 3}
    BY <1>2 DEF StepNames
  <2> QED  BY <1>2, <2>1, Levels DEF Runs, Ordered, StepsIn
<1>3. ASSUME w = <<"find_name", "new_user", "new_user_group", "commit">>
      PROVE  Runs(w, {"find_name", "new_user", "new_user_group", "commit"})
  <2>1. w \in Seq(StepNames) /\ w # <<>> /\ 1 .. Len(w) = {1, 2, 3, 4}
    BY <1>3 DEF StepNames
  <2> QED  BY <1>3, <2>1, Levels DEF Runs, Ordered, StepsIn
<1>4. ASSUME w = <<"mail_find", "mail_count", "mail_sent", "mail_code">>
      PROVE  Runs(w, {"mail_find", "mail_count", "mail_sent", "mail_code"})
  <2>1. w \in Seq(StepNames) /\ w # <<>> /\ 1 .. Len(w) = {1, 2, 3, 4}
    BY <1>4 DEF StepNames
  <2> QED  BY <1>4, <2>1, Levels DEF Runs, Ordered, StepsIn
<1>5. ASSUME w = <<"valid_code", "set_password">>
      PROVE  Runs(w, {"valid_code", "set_password"})
  <2>1. w \in Seq(StepNames) /\ w # <<>> /\ 1 .. Len(w) = {1, 2}
    BY <1>5 DEF StepNames
  <2> QED  BY <1>5, <2>1, Levels DEF Runs, Ordered, StepsIn
<1>6. ASSUME w = <<"valid_code", "find_user">>
      PROVE  Runs(w, {"valid_code", "find_user"})
  <2>1. w \in Seq(StepNames) /\ w # <<>> /\ 1 .. Len(w) = {1, 2}
    BY <1>6 DEF StepNames
  <2> QED  BY <1>6, <2>1, Levels DEF Runs, Ordered, StepsIn
<1>7. ASSUME w = <<"drop_scripts", "collect", "drop_devices", "drop_tokens",
                   "drop_groups", "drop_links", "drop_user", "commit">>
      PROVE  Runs(w, {"drop_scripts", "collect", "drop_devices", "drop_tokens",
                      "drop_groups", "drop_links", "drop_user", "commit"})
  <2>1. w \in Seq(StepNames) /\ w # <<>> /\ 1 .. Len(w) = {1, 2, 3, 4, 5, 6, 7, 8}
    BY <1>7 DEF StepNames
  <2> QED  BY <1>7, <2>1, Levels DEF Runs, Ordered, StepsIn
<1>8. ASSUME w = <<"count_devices", "drop_script">>
      PROVE  Runs(w, {"count_devices", "drop_script"})
  <2>1. w \in Seq(StepNames) /\ w # <<>> /\ 1 .. Len(w) = {1, 2}
    BY <1>8 DEF StepNames
  <2> QED  BY <1>8, <2>1, Levels DEF Runs, Ordered, StepsIn
<1> QED  BY <1>1, <1>2, <1>3, <1>4, <1>5, <1>6, <1>7, <1>8

\* A list of one step.
LEMMA OneRuns ==
    ASSUME NEW s \in StepNames, NEW w, w = <<s>>
    PROVE  Runs(w, {s})
<1>1. w \in Seq(StepNames) /\ w # <<>> /\ 1 .. Len(w) = {1}  OBVIOUS
<1> QED  BY <1>1 DEF Runs, Ordered, StepsIn

\* Which list is whose.
LEMMA HandlerDomains ==
    /\ DOMAIN GroupHandlers = {"new_group", "edit_link", "edit_unlink", "erase_group",
                               "unlink", "get_group", "get_all"}
    /\ DOMAIN TokenHandlers = {"login", "refresh"}
    /\ DOMAIN SignupHandlers = {"signup", "mail", "password"}
    /\ DOMAIN DeleteHandlers = {"delete_user"}
    /\ DOMAIN ScriptHandlers = {"new_script", "edit_script", "drop_script"}
    /\ DOMAIN AccountHandlers = {"new_integration", "drop_integration"}
BY DEF GroupHandlers, TokenHandlers, SignupHandlers, DeleteHandlers, ScriptHandlers,
       AccountHandlers

\* The list of steps that is looked up, by the operation.
LEMMA HandlerOf ==
    ASSUME NEW r
    PROVE  /\ r.op \in {"create", "rebind", "delete", "modify"} => Handler(r) = DeviceHandler(r)
           /\ r.op = "top" => Handler(r) = OrderHandler(r)
           /\ r.op = "info" => Handler(r) = <<"set_info">>
           /\ r.op \in DOMAIN GroupHandlers => Handler(r) = GroupHandlers[r.op]
           /\ r.op \in DOMAIN TokenHandlers => Handler(r) = TokenHandlers[r.op]
           /\ r.op \in DOMAIN SignupHandlers => Handler(r) = SignupHandlers[r.op]
           /\ r.op \in DOMAIN DeleteHandlers => Handler(r) = DeleteHandlers[r.op]
           /\ r.op \in DOMAIN ScriptHandlers => Handler(r) = ScriptHandlers[r.op]
           /\ r.op \in DOMAIN AccountHandlers => Handler(r) = AccountHandlers[r.op]
BY HandlerDomains DEF Handler

\* What a handler has to do when it starts.
Starts(r, S) ==
    /\ S \subseteq Uses(r) /\ "find_default" \notin S
    /\ r.op = "create" => /\ "device" \in S /\ S \cap RowSteps # {}
                          /\ "node" \in S => "set_addr" \in S
                          /\ "gate" \in S => "set_gate" \in S
                          /\ "snap" \in S => "set_snap" \in S
                          /\ r.kind = "OTAA" => "address" \in S
    /\ r.op = "rebind" => {"blue_find", "blue_update", "set_addr"} \subseteq S
    /\ r.op \in {"create", "rebind"} => "default" \in S
    /\ r.op = "delete" => {"delete_find", "find_type"} \subseteq S
    /\ r.op = "modify" => /\ "locate" \in S => {"exists", "hset", "modify_find"} \subseteq S
                          /\ "exists" \in S => "hset" \in S
    /\ r.op = "signup" => {"find_name", "new_user", "new_user_group"} \subseteq S
    /\ r.op = "delete_user" => {"valid_code", "find_user", "drop_groups", "drop_user"}
                               \subseteq S
    /\ r.op \in {"get_group", "get_all"} => "read_groups" \in S
    /\ r.op \in Open \ {"password"} => S \cap Finding # {}

\* The handlers of the groups.
LEMMA GroupStarts ==
    ASSUME NEW r, r.op \in DOMAIN GroupHandlers
    PROVE  \E S : Runs(Handler(r), S) /\ Starts(r, S)
<1>1. PICK w : w = Handler(r)  OBVIOUS
<1>2. CASE r.op = "new_group"
  <2>1. w = <<"new_group", "uncache">>
    BY <1>1, <1>2, HandlerOf, HandlerDomains DEF GroupHandlers
  <2>2. PICK S : S = {"new_group", "uncache"}  OBVIOUS
  <2>3. Runs(w, S)  BY <2>1, <2>2, GroupRuns
  <2>4. Starts(r, S)  BY <1>2, <2>2 DEF Starts, Uses, Open, Finding
  <2> QED  BY <1>1, <2>3, <2>4
<1>3. CASE r.op = "edit_link"
  <2>1. w = <<"edit_find", "link", "edit_row", "commit">>
    BY <1>1, <1>3, HandlerOf, HandlerDomains DEF GroupHandlers
  <2>2. PICK S : S = {"edit_find", "link", "edit_row", "commit"}  OBVIOUS
  <2>3. Runs(w, S)  BY <2>1, <2>2, GroupRuns
  <2>4. Starts(r, S)  BY <1>3, <2>2 DEF Starts, Uses, Open, Finding
  <2> QED  BY <1>1, <2>3, <2>4
<1>4. CASE r.op = "edit_unlink"
  <2>1. w = <<"edit_find", "uncache", "unlink", "edit_row", "commit">>
    BY <1>1, <1>4, HandlerOf, HandlerDomains DEF GroupHandlers
  <2>2. PICK S : S = {"edit_find", "uncache", "unlink", "edit_row", "commit"}  OBVIOUS
  <2>3. Runs(w, S)  BY <2>1, <2>2, GroupRuns
  <2>4. Starts(r, S)  BY <1>4, <2>2 DEF Starts, Uses, Open, Finding
  <2> QED  BY <1>1, <2>3, <2>4
<1>5. CASE r.op = "erase_group"
  <2>1. w = <<"erase_group", "commit">>
    BY <1>1, <1>5, HandlerOf, HandlerDomains DEF GroupHandlers
  <2>2. PICK S : S = {"erase_group", "commit"}  OBVIOUS
  <2>3. Runs(w, S)  BY <2>1, <2>2, GroupRuns
  <2>4. Starts(r, S)  BY <1>5, <2>2 DEF Starts, Uses, Open, Finding
  <2> QED  BY <1>1, <2>3, <2>4
<1>6. CASE r.op = "unlink"
  <2>1. w = <<"uncache", "unlink">>
    BY <1>1, <1>6, HandlerOf, HandlerDomains DEF GroupHandlers
  <2>2. PICK S : S = {"uncache", "unlink"}  OBVIOUS
  <2>3. Runs(w, S)  BY <2>1, <2>2, GroupRuns
  <2>4. Starts(r, S)  BY <1>6, <2>2 DEF Starts, Uses, Open, Finding
  <2> QED  BY <1>1, <2>3, <2>4
<1>7. CASE r.op = "get_group"
  <2>1. w = <<"load_groups", "read_groups", "save_groups">>
    BY <1>1, <1>7, HandlerOf, HandlerDomains DEF GroupHandlers
  <2>2. PICK S : S = {"load_groups", "read_groups", "save_groups"}  OBVIOUS
  <2>3. Runs(w, S)  BY <2>1, <2>2, GroupRuns
  <2>4. Starts(r, S)  BY <1>7, <2>2 DEF Starts, Uses, Open, Finding
  <2> QED  BY <1>1, <2>3, <2>4
<1>8. CASE r.op = "get_all"
  <2>1. w = <<"load_groups", "look_default", "uncache", "read_groups", "save_groups">>
    BY <1>1, <1>8, HandlerOf, HandlerDomains DEF GroupHandlers
  <2>2. PICK S : S = {"load_groups", "look_default", "uncache", "read_groups",
                     "save_groups"}  OBVIOUS
  <2>3. Runs(w, S)  BY <2>1, <2>2, GroupRuns
  <2>4. Starts(r, S)  BY <1>8, <2>2 DEF Starts, Uses, Open, Finding
  <2> QED  BY <1>1, <2>3, <2>4
<1> QED  BY <1>2, <1>3, <1>4, <1>5, <1>6, <1>7, <1>8, HandlerDomains

\* Those of the users, scripts and accounts.
LEMMA UserStarts ==
    ASSUME NEW r, r.op \in {"login", "refresh", "signup", "mail", "password", "new_script",
                             "edit_script", "drop_script", "new_integration",
                             "drop_integration", "info"}
    PROVE  \E S : Runs(Handler(r), S) /\ Starts(r, S)
<1>1. PICK w : w = Handler(r)  OBVIOUS
<1>2. CASE r.op = "login"
  <2>1. w = <<"login_find", "tokens", "session">>
    BY <1>1, <1>2, HandlerOf, HandlerDomains DEF TokenHandlers
  <2>2. PICK S : S = {"login_find", "tokens", "session"}  OBVIOUS
  <2>3. Runs(w, S)  BY <2>1, <2>2, UserRuns
  <2>4. Starts(r, S)  BY <1>2, <2>2 DEF Starts, Uses, Open, Finding
  <2> QED  BY <1>1, <2>3, <2>4
<1>3. CASE r.op = "refresh"
  <2>1. w = <<"refresh_find", "tokens", "session">>
    BY <1>1, <1>3, HandlerOf, HandlerDomains DEF TokenHandlers
  <2>2. PICK S : S = {"refresh_find", "tokens", "session"}  OBVIOUS
  <2>3. Runs(w, S)  BY <2>1, <2>2, UserRuns
  <2>4. Starts(r, S)  BY <1>3, <2>2 DEF Starts, Uses, Open, Finding
  <2> QED  BY <1>1, <2>3, <2>4
<1>4. CASE r.op = "signup"
  <2>1. w = <<"find_name", "new_user", "new_user_group", "commit">>
    BY <1>1, <1>4, HandlerOf, HandlerDomains DEF SignupHandlers
  <2>2. PICK S : S = {"find_name", "new_user", "new_user_group", "commit"}  OBVIOUS
  <2>3. Runs(w, S)  BY <2>1, <2>2, UserRuns
  <2>4. Starts(r, S)  BY <1>4, <2>2 DEF Starts, Uses, Open, Finding
  <2> QED  BY <1>1, <2>3, <2>4
<1>5. CASE r.op = "mail"
  <2>1. w = <<"mail_find", "mail_count", "mail_sent", "mail_code">>
    BY <1>1, <1>5, HandlerOf, HandlerDomains DEF SignupHandlers
  <2>2. PICK S : S = {"mail_find", "mail_count", "mail_sent", "mail_code"}  OBVIOUS
  <2>3. Runs(w, S)  BY <2>1, <2>2, UserRuns
  <2>4. Starts(r, S)  BY <1>5, <2>2 DEF Starts, Uses, Open, Finding
  <2> QED  BY <1>1, <2>3, <2>4
<1>6. CASE r.op = "password"
  <2>1. w = <<"valid_code", "set_password">>
    BY <1>1, <1>6, HandlerOf, HandlerDomains DEF SignupHandlers
  <2>2. PICK S : S = {"valid_code", "set_password"}  OBVIOUS
  <2>3. Runs(w, S)  BY <2>1, <2>2, UserRuns
  <2>4. Starts(r, S)  BY <1>6, <2>2 DEF Starts, Uses, Open, Finding
  <2> QED  BY <1>1, <2>3, <2>4
<1>7. CASE r.op = "new_script"
  <2>1. w = <<"new_script">>
    BY <1>1, <1>7, HandlerOf, HandlerDomains DEF ScriptHandlers
  <2>2. PICK S : S = {"new_script"}  OBVIOUS
  <2>3. "new_script" \in StepNames  BY DEF StepNames
  <2>4. Runs(w, S)  BY <2>1, <2>2, <2>3, OneRuns
  <2>5. Starts(r, S)  BY <1>7, <2>2 DEF Starts, Uses, Open, Finding
  <2> QED  BY <1>1, <2>4, <2>5
<1>8. CASE r.op = "edit_script"
  <2>1. w = <<"edit_script">>
    BY <1>1, <1>8, HandlerOf, HandlerDomains DEF ScriptHandlers
  <2>2. PICK S : S = {"edit_script"}  OBVIOUS
  <2>3. "edit_script" \in StepNames  BY DEF StepNames
  <2>4. Runs(w, S)  BY <2>1, <2>2, <2>3, OneRuns
  <2>5. Starts(r, S)  BY <1>8, <2>2 DEF Starts, Uses, Open, Finding
  <2> QED  BY <1>1, <2>4, <2>5
<1>9. CASE r.op = "drop_script"
  <2>1. w = <<"count_devices", "drop_script">>
    BY <1>1, <1>9, HandlerOf, HandlerDomains DEF ScriptHandlers
  <2>2. PICK S : S = {"count_devices", "drop_script"}  OBVIOUS
  <2>3. Runs(w, S)  BY <2>1, <2>2, UserRuns
  <2>4. Starts(r, S)  BY <1>9, <2>2 DEF Starts, Uses, Open, Finding
  <2> QED  BY <1>1, <2>3, <2>4
<1>10. CASE r.op = "new_integration"
  <2>1. w = <<"new_integration">>
    BY <1>1, <1>10, HandlerOf, HandlerDomains DEF AccountHandlers
  <2>2. PICK S : S = {"new_integration"}  OBVIOUS
  <2>3. "new_integration" \in StepNames  BY DEF StepNames
  <2>4. Runs(w, S)  BY <2>1, <2>2, <2>3, OneRuns
  <2>5. Starts(r, S)  BY <1>10, <2>2 DEF Starts, Uses, Open, Finding
  <2> QED  BY <1>1, <2>4, <2>5
<1>11. CASE r.op = "drop_integration"
  <2>1. w = <<"drop_integration">>
    BY <1>1, <1>11, HandlerOf, HandlerDomains DEF AccountHandlers
  <2>2. PICK S : S = {"drop_integration"}  OBVIOUS
  <2>3. "drop_integration" \in StepNames  BY DEF StepNames
  <2>4. Runs(w, S)  BY <2>1, <2>2, <2>3, OneRuns
  <2>5. Starts(r, S)  BY <1>11, <2>2 DEF Starts, Uses, Open, Finding
  <2> QED  BY <1>1, <2>4, <2>5
<1>12. CASE r.op = "info"
  <2>1. w = <<"set_info">>
    BY <1>1, <1>12, HandlerOf
  <2>2. PICK S : S = {"set_info"}  OBVIOUS
  <2>3. "set_info" \in StepNames  BY DEF StepNames
  <2>4. Runs(w, S)  BY <2>1, <2>2, <2>3, OneRuns
  <2>5. Starts(r, S)  BY <1>12, <2>2 DEF Starts, Uses, Open, Finding
  <2> QED  BY <1>1, <2>4, <2>5
<1> QED  BY <1>2, <1>3, <1>4, <1>5, <1>6, <1>7, <1>8, <1>9, <1>10, <1>11, <1>12

\* The user's devices, groups and account go after the code is checked.
LEMMA DropStarts ==
    ASSUME NEW r, r.op = "delete_user"
    PROVE  \E S : Runs(Handler(r), S) /\ Starts(r, S)
<1>1. PICK s : s = <<"valid_code", "find_user">>  OBVIOUS
<1>2. PICK S : S = {"valid_code", "find_user"}  OBVIOUS
<1>3. PICK t : t = DeleteUserSteps  OBVIOUS
<1>4. PICK T : T = {"drop_scripts", "collect", "drop_devices", "drop_tokens",
                    "drop_groups", "drop_links", "drop_user", "commit"}
  OBVIOUS
<1>5. Runs(s, S)  BY <1>1, <1>2, UserRuns
<1>6. Runs(t, T)
  <2>1. t = <<"drop_scripts", "collect", "drop_devices", "drop_tokens", "drop_groups",
              "drop_links", "drop_user", "commit">>
    BY <1>3 DEF DeleteUserSteps
  <2> HIDE <1>1, <1>3
  <2> QED  BY <2>1, <1>4, UserRuns
<1>7. \A a \in S, b \in T : Level(a) < Level(b)
  <2>1. \A a \in S : Level(a) \in 1 .. 2  BY <1>2, Levels
  <2>2. \A b \in T : Level(b) \in 3 .. 15  BY <1>4, Levels
  <2> QED  BY <2>1, <2>2
<1>8. PICK w : w = Handler(r)  OBVIOUS
<1>9. w = s \o t
  <2>1. w = DeleteHandlers[r.op]  BY <1>8, HandlerOf, HandlerDomains
  <2>2. DeleteHandlers["delete_user"] = s \o t  BY <1>1, <1>3, Zenon DEF DeleteHandlers
  <2> QED  BY <2>1, <2>2
<1>10. PICK V : V = S \cup T  OBVIOUS
<1> HIDE <1>1, <1>3
<1>11. Runs(w, V)
  <2>1. Runs(s \o t, S \cup T)  BY <1>5, <1>6, <1>7, JoinRuns
  <2> QED  BY <2>1, <1>9, <1>10
<1>12. Starts(r, V)  BY <1>2, <1>4, <1>10 DEF Starts, Uses, Open, Finding
<1> QED  BY <1>8, <1>11, <1>12

\* The order of the devices in a group.
LEMMA OrderStarts ==
    ASSUME NEW r, r.op = "top"
    PROVE  \E S : Runs(Handler(r), S) /\ Starts(r, S)
<1>1. PICK w : w = Handler(r)  OBVIOUS
<1>2. w = <<"default", "rank", "reorder">> \/ w = <<"rank", "reorder">>
  BY <1>1, HandlerOf DEF OrderHandler
<1>3. PICK S : Runs(w, S) /\ S \subseteq {"default", "rank", "reorder"}
  BY <1>2, GroupRuns
<1>4. Starts(r, S)  BY <1>3 DEF Starts, Uses, Open, Finding
<1> QED  BY <1>1, <1>3, <1>4

\* A device deleted or modified.
LEMMA OldDeviceStarts ==
    ASSUME NEW r, r.op \in {"delete", "modify"}
    PROVE  \E S : Runs(Handler(r), S) /\ Starts(r, S)
<1>1. PICK w : w = Handler(r)  OBVIOUS
<1>2. CASE r.op = "delete"
  <2>1. w = <<"delete_find", "unlink_all", "find_type">>
    BY <1>1, <1>2, HandlerOf DEF DeviceHandler, DeleteDeviceSteps
  <2>2. PICK S : S = {"delete_find", "unlink_all", "find_type"}  OBVIOUS
  <2>3. Runs(w, S)  BY <2>1, <2>2, DeviceRuns
  <2>4. Starts(r, S)  BY <1>2, <2>2 DEF Starts, Uses, Open, Finding
  <2> QED  BY <1>1, <2>3, <2>4
<1>3. CASE r.op = "modify"
  <2>1. \/ w = <<"modify_find", "script", "locate", "exists", "hset", "modify_rows",
                 "commit">>
        \/ w = <<"modify_find", "modify_rows", "commit">>
    BY <1>1, <1>3, HandlerOf DEF DeviceHandler, ModifySteps
  <2>2. PICK S : Runs(w, S)
                 /\ \/ S = {"modify_find", "script", "locate", "exists", "hset",
                            "modify_rows", "commit"}
                    \/ S = {"modify_find", "modify_rows", "commit"}
    BY <2>1, DeviceRuns
  <2>3. Starts(r, S)  BY <1>3, <2>2 DEF Starts, Uses, Open, Finding
  <2> QED  BY <1>1, <2>2, <2>3
<1> QED  BY <1>2, <1>3

\* A device made anew, or set up over Bluetooth once more.
LEMMA NewDeviceStarts ==
    ASSUME NEW r, \/ r.op = "create" /\ r.kind \in Kinds \ {"LoRaNode"}
                  \/ r.op = "rebind"
    PROVE  \E S : Runs(Handler(r), S) /\ Starts(r, S)
<1>1. PICK s : s = IF r.op = "create" THEN CreateSteps(r.kind) ELSE RebindSteps  OBVIOUS
<1>2. PICK t : t = Linking  OBVIOUS
<1>3. PICK w : w = Handler(r)  OBVIOUS
<1>4. w = s \o t  BY <1>1, <1>2, <1>3, HandlerOf, Zenon DEF DeviceHandler
<1>5. PICK T : T = {"default", "link_default", "link", "device_commit"}  OBVIOUS
<1>6. Runs(t, T)
  <2>1. t = <<"default", "link_default", "link", "device_commit">>  BY <1>2 DEF Linking
  <2> HIDE <1>2, <1>4
  <2> QED  BY <2>1, <1>5, DeviceRuns
<1> DEFINE Fits(S) ==
      /\ S \subseteq Uses(r)
      /\ S \cap {"default", "link_default", "link", "device_commit", "find_default"} = {}
      /\ \A a \in S : Level(a) \in 1 .. 8
      /\ r.op = "create" => /\ "device" \in S /\ S \cap RowSteps # {}
                            /\ "node" \in S => "set_addr" \in S
                            /\ "gate" \in S => "set_gate" \in S
                            /\ "snap" \in S => "set_snap" \in S
                            /\ r.kind = "OTAA" => "address" \in S
      /\ r.op = "rebind" => {"blue_find", "blue_update", "set_addr"} \subseteq S
<1>7. \E S : Runs(s, S) /\ Fits(S)
  <2> HIDE <1>4
  <2>1. CASE r.op = "create" /\ r.kind = "OTAA"
    <3>1. s = <<"address", "check", "device", "node", "set_eui", "set_addr">>
      BY <1>1, <2>1 DEF CreateSteps
    <3>2. PICK S : S = {"address", "check", "device", "node", "set_eui", "set_addr"}  OBVIOUS
    <3>3. Runs(s, S)  BY <3>1, <3>2, DeviceRuns
    <3>4. Fits(S)  BY <2>1, <3>2, Levels DEF Uses, NodeKinds, RowSteps
    <3> QED  BY <3>3, <3>4
  <2>2. CASE r.op = "create" /\ r.kind \in {"ABP", "Bluetooth"}
    <3>1. s = <<"check", "device", "node", "set_eui", "set_addr">>
      BY <1>1, <2>2 DEF CreateSteps
    <3>2. PICK S : S = {"check", "device", "node", "set_eui", "set_addr"}  OBVIOUS
    <3>3. Runs(s, S)  BY <3>1, <3>2, DeviceRuns
    <3>4. Fits(S)  BY <2>2, <3>2, Levels DEF Uses, NodeKinds, RowSteps
    <3> QED  BY <3>3, <3>4
  <2>3. CASE r.op = "create" /\ r.kind = "Gateway"
    <3>1. s = <<"device", "gate", "set_gate">>  BY <1>1, <2>3 DEF CreateSteps
    <3>2. PICK S : S = {"device", "gate", "set_gate"}  OBVIOUS
    <3>3. Runs(s, S)  BY <3>1, <3>2, DeviceRuns
    <3>4. Fits(S)  BY <2>3, <3>2, Levels DEF Uses, NodeKinds, RowSteps
    <3> QED  BY <3>3, <3>4
  <2>4. CASE r.op = "create" /\ r.kind = "MQTT"
    <3>1. s = <<"device", "mqtt">>  BY <1>1, <2>4 DEF CreateSteps
    <3>2. PICK S : S = {"device", "mqtt"}  OBVIOUS
    <3>3. Runs(s, S)  BY <3>1, <3>2, DeviceRuns
    <3>4. Fits(S)  BY <2>4, <3>2, Levels DEF Uses, NodeKinds, RowSteps
    <3> QED  BY <3>3, <3>4
  <2>5. CASE r.op = "create" /\ r.kind = "Snap"
    <3>1. s = <<"device", "snap", "set_snap">>  BY <1>1, <2>5 DEF CreateSteps
    <3>2. PICK S : S = {"device", "snap", "set_snap"}  OBVIOUS
    <3>3. Runs(s, S)  BY <3>1, <3>2, DeviceRuns
    <3>4. Fits(S)  BY <2>5, <3>2, Levels DEF Uses, NodeKinds, RowSteps
    <3> QED  BY <3>3, <3>4
  <2>6. CASE r.op = "rebind"
    <3>1. s = <<"blue_find", "blue_update", "del_eui", "del_addr", "set_eui", "set_addr">>
      BY <1>1, <2>6 DEF RebindSteps
    <3>2. PICK S : S = {"blue_find", "blue_update", "del_eui", "del_addr", "set_eui",
                        "set_addr"}
      OBVIOUS
    <3>3. Runs(s, S)  BY <3>1, <3>2, DeviceRuns
    <3>4. Fits(S)  BY <2>6, <3>2, Levels DEF Uses, LinkSteps
    <3> QED  BY <3>3, <3>4
  <2> QED  BY <2>1, <2>2, <2>3, <2>4, <2>5, <2>6 DEF Kinds
<1>8. PICK S : Runs(s, S) /\ Fits(S)  BY <1>7
<1>9. \A a \in S, b \in T : Level(a) < Level(b)
  <2>1. \A b \in T : Level(b) \in 9 .. 15  BY <1>5, Levels
  <2> QED  BY <2>1, <1>8
<1>10. PICK V : V = S \cup T  OBVIOUS
<1> HIDE <1>1, <1>2
<1>11. Runs(w, V)
  <2>1. Runs(s \o t, S \cup T)  BY <1>6, <1>8, <1>9, JoinRuns
  <2> QED  BY <2>1, <1>4, <1>10
<1>12. Starts(r, V)
  <2>1. T \subseteq Uses(r)  BY <1>5 DEF Uses, LinkSteps
  <2> QED  BY <2>1, <1>5, <1>8, <1>10 DEF Starts, Open
<1> QED  BY <1>3, <1>11, <1>12

\* Every request that can be sent has a handler whose steps are in order.
LEMMA HandlerStarts ==
    ASSUME NEW r, Sendable(r)
    PROVE  \E S : Runs(Handler(r), S) /\ Starts(r, S)
<1>1. r.op \in Ops /\ (r.op = "create" => r.kind \in Kinds \ {"LoRaNode"})
  BY DEF Sendable
<1>2. CASE r.op \in {"create", "rebind"}  BY <1>1, <1>2, NewDeviceStarts
<1>3. CASE r.op \in {"delete", "modify"}  BY <1>3, OldDeviceStarts
<1>4. CASE r.op = "top"  BY <1>4, OrderStarts
<1>5. CASE r.op = "delete_user"  BY <1>5, DropStarts
<1>6. CASE r.op \in DOMAIN GroupHandlers  BY <1>6, GroupStarts
<1>7. CASE r.op \in {"login", "refresh", "signup", "mail", "password", "new_script",
                     "edit_script", "drop_script", "new_integration",
                     "drop_integration", "info"}
  BY <1>7, UserStarts
<1> QED  BY <1>1, <1>2, <1>3, <1>4, <1>5, <1>6, <1>7, HandlerDomains DEF Ops

\* A request as its slot takes it.
Taking(r) == [r EXCEPT !.steps = Handler(r), !.txn = r.op \in Transacted]

\* A request that is sent has written and read nothing.
LEMMA SendableIs ==
    ASSUME NEW r, Sendable(r)
    PROVE  /\ r \in Request /\ r.op # "idle" /\ r.name \in Names
           /\ r.add = {} /\ r.del = {} /\ r.seen = {} /\ r.made = 0
<1>1. r \in Request /\ r.op \in Ops /\ r.name \in Names  BY DEF Sendable
<1>2. r.op # "idle"  BY <1>1 DEF Ops
<1>3. r = [r EXCEPT !.txn = FALSE, !.steps = <<>>, !.add = {}, !.del = {}, !.seen = {},
                    !.made = 0]
  BY DEF Sendable
<1>4. r.add = {} /\ r.del = {} /\ r.seen = {} /\ r.made = 0
  BY <1>1, <1>3 DEF Request
<1> QED  BY <1>1, <1>2, <1>4

\* Neither has one that is taken, and its steps are those of a handler.
LEMMA TakingIs ==
    ASSUME NEW r, Sendable(r), NEW n, n = Taking(r)
    PROVE  /\ n \in Request /\ n.no = r.no /\ n.op = r.op /\ n.name = r.name
           /\ n.user = r.user /\ n.kind = r.kind /\ n.eui = r.eui
           /\ n.dev_eui = r.dev_eui /\ n.addr = r.addr
           /\ n.add = {} /\ n.del = {} /\ n.seen = {} /\ n.made = 0 /\ n.op # "idle"
           /\ Held(n) = {} /\ Removed(n) = {} /\ ~(\E i : Drawn(n, i))
           /\ Program(n) /\ Shape(n)
           /\ DeviceSet(n) = FALSE /\ (UserSet(n) => r.op \notin Open)
<1>20. /\ r \in Request /\ r.op # "idle" /\ r.name \in Names
       /\ r.add = {} /\ r.del = {} /\ r.seen = {} /\ r.made = 0
  BY SendableIs
<1>1. PICK S : Runs(Handler(r), S) /\ Starts(r, S)  BY HandlerStarts
<1>21. PICK w : w = Handler(r)  OBVIOUS
<1>23. PICK b : b = (r.op \in Transacted)  OBVIOUS
<1>24. b \in BOOLEAN  BY <1>23
<1>22. n = [r EXCEPT !.steps = w, !.txn = b]  BY <1>21, <1>23 DEF Taking
<1>2. n \in Request
  <2>1. w \in Seq(StepNames)  BY <1>1, <1>21 DEF Runs
  <2> QED  BY <2>1, <1>20, <1>22, <1>24 DEF Request
<1>3. /\ n.steps = Handler(r) /\ n.no = r.no /\ n.op = r.op /\ n.name = r.name
      /\ n.user = r.user /\ n.kind = r.kind /\ n.eui = r.eui
      /\ n.dev_eui = r.dev_eui /\ n.addr = r.addr
      /\ n.add = {} /\ n.del = {} /\ n.seen = {} /\ n.made = 0 /\ n.op # "idle"
      /\ n.txn = (r.op \in Transacted)
  BY <1>20, <1>21, <1>22, <1>23 DEF Request
<1>4. Held(n) = {} /\ Removed(n) = {}  BY <1>3 DEF Held, Removed
<1>5. ~(\E i : Drawn(n, i))  BY <1>3 DEF Drawn
<1>6. Left(n) = S /\ Ordered(n.steps)  BY <1>1, <1>3 DEF Runs, Left
<1>7. Uses(n) = Uses(r)  BY <1>3 DEF Uses
<1>8. Program(n)  BY <1>1, <1>3, <1>6, <1>7, <1>20 DEF Program, Starts
<1>9. n.op = "create" => /\ r.kind \in Kinds \ {"LoRaNode"} /\ r.eui \in Euis
                         /\ r.dev_eui \in Euis
                         /\ r.kind \in {"ABP", "Bluetooth"} => r.addr \in Addrs
  BY <1>3 DEF Sendable
<1>10. n.op = "rebind" => r.dev_eui \in Euis /\ r.addr \in Addrs  BY <1>3 DEF Sendable
<1>11. Shape(n)
  <2>1. CASE n.op = "create"
    <3>1. CreateShape(n)
      BY <2>1, <1>1, <1>3, <1>6, <1>9 DEF CreateShape, Starts, NodeKinds
    <3> QED  BY <2>1, <3>1, ShapeFor
  <2>2. CASE n.op = "rebind"
    <3>1. RebindShape(n)  BY <2>2, <1>1, <1>3, <1>6, <1>10 DEF RebindShape, Starts
    <3> QED  BY <2>2, <3>1, ShapeFor
  <2>3. CASE n.op = "delete"
    <3>1. DeleteShape(n)  BY <2>3, <1>1, <1>3, <1>6 DEF DeleteShape, Starts
    <3> QED  BY <2>3, <3>1, ShapeFor
  <2>4. CASE n.op = "modify"
    <3>1. ModifyShape(n)  BY <2>4, <1>1, <1>3, <1>6 DEF ModifyShape, Starts
    <3> QED  BY <2>4, <3>1, ShapeFor
  <2>5. CASE n.op = "signup"
    <3>1. SignupShape(n)  BY <2>5, <1>1, <1>3, <1>6 DEF SignupShape, Starts
    <3> QED  BY <2>5, <3>1, ShapeFor
  <2>6. CASE n.op = "delete_user"
    <3>1. DropShape(n)  BY <2>6, <1>1, <1>3, <1>6 DEF DropShape, Starts
    <3> QED  BY <2>6, <3>1, ShapeFor
  <2>7. CASE n.op \in EditOps
    <3>1. EditShape(n)  BY <1>3 DEF EditShape
    <3> QED  BY <2>7, <3>1, ShapeFor
  <2>8. CASE n.op \in {"get_group", "get_all"}
    <3>1. GetShape(n)  BY <1>3 DEF GetShape
    <3> QED  BY <2>8, <3>1, ShapeFor
  <2>9. CASE n.op = "top"
    <3>1. TopShape(n)  BY <1>3 DEF TopShape
    <3> QED  BY <2>9, <3>1, ShapeFor
  <2> QED  BY <2>1, <2>2, <2>3, <2>4, <2>5, <2>6, <2>7, <2>8, <2>9, ShapeFor
<1>12. DeviceSet(n) = FALSE  BY <1>1, <1>3, <1>6 DEF DeviceSet, Starts
<1>13. UserSet(n) => r.op \notin Open  BY <1>1, <1>3, <1>6 DEF UserSet, Starts
<1> QED  BY <1>2, <1>3, <1>4, <1>5, <1>8, <1>11, <1>12, <1>13

\* A request is refused: there is one less to send.
LEMMA RefusedKeeps ==
    ASSUME Inv, UNCHANGED <<db, redis, req, waits, bare>>, todo' \subseteq todo
    PROVE  Inv'
<1>1. /\ StoreInv /\ NumberInv /\ ApartInv /\ IdInv /\ CompatInv /\ KeyInv
      /\ ProgramInv /\ OwnedInv /\ JointInv /\ DefaultInv
  BY DEF Inv
<1>2. CachedAll' = CachedAll  BY DEF CachedAll
<1>3. Everywhere' = Everywhere  BY <1>2 DEF Everywhere
<1>4. StoreInv'  BY <1>1 DEF StoreInv, Active
<1>5. NumberInv'  BY <1>1 DEF NumberInv, Active
<1>6. \A i : Known(i)' <=> Known(i)  BY <1>2 DEF Known
<1>7. ApartInv'  BY <1>1, <1>6 DEF ApartInv, Apart, Private, Active
<1>8. IdInv'  BY <1>1 DEF IdInv, Locked
<1>9. CompatInv'  BY <1>1, <1>3 DEF CompatInv
<1>10. KeyInv'  BY <1>1 DEF KeyInv
<1>11. ProgramInv'  BY <1>1 DEF ProgramInv
<1>12. OwnedInv'  BY <1>1 DEF OwnedInv, RecordOwned, Told, RecordOf
<1>13. JointInv'  BY <1>1 DEF JointInv, StoredWhole, Jointly, Vis
<1>14. DefaultInv'  BY <1>1, <1>3 DEF DefaultInv, TheDefault, Leaving, Vis
<1> QED  BY <1>4, <1>5, <1>7, <1>8, <1>9, <1>10, <1>11, <1>12, <1>13, <1>14 DEF Inv

\* A free slot takes a request, which has seen and written nothing yet and knows
\* at most the user of its session.
LEMMA TakenKeeps ==
    ASSUME Inv, NEW r \in todo, Authorized(r), NEW p \in Slots, ~Active(p),
           NEW n, n = Taking(r), Becomes(p, n), todo' = todo \ {r},
           UNCHANGED <<db, redis, waits, bare>>
    PROVE  Inv'
<1>1. /\ StoreInv /\ NumberInv /\ ApartInv /\ IdInv /\ CompatInv /\ KeyInv
      /\ ProgramInv /\ OwnedInv /\ JointInv /\ DefaultInv
  BY DEF Inv
<1>2. Sendable(r) /\ r.no \in 1 .. Stride - 1  BY <1>1 DEF NumberInv, Sendable
<1>3. /\ n \in Request /\ n.no = r.no /\ n.op = r.op /\ n.user = r.user
      /\ n.add = {} /\ n.del = {} /\ n.seen = {} /\ n.made = 0 /\ n.op # "idle"
      /\ Held(n) = {} /\ Removed(n) = {} /\ ~(\E i : Drawn(n, i))
      /\ Program(n) /\ Shape(n)
      /\ DeviceSet(n) = FALSE /\ (UserSet(n) => r.op \notin Open)
  BY <1>2, TakingIs
<1>4. /\ req' \in [Slots -> Request] /\ req'[p] = n
      /\ \A q \in Slots \ {p} : req'[q] = req[q]
  BY <1>1, <1>3 DEF StoreInv, Becomes
<1>19. PICK new : new = req'  OBVIOUS
<1>20. new[p] = n /\ \A q \in Slots \ {p} : new[q] = req[q]  BY <1>4, <1>19
<1>5. CachedAll' = CachedAll  BY DEF CachedAll
<1>6. \A i : Known(i)' <=> Known(i)  BY <1>5 DEF Known
<1>7. \A i : KnownTo(n, i) => Known(i)
  <2>1. ReqRefs(n) \subseteq redis.session
    BY <1>3 DEF ReqRefs, Authorized
  <2> QED  BY <2>1, <1>3 DEF KnownTo, Known
<1>8. \A q \in Slots : Active(q)' <=> Active(q) \/ q = p  BY <1>3, <1>4 DEF Active
<1>9. StoreInv'
  <2>1. waits' \in [Slots -> SUBSET Slots]  BY <1>1 DEF StoreInv
  <2>2. \A q \in Slots : q \notin waits'[q] /\ (waits'[q] # {} => Active(q)')
    BY <1>1, <1>8 DEF StoreInv
  <2> QED  BY <1>1, <1>4, <2>1, <2>2 DEF StoreInv
<1>10. NumberInv'
  <2>1. \A q \in Slots : Active(q)' => req'[q].no \in 1 .. Stride - 1
    BY <1>1, <1>2, <1>3, <1>4, <1>8 DEF NumberInv
  <2>2. \A q, s \in Slots : Active(q)' /\ Active(s)' /\ q # s => req'[q].no # req'[s].no
    BY <1>1, <1>3, <1>4, <1>8 DEF NumberInv
  <2>3. \A q \in Slots, s \in todo' : Active(q)' => req'[q].no # s.no
    BY <1>1, <1>3, <1>4, <1>8 DEF NumberInv
  <2>4. \A s \in todo' : Sendable(s)  BY <1>1 DEF NumberInv
  <2>5. \A s, t \in todo' : s.no = t.no => s = t  BY <1>1 DEF NumberInv
  <2> QED  BY <2>1, <2>2, <2>3, <2>4, <2>5 DEF NumberInv
<1>11. ApartInv'
  <2>1. \A i, q : q \in Slots /\ KnownTo(req'[q], i) => Known(i) \/ KnownTo(req[q], i)
    BY <1>4, <1>7
  <2>2. ASSUME NEW s, Apart(s) PROVE Apart(s)'
    BY <2>1, <2>2, <1>6 DEF Apart
  <2>3. \A s \in todo' : Apart(s)'  BY <1>1, <2>2 DEF ApartInv
  <2>4. ASSUME NEW q \in Slots, Active(q)' PROVE Apart(req[q])'
    <3>1. CASE q = p
      <4>1. \A i : Reserved(n, i) <=> Reserved(r, i)
        BY <1>2, <1>3, SendableIs DEF Reserved
      <4>2. Apart(r)  BY <1>1 DEF ApartInv
      <4>3. Apart(n)  BY <4>1, <4>2 DEF Apart
      <4>4. Apart(n)'  BY <4>3, <2>2
      <4> QED  BY <4>4, <1>4, <3>1 DEF Apart
    <3>2. CASE q # p
      <4>1. Apart(req[q])  BY <1>1, <1>8, <2>4, <3>2 DEF ApartInv
      <4>2. Apart(req[q])'
        <5>1. PICK o : o = req[q]  OBVIOUS
        <5>2. Apart(o)'  BY <4>1, <5>1, <2>2
        <5> QED  BY <5>1, <5>2, <1>4, <3>2 DEF Apart
      <4> QED  BY <4>2
    <3> QED  BY <3>1, <3>2
  <2>5. ASSUME NEW q \in Slots PROVE Private(q)'
    <3>1. CASE q = p  BY <1>3, <1>4, <3>1 DEF Private
    <3>2. CASE q # p
      <4>1. Private(q) /\ req'[q] = req[q]  BY <1>1, <1>4, <3>2 DEF ApartInv
      <4> QED  BY <4>1, <2>1, <1>6 DEF Private
    <3> QED  BY <3>1, <3>2
  <2> QED  BY <2>3, <2>4, <2>5 DEF ApartInv
<1>12. IdInv'
  <2>1. \A q \in Slots : Locked(new[q])
    <3>1. \A q \in Slots : Locked(req[q])  BY <1>1 DEF IdInv
    <3>2. Locked(n)  BY <1>3 DEF Locked, UniqueIds
    <3> QED  BY <1>20, <3>1, <3>2
  <2>3. \A q \in Slots : Locked(new[q])'  BY <2>1 DEF Locked
  <2>2. \A q, s \in Slots : q # s => req'[q].del \cap req'[s].del = {}
    BY <1>1, <1>3, <1>4 DEF IdInv
  <2> QED  BY <1>1, <1>19, <2>2, <2>3 DEF IdInv, Locked
<1>13. CompatInv' /\ Everywhere' \subseteq Everywhere
  <2>1. Everywhere' \subseteq Everywhere
    <3>1. \A q \in Slots : Held(req'[q]) \subseteq Held(req[q])  BY <1>3, <1>4
    <3> QED  BY <1>5, <3>1 DEF Everywhere
  <2> QED  BY <1>1, <2>1 DEF CompatInv
<1>14. KeyInv'
  <2>1. \A q \in Slots : req'[q].add \subseteq req[q].add /\ req'[q].del \subseteq req[q].del
    BY <1>3, <1>4
  <2>2. \A q \in Slots :
           /\ UniqueKeys(req'[q].add)
           /\ \A x \in req'[q].add, y \in db : Shared(x, y) => y.id \in req'[q].del
    BY <1>1, <1>3, <1>4 DEF KeyInv, UniqueKeys
  <2>3. \A q, s \in Slots : q # s =>
           /\ \A x \in req'[q].add, y \in req'[s].add : ~Shared(x, y)
           /\ \A x \in req'[q].add, y \in db : y.id \in req'[s].del => ~Shared(x, y)
    BY <1>1, <2>1 DEF KeyInv
  <2> QED  BY <1>1, <2>2, <2>3 DEF KeyInv
<1>15. ProgramInv'  BY <1>1, <1>3, <1>4 DEF ProgramInv
<1>16. OwnedInv'
  <2>1. RecordOwned'  BY <1>1 DEF OwnedInv, RecordOwned
  <2>2. \A q \in Slots : \A x \in new[q].add : Told(new[q], x)
    BY <1>1, <1>3, <1>20 DEF OwnedInv
  <2>3. \A q \in Slots : \A x \in new[q].add : Told(new[q], x)'
    BY <2>2 DEF Told, RecordOf
  <2> QED  BY <1>19, <2>1, <2>3 DEF OwnedInv, Told, RecordOf
<1>17. JointInv'
  <2>1. \A q \in Slots : Jointly(new[q])
    <3>1. Jointly(n)  BY <1>3 DEF Jointly
    <3> QED  BY <1>1, <1>20, <3>1 DEF JointInv
  <2>2. \A q \in Slots : Jointly(new[q])'  BY <2>1 DEF Jointly, Vis
  <2> QED  BY <1>1, <1>19, <2>2 DEF JointInv, StoredWhole, Jointly, Vis
<1>18. DefaultInv'
  <2>1. \A q \in Slots : Leaving(new[q])
    <3>1. Leaving(n)  BY <1>3 DEF Leaving
    <3> QED  BY <1>1, <1>20, <3>1 DEF DefaultInv
  <2>2. \A q \in Slots : Leaving(new[q])'  BY <2>1 DEF Leaving, Vis
  <2>3. \A q \in Slots : Leaving(req[q])'  BY <2>2, <1>19 DEF Leaving, Vis
  <2>4. \A u \in db' : u.t = "users" => \E g \in db' : TheDefault(g, u.id)'
    BY <1>1, <1>13 DEF DefaultInv, TheDefault
  <2>5. \A c \in redis'.groups : \A x \in c.rows : x.t = "groups" /\ x.user = c.user
    BY <1>1 DEF DefaultInv
  <2> QED  BY <2>3, <2>4, <2>5 DEF DefaultInv
<1> QED  BY <1>9, <1>10, <1>11, <1>12, <1>13, <1>14, <1>15, <1>16, <1>17, <1>18 DEF Inv

\* A request arrives: it is taken or refused.
LEMMA ArriveStep ==
    ASSUME Inv, NEW r \in todo, Arrive(r)
    PROVE  Inv'
<1>1. todo' = todo \ {r} /\ UNCHANGED <<db, redis, waits, bare>>  BY DEF Arrive
<1>2. CASE Authorized(r)
  <2>1. PICK p \in Slots : /\ ~Active(p)
                           /\ req' = [req EXCEPT ![p] = Taking(r)]
    BY <1>2 DEF Arrive, Taking
  <2>2. PICK n : n = Taking(r)  OBVIOUS
  <2>3. Becomes(p, n)  BY <2>1, <2>2 DEF Becomes
  <2> QED  BY <1>1, <1>2, <2>1, <2>2, <2>3, TakenKeeps
<1>3. CASE ~Authorized(r)  BY <1>1, <1>3, RefusedKeeps DEF Arrive
<1> QED  BY <1>2, <1>3

-----------------------------------------------------------------------------
(* Every step *)

\* The user's scripts, tokens, groups and links are deleted.
LEMMA DropRowsKeep ==
    ASSUME Inv, NEW p \in Slots,
           DropScripts(p) \/ DropTokens(p) \/ DropGroups(p) \/ DropLinks(p)
    PROVE  Inv'
<1>1. ASSUME NEW st \in DropSteps \ {"drop_user", "drop_devices"},
             NEW t \in {"scripts", "tokens", "groups", "links"}, NEW red,
             red = redis \/ red = Uncached(req[p].user), DropOwn(p, st, t, red),
             t = "groups" => st = "drop_groups"
      PROVE  Inv'
  <2>1. red = redis \/ \E u : red = Uncached(u)  BY <1>1
  <2> QED  BY <1>1, <2>1, DropOwnKeeps
<1>2. /\ "drop_scripts" \in DropSteps \ {"drop_user", "drop_devices"}
      /\ "drop_tokens" \in DropSteps \ {"drop_user", "drop_devices"}
      /\ "drop_groups" \in DropSteps \ {"drop_user", "drop_devices"}
      /\ "drop_links" \in DropSteps \ {"drop_user", "drop_devices"}
  BY DEF DropSteps
<1>3. CASE DropScripts(p)  BY <1>1, <1>2, <1>3 DEF DropScripts
<1>4. CASE DropTokens(p)  BY <1>1, <1>2, <1>4 DEF DropTokens
<1>5. CASE DropGroups(p)  BY <1>1, <1>2, <1>5 DEF DropGroups
<1>6. CASE DropLinks(p)  BY <1>1, <1>2, <1>6 DEF DropLinks
<1> QED  BY <1>3, <1>4, <1>5, <1>6

\* Every step of POST, PUT and DELETE of a device.
LEMMA DeviceStepKeeps ==
    ASSUME Inv, NEW p \in Slots, DeviceStep(p)
    PROVE  Inv'
BY AddressKeeps, CheckKeeps, DeviceKeeps, RowKeeps, SetEuiKeeps, DelKeeps, SetAddrKeeps,
   SetDeviceKeeps, DeviceCommitStep, BlueFindKeeps, BlueUpdateKeeps, DeleteFindKeeps,
   UnlinkAllKeeps, FindTypeKeeps, DeleteRowsKeeps, ModifyFindKeeps, ScriptKeeps,
   LocateKeeps, ExistsKeeps, HSetKeeps, ModifyRowsKeeps
   DEF DeviceStep

\* Every step of the handlers of groups.
LEMMA GroupStepKeeps ==
    ASSUME Inv, NEW p \in Slots, GroupStep(p)
    PROVE  Inv'
BY DefaultKeeps, FindDefaultKeeps, LinkDefaultKeeps, LinkKeeps, NewRowsKeep, EditFindKeeps,
   UnlinkKeeps, EditRowKeeps, EraseGroupKeeps, LoadGroupsKeeps, LookDefaultKeeps,
   ReadGroupsKeeps, SaveGroupsKeeps, RankKeeps, ReorderKeeps
   DEF GroupStep

\* Every step of the handlers of users, scripts and accounts.
LEMMA UserStepKeeps ==
    ASSUME Inv, NEW p \in Slots, UserStep(p)
    PROVE  Inv'
BY FindNameKeeps, NewUserKeeps, NewUserGroupKeeps, FindingKeeps, TokensKeeps, SessionKeeps,
   MailCountKeeps, MailSentKeeps, ValidCodeKeeps, SetKeeps, DropRowsKeep, CollectKeeps,
   DropDevicesKeeps, DropUserKeeps, NewRowsKeep, ScriptsKeep
   DEF UserStep

\* Every step of the service.
LEMMA NextKeeps ==
    ASSUME Inv, [Next]_apiVars
    PROVE  Inv'
<1>1. CASE \E r \in todo : Arrive(r)  BY <1>1, ArriveStep
<1>2. ASSUME NEW p \in Slots, Step(p) PROVE Inv'
  BY <1>2, CommitStep, UncacheKeeps, DeviceStepKeeps, GroupStepKeeps, UserStepKeeps DEF Step
<1>3. CASE \E p \in Slots : Deadlock(p)  BY <1>3, DeadlockStep
<1>4. CASE \E p \in Slots : Abort(p)  BY <1>4, AbortStep
<1>5. CASE Expire  BY <1>5, ExpireStep
<1>6. CASE UNCHANGED apiVars  BY <1>6, Stutter
<1> QED  BY <1>1, <1>2, <1>3, <1>4, <1>5, <1>6 DEF Next

-----------------------------------------------------------------------------
(* The initial states *)

\* The rows at the start fit each other, and their ids are below Stride.
LEMMA StartRows ==
    /\ \A x \in Start : \A i \in Refs(x) : i \in 1 .. Stride - 1
    /\ UniqueIds(Start) /\ UniqueKeys(Start)
    /\ \A x, y \in Start : Compat(x, y)
<1>1. /\ Start \subseteq Row
      /\ \A x \in Start : \A f \in {"id", "user", "device"} \cap DOMAIN x :
            x[f] \in 1 .. Stride - 1
      /\ \A x, y \in Start : x.id = y.id \/ Keys(x) \cap Keys(y) # {} => x = y
      /\ \A x, y \in Start : x.t \in TypeTables /\ y.t = "devices" /\ x.device = y.id
                                => x.t = TypeTable(y.kind)
  BY StartAssumption
<1>2. ASSUME NEW x \in Start, NEW i \in Refs(x) PROVE i \in 1 .. Stride - 1
  <2>1. /\ \A f \in {"id", "user", "device"} \cap DOMAIN x : x[f] \in 1 .. Stride - 1
        /\ x \in Row
    BY <1>1
  <2>2. x.id \in 1 .. Stride - 1
    BY <2>1 DEF Row, UserRows, TokenRows, GroupRows, DeviceRows, IntegrationRows, LinkRows,
                GateRows, MqttRows, NodeRows, SnapRows, AuthorityRows, ScriptRows
  <2>3. x.t = "groups" => x.user \in 1 .. Stride - 1
    BY <2>1, RowIds DEF GroupRows
  <2>4. x.t \in Typed \cup {"authority"} => x.device \in 1 .. Stride - 1
    BY <2>1 DEF Typed, Row, UserRows, TokenRows, GroupRows, DeviceRows, IntegrationRows,
                LinkRows, GateRows, MqttRows, NodeRows, SnapRows, AuthorityRows, ScriptRows
  <2> QED  BY <2>2, <2>3, <2>4 DEF Refs
<1>3. UniqueIds(Start)  BY <1>1 DEF UniqueIds
<1>4. UniqueKeys(Start)  BY <1>1 DEF UniqueKeys, Shared
<1>5. ASSUME NEW x \in Start, NEW y \in Start PROVE Compat(x, y)
  <2>1. x.id = y.id => Fixed(x) = Fixed(y)  BY <1>1
  <2>2. x.t \in Typed /\ y.t = "devices" /\ x.device = y.id => x.t = TypeTable(y.kind)
    BY <1>1 DEF Typed, TypeTables
  <2>3. ASSUME x.t \in Typed, y.t = x.t, x.device = y.device PROVE x.id = y.id
    <3>1. Keys(x) \cap Keys(y) # {}  BY <2>3 DEF Typed, Keys
    <3> QED  BY <1>1, <3>1
  <2> QED  BY <2>1, <2>2, <2>3 DEF Compat
<1> QED  BY <1>2, <1>3, <1>4, <1>5

\* What the handlers had told to redis.
LEMMA StartRedis ==
    ASSUME redis = RedisOf(Start)
    PROVE  /\ redis \in Stored /\ redis.groups = {}
           /\ \A u \in redis.session : u \in 1 .. Stride - 1
           /\ \A n \in Table(Start, "nodes") : redis.node[n.dev_addr] = n.device
           /\ \A d \in Table(Start, "devices") :
                 /\ d.kind = "Gateway" => redis.gate[d.eui] \in {None, d.id}
                 /\ d.kind = "Snap" => redis.snap[d.eui] \in {None, d.id}
<1> DEFINE NodeAt(a) == {x \in Table(Start, "nodes") : x.dev_addr = a}
           NodeOf(e) == {x \in Table(Start, "nodes") : x.dev_eui = e}
           GateOf(e) == {x \in Table(Start, "gates") : x.eui = e}
           SnapOf(e) == {x \in Table(Start, "snaps") : x.eui = e}
<1>1. /\ redis.node = [a \in Addrs |-> IF NodeAt(a) = {} THEN None
                                       ELSE (CHOOSE r \in NodeAt(a) : TRUE).device]
      /\ redis.eui = [e \in Euis |-> IF NodeOf(e) = {} THEN None
                                     ELSE (CHOOSE r \in NodeOf(e) : TRUE).dev_addr]
      /\ redis.gate = [e \in Euis |-> IF GateOf(e) = {} THEN None
                                      ELSE (CHOOSE r \in GateOf(e) : TRUE).device]
      /\ redis.snap = [e \in Euis |-> IF SnapOf(e) = {} THEN None
                                      ELSE (CHOOSE r \in SnapOf(e) : TRUE).device]
  BY DEF RedisOf
<1>2. /\ redis = [node |-> redis.node, eui |-> redis.eui, gate |-> redis.gate,
                  snap |-> redis.snap, groups |-> {}, session |-> redis.session,
                  code |-> redis.code, sent |-> redis.sent]
      /\ redis.groups = {} /\ redis.session = {k.user : k \in Table(Start, "tokens")}
      /\ redis.code = {u.name : u \in Table(Start, "users")}
      /\ redis.sent = [n \in Names |-> 0]
  BY DEF RedisOf
<1>3. /\ Start \subseteq Row
      /\ \A x \in Start : \A f \in {"id", "user", "device"} \cap DOMAIN x :
            x[f] \in 1 .. Stride - 1
      /\ \A x \in Table(Start, "gates") \cup Table(Start, "snaps") :
            \E d \in Table(Start, "devices") : d.id = x.device /\ d.eui = x.eui
      /\ UniqueKeys(Start)
  BY StartAssumption, StartRows
<1>4. \A x \in Table(Start, "nodes") : x.device \in Nat /\ x.dev_addr \in Addrs
  BY <1>3, RowIds DEF Table, NodeRows
<1>5. \A x \in Table(Start, "gates") \cup Table(Start, "snaps") : x.device \in Nat
  BY <1>3, RowIds DEF Table, GateRows, SnapRows
<1>6. /\ \A a : NodeAt(a) # {} => (CHOOSE r \in NodeAt(a) : TRUE) \in NodeAt(a)
      /\ \A e : NodeOf(e) # {} => (CHOOSE r \in NodeOf(e) : TRUE) \in NodeOf(e)
      /\ \A e : GateOf(e) # {} => (CHOOSE r \in GateOf(e) : TRUE) \in GateOf(e)
      /\ \A e : SnapOf(e) # {} => (CHOOSE r \in SnapOf(e) : TRUE) \in SnapOf(e)
  OBVIOUS
<1>7. redis.node \in [Addrs -> Nat \cup {Partial}]  BY <1>1, <1>4, <1>6 DEF None
<1>8. redis.eui \in [Euis -> Addrs \cup {None}]  BY <1>1, <1>4, <1>6
<1>9. redis.gate \in [Euis -> Nat] /\ redis.snap \in [Euis -> Nat]
  BY <1>1, <1>5, <1>6 DEF None
<1>10. \A u \in redis.session : u \in 1 .. Stride - 1
  <2> SUFFICES ASSUME NEW k \in Start, k.t = "tokens" PROVE k.user \in 1 .. Stride - 1
    BY <1>2 DEF Table
  <2>1. k \in TokenRows
    BY <1>3 DEF Row, UserRows, TokenRows, GroupRows, DeviceRows, IntegrationRows, LinkRows,
                GateRows, MqttRows, NodeRows, SnapRows, AuthorityRows, ScriptRows
  <2>2. "user" \in DOMAIN k  BY <2>1 DEF TokenRows
  <2> QED  BY <1>3, <2>2
<1>11. redis.code \subseteq Names  BY <1>2, <1>3, RowIds DEF Table, UserRows
<1>12. redis.sent \in [Names -> 0 .. MaxCount]  BY <1>2, ApiAssumption
<1>13. redis.session \subseteq Nat  BY <1>10, ApiAssumption
<1>14. redis \in Stored
  <2> HIDE DEF NodeAt, NodeOf, GateOf, SnapOf
  <2> QED  BY <1>2, <1>7, <1>8, <1>9, <1>11, <1>12, <1>13 DEF Stored
<1>15. ASSUME NEW n \in Table(Start, "nodes") PROVE redis.node[n.dev_addr] = n.device
  <2>1. n \in NodeAt(n.dev_addr)  OBVIOUS
  <2>2. \A x \in NodeAt(n.dev_addr) : x = n
    BY <1>3 DEF UniqueKeys, Shared, Keys, Table
  <2> QED  BY <1>1, <1>4, <1>6, <2>1, <2>2
<1>16. ASSUME NEW d \in Table(Start, "devices")
       PROVE  redis.gate[d.eui] \in {None, d.id} /\ redis.snap[d.eui] \in {None, d.id}
  <2>1. d.eui \in Euis  BY <1>3, RowIds DEF Table, DeviceRows
  <2>2. \A x \in Table(Start, "devices") : x.eui = d.eui => x = d
    BY <1>3 DEF UniqueKeys, Shared, Keys, Table
  <2>3. \A x \in GateOf(d.eui) \cup SnapOf(d.eui) : x.device = d.id  BY <1>3, <2>2
  <2> QED  BY <1>1, <1>6, <2>1, <2>3
<1> QED  BY <1>2, <1>10, <1>14, <1>15, <1>16

\* The invariant holds when the service starts.
LEMMA InitInv ==
    ASSUME Init
    PROVE  Inv
<1>1. /\ db = Start /\ redis = RedisOf(Start) /\ req = [p \in Slots |-> Blank]
      /\ waits = [p \in Slots |-> {}] /\ todo \in Scenarios /\ bare = {}
  BY DEF Init
<1>2. \A p \in Slots : req[p] = Blank /\ waits[p] = {}  BY <1>1
<1>3. /\ Blank \in Request /\ Blank.add = {} /\ Blank.del = {} /\ Blank.seen = {}
      /\ ~Blank.txn /\ Blank.op = "idle" /\ Removed(Blank) = {} /\ Held(Blank) = {}
      /\ ReqRefs(Blank) = {} /\ Program(Blank) /\ Shape(Blank)
  BY BlankSlot
<1>4. /\ redis \in Stored /\ redis.groups = {}
      /\ \A u \in redis.session : u \in 1 .. Stride - 1
      /\ \A n \in Table(Start, "nodes") : redis.node[n.dev_addr] = n.device
      /\ \A d \in Table(Start, "devices") :
            /\ d.kind = "Gateway" => redis.gate[d.eui] \in {None, d.id}
            /\ d.kind = "Snap" => redis.snap[d.eui] \in {None, d.id}
  BY <1>1, StartRedis
<1>5. /\ \A x \in Start : \A i \in Refs(x) : i \in 1 .. Stride - 1
      /\ UniqueIds(Start) /\ UniqueKeys(Start)
      /\ \A x, y \in Start : Compat(x, y)
  BY StartRows
<1>6. CachedAll = {} /\ Everywhere = Start
  <2>1. CachedAll = {}  BY <1>4 DEF CachedAll
  <2>2. \A p \in Slots : Held(req[p]) = {}  BY <1>2, <1>3
  <2> QED  BY <1>1, <2>1, <2>2 DEF Everywhere
<1>7. \A p \in Slots : ~Active(p)  BY <1>2, <1>3 DEF Active
<1>8. /\ \A r \in todo : Sendable(r)
      /\ \A r, s \in todo : r.no = s.no => r = s
  BY <1>1, ScenarioAssumption
<1>9. StoreInv
  <2>1. Start \subseteq Row /\ IsFiniteSet(Start)  BY StartAssumption
  <2>2. req \in [Slots -> Request]  BY <1>1, <1>3
  <2>3. waits \in [Slots -> SUBSET Slots]  BY <1>1
  <2> QED  BY <1>1, <1>2, <1>4, <2>1, <2>2, <2>3 DEF StoreInv
<1>10. NumberInv  BY <1>7, <1>8 DEF NumberInv, Sendable
<1>11. ApartInv
  <2>1. ASSUME NEW r \in todo, NEW i, Reserved(r, i) PROVE i \notin 1 .. Stride - 1
    <3>1. r.no \in 1 .. Stride - 1 /\ r.made = 0  BY <1>8, SendableIs DEF Sendable
    <3>2. PICK k \in Nat : k > r.made /\ i = r.no + Stride * k  BY <2>1 DEF Reserved
    <3>3. PICK n : n = r.no  OBVIOUS
    <3>4. k \in Nat /\ k > 0 /\ i = n + Stride * k /\ Stride \in Nat /\ n \in 1 .. Stride - 1
      BY <3>1, <3>2, <3>3, ApiAssumption
    <3>5. Stride * k >= Stride /\ Stride * k \in Nat  BY ONLY <3>4, SMT
    <3>6. PICK m : m = Stride * k  OBVIOUS
    <3>7. m \in Nat /\ m >= Stride /\ i = n + m  BY <3>4, <3>5, <3>6
    <3> QED  BY ONLY <3>4, <3>7
  <2>2. ASSUME NEW i, Known(i) PROVE i \in 1 .. Stride - 1
    BY <1>1, <1>4, <1>5, <1>6, <2>2 DEF Known
  <2>3. \A p \in Slots : \A i : ~KnownTo(req[p], i)  BY <1>2, <1>3 DEF KnownTo
  <2>4. \A r \in todo : Apart(r)  BY <2>1, <2>2, <2>3 DEF Apart
  <2>5. \A p \in Slots : Private(p)  BY <1>2, <1>3 DEF Private
  <2> QED  BY <1>7, <2>4, <2>5 DEF ApartInv
<1>12. IdInv
  <2>1. \A p \in Slots : Locked(req[p])  BY <1>2, <1>3 DEF Locked, UniqueIds
  <2> QED  BY <1>1, <1>2, <1>3, <1>5, <2>1 DEF IdInv
<1>13. CompatInv  BY <1>5, <1>6 DEF CompatInv
<1>14. KeyInv  BY <1>1, <1>2, <1>3, <1>5 DEF KeyInv, UniqueKeys
<1>15. ProgramInv  BY <1>2, <1>3 DEF ProgramInv
<1>16. OwnedInv
  <2>1. RecordOwned  BY <1>1, <1>4 DEF RecordOwned
  <2> QED  BY <2>1, <1>2, <1>3 DEF OwnedInv
<1>17. JointInv
  <2>1. StoredWhole  BY <1>1, StartAssumption DEF StoredWhole
  <2> QED  BY <2>1, <1>2, <1>3 DEF JointInv, Jointly
<1>18. DefaultInv
  <2>1. ASSUME NEW u \in db, u.t = "users" PROVE \E g \in db : TheDefault(g, u.id)
    <3>1. PICK g \in Start : DefaultsOf(Start, u.id) = {g}
      BY <1>1, <2>1, StartAssumption DEF Table
    <3> QED  BY <1>1, <1>6, <3>1 DEF DefaultsOf, Table, TheDefault, IsDefault
  <2>2. \A p \in Slots : Leaving(req[p])  BY <1>2, <1>3 DEF Leaving
  <2> QED  BY <2>1, <2>2, <1>4 DEF DefaultInv
<1> QED  BY <1>9, <1>10, <1>11, <1>12, <1>13, <1>14, <1>15, <1>16, <1>17, <1>18 DEF Inv

-----------------------------------------------------------------------------
(* The invariants *)

\* The invariant holds in every reachable state.
LEMMA AlwaysInv == Spec => []Inv
<1>1. Init => Inv  BY InitInv
<1>2. Inv /\ [Next]_apiVars => Inv'  BY NextKeeps
<1> QED  BY <1>1, <1>2, PTL DEF Spec

\* It has the types.
LEMMA InvType == Inv => TypeOK
<1> SUFFICES ASSUME Inv PROVE TypeOK  OBVIOUS
<1>1. StoreInv /\ IdInv  BY DEF Inv
<1>2. Cardinality(Ids(db)) = Cardinality(db)  BY <1>1, IdsFinite DEF StoreInv, IdInv
<1>3. /\ redis.node \in [Addrs -> Nat \cup {Partial}]
      /\ redis.eui \in [Euis -> Addrs \cup {None}]
      /\ redis.sent \in [Names -> 0..MaxCount]
  BY <1>1 DEF StoreInv, Stored
<1>4. ASSUME NEW p \in Slots
      PROVE  /\ waits[p] \subseteq Slots \ {p} /\ req[p].del \subseteq Ids(db)
             /\ Ids(req[p].add) \cap Ids(db) \subseteq req[p].del
  <2>1. Locked(req[p])  BY <1>1 DEF IdInv
  <2>2. waits[p] \subseteq Slots \ {p}  BY <1>1 DEF StoreInv
  <2>3. \A i \in Ids(req[p].add) \cap Ids(db) : i \in req[p].del  BY <2>1 DEF Locked, Ids
  <2> QED  BY <2>1, <2>2, <2>3 DEF Locked
<1> QED  BY <1>1, <1>2, <1>3, <1>4 DEF TypeOK, StoreInv

\* It leaves a user one default group, the one a cached list has.
LEMMA InvDefault == Inv => OneDefault
<1> SUFFICES ASSUME Inv, NEW u \in db, u.t = "users"
             PROVE  /\ Cardinality(DefaultsOf(db, u.id)) = 1
                    /\ {g \in CachedRows(u.id) : g.default} \subseteq DefaultsOf(db, u.id)
  BY DEF OneDefault, Table
<1>1. DefaultInv  BY DEF Inv
<1>2. PICK g \in db : TheDefault(g, u.id)  BY <1>1 DEF DefaultInv
<1>3. DefaultsOf(db, u.id) = {g}
  BY <1>2 DEF DefaultsOf, Table, TheDefault, IsDefault, Everywhere
<1>4. \A x \in CachedRows(u.id) : x.default => x = g
  BY <1>1, <1>2 DEF CachedRows, Cached, DefaultInv, TheDefault, IsDefault, Everywhere, CachedAll
<1> QED  BY <1>3, <1>4, FS_Singleton

\* The service keeps the types of its tables, keys and requests, ids are unique, and
\* an open transaction replaces only rows that are there.
THEOREM TypeCorrect == Spec => []TypeOK
BY AlwaysInv, InvType, PTL

\* Whatever handlers race, abort or are answered late, the record redis holds at the
\* address of a committed node is that node's, and so are the keys of gateways and
\* Snap devices.
THEOREM RecordsOwned == Spec => []RecordOwned
<1>1. Inv => RecordOwned  BY DEF Inv, OwnedInv
<1> QED  BY <1>1, AlwaysInv, PTL

\* No committed device lacks the row of its type or the authority of its owner, and
\* no row of a node or a gateway lacks its device.
THEOREM DevicesWhole == Spec => []StoredWhole
<1>1. Inv => StoredWhole  BY DEF Inv, JointInv
<1> QED  BY <1>1, AlwaysInv, PTL

\* A user has exactly one default group, and a cached list names no other.
THEOREM DefaultUnique == Spec => []OneDefault
BY AlwaysInv, InvDefault, PTL

=============================================================================

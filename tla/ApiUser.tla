------------------------------ MODULE ApiUser ------------------------------
(***************************************************************************)
(* Users, their tokens and sessions, the mails with a code, decode scripts *)
(* and broker accounts.  The service runs without an external user manager *)
(* (UserManager), so the table of users is the only directory.             *)
(***************************************************************************)
EXTENDS ApiStore

Named(p) == {u \in Rows(p, "users") : u.name = req[p].name}

Find(p, s, rows) ==
    /\ At(p, s)
    /\ IF rows = {} THEN Fail(p)
       ELSE /\ \E u \in rows : Go(p, Done([req[p] EXCEPT !.user = u.id]))
            /\ UNCHANGED <<db, redis>>
    /\ UNCHANGED <<todo, bare>>

-----------------------------------------------------------------------------
(* Sign-up: the user and the default group in one transaction *)

FindName(p) ==
    /\ At(p, "find_name")
    /\ IF Named(p) # {} THEN Fail(p) ELSE Proceed(p) /\ UNCHANGED <<db, redis>>
    /\ UNCHANGED <<todo, bare>>

NewUser(p) ==
    /\ At(p, "new_user")
    /\ LET i == NewId(p) IN
       Statement(p, {UserRow(i, req[p].name)}, {}, [req[p] EXCEPT !.user = i], redis)
    /\ UNCHANGED <<todo, bare>>

NewUserGroup(p) ==
    /\ At(p, "new_user_group")
    /\ Statement(p, {GroupRow(NewId(p), req[p].user, TRUE)}, {}, req[p],
                 Uncached(req[p].user))
    /\ UNCHANGED <<todo, bare>>

-----------------------------------------------------------------------------
(* Login and refresh: a pair of tokens, then the session in redis *)

LoginFind(p) == Find(p, "login_find", Named(p))

RefreshFind(p) ==
    Find(p, "refresh_find",
         {u \in Rows(p, "users") : \E k \in Rows(p, "tokens") :
                                       /\ k.user = u.id
                                       /\ k.user = req[p].user
                                       /\ k.kind = "Refresh"})

\* Both rows are committed before the session is stored.
Tokens(p) ==
    /\ At(p, "tokens")
    /\ LET u == req[p].user IN
       Statement(p, {TokenRow(NewId(p), u, "Access"), TokenRow(SecondId(p), u, "Refresh")},
                 {}, req[p], redis)
    /\ UNCHANGED <<todo, bare>>

Session(p) ==
    /\ At(p, "session")
    /\ redis' = [redis EXCEPT !.session = @ \cup {req[p].user}]
    /\ Proceed(p)
    /\ UNCHANGED <<db, todo, bare>>

-----------------------------------------------------------------------------
(* Mails with a code, and what the code allows *)

MailFind(p) == Find(p, "mail_find", Named(p))

\* The count is read, and written back after the limit is checked.
MailCount(p) ==
    /\ At(p, "mail_count")
    /\ LET c == redis.sent[req[p].name] IN
       IF c < MaxCount
       THEN /\ Go(p, Done([req[p] EXCEPT !.count = c]))
            /\ UNCHANGED <<db, redis>>
       ELSE Fail(p)
    /\ UNCHANGED <<todo, bare>>

MailSent(p) ==
    /\ At(p, "mail_sent")
    /\ redis' = [redis EXCEPT !.sent[req[p].name] =
                    IF req[p].count >= MaxCount THEN MaxCount ELSE req[p].count + 1]
    /\ Proceed(p)
    /\ UNCHANGED <<db, todo, bare>>

\* The key of a code names the address only: any code is valid while one is.
MailCode(p) ==
    /\ At(p, "mail_code")
    /\ redis' = [redis EXCEPT !.code = @ \cup {req[p].name}]
    /\ Proceed(p)
    /\ UNCHANGED <<db, todo, bare>>

ValidCode(p) ==
    /\ At(p, "valid_code")
    /\ IF req[p].name \in redis.code THEN Proceed(p) /\ UNCHANGED <<db, redis>>
       ELSE Fail(p)
    /\ UNCHANGED <<todo, bare>>

SetPassword(p) ==
    /\ At(p, "set_password")
    /\ IF Named(p) = {} THEN Fail(p) ELSE \E u \in Named(p) : Update(p, u)
    /\ UNCHANGED <<todo, bare>>

\* A user's own new password or picture.
SetInfo(p) ==
    /\ At(p, "set_info")
    /\ LET own == {u \in Rows(p, "users") : u.id = req[p].user} IN
       IF own = {} THEN Fail(p) ELSE \E u \in own : Update(p, u)
    /\ UNCHANGED <<todo, bare>>

-----------------------------------------------------------------------------
(* Deletion of a user.  Scripts, devices, tokens, groups, links and the user *)
(* are deleted in one transaction, in this order.                           *)

DeleteUserSteps == <<"drop_scripts", "collect", "drop_devices", "drop_tokens",
                     "drop_groups", "drop_links", "drop_user", "commit">>

FindUser(p) == Find(p, "find_user", Named(p))

\* The rows of table t that belong to the user.
DropOwn(p, s, t, red) ==
    /\ At(p, s)
    /\ Statement(p, {}, Ids({r \in Rows(p, t) : r.user = req[p].user}), req[p], red)
    /\ UNCHANGED <<todo, bare>>

DropScripts(p) == DropOwn(p, "drop_scripts", "scripts", redis)
\* The sessions stay: the keys deleted in redis lack the prefix of a session's.
DropTokens(p) == DropOwn(p, "drop_tokens", "tokens", redis)
DropGroups(p) == DropOwn(p, "drop_groups", "groups", redis)
DropLinks(p) == DropOwn(p, "drop_links", "links", Uncached(req[p].user))

Collect(p) ==
    /\ At(p, "collect")
    /\ Go(p, Done([req[p] EXCEPT !.seen =
             {d \in Rows(p, "devices") : Owned(p, d.id) # {}}]))
    /\ UNCHANGED <<db, redis, todo, bare>>

\* Mutant of DropDevices: the rows of the nodes and gateways are forgotten.
DropDevicesTyped(p) ==
    /\ At(p, "drop_devices")
    /\ LET ids == Ids(req[p].seen) IN
       Delete(p, {r \in View(p) : \/ r.t = "devices" /\ r.id \in ids
                                  \/ r.t = "authority" /\ r.device \in ids})
    /\ UNCHANGED <<todo, bare>>

\* The rows of Snap devices are looked up with the ids of LoRa nodes, those of
\* MQTT devices and the accounts of gateways are not looked up, and nothing is
\* deleted in redis. The five DELETE statements (387-400) are one step.
DropDevices(p) ==
    /\ At(p, "drop_devices")
    /\ LET ids == Ids(req[p].seen)
           nodes == Ids({d \in req[p].seen : d.kind = "LoRaNode"})
           gates == Ids({d \in req[p].seen : d.kind = "Gateway"})
       IN Delete(p, {r \in View(p) :
             \/ r.t \in {"snaps", "nodes"} /\ r.device \in nodes
             \/ r.t = "gates" /\ r.device \in gates
             \/ r.t = "devices" /\ r.id \in ids
             \/ r.t = "authority" /\ r.device \in ids})
    /\ UNCHANGED <<todo, bare>>

DropUser(p) ==
    /\ At(p, "drop_user")
    /\ Delete(p, {u \in Rows(p, "users") : u.id = req[p].user})
    /\ UNCHANGED <<todo, bare>>

-----------------------------------------------------------------------------
(* Decode scripts and broker accounts: statements of their own *)

NewScript(p) ==
    /\ At(p, "new_script")
    /\ Insert(p, ScriptRow(NewId(p), req[p].user))
    /\ UNCHANGED <<todo, bare>>

OwnScript(p) == {s \in Rows(p, "scripts") :
                    s.id = req[p].script /\ s.user = req[p].user}

EditScript(p) ==
    /\ At(p, "edit_script")
    /\ IF OwnScript(p) = {} THEN Fail(p) ELSE \E s \in OwnScript(p) : Update(p, s)
    /\ UNCHANGED <<todo, bare>>

\* The devices that use the script are counted before it is deleted.
CountDevices(p) ==
    /\ At(p, "count_devices")
    /\ IF \E d \in Rows(p, "devices") : d.script = req[p].script
       THEN Fail(p)
       ELSE Proceed(p) /\ UNCHANGED <<db, redis>>
    /\ UNCHANGED <<todo, bare>>

DropScript(p) ==
    /\ At(p, "drop_script")
    /\ IF OwnScript(p) = {} THEN Fail(p) ELSE Delete(p, OwnScript(p))
    /\ UNCHANGED <<todo, bare>>

NewIntegration(p) ==
    /\ At(p, "new_integration")
    /\ Insert(p, IntegrationRow(NewId(p), req[p].user, "Integration", None))
    /\ UNCHANGED <<todo, bare>>

DropIntegration(p) ==
    /\ At(p, "drop_integration")
    /\ Delete(p, {r \in Rows(p, "integration") :
                     r.id = req[p].device /\ r.user = req[p].user})
    /\ UNCHANGED <<todo, bare>>

UserStep(p) ==
    \/ FindName(p) \/ NewUser(p) \/ NewUserGroup(p)
    \/ LoginFind(p) \/ RefreshFind(p) \/ Tokens(p) \/ Session(p)
    \/ MailFind(p) \/ MailCount(p) \/ MailSent(p) \/ MailCode(p)
    \/ ValidCode(p) \/ SetPassword(p) \/ SetInfo(p)
    \/ FindUser(p) \/ DropScripts(p) \/ Collect(p) \/ DropDevices(p) \/ DropTokens(p)
    \/ DropGroups(p) \/ DropLinks(p) \/ DropUser(p)
    \/ NewScript(p) \/ EditScript(p) \/ CountDevices(p) \/ DropScript(p)
    \/ NewIntegration(p) \/ DropIntegration(p)
=============================================================================

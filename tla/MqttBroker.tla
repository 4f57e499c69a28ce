----------------------------- MODULE MqttBroker -----------------------------
(***************************************************************************)
(* The MQTT broker: the router thread, the links and their clients, and    *)
(* what must hold of them.                                                 *)
(***************************************************************************)
EXTENDS MqttRouter, MqttLink

Init ==
    /\ slab = [id \in Ids |-> None]
    /\ free = [i \in 1 .. MaxConnections |-> i - 1]
    /\ conn = [l \in Links |-> Fresh]
    /\ submap = [f \in Filters |-> {}]
    /\ data = [f \in Filters |-> [known |-> FALSE, log |-> EmptyLog, waiters |-> <<>>]]
    /\ routes = [t \in Topics |-> {}]
    /\ retain = [t \in Topics |-> None]
    /\ ready = <<>>
    /\ grave = [c \in Clients |-> None]
    /\ chan = <<>>
    /\ phase = At("first", 0)
    /\ task = NoTask
    /\ link = [l \in Links |-> [pc |-> "idle", id |-> 0]]
    /\ inbuf = [l \in Links |-> <<>>]
    /\ outbuf = [l \in Links |-> <<>>]
    /\ owes = [l \in Links |-> <<>>]
    /\ npub = 0
    /\ nctl = 0
    /\ owed = [c \in Clients |-> [f \in Filters |-> {}]]

Next ==
    \/ RouterStep
    \/ \E l \in Links : LinkStep(l) \/ ClientStep(l) \/ ClientAnswer(l)

Spec == Init /\ [][Next]_vars

\* The router is a thread of its own, tokio polls links that are ready, and
\* clients acknowledge what they are sent: what can go on goes on. Dialling,
\* failing and publishing may stop at any time.
Running == RouterStep \/ \E l \in Links : LinkStep(l) \/ ClientAnswer(l)
\* Whether something can, that is ENABLED Running: the router thread has an
\* event, a poll or a task, or one of the links something to do.
Runnable ==
    \/ task.step # "panicked" /\ (phase.at = "recv" /\ Idle => chan # <<>>)
    \/ \E l \in Links : ENABLED (LinkStep(l) \/ ClientAnswer(l))
\* WF_vars(Running), without the evaluation of ENABLED RouterStep.
Fairness == []<>~Runnable \/ []<><<Running>>_vars

FairSpec == Spec /\ Fairness

-----------------------------------------------------------------------------
(* Where requests are                                                      *)

\* Requests of connection id on f: tracked, parked, being served, and on
\* their way from parked to tracked.
RequestCount(id, f) ==
    Len(OnFilter(conn[slab[id]].reqs, f))
        + Len(RequestsOf(data[f].waiters, id))
        + (IF task.step = "requests" /\ task.id = id THEN Len(OnFilter(task.reqs, f)) ELSE 0)
        + Len(Where(task.notes, {w \in Range(task.notes) : w.id = id /\ w.req.f = f}))

Served(id) == IF task.step = "requests" /\ task.id = id THEN Range(task.reqs) ELSE {}
Held(id, f) ==
    {q \in Range(conn[slab[id]].reqs) \cup Served(id) : q.f = f}
        \cup {w.req : w \in {w \in Range(data[f].waiters) \cup Range(task.notes) :
                                w.id = id /\ w.req.f = f}}

\* The place of client c on f as PubSub sees it.
PlaceOf(c, f) ==
    LET held == IF ConnectionOf(c) # {} THEN UNION {Held(id, f) : id \in ConnectionOf(c)}
                ELSE IF grave[c] = None THEN {} ELSE {q \in Range(grave[c].reqs) : q.f = f}
    IN  IF held = {} THEN None ELSE (CHOOSE q \in held : TRUE).cur[2]

MailOf(c) ==
    IF ConnectionOf(c) = {} THEN <<>>
    ELSE LET l == slab[CHOOSE id \in ConnectionOf(c) : TRUE]
             fs == Where(outbuf[l], {n \in Range(outbuf[l]) : IsForward(n) /\ n.at # None})
         IN  [i \in 1 .. Len(fs) |-> [f |-> fs[i].f, m |-> fs[i].m, off |-> fs[i].at[2]]]

PS == INSTANCE PubSub WITH
    joined <- {c \in Clients : ConnectionOf(c) # {}},
    log   <- [f \in Filters |-> [base |-> LogBase(data[f].log), msgs |-> LogMessages(data[f].log)]],
    place <- [c \in Clients |-> [f \in Filters |-> PlaceOf(c, f)]],
    mail  <- [c \in Clients |-> MailOf(c)]

-----------------------------------------------------------------------------
(* Properties *)

Statuses == {"Ready", "Caughtup", "InflightFull", "Busy"}
Cursor(cur) == cur[1] \in Nat /\ cur[2] \in Nat

\* Every variable keeps the type of the Rust value it stands for; a slot of
\* the slab is either vacant and in the vacant list or holds a link of its own.
TypeOK ==
    /\ slab \in [Ids -> Links \cup {None}]
    /\ \A i, j \in Ids : i # j /\ Used(i) => slab[i] # slab[j]
    /\ IsInjective(free) /\ Range(free) = {id \in Ids : ~Used(id)}
    /\ \A l \in Links : conn[l].status \in Statuses /\ conn[l].subs \subseteq Filters
    /\ submap \in [Filters -> SUBSET Ids]
    /\ routes \in [Topics -> SUBSET Filters] /\ retain \in [Topics -> Messages \cup {None}]
    /\ Range(ready) \subseteq Ids /\ Len(chan) <= ChannelSize
    /\ \A c \in Clients : Cardinality(ConnectionOf(c)) <= 1
    /\ npub \in 0 .. MaxPublish

\* A subscription has exactly one request, in the tracker, parked on the log,
\* or in the hands of the router, and a filter that is not subscribed to has
\* none: none is lost between pausing, parking and waking, none is doubled.
\* router.rs asserts the half of it with check_tracker_duplicates.
OneRequest ==
    \A id \in Ids, f \in Filters :
        Used(id) => RequestCount(id, f) = IF f \in conn[slab[id]].subs THEN 1 ELSE 0

\* log.rs on park(): the subscriber of a parked request has caught up with
\* the log; only then may it wait for the next message.
ParkedIsCaughtUp ==
    \A f \in Filters : \A w \in Range(data[f].waiters) :
        w.req.cur[2] = NextOffset(data[f].log)[2]

\* No connection is left waiting for something that will not come: while the
\* router is between two tasks, a ready connection is queued, one that has
\* caught up has nothing to do, one out of slots has messages to be
\* acknowledged, and a busy one has a link that knows or has said so. The
\* local link is excepted: LinkRx::next hands its reader an Unschedule, which
\* the reader drops, and nobody calls ready().
NoLostWakeup ==
    Idle => \A id \in Ids : Used(id) =>
        LET l == slab[id] c == conn[l]
        IN  /\ c.status = "Ready" => id \in Range(ready)
            /\ c.status = "Caughtup" => c.reqs = <<>> /\ c.acks = <<>>
            /\ c.status = "InflightFull" => c.inflight # <<>>
            /\ c.status = "Busy" /\ link[l].pc = "up" /\ l \notin Local =>
                \/ Unschedule \in Range(outbuf[l])
                \/ \E i \in 1 .. Len(chan) : chan[i].k = "Ready" /\ chan[i].id = id

\* A remembered topic has all filters that match it, those created after it
\* was remembered included.
RoutesComplete ==
    \A t \in Topics : routes[t] # {} => routes[t] = {f \in Matching[t] : data[f].known}

\* Messages in flight have packet ids of their own, in spite of the ids
\* starting over at MAX_PKID, and are no more than MAX_INFLIGHT.
InflightDistinct ==
    \A l \in Links :
        /\ Len(conn[l].inflight) <= MaxInflight
        /\ IsInjective([i \in 1 .. Len(conn[l].inflight) |-> conn[l].inflight[i].pkid])

\* The broker keeps the promise of PubSub: messages are handed over in the
\* order of the log, none twice on one connection and none left out; only when
\* a connection ends may the next one get some again, and after a persistent
\* session has been interrupted it gets all that were not acknowledged.
ImplementsPubSub == PS!PubSubSpec

\* reschedule() has met an id without tracker: the router thread is gone.
Panicked == task.step = "panicked"

\* consume() came upon an id without tracker, and now the router waits for an
\* event although connections behind that id are ready. It is not what the
\* comment in run_inner says: "Block on incoming events if there are no ready
\* connections for consumption".
Blocked == phase.at = "recv" /\ Idle /\ chan = <<>> /\ ready # <<>>

\* A subscriber that is behind and stays connected catches up, whatever it
\* waited for, unless the router thread has panicked, or is blocked and nobody
\* sends it an event any more.
Behind(c) ==
    \E id \in ConnectionOf(c) : \E f \in conn[slab[id]].subs :
        /\ link[slab[id]].pc \in {"up", "wake"}
        /\ \E q \in Held(id, f) : q.cur[2] < NextOffset(data[f].log)[2]
CatchesUp ==
    \A c \in Subscribers : (Behind(c) ~> ~Behind(c) \/ Panicked) \/ <>[]Blocked

\* Scheduler::reschedule unwraps the tracker of the id an event names: the
\* router thread must not panic.
RouterLives == task.step # "panicked"

\* The comment in handle_disconnection: a second Disconnect finds the
\* connection gone. It never ends the connection of another link.
DisconnectIsOwn ==
    [][\A id \in Ids :
          Idle /\ chan # <<>> /\ Head(chan).k = "Disconnect" /\ chan' = Tail(chan)
              /\ Head(chan).id = id /\ Used(id) /\ slab'[id] = None
          => slab[id] = Head(chan).link]_vars

=============================================================================

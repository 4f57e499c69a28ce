---------------------------- MODULE GatewayConfig ----------------------------
(***************************************************************************)
(* The gateway configuration calls of devices_manager (event/mod.rs): a    *)
(* gRPC request registers a oneshot sender in CONFIG_CACHE under its       *)
(* gateway and a fresh key, publishes a command over MQTT and waits five   *)
(* seconds for the gateway's answer, which process_gateway (man/mqtt.rs)   *)
(* hands to the sender it finds. Every access to the cache locks the mutex *)
(* anew, and a panic under the lock poisons it for good. One action stands *)
(* for one critical section.                                               *)
(***************************************************************************)
EXTENDS FiniteSets, Integers

CONSTANTS
    Reads,      \* requests of the config call
    Updates,    \* requests of the update_config call
    Gateways,
    Answers,    \* answers gateways send, repeated ones included
    None

Requests == Reads \cup Updates

ASSUME ConfigAssumption ==
    /\ Reads \cap Updates = {}
    /\ None \notin Requests \cup Gateways

VARIABLES
    req,        \* request tasks
    cache,      \* CONFIG_CACHE: per gateway, the requests whose sender is in its map
    timers,     \* requests whose five second removal task has not run
    late,       \* requests whose five seconds are over
    answer,     \* process_gateway tasks
    delivered,  \* requests whose receiver holds a configuration
    poisoned    \* whether a thread panicked holding the mutex

vars == <<req, cache, timers, late, answer, delivered, poisoned>>

ReqPc == {"idle", "insert", "publish", "wait", "got", "ok", "timeout", "closed",
          "panicked", "cancelled"}
ReqEnded == {"ok", "timeout", "closed", "panicked", "cancelled"}

\* The registrations of a request's gateway; Absent: the gateway has no map.
Absent == {None}
Registrations == (SUBSET Requests) \cup {Absent}
CacheOf(r) == cache[req[r].gw]

\* lock().unwrap() panics on a poisoned mutex, in whatever task runs it.
Panics(r) == req' = [req EXCEPT ![r].pc = "panicked"]

-----------------------------------------------------------------------------
(* config and update_config *)

\* next_id, then contains_key: the answer is used after the lock is released.
Check(r, g) ==
    /\ req[r].pc = "idle"
    /\ req' = [req EXCEPT ![r] = [pc |-> IF poisoned THEN "panicked" ELSE "insert",
                                  gw |-> g, known |-> cache[g] # Absent]]
    /\ UNCHANGED <<cache, timers, late, answer, delivered, poisoned>>

\* Mutant of InsertKnown: the map is taken to be there.
InsertUnchecked(r) ==
    /\ req[r].pc = "insert" /\ req[r].known /\ ~poisoned
    /\ cache' = [cache EXCEPT ![req[r].gw] = @ \cup {r}]
    /\ timers' = timers \cup {r}
    /\ req' = [req EXCEPT ![r].pc = "publish"]
    /\ UNCHANGED <<late, answer, delivered, poisoned>>

\* Mutant of InsertKnown: the guard of contains_key is still held, as it
\* would be in the scrutinee of a match.
InsertUnderGuard(r) == FALSE

\* The map was there: get_mut().unwrap().insert(). The unwrap panics, holding
\* the mutex, if the map has been removed meanwhile.
InsertKnown(r) ==
    /\ req[r].pc = "insert" /\ req[r].known /\ ~poisoned
    /\ IF CacheOf(r) = Absent
       THEN /\ poisoned' = TRUE
            /\ Panics(r)
            /\ UNCHANGED <<cache, timers>>
       ELSE /\ cache' = [cache EXCEPT ![req[r].gw] = @ \cup {r}]
            /\ timers' = timers \cup {r}
            /\ req' = [req EXCEPT ![r].pc = "publish"]
            /\ UNCHANGED poisoned
    /\ UNCHANGED <<late, answer, delivered>>

\* The map was not there: a new one replaces whatever is there by now.
InsertNew(r) ==
    /\ req[r].pc = "insert" /\ ~req[r].known /\ ~poisoned
    /\ cache' = [cache EXCEPT ![req[r].gw] = {r}]
    /\ timers' = timers \cup {r}
    /\ req' = [req EXCEPT ![r].pc = "publish"]
    /\ UNCHANGED <<late, answer, delivered, poisoned>>

\* The mutex has been poisoned since contains_key.
InsertPanics(r) ==
    /\ req[r].pc = "insert" /\ poisoned
    /\ Panics(r)
    /\ UNCHANGED <<cache, timers, late, answer, delivered, poisoned>>

\* The command goes out; whether it arrives is not known.
Publish(r) ==
    /\ req[r].pc = "publish"
    /\ req' = [req EXCEPT ![r].pc = "wait"]
    /\ UNCHANGED <<cache, timers, late, answer, delivered, poisoned>>

\* The sender of r is in the cache or in the hands of an answer.
SenderLives(r) == r \in CacheOf(r) \/ \E a \in Answers : answer[a] = [pc |-> "send", to |-> r]

\* The receiver, polled before the deadline: a value, a closed channel ...
Resolve(r) ==
    /\ req[r].pc = "wait"
    /\ \/ r \in delivered /\ req' = [req EXCEPT ![r].pc = "got"]
       \/ r \notin delivered /\ ~SenderLives(r) /\ req' = [req EXCEPT ![r].pc = "closed"]
    /\ UNCHANGED <<cache, timers, late, answer, delivered, poisoned>>

\* ... or neither, five seconds after the command went out.
Timeout(r) ==
    /\ req[r].pc = "wait"
    /\ r \in late /\ r \notin delivered /\ SenderLives(r)
    /\ req' = [req EXCEPT ![r].pc = "timeout"]
    /\ UNCHANGED <<cache, timers, late, answer, delivered, poisoned>>

\* config removes the whole map of the gateway, update_config nothing.
FinishRead(r) ==
    /\ req[r].pc = "got" /\ r \in Reads
    /\ req' = [req EXCEPT ![r].pc = IF poisoned THEN "panicked" ELSE "ok"]
    /\ cache' = IF poisoned THEN cache ELSE [cache EXCEPT ![req[r].gw] = Absent]
    /\ UNCHANGED <<timers, late, answer, delivered, poisoned>>

\* Mutant of FinishUpdate: update_config removes the map as config does.
FinishUpdateRemoves(r) ==
    /\ req[r].pc = "got" /\ r \in Updates
    /\ req' = [req EXCEPT ![r].pc = IF poisoned THEN "panicked" ELSE "ok"]
    /\ cache' = IF poisoned THEN cache ELSE [cache EXCEPT ![req[r].gw] = Absent]
    /\ UNCHANGED <<timers, late, answer, delivered, poisoned>>

FinishUpdate(r) ==
    /\ req[r].pc = "got" /\ r \in Updates
    /\ req' = [req EXCEPT ![r].pc = "ok"]
    /\ UNCHANGED <<cache, timers, late, answer, delivered, poisoned>>

\* External: the client goes away and the handler is dropped where it awaits.
Cancel(r) ==
    /\ req[r].pc \in {"publish", "wait"}
    /\ req' = [req EXCEPT ![r].pc = "cancelled"]
    /\ UNCHANGED <<cache, timers, late, answer, delivered, poisoned>>

\* The five seconds after the registration pass.
Elapse(r) ==
    /\ r \in timers \ late
    /\ late' = late \cup {r}
    /\ UNCHANGED <<req, cache, timers, answer, delivered, poisoned>>

\* Mutant of Cleanup: only a request that has been answered is removed.
CleanupAnswered(r) ==
    /\ r \in timers \cap late
    /\ timers' = timers \ {r}
    /\ cache' = IF poisoned \/ r \notin delivered THEN cache
                ELSE [cache EXCEPT ![req[r].gw] = @ \ {r}]
    /\ UNCHANGED <<req, late, answer, delivered, poisoned>>

\* The removal task takes the sender out by its key, or panics.
Cleanup(r) ==
    /\ r \in timers \cap late
    /\ timers' = timers \ {r}
    /\ cache' = IF poisoned THEN cache ELSE [cache EXCEPT ![req[r].gw] = @ \ {r}]
    /\ UNCHANGED <<req, late, answer, delivered, poisoned>>

-----------------------------------------------------------------------------
(* process_gateway *)

\* config_cache: the sender registered for the gateway and the key, if any.
Take(a, r) ==
    /\ answer[a].pc = "idle"
    /\ req[r].pc \notin {"idle", "insert", "publish"}
    /\ r \in timers \cup late              \* its command has been published
    /\ answer' = [answer EXCEPT ![a] =
                    IF ~poisoned /\ r \in CacheOf(r) THEN [pc |-> "send", to |-> r]
                    ELSE [pc |-> "done", to |-> None]]
    /\ cache' = IF poisoned THEN cache ELSE [cache EXCEPT ![req[r].gw] = @ \ {r}]
    /\ UNCHANGED <<req, timers, late, delivered, poisoned>>

\* sender.send: lost when the receiver is gone.
Send(a) ==
    /\ answer[a].pc = "send"
    /\ delivered' = IF req[answer[a].to].pc = "wait"
                    THEN delivered \cup {answer[a].to} ELSE delivered
    /\ answer' = [answer EXCEPT ![a].pc = "done"]
    /\ UNCHANGED <<req, cache, timers, late, poisoned>>

-----------------------------------------------------------------------------
Init ==
    /\ req = [r \in Requests |-> [pc |-> "idle", gw |-> None, known |-> FALSE]]
    /\ cache = [g \in Gateways |-> Absent]
    /\ timers = {}
    /\ late = {}
    /\ answer = [a \in Answers |-> [pc |-> "idle", to |-> None]]
    /\ delivered = {}
    /\ poisoned = FALSE

RequestStep(r) ==
    \/ InsertKnown(r) \/ InsertNew(r) \/ InsertPanics(r) \/ Publish(r)
    \/ Resolve(r) \/ Timeout(r) \/ FinishRead(r) \/ FinishUpdate(r)

Next ==
    \/ \E r \in Requests :
        \/ \E g \in Gateways : Check(r, g)
        \/ RequestStep(r)
        \/ Cancel(r)
        \/ Elapse(r)
        \/ Cleanup(r)
    \/ \E a \in Answers :
        \/ \E r \in Requests : Take(a, r)
        \/ Send(a)

Spec == Init /\ [][Next]_vars

\* tokio polls ready tasks, and sleeps end.
Fairness ==
    /\ \A r \in Requests : WF_vars(RequestStep(r)) /\ WF_vars(Elapse(r)) /\ WF_vars(Cleanup(r))
    /\ \A a \in Answers : WF_vars(Send(a))

FairSpec == Spec /\ Fairness

-----------------------------------------------------------------------------
(* Properties *)

\* Every variable keeps the type of the Rust value it stands for; a gateway
\* without a map has no sender.
TypeOK ==
    /\ req \in [Requests -> [pc : ReqPc, gw : Gateways \cup {None}, known : BOOLEAN]]
    /\ cache \in [Gateways -> Registrations]
    /\ timers \subseteq Requests /\ late \subseteq Requests /\ delivered \subseteq Requests
    /\ answer \in [Answers -> [pc : {"idle", "send", "done"}, to : Requests \cup {None}]]
    /\ poisoned \in BOOLEAN

\* No registration outlives its five seconds: whatever replaces or removes
\* maps and senders meanwhile, the removal task leaves none behind, unless
\* the mutex is poisoned.
NothingLeftBehind ==
    ~poisoned => \A r \in late \ timers : r \notin CacheOf(r)

\* A request that waits, in time and unanswered, can be answered: its sender
\* is in the cache or in the hands of an answer. Only two calls of another
\* request for the same gateway may lose it: a config call that succeeds
\* and removes the map, or a first registration that replaces the map.
WaiterReachable ==
    \A r \in Requests \ (late \cup delivered) :
        req[r].pc \in {"publish", "wait"} =>
            \/ SenderLives(r)
            \/ \E q \in Requests \ {r} :
                /\ req[q].gw = req[r].gw
                /\ \/ q \in Reads /\ req[q].pc = "ok"
                   \/ ~req[q].known /\ q \in timers \cup late

\* The mutex is poisoned only where a config call succeeded: update_config
\* calls, and calls that fail, never break the cache for the others.
PoisonedByRead ==
    poisoned => \E r \in Reads : req[r].pc = "ok"

\* get_mut().unwrap() in event/mod.rs asserts that the map contains_key saw
\* is still there.
UnwrapHolds ==
    \A r \in Requests :
        (req[r].pc = "insert" /\ req[r].known /\ ~poisoned) => CacheOf(r) # Absent

\* Every request that starts ends, with the configuration or an error.
EveryRequestEnds ==
    \A r \in Requests : (req[r].pc # "idle") ~> (req[r].pc \in ReqEnded)

=============================================================================

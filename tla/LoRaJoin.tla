------------------------------ MODULE LoRaJoin ------------------------------
(***************************************************************************)
(* Join requests: RequestCache, node_data_decode's join arm, request_warp  *)
(* and LoRaNodeManager::new_otaa_node.                                     *)
(***************************************************************************)
EXTENDS LoRaState

\* External: the device asks for a new session. The request is on the air
\* until the next one.
DeviceJoin ==
    /\ device.attempts < MaxAttempts
    /\ device' = [device EXCEPT !.attempts = @ + 1, !.joining = TRUE]
    /\ UNCHANGED <<air, storeVars, up, bufferVars, joinVars, downVars, rewound, restarts>>

\* RequestCache::insert for a request received with strength s: the first
\* reception opens the entry and sleeps 200 ms, a stronger one replaces it.
\* Every reception arms its own removal timer.
JoinReceive(j, a, s) ==
    /\ join[j].pc = "idle"
    /\ joinSlot' = IF joinSlot = None THEN j
                   ELSE IF s > join[joinSlot].rssi THEN j ELSE joinSlot
    /\ joinTimers' = joinTimers \cup {j}
    /\ join' = [join EXCEPT ![j] = [NewJoin EXCEPT
                    !.pc = IF joinSlot = None THEN "sleep" ELSE "merged",
                    !.attempt = a, !.rssi = s,
                    !.owner = IF joinSlot = None THEN j ELSE join[joinSlot].owner]]
    /\ UNCHANGED <<deviceVars, storeVars, up, bufferVars, sessions, downVars, rewound, restarts>>

\* After the 200 ms: RequestCache::get.
JoinWake(j) ==
    /\ join[j].pc = "sleep"
    /\ join' = [join EXCEPT ![j].pc = IF joinSlot = None THEN "empty" ELSE "load",
                            ![j].item = joinSlot]
    /\ joinSlot' = None
    /\ UNCHANGED <<deviceVars, storeVars, up, bufferVars, joinTimers, sessions, downVars,
                   rewound, restarts>>

\* The timer of an insertion removes whatever the entry holds by then. Ten
\* seconds outlast the 200 ms sleep of the task that opened the entry it
\* went to, not the sleep of a task that comes later.
JoinTimer(j) ==
    /\ j \in joinTimers
    /\ join[join[j].owner].pc # "sleep"
    /\ joinTimers' = joinTimers \ {j}
    /\ joinSlot' = None
    /\ UNCHANGED <<deviceVars, storeVars, up, bufferVars, join, sessions, downVars,
                   rewound, restarts>>

\* request_warp: NodeInfo::load_by_eui, or the database row when redis has
\* nothing, two awaited reads in one step like Load. Every device that sends
\* a join request is an OTAA device here.
JoinLoad(j) ==
    /\ join[j].pc = "load"
    /\ join' = [join EXCEPT ![j].pc = IF stored = None THEN "register" ELSE "answer",
                            ![j].sess = IF stored = None THEN dbSess ELSE None]
    /\ UNCHANGED <<deviceVars, storeVars, up, bufferVars, joinSlot, joinTimers, sessions,
                   downVars, rewound, restarts>>

JoinRegister(j) ==
    /\ join[j].pc = "register"
    /\ WriteRegistered(join[j].sess)
    /\ join' = [join EXCEPT ![j].pc = "answer", ![j].sess = None]
    /\ UNCHANGED <<deviceVars, up, bufferVars, joinSlot, joinTimers, sessions, downVars,
                   restarts>>

\* new_otaa_node: fresh keys (random app_nonce and net_id) replace the ones
\* waiting under lora:otaa:<addr>.
JoinAnswer(j) ==
    /\ join[j].pc = "answer"
    /\ sessions' = sessions + 1
    /\ pending' = sessions'
    /\ join' = [join EXCEPT ![j].pc = "send", ![j].sess = sessions']
    /\ UNCHANGED <<deviceVars, stored, dbSess, up, bufferVars, joinSlot, joinTimers,
                   downVars, rewound, restarts>>

\* gw.down_link(join accept)
JoinSend(j) ==
    /\ join[j].pc = "send"
    /\ join' = [join EXCEPT ![j].pc = "sent"]
    /\ UNCHANGED <<deviceVars, storeVars, up, bufferVars, joinSlot, joinTimers, sessions,
                   downVars, rewound, restarts>>

\* External: the device hears the accept that answers its latest request (an
\* earlier one is derived from another DevNonce) and starts the new session.
DeviceAccept(j) ==
    /\ join[j].pc = "sent"
    /\ device.joining
    /\ join[join[j].item].attempt = device.attempts
    /\ device' = [device EXCEPT !.joining = FALSE, !.sess = join[j].sess, !.next = 0]
    /\ UNCHANGED <<air, storeVars, up, bufferVars, joinVars, downVars, rewound, restarts>>

\* A redis, database or socket call of the task returns an error.
JoinFails(j) ==
    /\ Faults
    /\ join[j].pc \in {"load", "register", "answer", "send"}
    /\ join' = [join EXCEPT ![j].pc = "failed"]
    /\ UNCHANGED <<deviceVars, storeVars, up, bufferVars, joinSlot, joinTimers, sessions,
                   downVars, rewound, restarts>>

JoinStep(j) == JoinWake(j) \/ JoinLoad(j) \/ JoinRegister(j) \/ JoinAnswer(j) \/ JoinSend(j)

JoinNext ==
    \/ DeviceJoin
    \/ \E j \in Joins :
        \/ \E a \in 1 .. device.attempts, s \in Rssi : JoinReceive(j, a, s)
        \/ JoinStep(j)
        \/ JoinTimer(j)
        \/ DeviceAccept(j)
        \/ JoinFails(j)

=============================================================================

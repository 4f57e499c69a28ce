----------------------------- MODULE LoRaState ------------------------------
(***************************************************************************)
(* The state of the LoRaWAN part of devices_manager as one end device      *)
(* (one dev_addr, one dev_eui) sees it: the redis and database records of  *)
(* the device, the in-memory caches keyed by its address, the tokio tasks  *)
(* working for it, and the device itself with what it has transmitted.     *)
(* Everything in the code is keyed by the device, so devices share none of *)
(* this state.                                                             *)
(***************************************************************************)
EXTENDS FrameCounter, FiniteSets, Sequences

CONSTANTS
    Copies,      \* uplink tasks: one per reception of a frame by a gateway
    Joins,       \* join tasks: one per reception of a join request
    Requests,    \* downlink requests from MQTT or gRPC
    Gateways,
    Rssi,        \* signal strengths, integers
    None,
    Kinds,       \* the kinds of uplink the device sends: [conf, data : BOOLEAN]
    ClassC,      \* values NodeInfo.class_c may have: a subset of BOOLEAN
    LowCount,    \* a pending session is looked for below this counter: 5
    Starts,      \* counters the device may be at when the model starts
    Cached,      \* whether redis may, or may not, know the device at the start
    MaxFrames,   \* bound: frames the device sends
    MaxReorder,  \* bound: later frames that may overtake a copy
    MaxAttempts, \* bound: join requests the device sends
    MaxResets,   \* bound: counter resets of an ABP device
    MaxRestarts, \* bound: restarts of the server process
    Faults       \* whether a redis, database or socket call may fail

ASSUME SetsAssumption ==
    /\ None \notin Copies \cup Joins \cup Requests \cup Gateways
    /\ Copies \cap Requests = {}
    /\ Rssi \subseteq Int
    /\ Kinds \subseteq [conf : BOOLEAN, data : BOOLEAN]
    /\ Cached \subseteq BOOLEAN
    /\ ClassC \subseteq BOOLEAN
    /\ Faults \in BOOLEAN

ASSUME BoundsAssumption ==
    /\ LowCount \in Nat
    /\ Starts \subseteq Nat
    /\ {MaxFrames, MaxReorder, MaxAttempts, MaxResets, MaxRestarts} \subseteq Nat

VARIABLES
    device,     \* the end device: class, session in use, next counter, join attempts
    air,        \* frames transmitted, oldest first
    stored,     \* NodeInfo hash in redis: session, counters, gateway
    dbSess,     \* session keys in the lora_node row
    pending,    \* lora:otaa:<addr>: session of a join not used yet
    up,         \* uplink tasks (node_data)
    slot,       \* DATA_QUEUE entry: the copy buffered for the address
    timers,     \* copies whose 10 s removal timer has not fired
    dropped,    \* copies a timer or a restart threw out of the buffer
    join,       \* join tasks
    joinSlot,   \* REQUEST_QUEUE entry
    joinTimers, \* join tasks whose 10 s removal timer has not fired
    sessions,   \* sessions created by joins so far
    queue,      \* GLOBAL_DOWNLOAD entry: requests waiting for an uplink
    req,        \* downlink requests (dispatch_task_now)
    rewound,    \* history: which fields of the redis record ever went back
    restarts    \* restarts of the process so far

deviceVars == <<device, air>>
storeVars  == <<stored, dbSess, pending>>
bufferVars == <<slot, timers, dropped>>
joinVars   == <<join, joinSlot, joinTimers, sessions>>
downVars   == <<queue, req>>
vars == <<deviceVars, storeVars, up, bufferVars, joinVars, downVars, rewound, restarts>>

-----------------------------------------------------------------------------
(* Types *)

Session == Nat
Frame   == [sess : Session, n : Nat, conf : BOOLEAN, data : BOOLEAN]
Info    == [sess : Session, up : Nat, down : Nat, gw : Gateways \cup {None}]

\* A missing record is no record, a missing session no session.
ASSUME NoneAssumption == None \notin Info /\ None \notin Session

\* register_to_redis: the record built from the database row.
Registered(sess) == [sess |-> sess, up |-> 0, down |-> 0, gw |-> None]

UpEnded == {"done", "silent", "repeated", "rejected", "merged", "empty", "failed"}
UpPc == {"idle", "load", "register", "getotaa", "delotaa", "activatedb", "activate",
         "decode", "resetdown", "insert", "sleep", "deliver", "pull", "incr",
         "senddown", "sendack", "incrack", "report"} \cup UpEnded

UpTask == [pc    : UpPc,
           at    : 0 .. MaxFrames,             \* the frame: index into air
           gw    : Gateways \cup {None},       \* gateway that received it
           rssi  : Rssi \cup {None},
           snap  : Info,                       \* node.info, read by Load
           otaa  : Session \cup {None},        \* pending session it took
           stale : BOOLEAN,                    \* history: Decode used an old counter
           owner : Copies \cup {None},         \* task that opened the entry it went to
           item  : Copies \cup {None},         \* copy it took from the buffer
           task  : Requests \cup {None},       \* request popped from queue
           sent  : BOOLEAN,                    \* a downlink went out
           seen  : SUBSET (Copies \cup Requests)]  \* history: downlinks done at Load

JoinPc == {"idle", "sleep", "merged", "empty", "load", "register", "answer", "send",
           "sent", "failed"}

JoinTask == [pc : JoinPc, attempt : 0 .. MaxAttempts, rssi : Rssi \cup {None},
             sess : Session \cup {None}, item : Joins \cup {None},
             owner : Joins \cup {None}]

ReqPc == {"idle", "dispatch", "send", "sent", "queued", "refused", "failed"}
ReqTask == [pc : ReqPc, snap : Info, seen : SUBSET (Copies \cup Requests)]

NewUp == [pc |-> "idle", at |-> 0, gw |-> None, rssi |-> None, snap |-> Registered(0),
          otaa |-> None, stale |-> FALSE, owner |-> None, item |-> None, task |-> None,
          sent |-> FALSE, seen |-> {}]
NewJoin == [pc |-> "idle", attempt |-> 0, rssi |-> None, sess |-> None, item |-> None,
            owner |-> None]
NewReq == [pc |-> "idle", snap |-> Registered(0), seen |-> {}]

-----------------------------------------------------------------------------
(* Helpers *)

FrameOf(u) == air[up[u].at]

\* decrypt_mic with the keys of session s and the full counter n.
MicOk(u, s, n) == FrameOf(u).sess = s /\ FrameOf(u).n = n

\* header.fhdr().fcnt()
Fcnt(u) == Low(FrameOf(u).n)

\* register_to_redis writes the session it was given and zero counters. The
\* absent gateway of the new record is not written: one already recorded stays.
\* The SET of the EUI's key, which always names the one address, is in the step.
WriteRegistered(sess) ==
    /\ stored' = [Registered(sess) EXCEPT !.gw = IF stored = None THEN None ELSE stored.gw]
    /\ rewound' = IF stored = None THEN rewound
                  ELSE [up   |-> rewound.up \/ stored.up > 0,
                        down |-> rewound.down \/ stored.down > 0,
                        sess |-> rewound.sess \/ sess < stored.sess]
    /\ UNCHANGED <<dbSess, pending>>

\* A task that has been spawned and has not ended.
Working(u) == up[u].pc \notin UpEnded \cup {"idle"}

\* The downlinks whose counter has been counted and whose frame has been sent.
DownlinksDone == {u \in Copies : up[u].sent /\ up[u].pc \in {"report", "done"}}
                 \cup {r \in Requests : req[r].pc = "sent"}

=============================================================================

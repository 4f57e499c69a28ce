----------------------------- MODULE LoRaServer -----------------------------
(***************************************************************************)
(* The LoRaWAN network server for one end device: joins, uplinks and       *)
(* downlinks running side by side over the same records and caches.        *)
(***************************************************************************)
EXTENDS LoRaJoin, LoRaUplink, LoRaDownlink

\* A restart of the process: tasks, caches and timers are gone, redis and the
\* database stay.
Restart ==
    /\ restarts < MaxRestarts
    /\ restarts' = restarts + 1
    /\ up' = [u \in Copies |-> IF Working(u) THEN [up[u] EXCEPT !.pc = "failed"] ELSE up[u]]
    /\ join' = [j \in Joins |->
                  IF join[j].pc \in {"sleep", "load", "register", "answer", "send"}
                  THEN [join[j] EXCEPT !.pc = "failed"] ELSE join[j]]
    /\ req' = [r \in Requests |->
                 IF req[r].pc \in {"dispatch", "send"}
                 THEN [req[r] EXCEPT !.pc = "failed"] ELSE req[r]]
    /\ slot' = None
    /\ dropped' = dropped \cup ({slot} \ {None})
    /\ timers' = {}
    /\ joinSlot' = None
    /\ joinTimers' = {}
    /\ queue' = <<>>
    /\ UNCHANGED <<deviceVars, storeVars, sessions, rewound>>

\* The device is registered in the database. Redis has its record, with the
\* counter of its last frame, or not: then its counter starts at 0.
Init ==
    /\ \E n \in Starts, cached \in Cached, c \in ClassC :
        /\ cached \/ n = 0
        /\ device = [classC |-> c, sess |-> 0, next |-> n, joining |-> FALSE,
                     attempts |-> 0, resets |-> 0]
        /\ stored = IF cached
                    THEN [Registered(0) EXCEPT !.up = IF n = 0 THEN 0 ELSE n - 1]
                    ELSE None
    /\ air = <<>>
    /\ dbSess = 0
    /\ pending = None
    /\ up = [u \in Copies |-> NewUp]
    /\ slot = None
    /\ timers = {}
    /\ dropped = {}
    /\ join = [j \in Joins |-> NewJoin]
    /\ joinSlot = None
    /\ joinTimers = {}
    /\ sessions = 0
    /\ queue = <<>>
    /\ req = [r \in Requests |-> NewReq]
    /\ rewound = [up |-> FALSE, down |-> FALSE, sess |-> FALSE]
    /\ restarts = 0

Next == JoinNext \/ UplinkNext \/ DownlinkNext \/ Restart

Spec == Init /\ [][Next]_vars

\* tokio polls every task that is ready, and a sleep ends.
Fairness == \A u \in Copies : WF_vars(UplinkStep(u) \/ PullStep(u))

FairSpec == Spec /\ Fairness

-----------------------------------------------------------------------------
(* Type invariant *)

\* Every variable keeps the type of the Rust value it stands for.
TypeOK ==
    /\ device \in [classC : BOOLEAN, sess : Session, next : Nat, joining : BOOLEAN,
                   attempts : 0 .. MaxAttempts, resets : 0 .. MaxResets]
    /\ air \in Seq(Frame) /\ Len(air) <= MaxFrames
    /\ stored \in Info \cup {None}
    /\ dbSess \in Session
    /\ pending \in Session \cup {None}
    /\ up \in [Copies -> UpTask]
    /\ slot \in Copies \cup {None}
    /\ timers \subseteq Copies
    /\ dropped \subseteq Copies
    /\ join \in [Joins -> JoinTask]
    /\ joinSlot \in Joins \cup {None}
    /\ joinTimers \subseteq Joins
    /\ sessions \in Nat
    /\ queue \in Seq(Requests)
    /\ req \in [Requests -> ReqTask]
    /\ rewound \in [up : BOOLEAN, down : BOOLEAN, sess : BOOLEAN]
    /\ restarts \in 0 .. MaxRestarts

-----------------------------------------------------------------------------
(* Safety *)

Reported(u) == up[u].pc = "done"

\* The deduplication of lorawan_node.rs: as long as the kept counter never
\* went back, a frame is handed on twice only if its counter is 0 or 1, which
\* decode_node_payload exempts, or if one of the two copies was judged by a
\* counter that another task had replaced after it was read.
AtMostOnce ==
    ~rewound.up =>
        \A u, v \in Copies :
            LET c == up[u].item
                d == up[v].item
            IN  (u # v /\ Reported(u) /\ Reported(v) /\ up[c].at = up[d].at)
                    => Fcnt(c) \in {0, 1} \/ up[c].stale \/ up[d].stale

\* DataCache::insert keeps the best reception: no copy gathered since the
\* entry was opened beats the one it holds.
BestCopyKept ==
    slot # None =>
        \A u \in Copies :
            up[u].owner = up[slot].owner => ~Beats(u, slot)

\* A session negotiated by a join replaces the old one only after the device
\* has used it: until then the device may still speak under the old one.
SessionConfirmed ==
    \A s \in {dbSess} \cup (IF stored = None THEN {} ELSE {stored.sess}) :
        s # 0 => \E i \in 1 .. Len(air) : air[i].sess = s

\* The counter kept for the device always lets payload_decode authenticate
\* its next frame, across the rollover of the 16 transmitted bits, whatever
\* the copies still under way do to it. The test for a repetition, which comes
\* before payload_decode, is not part of it: after a reset the device may reach
\* the counter that is kept, and that one frame is dropped.
Resynchronises ==
    (stored # None /\ stored.sess = device.sess) =>
        \/ Reconstruct(stored.up, Low(device.next)) = device.next
        \/ Low(device.next) = device.next

\* What becomes of the request an uplink took: it was sent, is about to be, or
\* is gone with the task, which puts nothing back when a call fails.
Accounted(u) == up[u].sent \/ up[u].pc \in {"incr", "senddown", "failed"}

\* DownloadDataCache: a queued request waits in the queue or has been taken by
\* one uplink, never both, never by two. It goes out unless a restart empties
\* the queue or the uplink that took it fails: pull_task pops it before the
\* HINCRBY and the transmission, and an error of either drops it.
RequestAccounted ==
    /\ \A u \in Copies :
        up[u].task # None =>
            /\ \A v \in Copies \ {u} : up[v].task # up[u].task
            /\ \A i \in 1 .. Len(queue) : queue[i] # up[u].task
    /\ \A r \in Requests :
        req[r].pc = "queued" =>
            \/ restarts > 0
            \/ \E i \in 1 .. Len(queue) : queue[i] = r
            \/ \E u \in Copies : up[u].task = r /\ Accounted(u)

Downlink(x) == IF x \in Copies THEN up[x] ELSE req[x]
WasSent(x)  == IF x \in Copies THEN up[x].sent ELSE req[x].pc = "sent"

\* A downlink never carries a counter that a downlink finished before its
\* task read the record has carried in the session, unless a reset, an
\* activation or a registration has set the kept counter back.
DownCounterFresh ==
    ~rewound.down =>
        \A x \in Copies \cup Requests :
            WasSent(x) =>
                \A y \in Downlink(x).seen :
                    Downlink(y).snap.sess = Downlink(x).snap.sess
                        => Downlink(y).snap.down # Downlink(x).snap.down

\* A session the device has accepted is in use or waits in redis, unless a
\* frame that only looks like one of its first, another pending session or a
\* newer join has taken its place, or an older session was written over it.
SessionKept ==
    LET s == device.sess
    IN  \/ s = 0 \/ rewound.sess
        \/ stored # None /\ stored.sess = s
        \/ pending = s
        \/ \E u \in Copies :
            /\ up[u].otaa = s
            /\ \/ up[u].pc \in {"delotaa", "activatedb", "activate", "failed"}
               \/ ~MicOk(u, s, Fcnt(u))
        \/ \E u \in Copies : up[u].otaa # None /\ up[u].otaa < s
        \/ \E j \in Joins : join[j].sess # None /\ join[j].sess > s

\* "ABP device reset" (lorawan_node.rs): payload_decode takes the counter for
\* restarted, and resets the downlink counter, only for a device that did.
ResetMeansDeviceReset ==
    \A u \in Copies :
        up[u].pc = "resetdown" => device.resets > 0 \/ up[u].otaa # None

-----------------------------------------------------------------------------
(* Liveness *)

\* An accepted copy, or one gathered with it that it does not beat, is
\* reported, unless that one was thrown out by the timer of an older entry.
AcceptedIsReported ==
    \A u \in Copies :
        (up[u].pc = "insert") ~>
            \E i \in Copies :
                /\ up[i].owner # None
                /\ up[i].owner = up[u].owner
                /\ ~Beats(u, i)
                /\ \/ i \in dropped
                   \/ \E v \in Copies : up[v].item = i /\ up[v].pc \in {"done", "silent"}

=============================================================================

----------------------------- MODULE LoRaUplink -----------------------------
(***************************************************************************)
(* The task node_data spawns for one reception of a data frame             *)
(* (devices_manager/src/service/lorawan_node.rs): read the device, use a   *)
(* pending session, check the MIC, store the counter, gather the copies of *)
(* 200 ms in DATA_QUEUE and hand the best one over. One action per redis   *)
(* or database call, since other tasks run between two of them. Load is    *)
(* the exception: HGETALL and, when redis has nothing, the query of the    *)
(* database row.                                                           *)
(***************************************************************************)
EXTENDS LoRaState

\* External: the device transmits a frame of kind k under the session in use.
\* Copies of a frame reach the server before MaxReorder + 1 later frames do.
DeviceSend(k) ==
    /\ Len(air) < MaxFrames
    /\ \A u \in Copies : Working(u) => Len(air) < up[u].at + MaxReorder
    /\ air' = Append(air, [sess |-> device.sess, n |-> device.next,
                           conf |-> k.conf, data |-> k.data])
    /\ device' = [device EXCEPT !.next = @ + 1]
    /\ UNCHANGED <<storeVars, up, bufferVars, joinVars, downVars, rewound, restarts>>

\* External: a device activated by personalisation restarts its counter.
DeviceReset ==
    /\ device.resets < MaxResets
    /\ device' = [device EXCEPT !.next = 0, !.resets = @ + 1]
    /\ UNCHANGED <<air, storeVars, up, bufferVars, joinVars, downVars, rewound, restarts>>

\* gateway_push_data spawns node_data for a packet heard by gateway g.
Receive(u, i, g, s) ==
    /\ up[u].pc = "idle"
    /\ i + MaxReorder >= Len(air)
    /\ up' = [up EXCEPT ![u] = [NewUp EXCEPT !.pc = "load", !.at = i, !.gw = g, !.rssi = s]]
    /\ UNCHANGED <<deviceVars, storeVars, bufferVars, joinVars, downVars, rewound, restarts>>

\* decode_enc_payload looks for a pending session when the counter is low.
AfterLoad(u) == IF Fcnt(u) < LowCount THEN "getotaa" ELSE "decode"

\* Mutant of Load: the record is used without asking whether redis has it.
LoadUnchecked(u) ==
    /\ up[u].pc = "load"
    /\ up' = [up EXCEPT ![u].pc = AfterLoad(u), ![u].snap = stored, ![u].seen = DownlinksDone]
    /\ UNCHANGED <<deviceVars, storeVars, bufferVars, joinVars, downVars, rewound, restarts>>

\* get_node_with_gateway: NodeInfo::load_by_addr, or the database row. Two
\* awaited reads in one step: nothing is written between them, and a row that
\* changes in between is read as if both had come after the change.
Load(u) ==
    /\ up[u].pc = "load"
    /\ up' = [up EXCEPT
                ![u].pc = IF stored = None THEN "register" ELSE AfterLoad(u),
                ![u].snap = IF stored = None THEN Registered(dbSess) ELSE stored,
                ![u].seen = DownlinksDone]
    /\ UNCHANGED <<deviceVars, storeVars, bufferVars, joinVars, downVars, rewound, restarts>>

\* NodeInfo::register_to_redis, with the row read above.
Register(u) ==
    /\ up[u].pc = "register"
    /\ WriteRegistered(up[u].snap.sess)
    /\ up' = [up EXCEPT ![u].pc = AfterLoad(u)]
    /\ UNCHANGED <<deviceVars, bufferVars, joinVars, downVars, restarts>>

\* get_otaa_info, first half: GET lora:otaa:<addr>
GetOtaa(u) ==
    /\ up[u].pc = "getotaa"
    /\ up' = [up EXCEPT ![u].pc = IF pending = None THEN "decode" ELSE "delotaa",
                        ![u].otaa = pending]
    /\ UNCHANGED <<deviceVars, storeVars, bufferVars, joinVars, downVars, rewound, restarts>>

\* Mutant of DelOtaa: the MIC is not checked under the pending session.
DelOtaaUnchecked(u) ==
    /\ up[u].pc = "delotaa"
    /\ pending' = None
    /\ up' = [up EXCEPT ![u].pc = "activatedb"]
    /\ UNCHANGED <<deviceVars, stored, dbSess, bufferVars, joinVars, downVars, rewound,
                   restarts>>

\* get_otaa_info, second half: DEL of whatever is there by now; then the MIC
\* of the frame decides whether the session taken is the device's.
DelOtaa(u) ==
    /\ up[u].pc = "delotaa"
    /\ pending' = None
    /\ up' = [up EXCEPT ![u].pc = IF MicOk(u, up[u].otaa, Fcnt(u))
                                  THEN "activatedb" ELSE "rejected"]
    /\ UNCHANGED <<deviceVars, stored, dbSess, bufferVars, joinVars, downVars, rewound,
                   restarts>>

\* The new keys go to the lora_node row ...
ActivateDb(u) ==
    /\ up[u].pc = "activatedb"
    /\ dbSess' = up[u].otaa
    /\ up' = [up EXCEPT ![u].pc = "activate"]
    /\ UNCHANGED <<deviceVars, stored, pending, bufferVars, joinVars, downVars, rewound,
                   restarts>>

\* Mutant of Activate: redis keeps the old keys.
ActivateForgotten(u) ==
    /\ up[u].pc = "activate"
    /\ up' = [up EXCEPT ![u].pc = "decode", ![u].snap.sess = up[u].otaa]
    /\ UNCHANGED <<deviceVars, storeVars, bufferVars, joinVars, downVars, rewound, restarts>>

\* ... and then to redis, both counters set to the counter received. The
\* task keeps the counters it read, only its keys change.
Activate(u) ==
    /\ up[u].pc = "activate"
    /\ stored' = [stored EXCEPT !.sess = up[u].otaa, !.up = Fcnt(u), !.down = Fcnt(u)]
    /\ rewound' = [up   |-> rewound.up \/ Fcnt(u) < stored.up,
                   down |-> rewound.down \/ Fcnt(u) < stored.down,
                   sess |-> rewound.sess \/ up[u].otaa < stored.sess]
    /\ up' = [up EXCEPT ![u].pc = "decode", ![u].snap.sess = up[u].otaa]
    /\ UNCHANGED <<deviceVars, dbSess, pending, bufferVars, joinVars, downVars, restarts>>

\* update_up_count, with what the task read long before as its only guard.
StoreCount(u, n, next) ==
    /\ stored' = [stored EXCEPT !.up = n]
    /\ rewound' = [rewound EXCEPT !.up = @ \/ n < stored.up]
    /\ up' = [up EXCEPT ![u].pc = next, ![u].stale = up[u].snap.up # stored.up]

\* decode_node_payload and payload_decode: a repetition is dropped, a frame
\* is accepted under the reconstructed counter, or else under the bare 16
\* bits, in which case the downlink counter is reset too.
Decode(u) ==
    LET snap  == up[u].snap
        guess == Reconstruct(snap.up, Fcnt(u))
    IN  /\ up[u].pc = "decode"
        /\ \/ /\ Repetition(snap.up, Fcnt(u))
              /\ up' = [up EXCEPT ![u].pc = "repeated"]
              /\ UNCHANGED <<stored, rewound>>
           \/ /\ ~Repetition(snap.up, Fcnt(u))
              /\ MicOk(u, snap.sess, guess)
              /\ StoreCount(u, guess, "insert")
           \/ /\ ~Repetition(snap.up, Fcnt(u))
              /\ ~MicOk(u, snap.sess, guess)
              /\ MicOk(u, snap.sess, Fcnt(u))
              /\ StoreCount(u, Fcnt(u), "resetdown")
           \/ /\ ~Repetition(snap.up, Fcnt(u))
              /\ ~MicOk(u, snap.sess, guess)
              /\ ~MicOk(u, snap.sess, Fcnt(u))
              /\ up' = [up EXCEPT ![u].pc = "rejected"]
              /\ UNCHANGED <<stored, rewound>>
        /\ UNCHANGED <<deviceVars, dbSess, pending, bufferVars, joinVars, downVars, restarts>>

\* reset_down_count
ResetDown(u) ==
    /\ up[u].pc = "resetdown"
    /\ stored' = [stored EXCEPT !.down = 0]
    /\ rewound' = [rewound EXCEPT !.down = @ \/ stored.down > 0]
    /\ up' = [up EXCEPT ![u].pc = "insert", ![u].snap.down = 0]
    /\ UNCHANGED <<deviceVars, dbSess, pending, bufferVars, joinVars, downVars, restarts>>

\* The order DataCache::insert replaces by: transmitted counter, then strength.
Beats(u, v) ==
    \/ Fcnt(v) < Fcnt(u)
    \/ Fcnt(v) = Fcnt(u) /\ up[u].rssi > up[v].rssi

\* Mutant of Insert: the latest copy replaces the one kept.
InsertLatest(u) ==
    /\ up[u].pc = "insert"
    /\ slot' = u
    /\ timers' = timers \cup {u}
    /\ up' = [up EXCEPT
                ![u].pc = IF slot = None THEN "sleep" ELSE "merged",
                ![u].owner = IF slot = None THEN u ELSE up[slot].owner]
    /\ UNCHANGED <<deviceVars, storeVars, dropped, joinVars, downVars, rewound, restarts>>

\* DataCache::insert: the first copy opens the entry and its task sleeps 200
\* ms; a later one replaces the copy kept if it beats it, and its task ends.
Insert(u) ==
    /\ up[u].pc = "insert"
    /\ slot' = IF slot = None THEN u ELSE IF Beats(u, slot) THEN u ELSE slot
    /\ timers' = timers \cup {u}
    /\ up' = [up EXCEPT
                ![u].pc = IF slot = None THEN "sleep" ELSE "merged",
                ![u].owner = IF slot = None THEN u ELSE up[slot].owner]
    /\ UNCHANGED <<deviceVars, storeVars, dropped, joinVars, downVars, rewound, restarts>>

\* The timer of an insertion removes whatever the entry holds by then. Ten
\* seconds outlast the 200 ms sleep of the task that opened the entry it
\* went to, not the sleep of a task that comes later.
Timer(u) ==
    /\ u \in timers
    /\ up[up[u].owner].pc # "sleep"
    /\ timers' = timers \ {u}
    /\ slot' = None
    /\ dropped' = dropped \cup ({slot} \ {None})
    /\ UNCHANGED <<deviceVars, storeVars, up, joinVars, downVars, rewound, restarts>>

\* After the 200 ms: DataCache::get.
Wake(u) ==
    /\ up[u].pc = "sleep"
    /\ up' = [up EXCEPT ![u].pc = IF slot = None THEN "empty" ELSE "deliver",
                        ![u].item = slot]
    /\ slot' = None
    /\ UNCHANGED <<deviceVars, storeVars, timers, dropped, joinVars, downVars, rewound,
                   restarts>>

\* decode_payload up to the payload: update_gateway records the gateway of
\* the task, which need not be the one of the copy it took. Only a frame with
\* application data goes on to the downlink and the report.
Deliver(u) ==
    /\ up[u].pc = "deliver"
    /\ stored' = IF up[u].snap.gw # up[u].gw
                 THEN [stored EXCEPT !.gw = up[u].gw] ELSE stored
    /\ up' = [up EXCEPT ![u].pc = IF FrameOf(up[u].item).data THEN "pull" ELSE "silent",
                        ![u].snap.gw = up[u].gw]
    /\ UNCHANGED <<deviceVars, dbSess, pending, bufferVars, joinVars, downVars, rewound,
                   restarts>>

\* decode_payload after pull_task: the uplink event, the decoded data to
\* MQTT and to the time series.
Report(u) ==
    /\ up[u].pc = "report"
    /\ up' = [up EXCEPT ![u].pc = "done"]
    /\ UNCHANGED <<deviceVars, storeVars, bufferVars, joinVars, downVars, rewound, restarts>>

\* A redis, database or socket call of the task returns an error. What fails
\* after the uplink event leaves the frame reported.
UplinkFails(u) ==
    /\ Faults
    /\ Working(u)
    /\ up[u].pc \notin {"insert", "sleep", "report"}
    /\ up' = [up EXCEPT ![u].pc = "failed"]
    /\ UNCHANGED <<deviceVars, storeVars, bufferVars, joinVars, downVars, rewound, restarts>>

UplinkStep(u) ==
    \/ Load(u) \/ Register(u) \/ GetOtaa(u) \/ DelOtaa(u) \/ ActivateDb(u) \/ Activate(u)
    \/ Decode(u) \/ ResetDown(u) \/ Insert(u) \/ Wake(u) \/ Deliver(u) \/ Report(u)

UplinkNext ==
    \/ \E k \in Kinds : DeviceSend(k)
    \/ DeviceReset
    \/ \E u \in Copies :
        \/ \E i \in 1 .. Len(air), g \in Gateways, s \in Rssi : Receive(u, i, g, s)
        \/ UplinkStep(u)
        \/ Timer(u)
        \/ UplinkFails(u)

=============================================================================

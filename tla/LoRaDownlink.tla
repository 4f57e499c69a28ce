---------------------------- MODULE LoRaDownlink ----------------------------
(***************************************************************************)
(* Downlinks: pull_task, which answers an uplink of the device, and        *)
(* dispatch_task_now, which MQTT and gRPC requests run                     *)
(* (devices_manager/src/man/lora.rs). The downlink counter of a frame is   *)
(* the one in the record the task read; the record in redis is incremented *)
(* by a call of its own.                                                   *)
(***************************************************************************)
EXTENDS LoRaState

\* Mutant of Pull: an uplink that asks for an acknowledgement gets nothing else,
\* although the request has been popped.
PullAckFirst(u) ==
    /\ up[u].pc = "pull"
    /\ up' = [up EXCEPT
                ![u].pc = IF FrameOf(up[u].item).conf THEN "sendack"
                          ELSE IF queue # <<>> THEN "incr" ELSE "report",
                ![u].task = IF queue # <<>> THEN Head(queue) ELSE None]
    /\ queue' = IF queue # <<>> THEN Tail(queue) ELSE queue
    /\ UNCHANGED <<deviceVars, storeVars, bufferVars, joinVars, req, rewound, restarts>>

\* DownloadDataCache::pop, and the decision what to send: the request that
\* waited longest, else an acknowledgement if the uplink asks for one.
Pull(u) ==
    /\ up[u].pc = "pull"
    /\ up' = [up EXCEPT
                ![u].pc = IF queue # <<>> THEN "incr"
                          ELSE IF FrameOf(up[u].item).conf THEN "sendack" ELSE "report",
                ![u].task = IF queue # <<>> THEN Head(queue) ELSE None]
    /\ queue' = IF queue # <<>> THEN Tail(queue) ELSE queue
    /\ UNCHANGED <<deviceVars, storeVars, bufferVars, joinVars, req, rewound, restarts>>

\* update_down_count: HINCRBY
CountDownlink == stored' = [stored EXCEPT !.down = @ + 1]

\* A request is counted before it is sent ...
IncrDown(u) ==
    /\ up[u].pc = "incr"
    /\ CountDownlink
    /\ up' = [up EXCEPT ![u].pc = "senddown"]
    /\ UNCHANGED <<deviceVars, dbSess, pending, bufferVars, joinVars, downVars, rewound,
                   restarts>>

SendDown(u) ==
    /\ up[u].pc = "senddown"
    /\ up' = [up EXCEPT ![u].pc = "report", ![u].sent = TRUE]
    /\ UNCHANGED <<deviceVars, storeVars, bufferVars, joinVars, downVars, rewound, restarts>>

\* ... an acknowledgement after it.
SendAck(u) ==
    /\ up[u].pc = "sendack"
    /\ up' = [up EXCEPT ![u].pc = "incrack", ![u].sent = TRUE]
    /\ UNCHANGED <<deviceVars, storeVars, bufferVars, joinVars, downVars, rewound, restarts>>

\* Mutant of IncrAck: an acknowledgement is not counted.
IncrAckForgotten(u) ==
    /\ up[u].pc = "incrack"
    /\ up' = [up EXCEPT ![u].pc = "report"]
    /\ UNCHANGED <<deviceVars, storeVars, bufferVars, joinVars, downVars, rewound, restarts>>

IncrAck(u) ==
    /\ up[u].pc = "incrack"
    /\ CountDownlink
    /\ up' = [up EXCEPT ![u].pc = "report"]
    /\ UNCHANGED <<deviceVars, dbSess, pending, bufferVars, joinVars, downVars, rewound,
                   restarts>>

PullStep(u) == Pull(u) \/ IncrDown(u) \/ SendDown(u) \/ SendAck(u) \/ IncrAck(u)

\* get_node_by_eui: the request needs the record and the gateway last used.
Dispatch(r) ==
    /\ req[r].pc = "idle"
    /\ req' = [req EXCEPT ![r] =
                 IF stored = None THEN [NewReq EXCEPT !.pc = "refused"]
                 ELSE IF stored.gw = None THEN [NewReq EXCEPT !.pc = "refused"]
                 ELSE [pc |-> "dispatch", snap |-> stored, seen |-> DownlinksDone]]
    /\ UNCHANGED <<deviceVars, storeVars, up, bufferVars, joinVars, queue, rewound, restarts>>

\* dispatch_task_now for a class C device: count, then send at once.
DispatchCount(r) ==
    /\ req[r].pc = "dispatch"
    /\ device.classC
    /\ CountDownlink
    /\ req' = [req EXCEPT ![r].pc = "send"]
    /\ UNCHANGED <<deviceVars, dbSess, pending, up, bufferVars, joinVars, queue, rewound,
                   restarts>>

DispatchSend(r) ==
    /\ req[r].pc = "send"
    /\ req' = [req EXCEPT ![r].pc = "sent"]
    /\ UNCHANGED <<deviceVars, storeVars, up, bufferVars, joinVars, queue, rewound, restarts>>

\* dispatch_task_now for the others: DownloadDataCache::insert, to wait for
\* an uplink.
DispatchQueue(r) ==
    /\ req[r].pc = "dispatch"
    /\ ~device.classC
    /\ queue' = Append(queue, r)
    /\ req' = [req EXCEPT ![r].pc = "queued"]
    /\ UNCHANGED <<deviceVars, storeVars, up, bufferVars, joinVars, rewound, restarts>>

\* A redis, database or socket call of the task returns an error.
DispatchFails(r) ==
    /\ Faults
    /\ req[r].pc \in {"dispatch", "send"}
    /\ req' = [req EXCEPT ![r].pc = "failed"]
    /\ UNCHANGED <<deviceVars, storeVars, up, bufferVars, joinVars, queue, rewound, restarts>>

DispatchStep(r) == DispatchCount(r) \/ DispatchSend(r) \/ DispatchQueue(r)

DownlinkNext ==
    \/ \E u \in Copies : PullStep(u)
    \/ \E r \in Requests : Dispatch(r) \/ DispatchStep(r) \/ DispatchFails(r)

=============================================================================

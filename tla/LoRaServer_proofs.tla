-------------------------- MODULE LoRaServer_proofs --------------------------
(***************************************************************************)
(* What holds of LoRaServer for every value of its constants: its type     *)
(* correctness, one lemma per action; then what happens to frames: the     *)
(* counter payload_decode reconstructs, the 200 ms buffer and the          *)
(* deduplication before it, the downlinks, and the sessions that redis and *)
(* the database hold.                                                      *)
(***************************************************************************)
EXTENDS LoRaServer, TLAPS

USE DEF deviceVars, storeVars, bufferVars, joinVars, downVars

\* A task past its first steps has left a record in redis for good.
Loaded == UpPc \ {"idle", "load", "register", "failed"}

\* What the type of the variables rests on: a task works for a frame on the
\* air, updates only records that exist, and takes sessions that exist.
WellFounded ==
    /\ \A u \in Copies :
        /\ up[u].pc # "idle" => up[u].at \in 1 .. Len(air)
        /\ up[u].pc \in Loaded => stored \in Info
        /\ up[u].pc \in {"delotaa", "activatedb", "activate"} => up[u].otaa \in Session
    /\ \A j \in Joins :
        join[j].pc \in {"register", "send", "sent"} => join[j].sess \in Session
    /\ \A r \in Requests :
        req[r].pc \in {"dispatch", "send"} => stored \in Info

TypeInv == TypeOK /\ WellFounded

\* The counter payload_decode tries first is a counter.
LEMMA ReconstructType ==
    ASSUME NEW k \in Nat, NEW c \in Int
    PROVE  Reconstruct(k, c) \in Nat
<1>1. Modulus \in Nat \ {0}
  BY ModulusAssumption
<1>2. CounterSpace \in Nat \ {0}
  BY <1>1 DEF CounterSpace
<1>3. Forward(Low(k), c) \in Nat
  BY <1>1 DEF Forward, Low
<1> QED
  BY <1>1, <1>2, <1>3 DEF Reconstruct

\* The initial states have the types and no task at work.
LEMMA InitType == Init => TypeInv
<1> SUFFICES ASSUME Init PROVE TypeInv
  OBVIOUS
<1>1. Starts \subseteq Nat /\ ClassC \subseteq BOOLEAN /\ MaxFrames \in Nat /\ MaxAttempts \in Nat
      /\ MaxResets \in Nat /\ MaxRestarts \in Nat
  BY SetsAssumption, BoundsAssumption
<1>2. NewUp \in UpTask /\ NewJoin \in JoinTask /\ NewReq \in ReqTask
  BY <1>1 DEF NewUp, NewJoin, NewReq, UpTask, JoinTask, ReqTask, UpPc, UpEnded, JoinPc,
              ReqPc, Registered, Info, Session
<1> QED
  BY <1>1, <1>2 DEF Init, TypeInv, TypeOK, WellFounded, Registered, Info, Session, Loaded,
                    NewUp, NewJoin, NewReq


\* A step of one uplink task keeps the types if its new record has the type,
\* works for the same frame, and finds the record in redis it relies on.
LEMMA UplinkTask ==
    ASSUME TypeInv, NEW u \in Copies, NEW t \in UpTask,
           up' = [up EXCEPT ![u] = t],
           UNCHANGED <<air, join, req>>,
           stored \in Info => stored' \in Info,
           t.at \in 1 .. Len(air),
           t.pc \in Loaded => stored' \in Info,
           t.pc \in {"delotaa", "activatedb", "activate"} => t.otaa \in Session
    PROVE  up' \in [Copies -> UpTask] /\ WellFounded'
BY DEF TypeInv, TypeOK, WellFounded

\* What every step of a task that has loaded its device starts from.
LEMMA LoadedTask ==
    ASSUME TypeInv, NEW u \in Copies, up[u].pc \in Loaded
    PROVE  /\ up[u] \in UpTask
           /\ up[u].at \in 1 .. Len(air)
           /\ FrameOf(u) \in Frame
           /\ Fcnt(u) \in Nat
           /\ stored \in Info
<1>1. up[u] \in UpTask /\ up[u].at \in 1 .. Len(air) /\ stored \in Info
  BY DEF TypeInv, TypeOK, WellFounded, Loaded
<1>2. FrameOf(u) \in Frame
  BY <1>1 DEF TypeInv, TypeOK, FrameOf
<1>3. Fcnt(u) \in Nat
  BY <1>2, ModulusAssumption DEF Fcnt, Low, Frame
<1> QED
  BY <1>1, <1>2, <1>3

\* Reading the device gives the task a record, from redis or built from the row.
LEMMA LoadType == \A u \in Copies : TypeInv /\ Load(u) => TypeInv'
<1> SUFFICES ASSUME TypeInv, NEW u \in Copies, Load(u) PROVE TypeInv'
  OBVIOUS
<1> DEFINE pc == IF stored = None THEN "register" ELSE AfterLoad(u)
<1> DEFINE sn == IF stored = None THEN Registered(dbSess) ELSE stored
<1> DEFINE t == [up[u] EXCEPT !.pc = pc, !.snap = sn, !.seen = DownlinksDone]
<1>1. up[u] \in UpTask /\ up[u].at \in 1 .. Len(air)
  BY DEF Load, TypeInv, TypeOK, WellFounded
<1>2. sn \in Info /\ (pc # "register" => stored' \in Info)
  BY DEF Load, AfterLoad, TypeInv, TypeOK, Registered, Info, Session
<1>3. DownlinksDone \subseteq Copies \cup Requests
  BY DEF DownlinksDone
<1>4. stored' = stored
  BY DEF Load
<1>5. pc \in {"register", "getotaa", "decode"} /\ pc \in UpPc
  BY DEF UpPc, UpEnded, AfterLoad
<1>6. up' = [up EXCEPT ![u] = t]
  BY DEF Load, TypeInv, TypeOK
<1> HIDE DEF pc, sn
<1>7. t \in UpTask /\ t.pc = pc /\ t.at = up[u].at /\ t.otaa = up[u].otaa
  BY <1>1, <1>2, <1>3, <1>4, <1>5 DEF UpTask
<1> HIDE DEF t
<1>8. UNCHANGED <<air, join, req>>
  BY DEF Load
<1>9. up' \in [Copies -> UpTask] /\ WellFounded'
  BY <1>1, <1>2, <1>3, <1>4, <1>5, <1>6, <1>7, <1>8, UplinkTask DEF Loaded
<1> QED
  BY <1>1, <1>2, <1>3, <1>4, <1>9 DEF Load, TypeInv, TypeOK

\* A registration writes a record, so redis has one from then on.
LEMMA RegisterType == \A u \in Copies : TypeInv /\ Register(u) => TypeInv'
<1> SUFFICES ASSUME TypeInv, NEW u \in Copies, Register(u) PROVE TypeInv'
  OBVIOUS
<1> DEFINE pc == AfterLoad(u)
<1> DEFINE t == [up[u] EXCEPT !.pc = pc]
<1>1. up[u] \in UpTask /\ up[u].at \in 1 .. Len(air)
  BY DEF Register, TypeInv, TypeOK, WellFounded
<1>2. stored' \in Info
  BY <1>1 DEF Register, WriteRegistered, Registered, TypeInv, TypeOK, UpTask, Info, Session
<1>3. rewound' \in [up : BOOLEAN, down : BOOLEAN, sess : BOOLEAN]
  BY DEF Register, WriteRegistered, TypeInv, TypeOK
<1>4. pc \in {"getotaa", "decode"} /\ pc \in UpPc
  BY DEF UpPc, UpEnded, AfterLoad
<1>5. up' = [up EXCEPT ![u] = t]
  BY DEF Register, TypeInv, TypeOK, WriteRegistered
<1> HIDE DEF pc
<1>6. t \in UpTask /\ t.pc = pc /\ t.at = up[u].at /\ t.otaa = up[u].otaa
  BY <1>1, <1>2, <1>3, <1>4 DEF UpTask
<1> HIDE DEF t
<1>7. UNCHANGED <<air, join, req>>
  BY DEF Register, WriteRegistered
<1>8. up' \in [Copies -> UpTask] /\ WellFounded'
  BY <1>1, <1>2, <1>3, <1>4, <1>5, <1>6, <1>7, UplinkTask DEF Loaded
<1> QED
  BY <1>1, <1>2, <1>3, <1>8 DEF Register, TypeInv, TypeOK, WriteRegistered

\* Only a session that was there is taken to the next step.
LEMMA GetOtaaType == \A u \in Copies : TypeInv /\ GetOtaa(u) => TypeInv'
<1> SUFFICES ASSUME TypeInv, NEW u \in Copies, GetOtaa(u) PROVE TypeInv'
  OBVIOUS
<1> DEFINE pc == IF pending = None THEN "decode" ELSE "delotaa"
<1> DEFINE t == [up[u] EXCEPT !.pc = pc, !.otaa = pending]
<1>1. up[u].pc \in Loaded
  BY DEF GetOtaa, Loaded, UpPc, UpEnded
<1>2. up[u] \in UpTask /\ up[u].at \in 1 .. Len(air) /\ stored \in Info /\ Fcnt(u) \in Nat
  BY <1>1, LoadedTask
<1>3. pending \in Session \cup {None} /\ (pc = "delotaa" => pending \in Session)
  BY DEF TypeInv, TypeOK
<1>4. pc \in {"decode", "delotaa"} /\ pc \in UpPc
  BY DEF UpPc, UpEnded
<1>5. up' = [up EXCEPT ![u] = t]
  BY DEF GetOtaa, TypeInv, TypeOK
<1> HIDE DEF pc
<1>6. t \in UpTask /\ t.pc = pc /\ t.at = up[u].at /\ t.otaa = pending
  BY <1>2, <1>3, <1>4 DEF UpTask
<1> HIDE DEF t
<1>7. UNCHANGED <<air, join, req>>
  BY DEF GetOtaa
<1>8. stored' \in Info
  BY <1>2 DEF GetOtaa
<1>9. up' \in [Copies -> UpTask] /\ WellFounded'
  BY <1>2, <1>3, <1>4, <1>5, <1>6, <1>7, <1>8, UplinkTask
<1> QED
  BY <1>2, <1>3, <1>8, <1>9 DEF GetOtaa, TypeInv, TypeOK

\* Deleting the pending session leaves none.
LEMMA DelOtaaType == \A u \in Copies : TypeInv /\ DelOtaa(u) => TypeInv'
<1> SUFFICES ASSUME TypeInv, NEW u \in Copies, DelOtaa(u) PROVE TypeInv'
  OBVIOUS
<1> DEFINE pc == IF MicOk(u, up[u].otaa, Fcnt(u)) THEN "activatedb" ELSE "rejected"
<1> DEFINE t == [up[u] EXCEPT !.pc = pc]
<1>1. up[u].pc \in Loaded
  BY DEF DelOtaa, Loaded, UpPc, UpEnded
<1>2. up[u] \in UpTask /\ up[u].at \in 1 .. Len(air) /\ stored \in Info /\ Fcnt(u) \in Nat
  BY <1>1, LoadedTask
<1>3. up[u].otaa \in Session
  BY DEF DelOtaa, TypeInv, WellFounded
<1>4. pc \in {"activatedb", "rejected"} /\ pc \in UpPc
  BY DEF UpPc, UpEnded
<1>5. up' = [up EXCEPT ![u] = t]
  BY DEF DelOtaa, TypeInv, TypeOK
<1> HIDE DEF pc
<1>6. t \in UpTask /\ t.pc = pc /\ t.at = up[u].at /\ t.otaa = up[u].otaa
  BY <1>2, <1>3, <1>4 DEF UpTask
<1> HIDE DEF t
<1>7. UNCHANGED <<air, join, req>>
  BY DEF DelOtaa
<1>8. stored' \in Info
  BY <1>2 DEF DelOtaa
<1>9. up' \in [Copies -> UpTask] /\ WellFounded'
  BY <1>2, <1>3, <1>4, <1>5, <1>6, <1>7, <1>8, UplinkTask
<1> QED
  BY <1>2, <1>3, <1>8, <1>9 DEF DelOtaa, TypeInv, TypeOK

\* The session written to the row is one the task holds.
LEMMA ActivateDbType == \A u \in Copies : TypeInv /\ ActivateDb(u) => TypeInv'
<1> SUFFICES ASSUME TypeInv, NEW u \in Copies, ActivateDb(u) PROVE TypeInv'
  OBVIOUS
<1> DEFINE pc == "activate"
<1> DEFINE t == [up[u] EXCEPT !.pc = pc]
<1>1. up[u].pc \in Loaded
  BY DEF ActivateDb, Loaded, UpPc, UpEnded
<1>2. up[u] \in UpTask /\ up[u].at \in 1 .. Len(air) /\ stored \in Info /\ Fcnt(u) \in Nat
  BY <1>1, LoadedTask
<1>3. up[u].otaa \in Session
  BY DEF ActivateDb, TypeInv, WellFounded
<1>4. pc \in {"activate"} /\ pc \in UpPc
  BY DEF UpPc, UpEnded
<1>5. up' = [up EXCEPT ![u] = t]
  BY DEF ActivateDb, TypeInv, TypeOK
<1> HIDE DEF pc
<1>6. t \in UpTask /\ t.pc = pc /\ t.at = up[u].at /\ t.otaa = up[u].otaa
  BY <1>2, <1>3, <1>4 DEF UpTask
<1> HIDE DEF t
<1>7. UNCHANGED <<air, join, req>>
  BY DEF ActivateDb
<1>8. stored' \in Info
  BY <1>2 DEF ActivateDb
<1>9. up' \in [Copies -> UpTask] /\ WellFounded'
  BY <1>2, <1>3, <1>4, <1>5, <1>6, <1>7, <1>8, UplinkTask
<1> QED
  BY <1>2, <1>3, <1>8, <1>9 DEF ActivateDb, TypeInv, TypeOK

\* The activated record is a record: it was there when the task loaded it.
LEMMA ActivateType == \A u \in Copies : TypeInv /\ Activate(u) => TypeInv'
<1> SUFFICES ASSUME TypeInv, NEW u \in Copies, Activate(u) PROVE TypeInv'
  OBVIOUS
<1> DEFINE pc == "decode"
<1> DEFINE t == [up[u] EXCEPT !.pc = pc, !.snap.sess = up[u].otaa]
<1>1. up[u].pc \in Loaded
  BY DEF Activate, Loaded, UpPc, UpEnded
<1>2. up[u] \in UpTask /\ up[u].at \in 1 .. Len(air) /\ stored \in Info /\ Fcnt(u) \in Nat
  BY <1>1, LoadedTask
<1>3. up[u].otaa \in Session
  BY DEF Activate, TypeInv, WellFounded
<1>4. stored' \in Info
  BY <1>2, <1>3 DEF Activate, Info
<1>5. [up[u].snap EXCEPT !.sess = up[u].otaa] \in Info
  BY <1>2, <1>3 DEF UpTask, Info
<1>6. rewound' \in [up : BOOLEAN, down : BOOLEAN, sess : BOOLEAN]
  BY DEF Activate, TypeInv, TypeOK
<1>7. pc \in {"decode"} /\ pc \in UpPc
  BY DEF UpPc, UpEnded
<1>8. up' = [up EXCEPT ![u] = t]
  BY ZenonT(40) DEF Activate, TypeInv, TypeOK
<1> HIDE DEF pc
<1>9. t \in UpTask /\ t.pc = pc /\ t.at = up[u].at /\ t.otaa = up[u].otaa
  BY <1>2, <1>3, <1>4, <1>5, <1>6, <1>7 DEF UpTask
<1> HIDE DEF t
<1>10. UNCHANGED <<air, join, req>>
  BY DEF Activate
<1>11. up' \in [Copies -> UpTask] /\ WellFounded'
  BY <1>2, <1>3, <1>4, <1>5, <1>6, <1>7, <1>8, <1>9, <1>10, UplinkTask
<1> QED
  BY <1>2, <1>3, <1>4, <1>5, <1>6, <1>11 DEF Activate, TypeInv, TypeOK

\* The reset of the downlink counter writes into a record that is there.
LEMMA ResetDownType == \A u \in Copies : TypeInv /\ ResetDown(u) => TypeInv'
<1> SUFFICES ASSUME TypeInv, NEW u \in Copies, ResetDown(u) PROVE TypeInv'
  OBVIOUS
<1> DEFINE pc == "insert"
<1> DEFINE t == [up[u] EXCEPT !.pc = pc, !.snap.down = 0]
<1>1. up[u].pc \in Loaded
  BY DEF ResetDown, Loaded, UpPc, UpEnded
<1>2. up[u] \in UpTask /\ up[u].at \in 1 .. Len(air) /\ stored \in Info /\ Fcnt(u) \in Nat
  BY <1>1, LoadedTask
<1>3. stored' \in Info
  BY <1>2 DEF ResetDown, Info
<1>4. [up[u].snap EXCEPT !.down = 0] \in Info
  BY <1>2 DEF UpTask, Info
<1>5. rewound' \in [up : BOOLEAN, down : BOOLEAN, sess : BOOLEAN]
  BY DEF ResetDown, TypeInv, TypeOK
<1>6. pc \in {"insert"} /\ pc \in UpPc
  BY DEF UpPc, UpEnded
<1>7. up' = [up EXCEPT ![u] = t]
  BY ZenonT(40) DEF ResetDown, TypeInv, TypeOK
<1> HIDE DEF pc
<1>8. t \in UpTask /\ t.pc = pc /\ t.at = up[u].at /\ t.otaa = up[u].otaa
  BY <1>2, <1>3, <1>4, <1>5, <1>6 DEF UpTask
<1> HIDE DEF t
<1>9. UNCHANGED <<air, join, req>>
  BY DEF ResetDown
<1>10. up' \in [Copies -> UpTask] /\ WellFounded'
  BY <1>2, <1>3, <1>4, <1>5, <1>6, <1>7, <1>8, <1>9, UplinkTask
<1> QED
  BY <1>2, <1>3, <1>4, <1>5, <1>10 DEF ResetDown, TypeInv, TypeOK

\* The copy kept is a copy, and its entry has an owner.
LEMMA InsertType == \A u \in Copies : TypeInv /\ Insert(u) => TypeInv'
<1> SUFFICES ASSUME TypeInv, NEW u \in Copies, Insert(u) PROVE TypeInv'
  OBVIOUS
<1> DEFINE pc == IF slot = None THEN "sleep" ELSE "merged"
<1> DEFINE ow == IF slot = None THEN u ELSE up[slot].owner
<1> DEFINE t == [up[u] EXCEPT !.pc = pc, !.owner = ow]
<1>1. up[u].pc \in Loaded
  BY DEF Insert, Loaded, UpPc, UpEnded
<1>2. up[u] \in UpTask /\ up[u].at \in 1 .. Len(air) /\ stored \in Info /\ Fcnt(u) \in Nat
  BY <1>1, LoadedTask
<1>3. ow \in Copies \cup {None}
  BY DEF TypeInv, TypeOK, UpTask
<1>4. pc \in {"sleep", "merged"} /\ pc \in UpPc
  BY DEF UpPc, UpEnded
<1>5. up' = [up EXCEPT ![u] = t]
  BY DEF Insert, TypeInv, TypeOK
<1> HIDE DEF pc, ow
<1>6. t \in UpTask /\ t.pc = pc /\ t.at = up[u].at /\ t.otaa = up[u].otaa
  BY <1>2, <1>3, <1>4 DEF UpTask
<1> HIDE DEF t
<1>7. UNCHANGED <<air, join, req>>
  BY DEF Insert
<1>8. stored' \in Info
  BY <1>2 DEF Insert
<1>9. up' \in [Copies -> UpTask] /\ WellFounded'
  BY <1>2, <1>3, <1>4, <1>5, <1>6, <1>7, <1>8, UplinkTask
<1> QED
  BY <1>2, <1>3, <1>8, <1>9 DEF Insert, TypeInv, TypeOK

\* What a task takes from the buffer is a copy that was buffered.
LEMMA WakeType == \A u \in Copies : TypeInv /\ Wake(u) => TypeInv'
<1> SUFFICES ASSUME TypeInv, NEW u \in Copies, Wake(u) PROVE TypeInv'
  OBVIOUS
<1> DEFINE pc == IF slot = None THEN "empty" ELSE "deliver"
<1> DEFINE t == [up[u] EXCEPT !.pc = pc, !.item = slot]
<1>1. up[u].pc \in Loaded
  BY DEF Wake, Loaded, UpPc, UpEnded
<1>2. up[u] \in UpTask /\ up[u].at \in 1 .. Len(air) /\ stored \in Info /\ Fcnt(u) \in Nat
  BY <1>1, LoadedTask
<1>3. slot \in Copies \cup {None}
  BY DEF TypeInv, TypeOK
<1>4. pc \in {"empty", "deliver"} /\ pc \in UpPc
  BY DEF UpPc, UpEnded
<1>5. up' = [up EXCEPT ![u] = t]
  BY DEF Wake, TypeInv, TypeOK
<1> HIDE DEF pc
<1>6. t \in UpTask /\ t.pc = pc /\ t.at = up[u].at /\ t.otaa = up[u].otaa
  BY <1>2, <1>3, <1>4 DEF UpTask
<1> HIDE DEF t
<1>7. UNCHANGED <<air, join, req>>
  BY DEF Wake
<1>8. stored' \in Info
  BY <1>2 DEF Wake
<1>9. up' \in [Copies -> UpTask] /\ WellFounded'
  BY <1>2, <1>3, <1>4, <1>5, <1>6, <1>7, <1>8, UplinkTask
<1> QED
  BY <1>2, <1>3, <1>8, <1>9 DEF Wake, TypeInv, TypeOK

\* The gateway recorded is the one of a task that received a frame.
LEMMA DeliverType == \A u \in Copies : TypeInv /\ Deliver(u) => TypeInv'
<1> SUFFICES ASSUME TypeInv, NEW u \in Copies, Deliver(u) PROVE TypeInv'
  OBVIOUS
<1> DEFINE pc == IF FrameOf(up[u].item).data THEN "pull" ELSE "silent"
<1> DEFINE t == [up[u] EXCEPT !.pc = pc, !.snap.gw = up[u].gw]
<1>1. up[u].pc \in Loaded
  BY DEF Deliver, Loaded, UpPc, UpEnded
<1>2. up[u] \in UpTask /\ up[u].at \in 1 .. Len(air) /\ stored \in Info /\ Fcnt(u) \in Nat
  BY <1>1, LoadedTask
<1>3. stored' \in Info
  BY <1>2 DEF Deliver, UpTask, Info
<1>4. [up[u].snap EXCEPT !.gw = up[u].gw] \in Info
  BY <1>2 DEF UpTask, Info
<1>5. pc \in {"pull", "silent"} /\ pc \in UpPc
  BY DEF UpPc, UpEnded
<1>6. up' = [up EXCEPT ![u] = t]
  BY ZenonT(40) DEF Deliver, TypeInv, TypeOK
<1> HIDE DEF pc
<1>7. t \in UpTask /\ t.pc = pc /\ t.at = up[u].at /\ t.otaa = up[u].otaa
  BY <1>2, <1>3, <1>4, <1>5 DEF UpTask
<1> HIDE DEF t
<1>8. UNCHANGED <<air, join, req>>
  BY DEF Deliver
<1>9. up' \in [Copies -> UpTask] /\ WellFounded'
  BY <1>2, <1>3, <1>4, <1>5, <1>6, <1>7, <1>8, UplinkTask
<1> QED
  BY <1>2, <1>3, <1>4, <1>9 DEF Deliver, TypeInv, TypeOK

\* A reported task keeps its frame.
LEMMA ReportType == \A u \in Copies : TypeInv /\ Report(u) => TypeInv'
<1> SUFFICES ASSUME TypeInv, NEW u \in Copies, Report(u) PROVE TypeInv'
  OBVIOUS
<1> DEFINE pc == "done"
<1> DEFINE t == [up[u] EXCEPT !.pc = pc]
<1>1. up[u].pc \in Loaded
  BY DEF Report, Loaded, UpPc, UpEnded
<1>2. up[u] \in UpTask /\ up[u].at \in 1 .. Len(air) /\ stored \in Info /\ Fcnt(u) \in Nat
  BY <1>1, LoadedTask
<1>3. pc \in {"done"} /\ pc \in UpPc
  BY DEF UpPc, UpEnded
<1>4. up' = [up EXCEPT ![u] = t]
  BY DEF Report, TypeInv, TypeOK
<1> HIDE DEF pc
<1>5. t \in UpTask /\ t.pc = pc /\ t.at = up[u].at /\ t.otaa = up[u].otaa
  BY <1>2, <1>3 DEF UpTask
<1> HIDE DEF t
<1>6. UNCHANGED <<air, join, req>>
  BY DEF Report
<1>7. stored' \in Info
  BY <1>2 DEF Report
<1>8. up' \in [Copies -> UpTask] /\ WellFounded'
  BY <1>2, <1>3, <1>4, <1>5, <1>6, <1>7, UplinkTask
<1> QED
  BY <1>2, <1>7, <1>8 DEF Report, TypeInv, TypeOK

\* The request popped is the head of a queue of requests.
LEMMA PullType == \A u \in Copies : TypeInv /\ Pull(u) => TypeInv'
<1> SUFFICES ASSUME TypeInv, NEW u \in Copies, Pull(u) PROVE TypeInv'
  OBVIOUS
<1> DEFINE pc == IF queue # <<>> THEN "incr"
                   ELSE IF FrameOf(up[u].item).conf THEN "sendack" ELSE "report"
<1> DEFINE tk == IF queue # <<>> THEN Head(queue) ELSE None
<1> DEFINE t == [up[u] EXCEPT !.pc = pc, !.task = tk]
<1>1. up[u].pc \in Loaded
  BY DEF Pull, Loaded, UpPc, UpEnded
<1>2. up[u] \in UpTask /\ up[u].at \in 1 .. Len(air) /\ stored \in Info /\ Fcnt(u) \in Nat
  BY <1>1, LoadedTask
<1>3. tk \in Requests \cup {None} /\ queue' \in Seq(Requests)
  BY DEF Pull, TypeInv, TypeOK
<1>4. pc \in {"incr", "sendack", "report"} /\ pc \in UpPc
  BY DEF UpPc, UpEnded
<1>5. up' = [up EXCEPT ![u] = t]
  BY DEF Pull, TypeInv, TypeOK
<1> HIDE DEF pc, tk
<1>6. t \in UpTask /\ t.pc = pc /\ t.at = up[u].at /\ t.otaa = up[u].otaa
  BY <1>2, <1>3, <1>4 DEF UpTask
<1> HIDE DEF t
<1>7. UNCHANGED <<air, join, req>>
  BY DEF Pull
<1>8. stored' \in Info
  BY <1>2 DEF Pull
<1>9. up' \in [Copies -> UpTask] /\ WellFounded'
  BY <1>2, <1>3, <1>4, <1>5, <1>6, <1>7, <1>8, UplinkTask
<1> QED
  BY <1>2, <1>3, <1>8, <1>9 DEF Pull, TypeInv, TypeOK

\* HINCRBY increments a record that is there.
LEMMA IncrDownType == \A u \in Copies : TypeInv /\ IncrDown(u) => TypeInv'
<1> SUFFICES ASSUME TypeInv, NEW u \in Copies, IncrDown(u) PROVE TypeInv'
  OBVIOUS
<1> DEFINE pc == "senddown"
<1> DEFINE t == [up[u] EXCEPT !.pc = pc]
<1>1. up[u].pc \in Loaded
  BY DEF IncrDown, Loaded, UpPc, UpEnded
<1>2. up[u] \in UpTask /\ up[u].at \in 1 .. Len(air) /\ stored \in Info /\ Fcnt(u) \in Nat
  BY <1>1, LoadedTask
<1>3. stored' \in Info
  BY <1>2 DEF IncrDown, CountDownlink, Info
<1>4. pc \in {"senddown"} /\ pc \in UpPc
  BY DEF UpPc, UpEnded
<1>5. up' = [up EXCEPT ![u] = t]
  BY DEF IncrDown, TypeInv, TypeOK, CountDownlink
<1> HIDE DEF pc
<1>6. t \in UpTask /\ t.pc = pc /\ t.at = up[u].at /\ t.otaa = up[u].otaa
  BY <1>2, <1>3, <1>4 DEF UpTask
<1> HIDE DEF t
<1>7. UNCHANGED <<air, join, req>>
  BY DEF IncrDown, CountDownlink
<1>8. up' \in [Copies -> UpTask] /\ WellFounded'
  BY <1>2, <1>3, <1>4, <1>5, <1>6, <1>7, UplinkTask
<1> QED
  BY <1>2, <1>3, <1>8 DEF IncrDown, TypeInv, TypeOK, CountDownlink

\* HINCRBY increments a record that is there.
LEMMA IncrAckType == \A u \in Copies : TypeInv /\ IncrAck(u) => TypeInv'
<1> SUFFICES ASSUME TypeInv, NEW u \in Copies, IncrAck(u) PROVE TypeInv'
  OBVIOUS
<1> DEFINE pc == "report"
<1> DEFINE t == [up[u] EXCEPT !.pc = pc]
<1>1. up[u].pc \in Loaded
  BY DEF IncrAck, Loaded, UpPc, UpEnded
<1>2. up[u] \in UpTask /\ up[u].at \in 1 .. Len(air) /\ stored \in Info /\ Fcnt(u) \in Nat
  BY <1>1, LoadedTask
<1>3. stored' \in Info
  BY <1>2 DEF IncrAck, CountDownlink, Info
<1>4. pc \in {"report"} /\ pc \in UpPc
  BY DEF UpPc, UpEnded
<1>5. up' = [up EXCEPT ![u] = t]
  BY DEF IncrAck, TypeInv, TypeOK, CountDownlink
<1> HIDE DEF pc
<1>6. t \in UpTask /\ t.pc = pc /\ t.at = up[u].at /\ t.otaa = up[u].otaa
  BY <1>2, <1>3, <1>4 DEF UpTask
<1> HIDE DEF t
<1>7. UNCHANGED <<air, join, req>>
  BY DEF IncrAck, CountDownlink
<1>8. up' \in [Copies -> UpTask] /\ WellFounded'
  BY <1>2, <1>3, <1>4, <1>5, <1>6, <1>7, UplinkTask
<1> QED
  BY <1>2, <1>3, <1>8 DEF IncrAck, TypeInv, TypeOK, CountDownlink

\* Sending changes the task only.
LEMMA SendDownType == \A u \in Copies : TypeInv /\ SendDown(u) => TypeInv'
<1> SUFFICES ASSUME TypeInv, NEW u \in Copies, SendDown(u) PROVE TypeInv'
  OBVIOUS
<1> DEFINE pc == "report"
<1> DEFINE t == [up[u] EXCEPT !.pc = pc, !.sent = TRUE]
<1>1. up[u].pc \in Loaded
  BY DEF SendDown, Loaded, UpPc, UpEnded
<1>2. up[u] \in UpTask /\ up[u].at \in 1 .. Len(air) /\ stored \in Info /\ Fcnt(u) \in Nat
  BY <1>1, LoadedTask
<1>3. pc \in {"report"} /\ pc \in UpPc
  BY DEF UpPc, UpEnded
<1>4. up' = [up EXCEPT ![u] = t]
  BY DEF SendDown, TypeInv, TypeOK
<1> HIDE DEF pc
<1>5. t \in UpTask /\ t.pc = pc /\ t.at = up[u].at /\ t.otaa = up[u].otaa
  BY <1>2, <1>3 DEF UpTask
<1> HIDE DEF t
<1>6. UNCHANGED <<air, join, req>>
  BY DEF SendDown
<1>7. stored' \in Info
  BY <1>2 DEF SendDown
<1>8. up' \in [Copies -> UpTask] /\ WellFounded'
  BY <1>2, <1>3, <1>4, <1>5, <1>6, <1>7, UplinkTask
<1> QED
  BY <1>2, <1>7, <1>8 DEF SendDown, TypeInv, TypeOK

\* Sending changes the task only.
LEMMA SendAckType == \A u \in Copies : TypeInv /\ SendAck(u) => TypeInv'
<1> SUFFICES ASSUME TypeInv, NEW u \in Copies, SendAck(u) PROVE TypeInv'
  OBVIOUS
<1> DEFINE pc == "incrack"
<1> DEFINE t == [up[u] EXCEPT !.pc = pc, !.sent = TRUE]
<1>1. up[u].pc \in Loaded
  BY DEF SendAck, Loaded, UpPc, UpEnded
<1>2. up[u] \in UpTask /\ up[u].at \in 1 .. Len(air) /\ stored \in Info /\ Fcnt(u) \in Nat
  BY <1>1, LoadedTask
<1>3. pc \in {"incrack"} /\ pc \in UpPc
  BY DEF UpPc, UpEnded
<1>4. up' = [up EXCEPT ![u] = t]
  BY DEF SendAck, TypeInv, TypeOK
<1> HIDE DEF pc
<1>5. t \in UpTask /\ t.pc = pc /\ t.at = up[u].at /\ t.otaa = up[u].otaa
  BY <1>2, <1>3 DEF UpTask
<1> HIDE DEF t
<1>6. UNCHANGED <<air, join, req>>
  BY DEF SendAck
<1>7. stored' \in Info
  BY <1>2 DEF SendAck
<1>8. up' \in [Copies -> UpTask] /\ WellFounded'
  BY <1>2, <1>3, <1>4, <1>5, <1>6, <1>7, UplinkTask
<1> QED
  BY <1>2, <1>7, <1>8 DEF SendAck, TypeInv, TypeOK

\* A new task holds a frame that was transmitted.
LEMMA ReceiveType ==
    ASSUME TypeInv, NEW u \in Copies, NEW i \in 1 .. Len(air), NEW g \in Gateways,
           NEW s \in Rssi, Receive(u, i, g, s)
    PROVE  TypeInv'
<1> DEFINE t == [NewUp EXCEPT !.pc = "load", !.at = i, !.gw = g, !.rssi = s]
<1>1. Registered(0) \in Info
  BY DEF Registered, Info, Session
<1>2. i \in 0 .. MaxFrames
  BY BoundsAssumption DEF TypeInv, TypeOK
<1>3. t \in UpTask /\ t.pc = "load" /\ t.at = i
  BY <1>1, <1>2 DEF NewUp, UpTask, UpPc, UpEnded
<1>4. up' = [up EXCEPT ![u] = t] /\ UNCHANGED <<air, join, req, stored>>
  BY DEF Receive
<1> HIDE DEF t
<1>5. up' \in [Copies -> UpTask] /\ WellFounded'
  BY <1>3, <1>4, UplinkTask DEF Loaded
<1> QED
  BY <1>5 DEF Receive, TypeInv, TypeOK

\* A failed task keeps its frame.
LEMMA UplinkFailsType == \A u \in Copies : TypeInv /\ UplinkFails(u) => TypeInv'
<1> SUFFICES ASSUME TypeInv, NEW u \in Copies, UplinkFails(u) PROVE TypeInv'
  OBVIOUS
<1> DEFINE t == [up[u] EXCEPT !.pc = "failed"]
<1>1. up[u] \in UpTask /\ up[u].at \in 1 .. Len(air)
  BY DEF UplinkFails, Working, TypeInv, TypeOK, WellFounded
<1>2. t \in UpTask /\ t.pc = "failed" /\ t.at = up[u].at
  BY <1>1 DEF UpTask, UpPc, UpEnded
<1>3. up' = [up EXCEPT ![u] = t] /\ UNCHANGED <<air, join, req, stored>>
  BY DEF UplinkFails
<1> HIDE DEF t
<1>4. up' \in [Copies -> UpTask] /\ WellFounded'
  BY <1>1, <1>2, <1>3, UplinkTask DEF Loaded
<1> QED
  BY <1>4 DEF UplinkFails, TypeInv, TypeOK

\* A step that leaves the tasks, the frames and the record alone.
LEMMA OthersUnchanged ==
    ASSUME TypeInv, UNCHANGED <<up, join, req, air, stored>>
    PROVE  WellFounded'
BY DEF TypeInv, WellFounded

\* A timer empties the buffer.
LEMMA TimerType == \A u \in Copies : TypeInv /\ Timer(u) => TypeInv'
<1> SUFFICES ASSUME TypeInv, NEW u \in Copies, Timer(u) PROVE TypeInv'
  OBVIOUS
<1>1. WellFounded'
  BY OthersUnchanged DEF Timer
<1> QED
  BY <1>1 DEF Timer, TypeInv, TypeOK

\* A frame is transmitted with the counter and the session of the device.
LEMMA DeviceSendType == \A k \in Kinds : TypeInv /\ DeviceSend(k) => TypeInv'
<1> SUFFICES ASSUME TypeInv, NEW k \in Kinds, DeviceSend(k) PROVE TypeInv'
  OBVIOUS
<1> DEFINE f == [sess |-> device.sess, n |-> device.next, conf |-> k.conf, data |-> k.data]
<1>1. f \in Frame
  BY SetsAssumption DEF TypeInv, TypeOK, Frame
<1>2. air' = Append(air, f) /\ air \in Seq(Frame) /\ Len(air) < MaxFrames
  BY DEF DeviceSend, TypeInv, TypeOK
<1>3. air' \in Seq(Frame) /\ Len(air') = Len(air) + 1
  BY <1>1, <1>2
<1>4. Len(air') <= MaxFrames
  BY <1>2, <1>3, BoundsAssumption
<1>5. device' \in [classC : BOOLEAN, sess : Session, next : Nat, joining : BOOLEAN,
                   attempts : 0 .. MaxAttempts, resets : 0 .. MaxResets]
  BY SMTT(40) DEF DeviceSend, TypeInv, TypeOK
<1>6. WellFounded'
  BY <1>2, <1>3 DEF DeviceSend, TypeInv, WellFounded
<1> QED
  BY <1>3, <1>4, <1>5, <1>6 DEF DeviceSend, TypeInv, TypeOK

\* A reset is one of at most MaxResets.
LEMMA DeviceResetType == TypeInv /\ DeviceReset => TypeInv'
<1> SUFFICES ASSUME TypeInv, DeviceReset PROVE TypeInv'
  OBVIOUS
<1> DEFINE Device == [classC : BOOLEAN, sess : Session, next : Nat, joining : BOOLEAN,
                      attempts : 0 .. MaxAttempts, resets : 0 .. MaxResets]
<1>1. device' \in Device
  <2>1. device \in Device
    BY DEF TypeInv, TypeOK
  <2>2. device.resets + 1 \in 0 .. MaxResets
    BY <2>1, BoundsAssumption DEF DeviceReset
  <2>3. device' = [device EXCEPT !.next = 0, !.resets = device.resets + 1]
    BY <2>1 DEF DeviceReset
  <2> QED
    BY <2>1, <2>2, <2>3
<1>2. WellFounded'
  BY OthersUnchanged DEF DeviceReset
<1> QED
  BY <1>1, <1>2 DEF DeviceReset, TypeInv, TypeOK

\* payload_decode stores the counter under which the MIC was right: the one
\* reconstructed, or the bare 16 bits.
LEMMA DecodeType == \A u \in Copies : TypeInv /\ Decode(u) => TypeInv'
<1> SUFFICES ASSUME TypeInv, NEW u \in Copies, Decode(u) PROVE TypeInv'
  OBVIOUS
<1>1. up[u].pc \in Loaded
  BY DEF Decode, Loaded, UpPc, UpEnded
<1>2. up[u] \in UpTask /\ up[u].at \in 1 .. Len(air) /\ stored \in Info /\ Fcnt(u) \in Nat
  BY <1>1, LoadedTask
<1>3. Reconstruct(up[u].snap.up, Fcnt(u)) \in Nat
  BY <1>2, ReconstructType DEF UpTask, Info
<1>4. ASSUME NEW n \in Nat, NEW next \in {"insert", "resetdown"}, StoreCount(u, n, next),
             UNCHANGED <<deviceVars, dbSess, pending, bufferVars, joinVars, downVars, restarts>>
      PROVE  TypeInv'
  <2> DEFINE st == up[u].snap.up # stored.up
  <2> DEFINE t == [up[u] EXCEPT !.pc = next, !.stale = st]
  <2>1. st \in BOOLEAN
    OBVIOUS
  <2>2. up' = [up EXCEPT ![u] = t] /\ UNCHANGED <<air, join, req>>
    BY <1>4 DEF StoreCount, TypeInv, TypeOK
  <2> HIDE DEF st
  <2>5. next \in UpPc
    BY DEF UpPc
  <2>6. t \in UpTask /\ t.pc = next /\ t.at = up[u].at
    BY <1>2, <2>1, <2>5 DEF UpTask
  <2>3. stored' \in Info
    BY <1>2, <1>4 DEF StoreCount, Info
  <2>4. rewound' \in [up : BOOLEAN, down : BOOLEAN, sess : BOOLEAN]
    BY <1>4 DEF StoreCount, TypeInv, TypeOK
  <2> HIDE DEF t
  <2>7. up' \in [Copies -> UpTask] /\ WellFounded'
    BY <1>2, <2>2, <2>3, <2>6, UplinkTask
  <2> QED
    BY <1>4, <2>3, <2>4, <2>7 DEF TypeInv, TypeOK
<1>5. ASSUME NEW next \in {"repeated", "rejected"}, up' = [up EXCEPT ![u].pc = next],
             UNCHANGED <<stored, rewound, deviceVars, dbSess, pending, bufferVars, joinVars,
                         downVars, restarts>>
      PROVE  TypeInv'
  <2> DEFINE t == [up[u] EXCEPT !.pc = next]
  <2>1. t \in UpTask /\ t.pc = next /\ t.at = up[u].at
    BY <1>2 DEF UpTask, UpPc, UpEnded
  <2>2. up' = [up EXCEPT ![u] = t] /\ UNCHANGED <<air, join, req>>
    BY <1>5 DEF TypeInv, TypeOK
  <2> HIDE DEF t
  <2>3. up' \in [Copies -> UpTask] /\ WellFounded'
    BY <1>2, <1>5, <2>1, <2>2, UplinkTask
  <2> QED
    BY <1>5, <2>3 DEF TypeInv, TypeOK
<1> QED
  BY <1>2, <1>3, <1>4, <1>5 DEF Decode

\* The same for the join tasks: those that answer have a session to answer with.
LEMMA JoinTasks ==
    ASSUME TypeInv, NEW j \in Joins, NEW t \in JoinTask,
           join' = [join EXCEPT ![j] = t],
           UNCHANGED <<air, up, req>>,
           stored \in Info => stored' \in Info,
           t.pc \in {"register", "send", "sent"} => t.sess \in Session
    PROVE  join' \in [Joins -> JoinTask] /\ WellFounded'
BY DEF TypeInv, TypeOK, WellFounded

\* A join request is one of at most MaxAttempts.
LEMMA DeviceJoinType == TypeInv /\ DeviceJoin => TypeInv'
<1> SUFFICES ASSUME TypeInv, DeviceJoin PROVE TypeInv'
  OBVIOUS
<1> DEFINE Device == [classC : BOOLEAN, sess : Session, next : Nat, joining : BOOLEAN,
                      attempts : 0 .. MaxAttempts, resets : 0 .. MaxResets]
<1>1. device' \in Device
  <2>1. device \in Device
    BY DEF TypeInv, TypeOK
  <2>2. device.attempts + 1 \in 0 .. MaxAttempts
    BY <2>1, BoundsAssumption DEF DeviceJoin
  <2>3. device' = [device EXCEPT !.attempts = device.attempts + 1, !.joining = TRUE]
    BY <2>1 DEF DeviceJoin
  <2> QED
    BY <2>1, <2>2, <2>3
<1>2. WellFounded'
  BY OthersUnchanged DEF DeviceJoin
<1> QED
  BY <1>1, <1>2 DEF DeviceJoin, TypeInv, TypeOK

\* The request kept is one that was received.
LEMMA JoinReceiveType ==
    ASSUME TypeInv, NEW j \in Joins, NEW a \in 1 .. device.attempts, NEW s \in Rssi,
           JoinReceive(j, a, s)
    PROVE  TypeInv'
<1> DEFINE pc == IF joinSlot = None THEN "sleep" ELSE "merged"
<1> DEFINE ow == IF joinSlot = None THEN j ELSE join[joinSlot].owner
<1> DEFINE t == [NewJoin EXCEPT !.pc = pc, !.attempt = a, !.rssi = s, !.owner = ow]
<1>1. a \in 0 .. MaxAttempts
  BY BoundsAssumption DEF TypeInv, TypeOK
<1>2. ow \in Joins \cup {None} /\ joinSlot' \in Joins \cup {None}
  BY DEF JoinReceive, TypeInv, TypeOK, JoinTask
<1>3. pc \in {"sleep", "merged"} /\ pc \in JoinPc
  BY DEF JoinPc
<1>4. join' = [join EXCEPT ![j] = t] /\ UNCHANGED <<air, up, req, stored>>
  BY DEF JoinReceive
<1> HIDE DEF pc, ow
<1>5. t \in JoinTask /\ t.pc = pc
  BY <1>1, <1>2, <1>3 DEF NewJoin, JoinTask
<1> HIDE DEF t
<1>6. join' \in [Joins -> JoinTask] /\ WellFounded'
  BY <1>3, <1>4, <1>5, JoinTasks
<1> QED
  BY <1>2, <1>6 DEF JoinReceive, TypeInv, TypeOK

\* What a task takes from the buffer is a request that was buffered.
LEMMA JoinWakeType == \A j \in Joins : TypeInv /\ JoinWake(j) => TypeInv'
<1> SUFFICES ASSUME TypeInv, NEW j \in Joins, JoinWake(j) PROVE TypeInv'
  OBVIOUS
<1> DEFINE pc == IF joinSlot = None THEN "empty" ELSE "load"
<1> DEFINE t == [join[j] EXCEPT !.pc = pc, !.item = joinSlot]
<1>1. join[j] \in JoinTask /\ joinSlot \in Joins \cup {None}
  BY DEF TypeInv, TypeOK
<1>2. pc \in {"empty", "load"} /\ pc \in JoinPc
  BY DEF JoinPc
<1>3. join' = [join EXCEPT ![j] = t] /\ UNCHANGED <<air, up, req, stored>>
  BY DEF JoinWake, TypeInv, TypeOK
<1> HIDE DEF pc
<1>4. t \in JoinTask /\ t.pc = pc
  BY <1>1, <1>2 DEF JoinTask
<1> HIDE DEF t
<1>5. join' \in [Joins -> JoinTask] /\ WellFounded'
  BY <1>2, <1>3, <1>4, JoinTasks
<1> QED
  BY <1>5 DEF JoinWake, TypeInv, TypeOK

\* A timer empties the buffer.
LEMMA JoinTimerType == \A j \in Joins : TypeInv /\ JoinTimer(j) => TypeInv'
<1> SUFFICES ASSUME TypeInv, NEW j \in Joins, JoinTimer(j) PROVE TypeInv'
  OBVIOUS
<1>1. WellFounded'
  BY OthersUnchanged DEF JoinTimer
<1> QED
  BY <1>1 DEF JoinTimer, TypeInv, TypeOK

\* A task that has to register holds the session of the row.
LEMMA JoinLoadType == \A j \in Joins : TypeInv /\ JoinLoad(j) => TypeInv'
<1> SUFFICES ASSUME TypeInv, NEW j \in Joins, JoinLoad(j) PROVE TypeInv'
  OBVIOUS
<1> DEFINE pc == IF stored = None THEN "register" ELSE "answer"
<1> DEFINE sn == IF stored = None THEN dbSess ELSE None
<1> DEFINE t == [join[j] EXCEPT !.pc = pc, !.sess = sn]
<1>1. join[j] \in JoinTask
  BY DEF TypeInv, TypeOK
<1>2. pc \in {"register", "answer"} /\ pc \in JoinPc
  BY DEF JoinPc
<1>3. sn \in Session \cup {None} /\ (pc = "register" => sn \in Session)
  BY DEF TypeInv, TypeOK
<1>4. join' = [join EXCEPT ![j] = t] /\ UNCHANGED <<air, up, req, stored>>
  BY DEF JoinLoad, TypeInv, TypeOK
<1> HIDE DEF pc, sn
<1>5. t \in JoinTask /\ t.pc = pc /\ t.sess = sn
  BY <1>1, <1>2, <1>3 DEF JoinTask
<1> HIDE DEF t
<1>6. join' \in [Joins -> JoinTask] /\ WellFounded'
  BY <1>2, <1>3, <1>4, <1>5, JoinTasks
<1> QED
  BY <1>6 DEF JoinLoad, TypeInv, TypeOK

\* A registration writes a record, so redis has one from then on.
LEMMA JoinRegisterType == \A j \in Joins : TypeInv /\ JoinRegister(j) => TypeInv'
<1> SUFFICES ASSUME TypeInv, NEW j \in Joins, JoinRegister(j) PROVE TypeInv'
  OBVIOUS
<1> DEFINE t == [join[j] EXCEPT !.pc = "answer", !.sess = None]
<1>1. join[j] \in JoinTask /\ join[j].sess \in Session
  BY DEF JoinRegister, TypeInv, TypeOK, WellFounded
<1>2. stored' \in Info
  BY <1>1 DEF JoinRegister, WriteRegistered, Registered, TypeInv, TypeOK, Info, Session
<1>3. rewound' \in [up : BOOLEAN, down : BOOLEAN, sess : BOOLEAN]
  BY DEF JoinRegister, WriteRegistered, TypeInv, TypeOK
<1>4. join' = [join EXCEPT ![j] = t] /\ UNCHANGED <<air, up, req>>
  BY DEF JoinRegister, WriteRegistered, TypeInv, TypeOK
<1>5. t \in JoinTask /\ t.pc = "answer"
  BY <1>1 DEF JoinTask, JoinPc
<1> HIDE DEF t
<1>6. join' \in [Joins -> JoinTask] /\ WellFounded'
  BY <1>2, <1>4, <1>5, JoinTasks
<1> QED
  BY <1>2, <1>3, <1>6 DEF JoinRegister, WriteRegistered, TypeInv, TypeOK

\* The session created is new and pending.
LEMMA JoinAnswerType == \A j \in Joins : TypeInv /\ JoinAnswer(j) => TypeInv'
<1> SUFFICES ASSUME TypeInv, NEW j \in Joins, JoinAnswer(j) PROVE TypeInv'
  OBVIOUS
<1> DEFINE t == [join[j] EXCEPT !.pc = "send", !.sess = sessions']
<1>1. join[j] \in JoinTask /\ sessions' \in Session
  BY DEF JoinAnswer, TypeInv, TypeOK, Session
<1>2. join' = [join EXCEPT ![j] = t] /\ UNCHANGED <<air, up, req, stored>>
  BY DEF JoinAnswer, TypeInv, TypeOK
<1>3. t \in JoinTask /\ t.sess \in Session
  BY <1>1 DEF JoinTask, JoinPc
<1> HIDE DEF t
<1>4. join' \in [Joins -> JoinTask] /\ WellFounded'
  BY <1>2, <1>3, JoinTasks
<1> QED
  BY <1>1, <1>4 DEF JoinAnswer, TypeInv, TypeOK, Session

\* Sending changes the task only.
LEMMA JoinSendType == \A j \in Joins : TypeInv /\ JoinSend(j) => TypeInv'
<1> SUFFICES ASSUME TypeInv, NEW j \in Joins, JoinSend(j) PROVE TypeInv'
  OBVIOUS
<1> DEFINE t == [join[j] EXCEPT !.pc = "sent"]
<1>1. join[j] \in JoinTask /\ join[j].sess \in Session
  BY DEF JoinSend, TypeInv, TypeOK, WellFounded
<1>2. join' = [join EXCEPT ![j] = t] /\ UNCHANGED <<air, up, req, stored>>
  BY DEF JoinSend, TypeInv, TypeOK
<1>3. t \in JoinTask /\ t.sess \in Session
  BY <1>1 DEF JoinTask, JoinPc
<1> HIDE DEF t
<1>4. join' \in [Joins -> JoinTask] /\ WellFounded'
  BY <1>2, <1>3, JoinTasks
<1> QED
  BY <1>4 DEF JoinSend, TypeInv, TypeOK

\* The device takes up a session that was created.
LEMMA DeviceAcceptType == \A j \in Joins : TypeInv /\ DeviceAccept(j) => TypeInv'
<1> SUFFICES ASSUME TypeInv, NEW j \in Joins, DeviceAccept(j) PROVE TypeInv'
  OBVIOUS
<1>1. join[j].sess \in Session
  BY DEF DeviceAccept, TypeInv, WellFounded
<1>2. device' \in [classC : BOOLEAN, sess : Session, next : Nat, joining : BOOLEAN,
                   attempts : 0 .. MaxAttempts, resets : 0 .. MaxResets]
  BY <1>1 DEF DeviceAccept, TypeInv, TypeOK
<1>3. WellFounded'
  BY OthersUnchanged DEF DeviceAccept
<1> QED
  BY <1>2, <1>3 DEF DeviceAccept, TypeInv, TypeOK

\* A failed task holds nothing that is needed.
LEMMA JoinFailsType == \A j \in Joins : TypeInv /\ JoinFails(j) => TypeInv'
<1> SUFFICES ASSUME TypeInv, NEW j \in Joins, JoinFails(j) PROVE TypeInv'
  OBVIOUS
<1> DEFINE t == [join[j] EXCEPT !.pc = "failed"]
<1>1. join[j] \in JoinTask
  BY DEF TypeInv, TypeOK
<1>2. join' = [join EXCEPT ![j] = t] /\ UNCHANGED <<air, up, req, stored>>
  BY DEF JoinFails, TypeInv, TypeOK
<1>3. t \in JoinTask /\ t.pc = "failed"
  BY <1>1 DEF JoinTask, JoinPc
<1> HIDE DEF t
<1>4. join' \in [Joins -> JoinTask] /\ WellFounded'
  BY <1>2, <1>3, JoinTasks
<1> QED
  BY <1>4 DEF JoinFails, TypeInv, TypeOK

\* The same for the downlink requests: those under way have a record to count in.
LEMMA RequestTasks ==
    ASSUME TypeInv, NEW r \in Requests, NEW t \in ReqTask,
           req' = [req EXCEPT ![r] = t],
           UNCHANGED <<air, up, join>>,
           stored \in Info => stored' \in Info,
           t.pc \in {"dispatch", "send"} => stored' \in Info
    PROVE  req' \in [Requests -> ReqTask] /\ WellFounded'
BY DEF TypeInv, TypeOK, WellFounded

\* A request goes on only with a record and its gateway.
LEMMA DispatchType == \A r \in Requests : TypeInv /\ Dispatch(r) => TypeInv'
<1> SUFFICES ASSUME TypeInv, NEW r \in Requests, Dispatch(r) PROVE TypeInv'
  OBVIOUS
<1> DEFINE refused == [NewReq EXCEPT !.pc = "refused"]
<1> DEFINE taken == [pc |-> "dispatch", snap |-> stored, seen |-> DownlinksDone]
<1>1. refused \in ReqTask /\ refused.pc = "refused"
  BY DEF NewReq, ReqTask, ReqPc, Registered, Info, Session
<1>2. stored # None => taken \in ReqTask /\ stored \in Info
  BY DEF TypeInv, TypeOK, ReqTask, ReqPc, DownlinksDone
<1>3. PICK t \in ReqTask : /\ req' = [req EXCEPT ![r] = t]
                           /\ t.pc \in {"dispatch", "send"} => stored \in Info
  BY <1>1, <1>2 DEF Dispatch
<1>4. req' \in [Requests -> ReqTask] /\ WellFounded'
  BY <1>3, RequestTasks DEF Dispatch
<1> QED
  BY <1>4 DEF Dispatch, TypeInv, TypeOK

\* HINCRBY increments a record that is there.
LEMMA DispatchCountType == \A r \in Requests : TypeInv /\ DispatchCount(r) => TypeInv'
<1> SUFFICES ASSUME TypeInv, NEW r \in Requests, DispatchCount(r) PROVE TypeInv'
  OBVIOUS
<1> DEFINE t == [req[r] EXCEPT !.pc = "send"]
<1>1. req[r] \in ReqTask /\ stored \in Info
  BY DEF DispatchCount, TypeInv, TypeOK, WellFounded
<1>2. t \in ReqTask
  BY <1>1 DEF ReqTask, ReqPc
<1>3. stored' \in Info
  BY <1>1 DEF DispatchCount, CountDownlink, Info
<1>4. req' = [req EXCEPT ![r] = t] /\ UNCHANGED <<air, up, join>>
  BY DEF DispatchCount, TypeInv, TypeOK
<1> HIDE DEF t
<1>5. req' \in [Requests -> ReqTask] /\ WellFounded'
  BY <1>2, <1>3, <1>4, RequestTasks
<1> QED
  BY <1>3, <1>5 DEF DispatchCount, TypeInv, TypeOK

\* Sending changes the request only.
LEMMA DispatchSendType == \A r \in Requests : TypeInv /\ DispatchSend(r) => TypeInv'
<1> SUFFICES ASSUME TypeInv, NEW r \in Requests, DispatchSend(r) PROVE TypeInv'
  OBVIOUS
<1> DEFINE t == [req[r] EXCEPT !.pc = "sent"]
<1>1. t \in ReqTask /\ t.pc = "sent"
  <2>1. req[r] \in ReqTask
    BY DEF TypeInv, TypeOK
  <2> QED
    BY <2>1 DEF ReqTask, ReqPc
<1>2. req' = [req EXCEPT ![r] = t] /\ UNCHANGED <<air, up, join, stored>>
  BY DEF DispatchSend, TypeInv, TypeOK
<1> HIDE DEF t
<1>3. req' \in [Requests -> ReqTask] /\ WellFounded'
  BY <1>1, <1>2, RequestTasks
<1> QED
  BY <1>3 DEF DispatchSend, TypeInv, TypeOK

\* What is queued is a request.
LEMMA DispatchQueueType == \A r \in Requests : TypeInv /\ DispatchQueue(r) => TypeInv'
<1> SUFFICES ASSUME TypeInv, NEW r \in Requests, DispatchQueue(r) PROVE TypeInv'
  OBVIOUS
<1> DEFINE t == [req[r] EXCEPT !.pc = "queued"]
<1>1. t \in ReqTask /\ t.pc = "queued"
  <2>1. req[r] \in ReqTask
    BY DEF TypeInv, TypeOK
  <2> QED
    BY <2>1 DEF ReqTask, ReqPc
<1>2. req' = [req EXCEPT ![r] = t] /\ UNCHANGED <<air, up, join, stored>>
  BY DEF DispatchQueue, TypeInv, TypeOK
<1>3. queue' \in Seq(Requests)
  BY DEF DispatchQueue, TypeInv, TypeOK
<1> HIDE DEF t
<1>4. req' \in [Requests -> ReqTask] /\ WellFounded'
  BY <1>1, <1>2, RequestTasks
<1> QED
  BY <1>3, <1>4 DEF DispatchQueue, TypeInv, TypeOK

\* A failed request is not counted.
LEMMA DispatchFailsType == \A r \in Requests : TypeInv /\ DispatchFails(r) => TypeInv'
<1> SUFFICES ASSUME TypeInv, NEW r \in Requests, DispatchFails(r) PROVE TypeInv'
  OBVIOUS
<1> DEFINE t == [req[r] EXCEPT !.pc = "failed"]
<1>1. t \in ReqTask /\ t.pc = "failed"
  <2>1. req[r] \in ReqTask
    BY DEF TypeInv, TypeOK
  <2> QED
    BY <2>1 DEF ReqTask, ReqPc
<1>2. req' = [req EXCEPT ![r] = t] /\ UNCHANGED <<air, up, join, stored>>
  BY DEF DispatchFails, TypeInv, TypeOK
<1> HIDE DEF t
<1>3. req' \in [Requests -> ReqTask] /\ WellFounded'
  BY <1>1, <1>2, RequestTasks
<1> QED
  BY <1>3 DEF DispatchFails, TypeInv, TypeOK

\* A restart ends the tasks under way and empties the caches.
LEMMA RestartType == TypeInv /\ Restart => TypeInv'
<1> SUFFICES ASSUME TypeInv, Restart PROVE TypeInv'
  OBVIOUS
<1>1. ASSUME NEW u \in Copies
      PROVE  /\ up'[u] \in UpTask /\ up'[u].at = up[u].at /\ up'[u].otaa = up[u].otaa
             /\ up'[u].pc = up[u].pc \/ (up'[u].pc = "failed" /\ up[u].pc # "idle")
  <2>1. up[u] \in UpTask
    BY DEF TypeInv, TypeOK
  <2>2. \/ up'[u] = up[u]
        \/ up'[u] = [up[u] EXCEPT !.pc = "failed"] /\ up[u].pc # "idle"
    BY DEF Restart, Working
  <2>3. "failed" \in UpPc
    BY DEF UpPc, UpEnded
  <2> QED
    BY <2>1, <2>2, <2>3 DEF UpTask
<1>2. ASSUME NEW j \in Joins
      PROVE  /\ join'[j] \in JoinTask /\ join'[j].sess = join[j].sess
             /\ join'[j].pc = join[j].pc \/ join'[j].pc = "failed"
  <2>1. join[j] \in JoinTask
    BY DEF TypeInv, TypeOK
  <2>2. join'[j] = join[j] \/ join'[j] = [join[j] EXCEPT !.pc = "failed"]
    BY DEF Restart
  <2> QED
    BY <2>1, <2>2 DEF JoinTask, JoinPc
<1>3. ASSUME NEW r \in Requests
      PROVE  /\ req'[r] \in ReqTask
             /\ req'[r].pc = req[r].pc \/ req'[r].pc = "failed"
  <2>1. req[r] \in ReqTask
    BY DEF TypeInv, TypeOK
  <2>2. req'[r] = req[r] \/ req'[r] = [req[r] EXCEPT !.pc = "failed"]
    BY DEF Restart
  <2> QED
    BY <2>1, <2>2 DEF ReqTask, ReqPc
<1>4. /\ up' \in [Copies -> UpTask]
      /\ join' \in [Joins -> JoinTask]
      /\ req' \in [Requests -> ReqTask]
  BY <1>1, <1>2, <1>3 DEF Restart
<1>5. WellFounded'
  BY <1>1, <1>2, <1>3 DEF Restart, TypeInv, WellFounded, Loaded
<1>6. restarts' \in 0 .. MaxRestarts
  BY BoundsAssumption DEF Restart, TypeInv, TypeOK
<1> QED
  BY <1>4, <1>5, <1>6 DEF Restart, TypeInv, TypeOK

\* Every step keeps the types.
LEMMA StepType == TypeInv /\ [Next]_vars => TypeInv'
<1> SUFFICES ASSUME TypeInv, [Next]_vars PROVE TypeInv'
  OBVIOUS
<1>1. CASE JoinNext
  BY <1>1, DeviceJoinType, JoinReceiveType, JoinWakeType, JoinTimerType, JoinLoadType,
     JoinRegisterType, JoinAnswerType, JoinSendType, DeviceAcceptType, JoinFailsType
  DEF JoinNext, JoinStep
<1>2. CASE UplinkNext
  BY <1>2, DeviceSendType, DeviceResetType, ReceiveType, LoadType, RegisterType,
     GetOtaaType, DelOtaaType, ActivateDbType, ActivateType, DecodeType, ResetDownType,
     InsertType, WakeType, DeliverType, ReportType, TimerType, UplinkFailsType
  DEF UplinkNext, UplinkStep
<1>3. CASE DownlinkNext
  BY <1>3, PullType, IncrDownType, SendDownType, SendAckType, IncrAckType, DispatchType,
     DispatchCountType, DispatchSendType, DispatchQueueType, DispatchFailsType
  DEF DownlinkNext, PullStep, DispatchStep
<1>4. CASE Restart
  BY <1>4, RestartType
<1>5. CASE UNCHANGED vars
  BY <1>5 DEF vars, TypeInv, TypeOK, WellFounded
<1> QED
  BY <1>1, <1>2, <1>3, <1>4, <1>5 DEF Next

\* Every variable keeps the type of the Rust value it stands for, in every
\* instance of the model.
THEOREM TypeCorrect == Spec => []TypeOK
<1>1. TypeInv => TypeOK
  BY DEF TypeInv
<1> QED
  BY InitType, StepType, <1>1, PTL DEF Spec

-----------------------------------------------------------------------------
(* The record in redis                                                      *)

\* The steps that write it.
LEMMA StoredStep ==
    ASSUME TypeInv, Next
    PROVE  \/ UNCHANGED <<stored, rewound>>
           \/ \E u \in Copies : Register(u)
           \/ \E j \in Joins : JoinRegister(j)
           \/ \E u \in Copies : Activate(u) \/ Decode(u) \/ ResetDown(u) \/ Deliver(u)
                               \/ IncrDown(u) \/ IncrAck(u)
           \/ \E r \in Requests : DispatchCount(r)
<1>1. CASE JoinNext
  BY <1>1 DEF JoinNext, JoinStep, DeviceJoin, JoinReceive, JoinWake, JoinTimer, JoinLoad,
              JoinAnswer, JoinSend, DeviceAccept, JoinFails
<1>2. CASE UplinkNext
  BY <1>2, ZenonT(40) DEF UplinkNext, UplinkStep, DeviceSend, DeviceReset, Receive, Timer,
              UplinkFails, Load, GetOtaa, DelOtaa, ActivateDb, Insert, Wake, Report
<1>3. CASE DownlinkNext
  BY <1>3 DEF DownlinkNext, PullStep, Pull, SendDown, SendAck, DispatchStep, Dispatch,
              DispatchSend, DispatchQueue, DispatchFails
<1>4. CASE Restart
  BY <1>4 DEF Restart
<1> QED
  BY <1>1, <1>2, <1>3, <1>4 DEF Next

\* It is never deleted, and its counters go back only where that is put down.
LEMMA RecordGrows ==
    ASSUME TypeInv, Next
    PROVE  /\ stored \in Info => stored' \in Info
           /\ ~rewound'.up => ~rewound.up /\ (stored \in Info => stored.up <= stored'.up)
           /\ ~rewound'.down => ~rewound.down /\ (stored \in Info => stored.down <= stored'.down)
<1> DEFINE Grows ==
      /\ stored \in Info => stored' \in Info
      /\ ~rewound'.up => ~rewound.up /\ (stored \in Info => stored.up <= stored'.up)
      /\ ~rewound'.down => ~rewound.down /\ (stored \in Info => stored.down <= stored'.down)
<1>1. /\ rewound \in [up : BOOLEAN, down : BOOLEAN, sess : BOOLEAN]
      /\ up \in [Copies -> UpTask] /\ air \in Seq(Frame)
      /\ stored \in Info \cup {None} /\ None \notin Info
      /\ stored' \in Info \cup {None}
  BY StepType, NoneAssumption DEF TypeInv, TypeOK
<1>2. stored \in Info => stored.up \in Nat /\ stored.down \in Nat
  BY DEF Info
<1>3. CASE UNCHANGED <<stored, rewound>>
  BY <1>2, <1>3
<1>4. ASSUME NEW s \in Session, WriteRegistered(s)
      PROVE  Grows
  <2>1. stored'.up = 0 /\ stored'.down = 0
    BY <1>4 DEF WriteRegistered, Registered
  <2>2. stored' \in Info
    BY <1>1, <1>4 DEF WriteRegistered, Registered, Info
  <2>3. CASE stored = None
    BY <1>1, <1>4, <2>3 DEF WriteRegistered
  <2>4. CASE stored \in Info
    <3>1. /\ rewound'.up <=> (rewound.up \/ stored.up > 0)
          /\ rewound'.down <=> (rewound.down \/ stored.down > 0)
      BY <1>1, <1>4, <2>4 DEF WriteRegistered
    <3> QED
      BY <1>2, <2>1, <2>2, <2>4, <3>1
  <2> QED
    BY <1>1, <2>3, <2>4
<1>5. ASSUME NEW u \in Copies,
             Activate(u) \/ Decode(u) \/ ResetDown(u) \/ Deliver(u) \/ IncrDown(u) \/ IncrAck(u)
      PROVE  Grows
  <2>1. up[u].pc \in Loaded /\ FrameOf(u) \in Frame
    BY <1>1, <1>5 DEF TypeInv, WellFounded, Loaded, UpPc, UpEnded, FrameOf, Activate, Decode,
                      ResetDown, Deliver, IncrDown, IncrAck
  <2>2. stored \in Info
    BY <2>1 DEF TypeInv, WellFounded
  <2>3. FrameOf(u).n \in Nat /\ Fcnt(u) \in Nat
    <3>1. FrameOf(u).n \in Nat
      BY <2>1 DEF Frame
    <3> QED
      BY <3>1, ModulusAssumption DEF Fcnt, Low
  <2>4. CASE Activate(u)
    <3>1. up[u].otaa \in Session
      BY <2>4 DEF Activate, TypeInv, WellFounded
    <3>2. stored' \in Info /\ stored'.up = Fcnt(u) /\ stored'.down = Fcnt(u)
      BY <2>2, <2>3, <2>4, <3>1 DEF Activate, Info
    <3>3. /\ rewound'.up <=> (rewound.up \/ Fcnt(u) < stored.up)
          /\ rewound'.down <=> (rewound.down \/ Fcnt(u) < stored.down)
      BY <2>4 DEF Activate
    <3> QED
      BY <1>2, <2>2, <2>3, <3>2, <3>3
  <2>5. CASE Decode(u)
    <3>1. ASSUME NEW n \in Nat, NEW next, StoreCount(u, n, next)
          PROVE  /\ stored' \in Info /\ stored'.up = n /\ stored'.down = stored.down
                 /\ rewound'.up <=> (rewound.up \/ n < stored.up)
                 /\ rewound'.down = rewound.down
      BY <1>1, <2>2, <3>1 DEF StoreCount, Info
    <3>2. Reconstruct(up[u].snap.up, Fcnt(u)) \in Nat
      <4>1. up[u].snap.up \in Nat
        BY <1>1 DEF UpTask, Info
      <4>2. Fcnt(u) \in Int
        BY <2>3
      <4> QED
        BY <4>1, <4>2, ReconstructType
    <3>3. UNCHANGED <<stored, rewound>> \/ \E n \in Nat, next \in UpPc : StoreCount(u, n, next)
      BY <2>3, <2>5, <3>2 DEF Decode, UpPc
    <3> QED
      BY <1>2, <1>3, <2>2, <3>1, <3>3
  <2>6. CASE ResetDown(u)
    <3>1. stored' \in Info /\ stored'.up = stored.up /\ stored'.down = 0
      BY <1>2, <2>2, <2>6 DEF ResetDown, Info
    <3>2. rewound'.up = rewound.up /\ (rewound'.down <=> (rewound.down \/ stored.down > 0))
      BY <1>1, <2>6 DEF ResetDown
    <3> QED
      BY <1>2, <2>2, <3>1, <3>2
  <2>7. CASE Deliver(u)
    BY <1>1, <1>2, <2>2, <2>7 DEF Deliver, Info, UpTask
  <2>8. CASE IncrDown(u) \/ IncrAck(u)
    BY <1>1, <1>2, <2>2, <2>8 DEF IncrDown, IncrAck, CountDownlink, Info
  <2> QED
    BY <1>5, <2>4, <2>5, <2>6, <2>7, <2>8
<1>6. ASSUME NEW r \in Requests, DispatchCount(r)
      PROVE  Grows
  BY <1>1, <1>2, <1>6 DEF DispatchCount, CountDownlink, Info
<1>7. ASSUME NEW u \in Copies, Register(u) PROVE Grows
  <2>1. up[u].snap.sess \in Session
    BY <1>1 DEF UpTask, Info
  <2> QED
    BY <1>4, <1>7, <2>1 DEF Register
<1>8. ASSUME NEW j \in Joins, JoinRegister(j) PROVE Grows
  BY <1>4, <1>8 DEF JoinRegister, TypeInv, WellFounded
<1> QED
  BY <1>3, <1>5, <1>6, <1>7, <1>8, StoredStep

-----------------------------------------------------------------------------
(* The reconstructed counter: it is the device's, for every width of the    *)
(* transmitted one.                                                         *)

\* A multiple smaller than the modulus is zero.
LEMMA SmallMultiple ==
    ASSUME NEW M \in Nat \ {0}, NEW d \in Int, d * M < M, 0 - M < d * M
    PROVE  d = 0
<1>1. CASE d >= 1
  <2>1. d * M >= M
    BY <1>1, SMT
  <2> QED
    BY <2>1
<1>2. CASE d <= 0 - 1
  <2>1. (0 - d) * M >= M
    BY <1>2, SMT
  <2> QED
    BY <2>1
<1> QED
  BY <1>1, <1>2

\* A residue is determined by its range.
LEMMA ModUnique ==
    ASSUME NEW M \in Nat \ {0}, NEW q \in Int, NEW r \in 0 .. M - 1
    PROVE  (q * M + r) % M = r
<1> DEFINE x == q * M + r
<1> DEFINE p == x \div M
<1> DEFINE s == x % M
<1>1. x \in Int /\ p \in Int /\ s \in 0 .. M - 1 /\ x = p * M + s
  BY SMT
<1>2. (q - p) * M = s - r
  BY <1>1
<1>3. q - p = 0
  BY <1>1, <1>2, SmallMultiple
<1> QED
  BY <1>1, <1>2, <1>3

\* The forward distance of the low bits is the distance of the counters.
LEMMA ForwardExact ==
    ASSUME NEW k \in Nat, NEW n \in Nat, k <= n, n < k + Modulus
    PROVE  Forward(Low(k), Low(n)) = n - k
<1> DEFINE M == Modulus
<1>1. M \in Nat \ {0}
  BY ModulusAssumption
<1> DEFINE p == k \div M
<1> DEFINE q == n \div M
<1> DEFINE a == k % M
<1> DEFINE b == n % M
<1>2. p \in Int /\ a \in Int /\ k = p * M + a
  BY <1>1, SMT
<1>3. q \in Int /\ b \in Int /\ n = q * M + b
  BY <1>1, SMT
<1> HIDE DEF p, q, a, b, M
<1>4. (p - q) * M = p * M - q * M
  BY <1>1, <1>2, <1>3
<1>5. b - a = (p - q) * M + (n - k)
  BY <1>1, <1>2, <1>3, <1>4
<1>6. ((p - q) * M + (n - k)) % M = n - k
  <2>1. n - k \in 0 .. M - 1 /\ p - q \in Int
    BY <1>1, <1>2, <1>3 DEF M
  <2> QED
    BY <1>1, <2>1, ModUnique
<1> QED
  BY <1>5, <1>6 DEF Forward, Low, a, b, M

\* payload_decode: a frame fewer than half the modulus ahead of the counter
\* kept is tried under the counter the device used, rollover of the
\* transmitted bits included.
THEOREM ReconstructExact ==
    ASSUME NEW kept \in Nat, NEW n \in Nat,
           kept <= n, n < kept + Half, n < CounterSpace
    PROVE  Reconstruct(kept, Low(n)) = n
<1>1. Modulus \in Nat \ {0} /\ Half \in Nat /\ Half <= Modulus
  BY ModulusAssumption DEF Half
<1>2. Forward(Low(kept), Low(n)) = n - kept
  BY <1>1, ForwardExact
<1>3. CounterSpace \in Nat \ {0}
  BY <1>1 DEF CounterSpace
<1>4. n % CounterSpace = n
  BY <1>3, SMT
<1> QED
  BY <1>1, <1>2, <1>4 DEF Reconstruct

-----------------------------------------------------------------------------
(* The buffer keeps the best copy, and a frame is handed on once.           *)

\* A task that has not been to the buffer, unless it has failed.
Unbuffered == {"idle", "load", "register", "getotaa", "delotaa", "activatedb", "activate",
               "decode", "resetdown", "insert"}

\* A task that has taken a copy from the buffer.
Took == {"deliver", "pull", "incr", "senddown", "sendack", "incrack", "report", "done"}

\* A copy enters the buffer once and leaves it once, to one task.
BufferInv ==
    /\ \A u \in Copies :
        /\ up[u].pc # "idle" => up[u].rssi \in Rssi
        /\ up[u].pc \in Unbuffered => up[u].owner = None
        /\ up[u].owner # None => up[up[u].owner].owner # None
        /\ up[u].pc \in Took => up[u].item # None
        /\ up[u].item # None => up[up[u].item].owner # None /\ up[u].item # slot
    /\ \A u, v \in Copies : up[u].item = up[v].item /\ up[u].item # None => u = v
    /\ slot # None => up[slot].owner # None
    /\ BestCopyKept

-----------------------------------------------------------------------------
(* What steps do to tasks and the buffer                                    *)

\* What a task is called with does not change, and it enters the buffer at
\* Insert and takes a copy at Wake only.
LEMMA TaskStep ==
    ASSUME TypeInv, Next, NEW u \in Copies
    PROVE  /\ up[u].pc # "idle" =>
                up'[u].at = up[u].at /\ up'[u].rssi = up[u].rssi /\ up'[u].pc # "idle"
           /\ up[u].pc = "idle" /\ up'[u].pc # "idle" =>
                up'[u].rssi \in Rssi /\ up'[u].owner = None /\ up'[u].item = None
           /\ up[u].pc = "idle" /\ up'[u].pc = "idle" => up'[u] = up[u]
           /\ up'[u].pc \in Unbuffered => up[u].pc \in Unbuffered
           /\ up[u].pc # "idle" => Insert(u) \/ up'[u].owner = up[u].owner
           /\ up[u].pc # "idle" => Wake(u) \/ up'[u].item = up[u].item
           /\ up'[u].pc \in Took => up[u].pc \in Took \/ (Wake(u) /\ slot # None)
<1> USE DEF deviceVars, storeVars, bufferVars, joinVars, downVars, Unbuffered, Took
<1>1. up \in [Copies -> UpTask]
  BY DEF TypeInv, TypeOK
<1>2. CASE JoinNext
  BY <1>2 DEF JoinNext, JoinStep, DeviceJoin, JoinReceive, JoinWake, JoinTimer, JoinLoad,
              JoinRegister, JoinAnswer, JoinSend, DeviceAccept, JoinFails
<1>3. CASE \E v \in Copies : UplinkStep(v)
  BY <1>1, <1>3 DEF UpTask, UplinkStep, Load, AfterLoad, Register, GetOtaa, DelOtaa, ActivateDb,
                    Activate, StoreCount, Decode, ResetDown, Insert, Wake, Deliver, Report
<1>4. CASE \E v \in Copies : PullStep(v)
  BY <1>1, <1>4 DEF UpTask, PullStep, Pull, IncrDown, SendDown, SendAck, IncrAck
<1>5. CASE \E r \in Requests : Dispatch(r) \/ DispatchStep(r) \/ DispatchFails(r)
  BY <1>5 DEF DispatchStep, Dispatch, DispatchCount, DispatchSend, DispatchQueue, DispatchFails
<1>6. CASE Restart
  BY <1>1, <1>6 DEF Restart, UpTask, Working
<1>7. CASE (\E k \in Kinds : DeviceSend(k)) \/ DeviceReset \/ \E v \in Copies : Timer(v)
  BY <1>7 DEF DeviceSend, DeviceReset, Timer
<1>8. CASE \E v \in Copies : UplinkFails(v)
  BY <1>1, <1>8 DEF UplinkFails, UpTask, Working
<1>9. CASE \E v \in Copies, i \in 1 .. Len(air), g \in Gateways, s \in Rssi : Receive(v, i, g, s)
  BY <1>1, <1>9 DEF Receive, NewUp, UpTask
<1> QED
  BY <1>2, <1>3, <1>4, <1>5, <1>6, <1>7, <1>8, <1>9 DEF Next, UplinkNext, DownlinkNext

\* The buffer is filled by Insert only.
LEMMA SlotStep ==
    ASSUME Next
    PROVE  slot' \in {slot, None} \/ \E u \in Copies : Insert(u)
<1> USE DEF deviceVars, storeVars, bufferVars, joinVars, downVars
<1>2. CASE JoinNext
  BY <1>2 DEF JoinNext, JoinStep, DeviceJoin, JoinReceive, JoinWake, JoinTimer, JoinLoad,
              JoinRegister, JoinAnswer, JoinSend, DeviceAccept, JoinFails
<1>3. CASE UplinkNext
  BY <1>3, ZenonT(40) DEF UplinkNext, UplinkStep, DeviceSend, DeviceReset, Receive, Timer,
            UplinkFails, Load, Register, GetOtaa, DelOtaa, ActivateDb, Activate, StoreCount,
            Decode, ResetDown, Wake, Deliver, Report
<1>4. CASE DownlinkNext
  BY <1>4 DEF DownlinkNext, PullStep, Pull, IncrDown, SendDown, SendAck, IncrAck, DispatchStep,
              Dispatch, DispatchCount, DispatchSend, DispatchQueue, DispatchFails
<1>5. CASE Restart
  BY <1>5 DEF Restart
<1> QED
  BY <1>2, <1>3, <1>4, <1>5 DEF Next

\* A frame on the air stays as it was sent.
LEMMA AirStep ==
    ASSUME TypeInv, Next
    PROVE  Len(air) <= Len(air') /\ \A i \in 1 .. Len(air) : air'[i] = air[i]
<1> USE DEF deviceVars, storeVars, bufferVars, joinVars, downVars
<1>1. air \in Seq(Frame)
  BY DEF TypeInv, TypeOK
<1>2. air' = air \/ \E k \in Kinds : DeviceSend(k)
  <2>1. CASE JoinNext
    BY <2>1 DEF JoinNext, JoinStep, DeviceJoin, JoinReceive, JoinWake, JoinTimer, JoinLoad,
                JoinRegister, JoinAnswer, JoinSend, DeviceAccept, JoinFails
  <2>2. CASE UplinkNext
    BY <2>2, ZenonT(40) DEF UplinkNext, UplinkStep, DeviceReset, Receive, Timer, UplinkFails, Load,
                Register, GetOtaa, DelOtaa, ActivateDb, Activate, StoreCount, Decode, ResetDown,
                Insert, Wake, Deliver, Report
  <2>3. CASE DownlinkNext
    BY <2>3 DEF DownlinkNext, PullStep, Pull, IncrDown, SendDown, SendAck, IncrAck,
                DispatchStep, Dispatch, DispatchCount, DispatchSend, DispatchQueue, DispatchFails
  <2>4. CASE Restart
    BY <2>4 DEF Restart
  <2> QED
    BY <2>1, <2>2, <2>3, <2>4 DEF Next
<1>3. CASE air' = air
  BY <1>1, <1>3
<1>4. ASSUME NEW k \in Kinds, DeviceSend(k)
      PROVE  Len(air) <= Len(air') /\ \A i \in 1 .. Len(air) : air'[i] = air[i]
  BY <1>1, <1>4 DEF DeviceSend
<1> QED
  BY <1>2, <1>3, <1>4

\* The transmitted counter of a reception does not change.
LEMMA FcntStep ==
    ASSUME TypeInv, Next, NEW u \in Copies, up[u].pc # "idle"
    PROVE  FrameOf(u)' = FrameOf(u) /\ Fcnt(u)' = Fcnt(u) /\ Fcnt(u) \in Int
<1>1. up[u].at \in 1 .. Len(air) /\ air \in Seq(Frame)
  BY DEF TypeInv, TypeOK, WellFounded
<1>2. up'[u].at = up[u].at
  BY TaskStep
<1>3. FrameOf(u)' = FrameOf(u)
  BY <1>1, <1>2, AirStep DEF FrameOf
<1>4. FrameOf(u).n \in Nat
  <2>1. FrameOf(u) \in Frame
    BY <1>1 DEF FrameOf
  <2> QED
    BY <2>1 DEF Frame
<1> QED
  BY <1>3, <1>4, ModulusAssumption DEF Fcnt, Low

-----------------------------------------------------------------------------
(* The buffer                                                               *)

LEMMA InitBuffer == Init => BufferInv
  BY SetsAssumption DEF Init, BufferInv, BestCopyKept, NewUp, Took

\* The order copies are compared by is transitive.
LEMMA BeatsOrder ==
    ASSUME NEW u, NEW v, NEW w, {Fcnt(u), Fcnt(v), Fcnt(w)} \subseteq Int,
           {up[u].rssi, up[v].rssi, up[w].rssi} \subseteq Int,
           Beats(u, v), ~Beats(w, v)
    PROVE  ~Beats(w, u)
  BY DEF Beats

\* A copy keeps its place in that order, whatever the buffer holds next.
LEMMA BeatsStep ==
    ASSUME TypeInv, BufferInv, Next, NEW u \in Copies, NEW v \in Copies,
           up[u].pc # "idle", up[v].pc # "idle", slot' = v
    PROVE  Beats(u, slot)' <=> Beats(u, v)
<1>1. Fcnt(u)' = Fcnt(u) /\ Fcnt(v)' = Fcnt(v)
  BY FcntStep
<1>2. up'[u].rssi = up[u].rssi /\ up'[v].rssi = up[v].rssi
  BY TaskStep
<1>3. Fcnt(slot)' = Fcnt(v)'
  BY DEF Fcnt, FrameOf
<1> QED
  BY <1>1, <1>2, <1>3 DEF Beats

\* A copy that goes to the buffer finds it empty, or is compared with the one
\* there.
LEMMA InsertBuffer ==
    ASSUME TypeInv, BufferInv, Next, NEW u \in Copies, Insert(u)
    PROVE  BufferInv'
<1>1. up \in [Copies -> UpTask] /\ slot \in Copies \cup {None} /\ None \notin Copies
  BY SetsAssumption DEF TypeInv, TypeOK
<1>2. /\ up[u].pc = "insert" /\ up[u].owner = None
      /\ up'[u].owner = IF slot = None THEN u ELSE up[slot].owner
      /\ up'[u].pc \in {"sleep", "merged"} /\ up'[u].item = up[u].item
      /\ up'[u].rssi = up[u].rssi
      /\ \A v \in Copies \ {u} : up'[v] = up[v]
  BY <1>1 DEF Insert, UpTask, BufferInv, Unbuffered
<1>3. slot' = IF slot = None THEN u ELSE IF Beats(u, slot) THEN u ELSE slot
  BY DEF Insert
<1>4. up'[u].owner # None /\ up'[u].owner \in Copies
  BY <1>1, <1>2 DEF BufferInv, UpTask
<1>5. \A v \in Copies : up[v].owner # u /\ up[v].item # u
  BY <1>1, <1>2 DEF BufferInv
<1>6. ASSUME NEW v \in Copies
      PROVE  /\ up'[v].pc # "idle" => up'[v].rssi \in Rssi
             /\ up'[v].pc \in Unbuffered => up'[v].owner = None
             /\ up'[v].owner # None => up'[up'[v].owner].owner # None
             /\ up'[v].pc \in Took => up'[v].item # None
             /\ up'[v].item # None => up'[up'[v].item].owner # None /\ up'[v].item # slot'
  <2>1. CASE v = u
    BY <1>1, <1>2, <1>3, <1>4, <1>5, <2>1 DEF BufferInv, Unbuffered, Took, UpTask
  <2>2. CASE v # u
    <3>1. up[v].owner \in Copies \cup {None} /\ up[v].item \in Copies \cup {None}
      BY <1>1 DEF UpTask
    <3> QED
      BY <1>1, <1>2, <1>3, <1>4, <1>5, <2>2, <3>1 DEF BufferInv
  <2> QED
    BY <2>1, <2>2
<1>7. \A v, w \in Copies : up'[v].item = up'[w].item /\ up'[v].item # None => v = w
  BY <1>2 DEF BufferInv
<1>8. slot' # None => up'[slot'].owner # None
  BY <1>1, <1>2, <1>3, <1>4 DEF BufferInv
<1>9. BestCopyKept'
  <2> SUFFICES ASSUME NEW w \in Copies, up'[w].owner = up'[slot'].owner PROVE ~Beats(w, slot)'
    BY <1>1, <1>3 DEF BestCopyKept
  <2>1. up[u].pc # "idle" /\ up[u].rssi \in Rssi /\ Fcnt(u) \in Int
    BY <1>2, FcntStep DEF BufferInv
  <2>2. ~Beats(u, u)
    <3>1. up[u].rssi \in Int
      BY <2>1, SetsAssumption
    <3> QED
      BY <2>1, <3>1 DEF Beats
  <2>3. CASE slot = None
    <3>1. slot' = u /\ w = u
      BY <1>1, <1>2, <1>3, <1>5, <2>3
    <3> QED
      BY <2>1, <2>2, <3>1, BeatsStep
  <2>4. CASE slot # None
    <3>1. slot \in Copies /\ slot # u /\ up[slot].owner # None /\ up'[slot].owner = up[slot].owner
      BY <1>1, <1>2, <2>4 DEF BufferInv
    <3>2. up'[slot'].owner = up[slot].owner
      BY <1>2, <1>3, <2>4, <3>1
    <3>3. w = u \/ (w # u /\ up[w].owner = up[slot].owner /\ ~Beats(w, slot))
      BY <1>2, <2>4, <3>2 DEF BufferInv, BestCopyKept
    <3>4. /\ up[w].pc # "idle" /\ up[w].rssi \in Rssi /\ Fcnt(w) \in Int
          /\ up[slot].pc # "idle" /\ up[slot].rssi \in Rssi /\ Fcnt(slot) \in Int
      <4>1. up[slot].pc # "idle" /\ up[w].pc # "idle"
        BY <2>1, <3>1, <3>3 DEF BufferInv, Unbuffered
      <4> QED
        BY <3>1, <4>1, FcntStep DEF BufferInv
    <3>5. slot' \in Copies /\ ~Beats(w, slot')
      <4>1. CASE Beats(u, slot)
        <5>1. slot' = u
          BY <1>3, <2>4, <4>1
        <5> QED
          BY <2>1, <2>2, <3>3, <3>4, <4>1, <5>1, BeatsOrder, SetsAssumption
      <4>2. CASE ~Beats(u, slot)
        BY <1>3, <2>4, <3>1, <3>3, <4>2
      <4> QED
        BY <4>1, <4>2
    <3>6. up[slot'].pc # "idle"
      BY <1>3, <2>1, <3>4
    <3> QED
      BY <3>4, <3>5, <3>6, BeatsStep
  <2> QED
    BY <2>3, <2>4
<1> QED
  BY <1>6, <1>7, <1>8, <1>9 DEF BufferInv

\* Taking the copy out, and everything else a step may do.
LEMMA StepBuffer == TypeInv /\ BufferInv /\ [Next]_vars => BufferInv'
<1> SUFFICES ASSUME TypeInv, BufferInv, Next PROVE BufferInv'
  BY DEF vars, bufferVars, BufferInv, BestCopyKept, Beats, Fcnt, FrameOf, deviceVars
<1>1. CASE \E u \in Copies : Insert(u)
  BY <1>1, InsertBuffer
<1>2. CASE \A u \in Copies : ~Insert(u)
  <2>1. up \in [Copies -> UpTask] /\ slot \in Copies \cup {None} /\ None \notin Copies
    BY SetsAssumption DEF TypeInv, TypeOK
  <2>2. slot' \in {slot, None}
    BY <1>2, SlotStep
  <2>3. \A u \in Copies : up'[u].owner = up[u].owner
    BY <1>2, TaskStep DEF BufferInv, Unbuffered
  <2>4. \A u \in Copies : up'[u].item = up[u].item \/ up'[u].item = None
                         \/ (Wake(u) /\ up'[u].item = slot /\ slot # None /\ slot' = None)
    BY <2>1, TaskStep DEF Wake, UpTask
  <2>5. \A u, v \in Copies : Wake(u) /\ Wake(v) => u = v
    BY <2>1 DEF Wake, UpTask
  <2>6. ASSUME NEW u \in Copies
        PROVE  /\ up'[u].pc # "idle" => up'[u].rssi \in Rssi
               /\ up'[u].pc \in Unbuffered => up'[u].owner = None
               /\ up'[u].owner # None => up'[up'[u].owner].owner # None
    <3>1. up[u].owner \in Copies \cup {None}
      BY <2>1 DEF UpTask
    <3> QED
      BY <2>1, <2>3, <3>1, TaskStep DEF BufferInv
  <2>7. ASSUME NEW u \in Copies
        PROVE  up'[u].item # None => up'[up'[u].item].owner # None /\ up'[u].item # slot'
    <3>1. up[u].item \in Copies \cup {None}
      BY <2>1 DEF UpTask
    <3> QED
      BY <2>1, <2>2, <2>3, <2>4, <3>1 DEF BufferInv
  <2>8. \A u, v \in Copies : up'[u].item = up'[v].item /\ up'[u].item # None => u = v
    BY <2>4, <2>5 DEF BufferInv
  <2>9. ASSUME NEW u \in Copies, up'[u].pc \in Took PROVE up'[u].item # None
    <3>1. CASE Wake(u) /\ slot # None
      BY <2>1, <3>1 DEF Wake, UpTask
    <3>2. CASE ~(Wake(u) /\ slot # None)
      <4>1. up[u].pc \in Took /\ up[u].pc # "idle" /\ ~Wake(u)
        BY <2>9, <3>2, TaskStep DEF Took, Wake
      <4> QED
        BY <4>1, TaskStep DEF BufferInv
    <3> QED
      BY <3>1, <3>2
  <2>10. slot' # None => up'[slot'].owner # None
    BY <2>1, <2>2, <2>3 DEF BufferInv
  <2>11. BestCopyKept'
    <3> SUFFICES ASSUME slot' # None, NEW w \in Copies, up'[w].owner = up'[slot'].owner
                 PROVE  ~Beats(w, slot)'
      BY DEF BestCopyKept
    <3>1. slot' = slot /\ slot \in Copies
      BY <2>1, <2>2
    <3>2. up[w].owner = up[slot].owner /\ up[slot].owner # None
      BY <2>3, <3>1 DEF BufferInv
    <3>3. up[w].pc # "idle" /\ up[slot].pc # "idle" /\ ~Beats(w, slot)
      BY <3>1, <3>2 DEF BufferInv, BestCopyKept, Unbuffered
    <3> QED
      BY <3>1, <3>3, BeatsStep
  <2> QED
    BY <2>6, <2>7, <2>8, <2>9, <2>10, <2>11 DEF BufferInv
<1> QED
  BY <1>1, <1>2

\* The buffer holds the best of the copies gathered since it was opened, for
\* any number of gateways, copies and timers that race.
THEOREM BestCopyKeptAlways == Spec => []BestCopyKept
<1>1. BufferInv => BestCopyKept
  BY DEF BufferInv
<1> QED
  BY InitType, StepType, InitBuffer, StepBuffer, <1>1, PTL DEF Spec

-----------------------------------------------------------------------------
(* Deduplication                                                            *)

\* Decode has taken the frame of this task for a new one.
Accepted(u) == up[u].owner # None \/ up[u].pc \in {"resetdown", "insert"}

\* The counter kept is at least that of every frame accepted, and of two
\* receptions of a frame the second was judged by a counter since replaced.
DedupInv ==
    ~rewound.up =>
        /\ \A u \in Copies : Accepted(u) => stored \in Info /\ FrameOf(u).n <= stored.up
        /\ \A u, v \in Copies :
            (u # v /\ Accepted(u) /\ Accepted(v) /\ up[u].at = up[v].at)
                => Fcnt(u) \in {0, 1} \/ up[u].stale \/ up[v].stale

\* Only Decode accepts a frame, and its verdict is kept.
LEMMA AcceptStep ==
    ASSUME TypeInv, BufferInv, Next, NEW u \in Copies, Accepted(u)', ~Decode(u)
    PROVE  Accepted(u) /\ up'[u].stale = up[u].stale
<1> USE DEF deviceVars, storeVars, bufferVars, joinVars, downVars
<1>1. up \in [Copies -> UpTask] /\ (up[u].pc = "idle" => up[u].owner = None)
  BY DEF TypeInv, TypeOK, BufferInv, Unbuffered
<1>2. CASE JoinNext
  BY <1>2 DEF JoinNext, JoinStep, DeviceJoin, JoinReceive, JoinWake, JoinTimer, JoinLoad,
              JoinRegister, JoinAnswer, JoinSend, DeviceAccept, JoinFails, Accepted
<1>3. CASE \E v \in Copies : UplinkStep(v)
  <2>1. PICK v \in Copies : UplinkStep(v)
    BY <1>3
  <2>2. CASE v = u
    <3>1. CASE Load(u) \/ Register(u) \/ GetOtaa(u) \/ DelOtaa(u)
      BY <1>1, <3>1 DEF UpTask, Load, AfterLoad, Register, GetOtaa, DelOtaa, Accepted
    <3>2. CASE ActivateDb(u) \/ Activate(u) \/ ResetDown(u)
      BY <1>1, <3>2 DEF UpTask, ActivateDb, Activate, StoreCount, ResetDown, Accepted
    <3>3. CASE Insert(u) \/ Wake(u) \/ Deliver(u) \/ Report(u)
      BY <1>1, <3>3 DEF UpTask, Insert, Wake, Deliver, Report, Accepted
    <3> QED
      BY <2>1, <2>2, <3>1, <3>2, <3>3 DEF UplinkStep
  <2>3. CASE v # u
    <3>1. up'[u] = up[u]
      BY <1>1, <2>1, <2>3 DEF UplinkStep, Load, AfterLoad, Register, GetOtaa, DelOtaa, ActivateDb,
                              Activate, StoreCount, Decode, ResetDown, Insert, Wake, Deliver, Report
    <3> QED
      BY <3>1 DEF Accepted
  <2> QED
    BY <2>2, <2>3
<1>4. CASE \E v \in Copies : PullStep(v)
  BY <1>1, <1>4 DEF UpTask, PullStep, Pull, IncrDown, SendDown, SendAck, IncrAck, Accepted
<1>5. CASE \E r \in Requests : Dispatch(r) \/ DispatchStep(r) \/ DispatchFails(r)
  BY <1>5 DEF DispatchStep, Dispatch, DispatchCount, DispatchSend, DispatchQueue, DispatchFails,
              Accepted
<1>6. CASE Restart
  BY <1>1, <1>6 DEF Restart, UpTask, Working, Accepted
<1>7. CASE (\E k \in Kinds : DeviceSend(k)) \/ DeviceReset \/ \E v \in Copies : Timer(v)
  BY <1>7 DEF DeviceSend, DeviceReset, Timer, Accepted
<1>8. CASE \E v \in Copies : UplinkFails(v)
  BY <1>1, <1>8 DEF UplinkFails, UpTask, Working, Accepted
<1>9. CASE \E v \in Copies, i \in 1 .. Len(air), g \in Gateways, s \in Rssi : Receive(v, i, g, s)
  <2>1. up'[u] = up[u] \/ (up'[u].pc = "load" /\ up'[u].owner = None)
    BY <1>1, <1>9 DEF Receive, NewUp, UpTask
  <2> QED
    BY <2>1 DEF Accepted
<1> QED
  BY <1>2, <1>3, <1>4, <1>5, <1>6, <1>7, <1>8, <1>9 DEF Next, UplinkNext, DownlinkNext

\* What a task that accepts a frame has found, and has stored.
LEMMA Verdict ==
    ASSUME TypeInv, NEW u \in Copies, Decode(u), Accepted(u)', up[u].owner = None
    PROVE  /\ stored \in Info /\ FrameOf(u).n \in Nat
           /\ stored' \in Info /\ stored'.up = FrameOf(u).n
           /\ ~rewound'.up => stored.up <= FrameOf(u).n
           /\ ~up'[u].stale => up[u].snap.up = stored.up
           /\ ~Repetition(up[u].snap.up, Fcnt(u))
<1>1. up \in [Copies -> UpTask] /\ air \in Seq(Frame) /\ up[u].at \in 1 .. Len(air)
      /\ stored \in Info
  BY DEF TypeInv, TypeOK, WellFounded, Decode, Loaded, UpPc, UpEnded
<1>2. FrameOf(u).n \in Nat /\ stored.up \in Nat
  <2>1. FrameOf(u) \in Frame
    BY <1>1 DEF FrameOf
  <2> QED
    BY <1>1, <2>1 DEF Frame, Info
<1>3. up'[u].pc \in {"resetdown", "insert"}
  BY <1>1 DEF Accepted, Decode, StoreCount, UpTask
<1>4. \E next \in {"resetdown", "insert"} : StoreCount(u, FrameOf(u).n, next)
      /\ ~Repetition(up[u].snap.up, Fcnt(u))
  BY <1>1, <1>3 DEF Decode, MicOk, UpTask
<1>5. PICK next \in {"resetdown", "insert"} : StoreCount(u, FrameOf(u).n, next)
  BY <1>4
<1>6. stored' = [stored EXCEPT !.up = FrameOf(u).n] /\ (up'[u].stale <=> up[u].snap.up # stored.up)
  BY <1>1, <1>5 DEF StoreCount, UpTask
<1>7. ~rewound'.up => ~(FrameOf(u).n < stored.up)
  BY <1>5 DEF StoreCount, TypeInv, TypeOK
<1>8. stored' \in Info /\ stored'.up = FrameOf(u).n
  BY <1>1, <1>2, <1>6 DEF Info
<1> QED
  BY <1>1, <1>2, <1>4, <1>6, <1>7, <1>8

\* A frame that is judged by the counter of that very frame is a repetition.
LEMMA SecondVerdict ==
    ASSUME TypeInv, NEW u \in Copies, Decode(u), Accepted(u)', up[u].owner = None, ~rewound'.up,
           ~up'[u].stale, FrameOf(u).n <= stored.up
    PROVE  Fcnt(u) \in {0, 1}
<1>1. /\ stored \in Info /\ FrameOf(u).n \in Nat
      /\ stored.up <= FrameOf(u).n /\ up[u].snap.up = stored.up
      /\ ~Repetition(up[u].snap.up, Fcnt(u))
  BY Verdict
<1>2. stored.up = FrameOf(u).n
  BY <1>1 DEF Info
<1> QED
  BY <1>1, <1>2 DEF Repetition, Fcnt

LEMMA InitDedup == Init => DedupInv
  BY DEF Init, DedupInv, Accepted, NewUp

\* A step that accepts no frame leaves the verdicts, one that does keeps them
\* apart.
LEMMA StepDedup == TypeInv /\ BufferInv /\ DedupInv /\ [Next]_vars => DedupInv'
<1> SUFFICES ASSUME TypeInv, BufferInv, DedupInv, Next PROVE DedupInv'
  BY DEF vars, storeVars, deviceVars, DedupInv, Accepted, Fcnt, FrameOf
<1> SUFFICES ASSUME ~rewound'.up
             PROVE  /\ \A u \in Copies :
                        Accepted(u)' => stored' \in Info /\ (FrameOf(u).n <= stored.up)'
                    /\ \A u, v \in Copies :
                        (u # v /\ Accepted(u)' /\ Accepted(v)' /\ up'[u].at = up'[v].at)
                            => Fcnt(u)' \in {0, 1} \/ up'[u].stale \/ up'[v].stale
  BY DEF DedupInv
<1>1. ~rewound.up /\ (stored \in Info => stored' \in Info /\ stored.up <= stored'.up)
  BY RecordGrows
<1>2. up \in [Copies -> UpTask]
  BY DEF TypeInv, TypeOK
<1>3. \A u \in Copies : Accepted(u)' => up[u].pc # "idle"
  BY AcceptStep DEF BufferInv, Unbuffered, Accepted, Decode
<1>4. \A u \in Copies : up[u].pc # "idle" =>
          FrameOf(u)' = FrameOf(u) /\ Fcnt(u)' = Fcnt(u) /\ up'[u].at = up[u].at
  BY FcntStep, TaskStep
<1>5. \A u \in Copies : Decode(u) => up[u].owner = None /\ ~Accepted(u)
  BY DEF BufferInv, Unbuffered, Decode, Accepted
<1>6. ASSUME NEW u \in Copies, Accepted(u)'
      PROVE  stored' \in Info /\ (FrameOf(u).n <= stored.up)'
  <2>1. CASE Decode(u)
    <3>1. stored' \in Info /\ stored'.up = FrameOf(u).n /\ FrameOf(u).n \in Nat
      BY <1>5, <1>6, <2>1, Verdict
    <3> QED
      BY <1>3, <1>4, <1>6, <3>1
  <2>2. CASE ~Decode(u)
    <3>1. Accepted(u)
      BY <1>6, <2>2, AcceptStep
    <3>2. stored \in Info /\ FrameOf(u).n <= stored.up
      BY <1>1, <3>1 DEF DedupInv
    <3>3. stored' \in Info /\ stored.up <= stored'.up /\ {stored.up, stored'.up} \subseteq Int
      BY <1>1, <3>2 DEF Info
    <3>4. FrameOf(u).n \in Int
      <4>1. up[u].at \in 1 .. Len(air) /\ air \in Seq(Frame)
        BY <1>3, <1>6 DEF TypeInv, TypeOK, WellFounded
      <4>2. FrameOf(u) \in Frame
        BY <4>1 DEF FrameOf
      <4> QED
        BY <4>2 DEF Frame
    <3> QED
      BY <1>3, <1>4, <1>6, <3>2, <3>3, <3>4
  <2> QED
    BY <2>1, <2>2
<1>7. ASSUME NEW u \in Copies, NEW v \in Copies, u # v, Accepted(u)', Accepted(v)',
             up[u].at = up[v].at, Decode(u)
      PROVE  Fcnt(u) \in {0, 1} \/ up'[u].stale
  <2>1. ~Decode(v)
    BY <1>2, <1>7 DEF Decode, StoreCount, Accepted, UpTask, BufferInv, Unbuffered
  <2>2. Accepted(v) /\ FrameOf(v) = FrameOf(u)
    BY <1>7, <2>1, AcceptStep DEF FrameOf
  <2>3. FrameOf(u).n <= stored.up
    BY <1>1, <2>2 DEF DedupInv
  <2> QED
    BY <1>5, <1>7, <2>3, SecondVerdict
<1>8. ASSUME NEW u \in Copies, NEW v \in Copies, u # v, Accepted(u)', Accepted(v)',
             up'[u].at = up'[v].at
      PROVE  Fcnt(u)' \in {0, 1} \/ up'[u].stale \/ up'[v].stale
  <2>1. /\ up[u].at = up[v].at /\ Fcnt(u)' = Fcnt(u) /\ Fcnt(v)' = Fcnt(v)
        /\ Fcnt(u) = Fcnt(v)
    BY <1>3, <1>4, <1>8 DEF Fcnt, FrameOf
  <2>2. CASE Decode(u)
    BY <1>7, <1>8, <2>1, <2>2
  <2>3. CASE Decode(v)
    BY <1>7, <1>8, <2>1, <2>3
  <2>4. CASE ~Decode(u) /\ ~Decode(v)
    <3>1. Accepted(u) /\ Accepted(v) /\ up'[u].stale = up[u].stale /\ up'[v].stale = up[v].stale
      BY <1>8, <2>4, AcceptStep
    <3> QED
      BY <1>1, <1>8, <2>1, <3>1 DEF DedupInv
  <2> QED
    BY <2>2, <2>3, <2>4
<1> QED
  BY <1>6, <1>8

\* A frame is handed on once however many gateways hear it, unless its counter
\* is exempt or a copy was judged by a counter replaced after it was read.
THEOREM AtMostOnceAlways == Spec => []AtMostOnce
<1>1. TypeInv /\ BufferInv /\ DedupInv => AtMostOnce
  <2> SUFFICES ASSUME TypeInv, BufferInv, DedupInv, ~rewound.up,
                      NEW u \in Copies, NEW v \in Copies, u # v, Reported(u), Reported(v),
                      up[up[u].item].at = up[up[v].item].at
               PROVE  Fcnt(up[u].item) \in {0, 1} \/ up[up[u].item].stale \/ up[up[v].item].stale
    BY DEF AtMostOnce
  <2>1. up[u].item # None /\ up[v].item # None /\ up[u].item # up[v].item
    BY DEF BufferInv, Reported, Took
  <2>2. up[u].item \in Copies /\ up[v].item \in Copies
    BY <2>1 DEF TypeInv, TypeOK, UpTask
  <2>3. Accepted(up[u].item) /\ Accepted(up[v].item)
    BY <2>1 DEF BufferInv, Accepted
  <2> QED
    BY <2>1, <2>2, <2>3 DEF DedupInv
<1> QED
  BY InitType, StepType, InitBuffer, StepBuffer, InitDedup, StepDedup, <1>1, PTL DEF Spec

-----------------------------------------------------------------------------
(* What becomes of a queued request, and the counters downlinks carry.      *)

\* A task that has not looked into the queue yet.
Early == {"idle", "load", "register", "getotaa", "delotaa", "activatedb", "activate", "decode",
          "resetdown", "insert", "sleep", "deliver", "pull"}

\* A request is queued once, and taken once by an uplink that asks once.
QueueInv ==
    /\ \A u \in Copies : up[u].pc \in Early => up[u].task = None
    /\ \A u \in Copies :
        up[u].task # None => up[u].task \in Requests /\ req[up[u].task].pc = "queued"
    /\ \A i \in 1 .. Len(queue) : req[queue[i]].pc = "queued"
    /\ \A i, j \in 1 .. Len(queue) : queue[i] = queue[j] => i = j
    /\ RequestAccounted

-----------------------------------------------------------------------------
(* What steps do to the requests tasks hold                                 *)

\* Only Pull gives a task a request, and no step takes a task back to where it
\* has none.
LEMMA RequestTaskStep ==
    ASSUME TypeInv, Next, NEW u \in Copies
    PROVE  /\ \/ up'[u].task = up[u].task
              \/ Pull(u)
              \/ up[u].pc = "idle" /\ up'[u].task = None
           /\ up'[u].pc \in Early => up[u].pc \in Early
<1> USE DEF deviceVars, storeVars, bufferVars, joinVars, downVars, Early
<1>1. up \in [Copies -> UpTask]
  BY DEF TypeInv, TypeOK
<1>2. CASE JoinNext
  BY <1>2 DEF JoinNext, JoinStep, DeviceJoin, JoinReceive, JoinWake, JoinTimer, JoinLoad,
              JoinRegister, JoinAnswer, JoinSend, DeviceAccept, JoinFails
<1>3. CASE \E v \in Copies : UplinkStep(v)
  BY <1>1, <1>3 DEF UpTask, UplinkStep, Load, Register, GetOtaa, DelOtaa, ActivateDb, Activate,
                    StoreCount, Decode, ResetDown, Insert, Wake, Deliver, Report
<1>4. CASE \E v \in Copies : PullStep(v)
  BY <1>1, <1>4 DEF UpTask, PullStep, Pull, IncrDown, SendDown, SendAck, IncrAck
<1>5. CASE \E r \in Requests : Dispatch(r) \/ DispatchStep(r) \/ DispatchFails(r)
  BY <1>5 DEF DispatchStep, Dispatch, DispatchCount, DispatchSend, DispatchQueue, DispatchFails
<1>6. CASE Restart
  BY <1>1, <1>6 DEF Restart, UpTask, Working
<1>7. CASE (\E k \in Kinds : DeviceSend(k)) \/ DeviceReset \/ \E v \in Copies : Timer(v)
  BY <1>7 DEF DeviceSend, DeviceReset, Timer
<1>8. CASE \E v \in Copies : UplinkFails(v)
  BY <1>1, <1>8 DEF UplinkFails, UpTask
<1>9. CASE \E v \in Copies, i \in 1 .. Len(air), g \in Gateways, s \in Rssi : Receive(v, i, g, s)
  BY <1>1, <1>9 DEF Receive, NewUp, UpTask
<1> QED
  BY <1>2, <1>3, <1>4, <1>5, <1>6, <1>7, <1>8, <1>9 DEF Next, UplinkNext, DownlinkNext

\* A task past the queue goes on from counting to sending, or fails; what was
\* sent stays sent.
LEMMA AccountedStep ==
    ASSUME TypeInv, Next, NEW u \in Copies, up[u].pc \notin Early, Accounted(u)
    PROVE  Accounted(u)'
<1> USE DEF deviceVars, storeVars, bufferVars, joinVars, downVars, Early, Accounted
<1>1. up \in [Copies -> UpTask]
  BY DEF TypeInv, TypeOK
<1>2. CASE JoinNext
  BY <1>2 DEF JoinNext, JoinStep, DeviceJoin, JoinReceive, JoinWake, JoinTimer, JoinLoad,
              JoinRegister, JoinAnswer, JoinSend, DeviceAccept, JoinFails
<1>3. CASE \E v \in Copies : UplinkStep(v)
  BY <1>1, <1>3 DEF UpTask, UplinkStep, Load, Register, GetOtaa, DelOtaa, ActivateDb, Activate,
                    StoreCount, Decode, ResetDown, Insert, Wake, Deliver, Report
<1>4. CASE \E v \in Copies : PullStep(v)
  BY <1>1, <1>4 DEF UpTask, PullStep, Pull, IncrDown, SendDown, SendAck, IncrAck
<1>5. CASE \E r \in Requests : Dispatch(r) \/ DispatchStep(r) \/ DispatchFails(r)
  BY <1>5 DEF DispatchStep, Dispatch, DispatchCount, DispatchSend, DispatchQueue, DispatchFails
<1>6. CASE Restart
  BY <1>1, <1>6 DEF Restart, UpTask, Working
<1>7. CASE (\E k \in Kinds : DeviceSend(k)) \/ DeviceReset \/ \E v \in Copies : Timer(v)
  BY <1>7 DEF DeviceSend, DeviceReset, Timer
<1>8. CASE \E v \in Copies : UplinkFails(v)
  BY <1>1, <1>8 DEF UplinkFails, UpTask
<1>9. CASE \E v \in Copies, i \in 1 .. Len(air), g \in Gateways, s \in Rssi : Receive(v, i, g, s)
  BY <1>1, <1>9 DEF Receive, NewUp, UpTask
<1> QED
  BY <1>2, <1>3, <1>4, <1>5, <1>6, <1>7, <1>8, <1>9 DEF Next, UplinkNext, DownlinkNext

\* A request is queued for good, and only DispatchQueue queues it.
LEMMA RequestStep ==
    ASSUME TypeInv, Next, NEW r \in Requests
    PROVE  /\ req[r].pc = "queued" => req'[r].pc = "queued"
           /\ req'[r].pc = "queued" => req[r].pc = "queued" \/ DispatchQueue(r)
<1> USE DEF deviceVars, storeVars, bufferVars, joinVars, downVars
<1>1. req \in [Requests -> ReqTask]
  BY DEF TypeInv, TypeOK
<1>2. CASE JoinNext
  BY <1>2 DEF JoinNext, JoinStep, DeviceJoin, JoinReceive, JoinWake, JoinTimer, JoinLoad,
              JoinRegister, JoinAnswer, JoinSend, DeviceAccept, JoinFails
<1>3. CASE UplinkNext
  BY <1>3, ZenonT(40) DEF UplinkNext, UplinkStep, DeviceSend, DeviceReset, Receive, Timer,
            UplinkFails, Load, Register, GetOtaa, DelOtaa, ActivateDb, Activate, StoreCount,
            Decode, ResetDown, Insert, Wake, Deliver, Report
<1>4. CASE \E v \in Copies : PullStep(v)
  BY <1>4 DEF PullStep, Pull, IncrDown, SendDown, SendAck, IncrAck
<1>5. CASE \E q \in Requests : Dispatch(q) \/ DispatchStep(q) \/ DispatchFails(q)
  BY <1>1, <1>5 DEF ReqTask, NewReq, DispatchStep, Dispatch, DispatchCount, DispatchSend,
                    DispatchQueue, DispatchFails
<1>6. CASE Restart
  BY <1>1, <1>6 DEF Restart, ReqTask
<1> QED
  BY <1>2, <1>3, <1>4, <1>5, <1>6 DEF Next, DownlinkNext

\* The queue changes by Pull, DispatchQueue and Restart, and only a restart is
\* counted.
LEMMA QueueStep ==
    ASSUME Next, ~Restart
    PROVE  /\ restarts' = restarts
           /\ \/ queue' = queue
              \/ \E u \in Copies : Pull(u)
              \/ \E r \in Requests : DispatchQueue(r)
<1> USE DEF deviceVars, storeVars, bufferVars, joinVars, downVars
<1>2. CASE JoinNext
  BY <1>2 DEF JoinNext, JoinStep, DeviceJoin, JoinReceive, JoinWake, JoinTimer, JoinLoad,
              JoinRegister, JoinAnswer, JoinSend, DeviceAccept, JoinFails
<1>3. CASE UplinkNext
  BY <1>3, ZenonT(40) DEF UplinkNext, UplinkStep, DeviceSend, DeviceReset, Receive, Timer,
            UplinkFails, Load, Register, GetOtaa, DelOtaa, ActivateDb, Activate, StoreCount,
            Decode, ResetDown, Insert, Wake, Deliver, Report
<1>4. CASE \E v \in Copies : PullStep(v)
  BY <1>4 DEF PullStep, Pull, IncrDown, SendDown, SendAck, IncrAck
<1>5. CASE \E q \in Requests : Dispatch(q) \/ DispatchStep(q) \/ DispatchFails(q)
  BY <1>5 DEF DispatchStep, Dispatch, DispatchCount, DispatchSend, DispatchQueue, DispatchFails
<1> QED
  BY <1>2, <1>3, <1>4, <1>5 DEF Next, DownlinkNext

\* Nothing is queued at the start.
LEMMA InitQueue == Init => QueueInv
  BY DEF Init, QueueInv, RequestAccounted, NewUp, NewReq

\* A request that is queued waits in the queue or is with one uplink.
LEMMA StepQueue == TypeInv /\ QueueInv /\ [Next]_vars => QueueInv'
<1> SUFFICES ASSUME TypeInv, QueueInv, Next PROVE QueueInv'
  BY DEF vars, QueueInv, RequestAccounted, Accounted, downVars
<1>1. up \in [Copies -> UpTask] /\ req \in [Requests -> ReqTask] /\ queue \in Seq(Requests)
      /\ restarts \in Nat /\ None \notin Requests
  BY SetsAssumption, BoundsAssumption DEF TypeInv, TypeOK
<1>2. \A u \in Copies : up'[u].pc \in Early => up'[u].task = None
  <2> SUFFICES ASSUME NEW u \in Copies, up'[u].pc \in Early PROVE up'[u].task = None
    OBVIOUS
  <2>1. up[u].pc \in Early /\ up[u].task = None
    BY RequestTaskStep DEF QueueInv
  <2>2. ~Pull(u)
    BY <1>1 DEF Pull, Early, UpTask
  <2> QED
    BY <2>1, <2>2, RequestTaskStep
<1>3. \A r \in Requests : req[r].pc = "queued" => req'[r].pc = "queued"
  BY RequestStep
<1>4. ASSUME NEW u \in Copies, Pull(u), queue # <<>> PROVE QueueInv'
  <2>1. queue' = Tail(queue) /\ up'[u].task = queue[1] /\ queue[1] \in Requests
        /\ UNCHANGED <<req, restarts>>
    BY <1>1, <1>4 DEF Pull, UpTask, downVars
  <2>2. \A v \in Copies \ {u} : up'[v] = up[v]
    BY <1>1, <1>4 DEF Pull
  <2>3. up[u].task = None
    BY <1>4 DEF Pull, QueueInv, Early
  <2>4. Len(queue') = Len(queue) - 1 /\ Len(queue) \in Nat \ {0}
        /\ \A i \in 1 .. Len(queue') : queue'[i] = queue[i + 1]
    BY <1>1, <1>4, <2>1
  <2>5. \A v \in Copies : up'[v].task # None =>
            up'[v].task \in Requests /\ req'[up'[v].task].pc = "queued"
    BY <2>1, <2>2, <2>4 DEF QueueInv
  <2>6. \A i \in 1 .. Len(queue') : req'[queue'[i]].pc = "queued"
    BY <2>1, <2>4 DEF QueueInv
  <2>7. \A i, j \in 1 .. Len(queue') : queue'[i] = queue'[j] => i = j
    BY <2>4 DEF QueueInv
  <2>8. ASSUME NEW v \in Copies, up'[v].task # None
        PROVE  /\ \A w \in Copies \ {v} : up'[w].task # up'[v].task
               /\ \A i \in 1 .. Len(queue') : queue'[i] # up'[v].task
    <3>1. CASE v = u
      BY <2>1, <2>2, <2>4, <2>8, <3>1 DEF QueueInv, RequestAccounted
    <3>2. CASE v # u
      BY <2>1, <2>2, <2>4, <2>8, <3>2 DEF QueueInv, RequestAccounted
    <3> QED
      BY <3>1, <3>2
  <2>9. ASSUME NEW r \in Requests, req'[r].pc = "queued"
        PROVE  restarts' > 0 \/ (\E i \in 1 .. Len(queue') : queue'[i] = r)
                             \/ \E v \in Copies : up'[v].task = r /\ Accounted(v)'
    <3>1. CASE \E v \in Copies : up[v].task = r /\ Accounted(v)
      BY <1>1, <2>2, <2>3, <3>1 DEF Accounted
    <3>2. ASSUME NEW i \in 1 .. Len(queue), queue[i] = r
          PROVE  \/ \E k \in 1 .. Len(queue') : queue'[k] = r
                 \/ up'[u].task = r /\ Accounted(u)'
      <4>1. CASE i = 1
        <5>1. up'[u].pc = "incr"
          BY <1>1, <1>4 DEF Pull, UpTask
        <5> QED
          BY <2>1, <3>2, <4>1, <5>1 DEF Accounted
      <4>2. CASE i # 1
        <5>1. i - 1 \in 1 .. Len(queue') /\ queue'[i - 1] = queue[i]
          BY <2>4, <4>2
        <5> QED
          BY <3>2, <5>1
      <4> QED
        BY <4>1, <4>2
    <3> QED
      BY <2>1, <2>9, <3>1, <3>2 DEF QueueInv, RequestAccounted
  <2> QED
    BY <1>2, <2>5, <2>6, <2>7, <2>8, <2>9 DEF QueueInv, RequestAccounted
<1>5. ASSUME NEW r \in Requests, DispatchQueue(r) PROVE QueueInv'
  <2>1. queue' = Append(queue, r) /\ UNCHANGED <<up, restarts>> /\ req[r].pc = "dispatch"
        /\ req'[r].pc = "queued"
    BY <1>1, <1>5 DEF DispatchQueue, ReqTask
  <2>2. /\ Len(queue') = Len(queue) + 1 /\ Len(queue) \in Nat
        /\ queue'[Len(queue) + 1] = r
        /\ \A i \in 1 .. Len(queue) : queue'[i] = queue[i]
    BY <1>1, <2>1
  <2>3. (\A i \in 1 .. Len(queue) : queue[i] # r) /\ \A u \in Copies : up[u].task # r
    BY <1>1, <2>1 DEF QueueInv
  <2>4. \A u \in Copies : up'[u].task # None =>
            up'[u].task \in Requests /\ req'[up'[u].task].pc = "queued"
    BY <1>3, <2>1 DEF QueueInv
  <2>5. \A i \in 1 .. Len(queue') : req'[queue'[i]].pc = "queued"
    BY <1>1, <1>3, <2>1, <2>2 DEF QueueInv
  <2>6. \A i, j \in 1 .. Len(queue') : queue'[i] = queue'[j] => i = j
    BY <2>2, <2>3 DEF QueueInv
  <2>7. \A u \in Copies : up'[u].task # None =>
            /\ \A v \in Copies \ {u} : up'[v].task # up'[u].task
            /\ \A i \in 1 .. Len(queue') : queue'[i] # up'[u].task
    BY <2>1, <2>2, <2>3 DEF QueueInv, RequestAccounted
  <2>8. ASSUME NEW q \in Requests, req'[q].pc = "queued"
        PROVE  restarts' > 0 \/ (\E i \in 1 .. Len(queue') : queue'[i] = q)
                             \/ \E v \in Copies : up'[v].task = q /\ Accounted(v)'
    <3>1. CASE q = r
      BY <2>2, <3>1
    <3>2. CASE q # r
      <4>1. req[q].pc = "queued"
        BY <1>1, <1>5, <2>8, <3>2 DEF DispatchQueue
      <4> QED
        BY <2>1, <2>2, <4>1 DEF QueueInv, RequestAccounted, Accounted
    <3> QED
      BY <3>1, <3>2
  <2> QED
    BY <1>2, <2>4, <2>5, <2>6, <2>7, <2>8 DEF QueueInv, RequestAccounted
<1>6. ASSUME Restart \/ (queue' = queue /\ UNCHANGED restarts),
             \A u \in Copies : up'[u].task = up[u].task,
             \A r \in Requests : req'[r].pc = "queued" => req[r].pc = "queued"
      PROVE  QueueInv'
  <2>5. \A u \in Copies : up[u].task # None /\ Accounted(u) => Accounted(u)'
    BY AccountedStep DEF QueueInv
  <2>1. (queue' = queue /\ restarts' = restarts) \/ (queue' = <<>> /\ restarts' > 0)
    BY <1>1, <1>6 DEF Restart
  <2>2. \A u \in Copies : up'[u].task # None =>
            up'[u].task \in Requests /\ req'[up'[u].task].pc = "queued"
    BY <1>3, <1>6 DEF QueueInv
  <2>3. CASE queue' = queue /\ restarts' = restarts
    <3>1. \A i \in 1 .. Len(queue') : req'[queue'[i]].pc = "queued"
      BY <1>1, <1>3, <2>3 DEF QueueInv
    <3>2. \A i, j \in 1 .. Len(queue') : queue'[i] = queue'[j] => i = j
      BY <2>3 DEF QueueInv
    <3>3. RequestAccounted'
      BY <1>1, <1>6, <2>3, <2>5 DEF QueueInv, RequestAccounted
    <3> QED
      BY <1>2, <2>2, <3>1, <3>2, <3>3 DEF QueueInv
  <2>4. CASE queue' = <<>> /\ restarts' > 0
    <3>1. RequestAccounted'
      BY <1>6, <2>4 DEF QueueInv, RequestAccounted
    <3> QED
      BY <1>2, <2>2, <2>4, <3>1 DEF QueueInv
  <2> QED
    BY <2>1, <2>3, <2>4
<1>7. CASE Restart
  <2>1. \A u \in Copies : up'[u].task = up[u].task
    BY <1>1, <1>7 DEF Restart, UpTask
  <2>2. \A r \in Requests : req'[r].pc = "queued" => req[r].pc = "queued"
    BY <1>1, <1>7 DEF Restart, ReqTask
  <2> QED
    BY <1>6, <1>7, <2>1, <2>2
<1>8. ASSUME ~Restart, \A u \in Copies : ~(Pull(u) /\ queue # <<>>),
             \A r \in Requests : ~DispatchQueue(r)
      PROVE  QueueInv'
  <2>1. \A u \in Copies : up'[u].task = up[u].task
    <3> SUFFICES ASSUME NEW u \in Copies PROVE up'[u].task = up[u].task
      OBVIOUS
    <3>1. CASE Pull(u)
      <4>1. queue = <<>>
        BY <1>8, <3>1
      <4> QED
        BY <1>1, <3>1, <4>1 DEF Pull, UpTask, QueueInv, Early
    <3>2. CASE ~Pull(u)
      BY <3>2, RequestTaskStep DEF QueueInv, Early
    <3> QED
      BY <3>1, <3>2
  <2>2. queue' = queue /\ restarts' = restarts
    BY <1>8, QueueStep DEF Pull
  <2>3. \A r \in Requests : req'[r].pc = "queued" => req[r].pc = "queued"
    BY <1>8, RequestStep
  <2> QED
    BY <1>6, <2>1, <2>2, <2>3
<1> QED
  BY <1>4, <1>5, <1>7, <1>8

\* A queued request waits in the queue or is with one uplink, never both and
\* never with two, and goes out unless a restart empties the queue or the uplink
\* that popped it fails: for any number of requests and of uplinks.
THEOREM RequestAccountedAlways == Spec => []RequestAccounted
<1>1. QueueInv => RequestAccounted
  BY DEF QueueInv
<1> QED
  BY InitType, StepType, InitQueue, StepQueue, <1>1, PTL DEF Spec

-----------------------------------------------------------------------------
(* Downlink counters                                                        *)

Senders == Copies \cup Requests
DownOf(x) == Downlink(x).snap.down

\* A downlink whose counter the record has been moved past.
Counted(x) ==
    IF x \in Copies
    THEN up[x].pc = "senddown" \/ (up[x].sent /\ up[x].pc \in {"report", "done"})
    ELSE req[x].pc \in {"send", "sent"}

\* A downlink whose task reads the record no more.
Settled(x) ==
    IF x \in Copies THEN up[x].pc \in {"report", "done", "failed"} ELSE req[x].pc = "sent"

\* The counter a task has read is not ahead of the record, behind it once it
\* has been counted, and ahead of those that were over when it was read.
Ordered(x) ==
    /\ IF stored = None THEN DownOf(x) = 0 ELSE DownOf(x) <= stored.down
    /\ Counted(x) => stored # None /\ DownOf(x) < stored.down
    /\ \A y \in Downlink(x).seen : DownOf(y) < DownOf(x)

DownInv ==
    /\ \A u \in Copies : up[u].sent => up[u].pc \in {"incrack", "report", "done", "failed"}
    /\ \A x \in Senders : \A y \in Downlink(x).seen : Settled(y)
    /\ ~rewound.down => \A x \in Senders : Ordered(x)

\* An uplink task reads the record at Load, when it is given a frame, and at
\* ResetDown; after its downlink it does not.
LEMMA CopySnap ==
    ASSUME TypeInv, Next, NEW u \in Copies
    PROVE  /\ \/ up'[u].snap.down = up[u].snap.down /\ up'[u].seen = up[u].seen
              \/ Load(u)
              \/ ResetDown(u)
              \/ up'[u].snap.down = 0 /\ up'[u].seen = {} /\ up'[u].pc = "load"
                 /\ up[u].pc = "idle" /\ UNCHANGED stored
           /\ up[u].pc \in {"report", "done", "failed"} =>
                up'[u].pc \in {"report", "done", "failed"}
<1> USE DEF deviceVars, storeVars, bufferVars, joinVars, downVars
<1>1. up \in [Copies -> UpTask]
  BY DEF TypeInv, TypeOK
<1>2. CASE JoinNext
  BY <1>2 DEF JoinNext, JoinStep, DeviceJoin, JoinReceive, JoinWake, JoinTimer, JoinLoad,
              JoinRegister, JoinAnswer, JoinSend, DeviceAccept, JoinFails
<1>3. CASE \E v \in Copies : UplinkStep(v)
  BY <1>1, <1>3, ZenonT(40), SMTT(40) DEF UpTask, Info, UplinkStep, Load, AfterLoad, Register,
            GetOtaa, DelOtaa, ActivateDb, Activate, StoreCount, Decode, ResetDown, Insert, Wake,
            Deliver, Report
<1>4. CASE \E v \in Copies : PullStep(v)
  BY <1>1, <1>4 DEF UpTask, PullStep, Pull, IncrDown, SendDown, SendAck, IncrAck
<1>5. CASE \E r \in Requests : Dispatch(r) \/ DispatchStep(r) \/ DispatchFails(r)
  BY <1>5 DEF DispatchStep, Dispatch, DispatchCount, DispatchSend, DispatchQueue, DispatchFails
<1>6. CASE Restart
  BY <1>1, <1>6 DEF Restart, UpTask, Working
<1>7. CASE (\E k \in Kinds : DeviceSend(k)) \/ DeviceReset \/ \E v \in Copies : Timer(v)
  BY <1>7 DEF DeviceSend, DeviceReset, Timer
<1>8. CASE \E v \in Copies : UplinkFails(v)
  BY <1>1, <1>8 DEF UplinkFails, UpTask, Working
<1>9. CASE \E v \in Copies, i \in 1 .. Len(air), g \in Gateways, s \in Rssi : Receive(v, i, g, s)
  BY <1>1, <1>9 DEF Receive, NewUp, Registered, UpTask
<1> QED
  BY <1>2, <1>3, <1>4, <1>5, <1>6, <1>7, <1>8, <1>9 DEF Next, UplinkNext, DownlinkNext

\* A downlink of an uplink task is counted by IncrDown or IncrAck.
LEMMA CopyCounted ==
    ASSUME TypeInv, Next, NEW u \in Copies,
           up[u].sent => up[u].pc \in {"incrack", "report", "done", "failed"}
    PROVE  /\ up'[u].sent => up'[u].pc \in {"incrack", "report", "done", "failed"}
           /\ Counted(u)' => Counted(u) \/ IncrDown(u) \/ IncrAck(u)
<1> USE DEF deviceVars, storeVars, bufferVars, joinVars, downVars, Counted
<1>1. up \in [Copies -> UpTask]
  BY DEF TypeInv, TypeOK
<1>2. CASE JoinNext
  BY <1>2, ZenonT(40) DEF JoinNext, JoinStep, DeviceJoin, JoinReceive, JoinWake, JoinTimer,
            JoinLoad, JoinRegister, JoinAnswer, JoinSend, DeviceAccept, JoinFails
<1>3. CASE \E v \in Copies : UplinkStep(v)
  BY <1>1, <1>3 DEF UpTask, UplinkStep, Load, AfterLoad, Register, GetOtaa, DelOtaa,
                    ActivateDb, Activate, StoreCount, Decode, ResetDown, Insert, Wake, Deliver,
                    Report
<1>4. CASE \E v \in Copies : PullStep(v)
  BY <1>1, <1>4 DEF UpTask, PullStep, Pull, IncrDown, SendDown, SendAck, IncrAck
<1>5. CASE \E r \in Requests : Dispatch(r) \/ DispatchStep(r) \/ DispatchFails(r)
  BY <1>5 DEF DispatchStep, Dispatch, DispatchCount, DispatchSend, DispatchQueue, DispatchFails
<1>6. CASE Restart
  BY <1>1, <1>6 DEF Restart, UpTask, Working
<1>7. CASE (\E k \in Kinds : DeviceSend(k)) \/ DeviceReset \/ \E v \in Copies : Timer(v)
  BY <1>7 DEF DeviceSend, DeviceReset, Timer
<1>8. CASE \E v \in Copies : UplinkFails(v)
  BY <1>1, <1>8 DEF UplinkFails, UpTask, Working
<1>9. CASE \E v \in Copies, i \in 1 .. Len(air), g \in Gateways, s \in Rssi : Receive(v, i, g, s)
  BY <1>1, <1>9 DEF Receive, NewUp, UpTask
<1> QED
  BY <1>2, <1>3, <1>4, <1>5, <1>6, <1>7, <1>8, <1>9 DEF Next, UplinkNext, DownlinkNext

\* A request reads the record at Dispatch and is counted at DispatchCount.
LEMMA RequestSnap ==
    ASSUME TypeInv, Next, NEW r \in Requests
    PROVE  /\ \/ req'[r].snap = req[r].snap /\ req'[r].seen = req[r].seen
              \/ Dispatch(r)
           /\ req[r].pc = "sent" => req'[r].pc = "sent"
           /\ req'[r].pc \in {"send", "sent"} => req[r].pc \in {"send", "sent"} \/ DispatchCount(r)
<1> USE DEF deviceVars, storeVars, bufferVars, joinVars, downVars
<1>1. req \in [Requests -> ReqTask]
  BY DEF TypeInv, TypeOK
<1>2. CASE JoinNext
  BY <1>2 DEF JoinNext, JoinStep, DeviceJoin, JoinReceive, JoinWake, JoinTimer, JoinLoad,
              JoinRegister, JoinAnswer, JoinSend, DeviceAccept, JoinFails
<1>3. CASE UplinkNext
  BY <1>3, ZenonT(40) DEF UplinkNext, UplinkStep, DeviceSend, DeviceReset, Receive, Timer,
            UplinkFails, Load, Register, GetOtaa, DelOtaa, ActivateDb, Activate, StoreCount,
            Decode, ResetDown, Insert, Wake, Deliver, Report
<1>4. CASE \E v \in Copies : PullStep(v)
  BY <1>4 DEF PullStep, Pull, IncrDown, SendDown, SendAck, IncrAck
<1>5. CASE \E q \in Requests : Dispatch(q) \/ DispatchStep(q) \/ DispatchFails(q)
  <2>1. PICK q \in Requests : Dispatch(q) \/ DispatchStep(q) \/ DispatchFails(q)
    BY <1>5
  <2>2. CASE q # r
    <3>1. req'[r] = req[r]
      BY <1>1, <2>1, <2>2 DEF DispatchStep, Dispatch, DispatchCount, DispatchSend, DispatchQueue,
                              DispatchFails
    <3> QED
      BY <3>1
  <2>3. CASE q = r /\ Dispatch(r)
    BY <1>1, <2>3 DEF Dispatch, NewReq
  <2>4. CASE q = r /\ (DispatchStep(r) \/ DispatchFails(r))
    BY <1>1, <2>4 DEF ReqTask, DispatchStep, DispatchCount, DispatchSend, DispatchQueue,
                      DispatchFails
  <2> QED
    BY <2>1, <2>2, <2>3, <2>4
<1>6. CASE Restart
  BY <1>1, <1>6 DEF Restart, ReqTask
<1> QED
  BY <1>2, <1>3, <1>4, <1>5, <1>6 DEF Next, DownlinkNext

-----------------------------------------------------------------------------
\* A downlink that is over stays over, with the counter it carried.
LEMMA SettledStep ==
    ASSUME TypeInv, Next, NEW x \in Senders, Settled(x)
    PROVE  Settled(x)' /\ DownOf(x)' = DownOf(x) /\ (Downlink(x).seen)' = Downlink(x).seen
<1>1. CASE x \in Copies
  <2>1. up[x].pc \in {"report", "done", "failed"}
    BY <1>1 DEF Settled
  <2>2. ~Load(x) /\ ~ResetDown(x)
    BY <2>1 DEF Load, ResetDown
  <2> QED
    BY <1>1, <2>1, <2>2, CopySnap DEF Settled, DownOf, Downlink
<1>2. CASE x \notin Copies
  <2>1. x \in Requests /\ req[x].pc = "sent"
    BY <1>2 DEF Settled, Senders
  <2>2. ~Dispatch(x)
    BY <2>1 DEF Dispatch
  <2> QED
    BY <1>2, <2>1, <2>2, RequestSnap DEF Settled, DownOf, Downlink
<1> QED
  BY <1>1, <1>2

\* What the reading of the record finds over is counted and settled.
LEMMA DoneIsCounted == \A y \in DownlinksDone : y \in Senders /\ Counted(y) /\ Settled(y)
  BY SetsAssumption DEF DownlinksDone, Senders, Counted, Settled

\* Either a task reads the record anew, or what it has read stays.
LEMMA SnapStep ==
    ASSUME TypeInv, DownInv, Next, NEW x \in Senders
    PROVE  \/ /\ DownOf(x)' = DownOf(x)
              /\ (Downlink(x).seen)' = Downlink(x).seen
           \/ /\ DownOf(x)' = IF stored = None THEN 0 ELSE stored.down
              /\ (Downlink(x).seen)' = DownlinksDone
              /\ ~Counted(x)' /\ UNCHANGED stored
           \/ /\ DownOf(x)' = 0 /\ (Downlink(x).seen)' = {}
              /\ ~Counted(x)' /\ UNCHANGED stored
           \/ /\ DownOf(x)' = 0 /\ (Downlink(x).seen)' = Downlink(x).seen
              /\ ~Counted(x)' /\ stored' \in Info /\ stored'.down = 0
              /\ stored \in Info /\ (~rewound'.down => stored.down = 0)
<1>1. /\ up \in [Copies -> UpTask] /\ req \in [Requests -> ReqTask]
      /\ stored \in Info \cup {None}
  BY DEF TypeInv, TypeOK
<1>2. CASE x \in Copies
  <2>1. ASSUME Load(x)
        PROVE  /\ up'[x].snap.down = IF stored = None THEN 0 ELSE stored.down
               /\ up'[x].seen = DownlinksDone
               /\ up'[x].pc # "senddown" /\ ~(up'[x].pc \in {"report", "done"})
               /\ UNCHANGED stored
    BY <1>1, <1>2, <2>1 DEF Load, AfterLoad, UpTask, Registered, storeVars
  <2>2. ASSUME ResetDown(x)
        PROVE  /\ up'[x].snap.down = 0 /\ up'[x].seen = up[x].seen /\ up'[x].pc = "insert"
               /\ stored' \in Info /\ stored'.down = 0
               /\ stored \in Info /\ (~rewound'.down => stored.down = 0)
    <3>1. stored \in Info
      BY <1>2, <2>2 DEF ResetDown, TypeInv, WellFounded, Loaded, UpPc, UpEnded
    <3>2. stored' \in Info /\ stored'.down = 0 /\ stored.down \in Nat
      BY <2>2, <3>1 DEF ResetDown, Info
    <3>3. ~rewound'.down => ~(stored.down > 0)
      BY <2>2 DEF ResetDown, TypeInv, TypeOK
    <3>4. up'[x].snap.down = 0 /\ up'[x].seen = up[x].seen /\ up'[x].pc = "insert"
      BY <1>1, <1>2, <2>2 DEF ResetDown, UpTask, Info
    <3> QED
      BY <3>1, <3>2, <3>3, <3>4
  <2> QED
    BY <1>2, <2>1, <2>2, CopySnap DEF DownOf, Downlink, Counted
<1>3. CASE x \in Requests \ Copies
  <2>1. ASSUME Dispatch(x)
        PROVE  /\ UNCHANGED stored /\ req'[x].pc \notin {"send", "sent"}
               /\ \/ /\ req'[x].snap.down = IF stored = None THEN 0 ELSE stored.down
                     /\ req'[x].seen = DownlinksDone
                  \/ req'[x].snap.down = 0 /\ req'[x].seen = {}
    BY <1>1, <1>3, <2>1 DEF Dispatch, NewReq, Registered, storeVars
  <2> QED
    BY <1>3, <2>1, RequestSnap DEF DownOf, Downlink, Counted
<1> QED
  BY <1>2, <1>3 DEF Senders

\* A downlink is counted in the step that moves the record past its counter.
LEMMA CountedStep ==
    ASSUME TypeInv, DownInv, Next, NEW x \in Senders, Counted(x)', ~Counted(x)
    PROVE  /\ DownOf(x)' = DownOf(x)
           /\ stored \in Info /\ stored' \in Info /\ stored'.down = stored.down + 1
<1>1. /\ up \in [Copies -> UpTask] /\ req \in [Requests -> ReqTask]
  BY DEF TypeInv, TypeOK
<1>2. CASE x \in Copies
  <2>1. IncrDown(x) \/ IncrAck(x)
    BY <1>2, CopyCounted DEF DownInv
  <2>2. stored \in Info
    BY <1>2, <2>1 DEF IncrDown, IncrAck, TypeInv, WellFounded, Loaded, UpPc, UpEnded
  <2>3. stored' \in Info /\ stored'.down = stored.down + 1
    BY <2>1, <2>2 DEF IncrDown, IncrAck, CountDownlink, Info
  <2>4. up'[x].snap = up[x].snap
    BY <1>1, <1>2, <2>1 DEF IncrDown, IncrAck, UpTask
  <2> QED
    BY <1>2, <2>2, <2>3, <2>4 DEF DownOf, Downlink
<1>3. CASE x \in Requests \ Copies
  <2>1. DispatchCount(x)
    BY <1>3, RequestSnap DEF Counted
  <2>2. stored \in Info
    BY <1>3, <2>1 DEF DispatchCount, TypeInv, WellFounded
  <2>3. stored' \in Info /\ stored'.down = stored.down + 1
    BY <2>1, <2>2 DEF DispatchCount, CountDownlink, Info
  <2>4. req'[x].snap = req[x].snap
    BY <1>1, <1>3, <2>1 DEF DispatchCount, ReqTask
  <2> QED
    BY <1>3, <2>2, <2>3, <2>4 DEF DownOf, Downlink
<1> QED
  BY <1>2, <1>3 DEF Senders

LEMMA InitDown == Init => DownInv
  BY DEF Init, DownInv, Ordered, Senders, DownOf, Downlink, Counted, NewUp, NewReq, Registered

\* The order of counters survives every step that does not set one back.
LEMMA StepDown == TypeInv /\ DownInv /\ [Next]_vars => DownInv'
<1> SUFFICES ASSUME TypeInv, DownInv, Next PROVE DownInv'
  BY DEF vars, storeVars, downVars, DownInv, Ordered, Settled, DownOf, Downlink, Counted
<1>1. /\ stored \in Info \cup {None} /\ None \notin Info
      /\ \A i \in Info : i.down \in Nat
      /\ \A x \in Senders : DownOf(x) \in Nat /\ Downlink(x).seen \subseteq Senders
  BY NoneAssumption DEF TypeInv, TypeOK, UpTask, ReqTask, Info, Senders, DownOf, Downlink
<1>2. \A u \in Copies : up'[u].sent => up'[u].pc \in {"incrack", "report", "done", "failed"}
  BY CopyCounted DEF DownInv
<1>3. ASSUME NEW x \in Senders, NEW y \in (Downlink(x).seen)' PROVE Settled(y)'
  <2>1. y \in Senders /\ Settled(y)
    BY <1>1, <1>3, SnapStep, DoneIsCounted DEF DownInv
  <2> QED
    BY <2>1, SettledStep
<1>4. ASSUME ~rewound'.down, NEW x \in Senders PROVE Ordered(x)'
  <2>1. ~rewound.down /\ (stored \in Info => stored' \in Info /\ stored.down <= stored'.down)
    BY <1>4, RecordGrows
  <2>2. \A y \in Senders : Ordered(y)
    BY <2>1 DEF DownInv
  <2>3. stored' \in Info \cup {None}
    BY StepType DEF TypeInv, TypeOK
  <2>4. IF stored' = None THEN DownOf(x)' = 0 ELSE DownOf(x)' <= stored'.down
    BY <1>1, <1>4, <2>1, <2>2, <2>3, SnapStep DEF Ordered
  <2>5. ASSUME Counted(x)' PROVE stored' # None /\ DownOf(x)' < stored'.down
    <3>1. CASE Counted(x)
      <4>1. stored \in Info /\ DownOf(x) < stored.down
        BY <1>1, <2>2, <3>1 DEF Ordered
      <4>2. DownOf(x)' = DownOf(x)
        BY <2>5, SnapStep
      <4> QED
        BY <1>1, <2>1, <4>1, <4>2
    <3>2. CASE ~Counted(x)
      <4>1. /\ DownOf(x)' = DownOf(x) /\ stored \in Info /\ stored' \in Info
            /\ stored'.down = stored.down + 1
        BY <2>5, <3>2, CountedStep
      <4>2. DownOf(x) <= stored.down
        BY <1>1, <2>2, <4>1 DEF Ordered
      <4> QED
        BY <1>1, <4>1, <4>2
    <3> QED
      BY <3>1, <3>2
  <2>6. ASSUME NEW y \in (Downlink(x).seen)' PROVE DownOf(y)' < DownOf(x)'
    <3>1. y \in Senders /\ Settled(y)
      BY <1>1, <2>6, SnapStep, DoneIsCounted DEF DownInv
    <3>2. DownOf(y)' = DownOf(y)
      BY <3>1, SettledStep
    <3>3. CASE DownOf(x)' = DownOf(x) /\ y \in Downlink(x).seen
      BY <2>2, <3>2, <3>3 DEF Ordered
    <3>4. CASE y \in DownlinksDone /\ DownOf(x)' = IF stored = None THEN 0 ELSE stored.down
      BY <2>2, <3>1, <3>2, <3>4, DoneIsCounted DEF Ordered
    <3>5. CASE /\ y \in Downlink(x).seen /\ DownOf(x)' = 0
               /\ stored \in Info /\ (~rewound'.down => stored.down = 0)
      BY <1>1, <1>4, <2>2, <3>1, <3>5 DEF Ordered
    <3> QED
      BY <2>6, <3>3, <3>4, <3>5, SnapStep
  <2> QED
    BY <2>4, <2>5, <2>6 DEF Ordered
<1> QED
  BY <1>2, <1>3, <1>4 DEF DownInv

\* While the counter in redis is not set back, a downlink never carries a
\* counter that one finished before its task read the record has carried.
THEOREM DownCounterFreshAlways == Spec => []DownCounterFresh
<1>1. TypeInv /\ DownInv => DownCounterFresh
  <2> SUFFICES ASSUME TypeInv, DownInv, ~rewound.down, NEW x \in Copies \cup Requests,
                      NEW y \in Downlink(x).seen
               PROVE  Downlink(y).snap.down # Downlink(x).snap.down
    BY DEF DownCounterFresh
  <2>1. DownOf(y) < DownOf(x)
    BY DEF DownInv, Senders, Ordered
  <2>2. DownOf(x) \in Nat
    BY DEF TypeInv, TypeOK, UpTask, ReqTask, Info, DownOf, Downlink
  <2> QED
    BY <2>1, <2>2 DEF DownOf
<1> QED
  BY InitType, StepType, InitDown, StepDown, <1>1, PTL DEF Spec

-----------------------------------------------------------------------------
(* Redis and the database hold only sessions the device has spoken under,   *)
(* however joins, uplinks, restarts and failures interleave.                *)

USE DEF deviceVars, storeVars, bufferVars, joinVars, downVars

\* The device has used session s, or has had it from the start.
Confirmed(s) == s = 0 \/ \E i \in 1 .. Len(air) : air[i].sess = s

\* SessionConfirmed is not inductive: a task carries a session between the
\* step that finds it and the step that writes it.
SessionInv ==
    /\ Confirmed(dbSess)
    /\ stored \in Info => Confirmed(stored.sess)
    /\ \A u \in Copies :
        /\ up[u].pc \in {"activatedb", "activate"} => Confirmed(up[u].otaa)
        /\ up[u].pc = "register" => Confirmed(up[u].snap.sess)
    /\ \A j \in Joins :
        join[j].pc = "register" => Confirmed(join[j].sess)

\* Task states that carry a session.
Carrying == {"register", "activatedb", "activate"}

\* The session of the start is the personalised one.
LEMMA InitSession == Init => SessionInv
<1> SUFFICES ASSUME Init PROVE SessionInv
  OBVIOUS
<1>1. stored = None \/ stored.sess = 0
  BY DEF Init, Registered
<1>2. stored \in Info => Confirmed(stored.sess)
  BY <1>1, NoneAssumption DEF Confirmed, Init
<1> QED
  BY <1>2 DEF Init, SessionInv, Confirmed, NewUp, NewJoin

\* A step of an uplink task that carries no session on and writes none.
LEMMA UplinkNeutral ==
    ASSUME SessionInv, NEW u \in Copies,
           UNCHANGED <<air, dbSess, join>>,
           \A v \in Copies \ {u} : up'[v] = up[v],
           up'[u].pc \notin Carrying,
           stored' \in Info => stored \in Info /\ stored'.sess = stored.sess
    PROVE  SessionInv'
BY DEF SessionInv, Confirmed, Carrying

\* The same for the steps of the other tasks.
LEMMA OtherNeutral ==
    ASSUME SessionInv,
           UNCHANGED <<air, dbSess>>,
           \A v \in Copies : up'[v] = up[v] \/ up'[v].pc \notin Carrying,
           \A j \in Joins : join'[j] = join[j] \/ join'[j].pc # "register",
           stored' \in Info => stored \in Info /\ stored'.sess = stored.sess
    PROVE  SessionInv'
BY DEF SessionInv, Confirmed, Carrying

\* A frame more on the air confirms no less.
LEMMA DeviceSendSession == \A k \in Kinds : TypeInv /\ SessionInv /\ DeviceSend(k) => SessionInv'
<1> SUFFICES ASSUME TypeInv, SessionInv, NEW k \in Kinds, DeviceSend(k) PROVE SessionInv'
  OBVIOUS
<1>1. air \in Seq(Frame)
  BY DEF TypeInv, TypeOK
<1>2. Len(air') = Len(air) + 1 /\ \A i \in 1 .. Len(air) : air'[i] = air[i]
  BY <1>1 DEF DeviceSend
<1>3. 1 .. Len(air) \subseteq 1 .. Len(air')
  BY <1>1, <1>2
<1> DEFINE Heard(s) == s = 0 \/ \E i \in 1 .. Len(air') : air'[i].sess = s
<1>4. ASSUME NEW s, Confirmed(s) PROVE Heard(s)
  BY <1>2, <1>3, <1>4 DEF Confirmed
<1>5. /\ Heard(dbSess)
      /\ stored \in Info => Heard(stored.sess)
      /\ \A u \in Copies :
          /\ up[u].pc \in {"activatedb", "activate"} => Heard(up[u].otaa)
          /\ up[u].pc = "register" => Heard(up[u].snap.sess)
      /\ \A j \in Joins : join[j].pc = "register" => Heard(join[j].sess)
  <2> HIDE DEF Heard
  <2> QED
    BY <1>4 DEF SessionInv
<1>6. UNCHANGED <<dbSess, stored, up, join>>
  BY DEF DeviceSend
<1> QED
  BY <1>5, <1>6 DEF SessionInv, Confirmed

\* A pending session is taken, not used.
LEMMA GetOtaaSession == \A u \in Copies : TypeInv /\ SessionInv /\ GetOtaa(u) => SessionInv'
<1> SUFFICES ASSUME TypeInv, SessionInv, NEW u \in Copies, GetOtaa(u) PROVE SessionInv'
  OBVIOUS
<1>1. up \in [Copies -> UpTask] /\ up[u] \in UpTask
  BY DEF TypeInv, TypeOK
<1>2. up'[u].pc \notin Carrying /\ \A v \in Copies \ {u} : up'[v] = up[v]
  BY <1>1 DEF GetOtaa, Carrying, UpTask
<1>3. UNCHANGED <<air, dbSess, join, stored>>
  BY DEF GetOtaa
<1> QED
  BY <1>2, <1>3, UplinkNeutral

\* Buffering a copy touches no session.
LEMMA InsertSession == \A u \in Copies : TypeInv /\ SessionInv /\ Insert(u) => SessionInv'
<1> SUFFICES ASSUME TypeInv, SessionInv, NEW u \in Copies, Insert(u) PROVE SessionInv'
  OBVIOUS
<1>1. up \in [Copies -> UpTask] /\ up[u] \in UpTask
  BY DEF TypeInv, TypeOK
<1>2. up'[u].pc \notin Carrying /\ \A v \in Copies \ {u} : up'[v] = up[v]
  BY <1>1 DEF Insert, Carrying, UpTask
<1>3. UNCHANGED <<air, dbSess, join, stored>>
  BY DEF Insert
<1> QED
  BY <1>2, <1>3, UplinkNeutral

\* Taking a copy touches no session.
LEMMA WakeSession == \A u \in Copies : TypeInv /\ SessionInv /\ Wake(u) => SessionInv'
<1> SUFFICES ASSUME TypeInv, SessionInv, NEW u \in Copies, Wake(u) PROVE SessionInv'
  OBVIOUS
<1>1. up \in [Copies -> UpTask] /\ up[u] \in UpTask
  BY DEF TypeInv, TypeOK
<1>2. up'[u].pc \notin Carrying /\ \A v \in Copies \ {u} : up'[v] = up[v]
  BY <1>1 DEF Wake, Carrying, UpTask
<1>3. UNCHANGED <<air, dbSess, join, stored>>
  BY DEF Wake
<1> QED
  BY <1>2, <1>3, UplinkNeutral

\* Reporting touches no session.
LEMMA ReportSession == \A u \in Copies : TypeInv /\ SessionInv /\ Report(u) => SessionInv'
<1> SUFFICES ASSUME TypeInv, SessionInv, NEW u \in Copies, Report(u) PROVE SessionInv'
  OBVIOUS
<1>1. up \in [Copies -> UpTask] /\ up[u] \in UpTask
  BY DEF TypeInv, TypeOK
<1>2. up'[u].pc \notin Carrying /\ \A v \in Copies \ {u} : up'[v] = up[v]
  BY <1>1 DEF Report, Carrying, UpTask
<1>3. UNCHANGED <<air, dbSess, join, stored>>
  BY DEF Report
<1> QED
  BY <1>2, <1>3, UplinkNeutral

\* A task that fails carries no session on.
LEMMA UplinkFailsSession == \A u \in Copies : TypeInv /\ SessionInv /\ UplinkFails(u) => SessionInv'
<1> SUFFICES ASSUME TypeInv, SessionInv, NEW u \in Copies, UplinkFails(u) PROVE SessionInv'
  OBVIOUS
<1>1. up \in [Copies -> UpTask] /\ up[u] \in UpTask
  BY DEF TypeInv, TypeOK
<1>2. up'[u].pc \notin Carrying /\ \A v \in Copies \ {u} : up'[v] = up[v]
  BY <1>1 DEF UplinkFails, Carrying, UpTask
<1>3. UNCHANGED <<air, dbSess, join, stored>>
  BY DEF UplinkFails
<1> QED
  BY <1>2, <1>3, UplinkNeutral

\* Popping a request touches no session.
LEMMA PullSession == \A u \in Copies : TypeInv /\ SessionInv /\ Pull(u) => SessionInv'
<1> SUFFICES ASSUME TypeInv, SessionInv, NEW u \in Copies, Pull(u) PROVE SessionInv'
  OBVIOUS
<1>1. up \in [Copies -> UpTask] /\ up[u] \in UpTask
  BY DEF TypeInv, TypeOK
<1>2. up'[u].pc \notin Carrying /\ \A v \in Copies \ {u} : up'[v] = up[v]
  BY <1>1 DEF Pull, Carrying, UpTask
<1>3. UNCHANGED <<air, dbSess, join, stored>>
  BY DEF Pull
<1> QED
  BY <1>2, <1>3, UplinkNeutral

\* Sending touches no session.
LEMMA SendDownSession == \A u \in Copies : TypeInv /\ SessionInv /\ SendDown(u) => SessionInv'
<1> SUFFICES ASSUME TypeInv, SessionInv, NEW u \in Copies, SendDown(u) PROVE SessionInv'
  OBVIOUS
<1>1. up \in [Copies -> UpTask] /\ up[u] \in UpTask
  BY DEF TypeInv, TypeOK
<1>2. up'[u].pc \notin Carrying /\ \A v \in Copies \ {u} : up'[v] = up[v]
  BY <1>1 DEF SendDown, Carrying, UpTask
<1>3. UNCHANGED <<air, dbSess, join, stored>>
  BY DEF SendDown
<1> QED
  BY <1>2, <1>3, UplinkNeutral

\* Sending touches no session.
LEMMA SendAckSession == \A u \in Copies : TypeInv /\ SessionInv /\ SendAck(u) => SessionInv'
<1> SUFFICES ASSUME TypeInv, SessionInv, NEW u \in Copies, SendAck(u) PROVE SessionInv'
  OBVIOUS
<1>1. up \in [Copies -> UpTask] /\ up[u] \in UpTask
  BY DEF TypeInv, TypeOK
<1>2. up'[u].pc \notin Carrying /\ \A v \in Copies \ {u} : up'[v] = up[v]
  BY <1>1 DEF SendAck, Carrying, UpTask
<1>3. UNCHANGED <<air, dbSess, join, stored>>
  BY DEF SendAck
<1> QED
  BY <1>2, <1>3, UplinkNeutral

\* The reset writes the downlink counter only.
LEMMA ResetDownSession == \A u \in Copies : TypeInv /\ SessionInv /\ ResetDown(u) => SessionInv'
<1> SUFFICES ASSUME TypeInv, SessionInv, NEW u \in Copies, ResetDown(u) PROVE SessionInv'
  OBVIOUS
<1>1. up \in [Copies -> UpTask] /\ up[u] \in UpTask
  BY DEF TypeInv, TypeOK
<1>2. up'[u].pc \notin Carrying /\ \A v \in Copies \ {u} : up'[v] = up[v]
  BY <1>1 DEF ResetDown, Carrying, UpTask
<1>3. stored \in Info
  BY LoadedTask DEF ResetDown, Loaded, UpPc, UpEnded
<1>4. stored' \in Info => stored'.sess = stored.sess
  BY <1>3 DEF ResetDown, Info
<1>5. UNCHANGED <<air, dbSess, join>>
  BY DEF ResetDown
<1> QED
  BY <1>2, <1>3, <1>4, <1>5, UplinkNeutral

\* update_gateway writes the gateway only.
LEMMA DeliverSession == \A u \in Copies : TypeInv /\ SessionInv /\ Deliver(u) => SessionInv'
<1> SUFFICES ASSUME TypeInv, SessionInv, NEW u \in Copies, Deliver(u) PROVE SessionInv'
  OBVIOUS
<1>1. up \in [Copies -> UpTask] /\ up[u] \in UpTask
  BY DEF TypeInv, TypeOK
<1>2. up'[u].pc \notin Carrying /\ \A v \in Copies \ {u} : up'[v] = up[v]
  BY <1>1 DEF Deliver, Carrying, UpTask
<1>3. stored \in Info
  BY LoadedTask DEF Deliver, Loaded, UpPc, UpEnded
<1>4. stored' \in Info => stored'.sess = stored.sess
  BY <1>3 DEF Deliver, Info
<1>5. UNCHANGED <<air, dbSess, join>>
  BY DEF Deliver
<1> QED
  BY <1>2, <1>3, <1>4, <1>5, UplinkNeutral

\* HINCRBY writes the downlink counter only.
LEMMA IncrDownSession == \A u \in Copies : TypeInv /\ SessionInv /\ IncrDown(u) => SessionInv'
<1> SUFFICES ASSUME TypeInv, SessionInv, NEW u \in Copies, IncrDown(u) PROVE SessionInv'
  OBVIOUS
<1>1. up \in [Copies -> UpTask] /\ up[u] \in UpTask
  BY DEF TypeInv, TypeOK
<1>2. up'[u].pc \notin Carrying /\ \A v \in Copies \ {u} : up'[v] = up[v]
  BY <1>1 DEF IncrDown, Carrying, UpTask
<1>3. stored \in Info
  BY LoadedTask DEF IncrDown, Loaded, UpPc, UpEnded
<1>4. stored' \in Info => stored'.sess = stored.sess
  BY <1>3 DEF IncrDown, Info, CountDownlink
<1>5. UNCHANGED <<air, dbSess, join>>
  BY DEF IncrDown, CountDownlink
<1> QED
  BY <1>2, <1>3, <1>4, <1>5, UplinkNeutral

\* HINCRBY writes the downlink counter only.
LEMMA IncrAckSession == \A u \in Copies : TypeInv /\ SessionInv /\ IncrAck(u) => SessionInv'
<1> SUFFICES ASSUME TypeInv, SessionInv, NEW u \in Copies, IncrAck(u) PROVE SessionInv'
  OBVIOUS
<1>1. up \in [Copies -> UpTask] /\ up[u] \in UpTask
  BY DEF TypeInv, TypeOK
<1>2. up'[u].pc \notin Carrying /\ \A v \in Copies \ {u} : up'[v] = up[v]
  BY <1>1 DEF IncrAck, Carrying, UpTask
<1>3. stored \in Info
  BY LoadedTask DEF IncrAck, Loaded, UpPc, UpEnded
<1>4. stored' \in Info => stored'.sess = stored.sess
  BY <1>3 DEF IncrAck, Info, CountDownlink
<1>5. UNCHANGED <<air, dbSess, join>>
  BY DEF IncrAck, CountDownlink
<1> QED
  BY <1>2, <1>3, <1>4, <1>5, UplinkNeutral


\* A record already there is used, or the row, whose session is confirmed.
LEMMA LoadSession == \A u \in Copies : TypeInv /\ SessionInv /\ Load(u) => SessionInv'
<1> SUFFICES ASSUME TypeInv, SessionInv, NEW u \in Copies, Load(u) PROVE SessionInv'
  OBVIOUS
<1>1. up \in [Copies -> UpTask] /\ up[u] \in UpTask
  BY DEF TypeInv, TypeOK
<1>2. \A v \in Copies \ {u} : up'[v] = up[v]
  BY <1>1 DEF Load
<1>3. up'[u].pc \notin {"activatedb", "activate"}
  BY <1>1 DEF Load, UpTask, AfterLoad
<1>4. up'[u].pc = "register" => up'[u].snap.sess = dbSess
  BY <1>1 DEF Load, UpTask, AfterLoad, Registered
<1>5. UNCHANGED <<air, dbSess, stored, join>>
  BY DEF Load
<1> QED
  BY <1>2, <1>3, <1>4, <1>5 DEF SessionInv, Confirmed

\* The row read some time ago is written: its session was confirmed then.
LEMMA RegisterSession ==
    \A u \in Copies : TypeInv /\ SessionInv /\ Register(u) => SessionInv'
<1> SUFFICES ASSUME TypeInv, SessionInv, NEW u \in Copies, Register(u) PROVE SessionInv'
  OBVIOUS
<1>1. up \in [Copies -> UpTask] /\ up[u] \in UpTask
  BY DEF TypeInv, TypeOK
<1>2. up'[u].pc \notin Carrying /\ \A v \in Copies \ {u} : up'[v] = up[v]
  BY <1>1 DEF Register, Carrying, UpTask, AfterLoad
<1>3. stored'.sess = up[u].snap.sess /\ Confirmed(up[u].snap.sess)
  BY DEF Register, WriteRegistered, Registered, SessionInv
<1>4. UNCHANGED <<air, dbSess, join>>
  BY DEF Register, WriteRegistered
<1> QED
  BY <1>2, <1>3, <1>4 DEF SessionInv, Confirmed, Carrying

\* A pending session is taken on only if the MIC of the frame, and so the
\* device, uses it.
LEMMA DelOtaaSession == \A u \in Copies : TypeInv /\ SessionInv /\ DelOtaa(u) => SessionInv'
<1> SUFFICES ASSUME TypeInv, SessionInv, NEW u \in Copies, DelOtaa(u) PROVE SessionInv'
  OBVIOUS
<1>1. up \in [Copies -> UpTask] /\ up[u] \in UpTask
  BY DEF TypeInv, TypeOK
<1>2. up[u].at \in 1 .. Len(air)
  BY DEF DelOtaa, TypeInv, WellFounded
<1>3. \A v \in Copies \ {u} : up'[v] = up[v]
  BY <1>1 DEF DelOtaa
<1>4. up'[u].pc # "register" /\ up'[u].otaa = up[u].otaa
  BY <1>1 DEF DelOtaa, UpTask
<1>5. up'[u].pc \in {"activatedb", "activate"} => FrameOf(u).sess = up[u].otaa
  BY <1>1 DEF DelOtaa, UpTask, MicOk
<1>6. up'[u].pc \in {"activatedb", "activate"} => Confirmed(up[u].otaa)
  BY <1>2, <1>5 DEF FrameOf, Confirmed
<1>7. UNCHANGED <<air, dbSess, stored, join>>
  BY DEF DelOtaa
<1> QED
  BY <1>3, <1>4, <1>6, <1>7 DEF SessionInv, Confirmed

\* What goes to the row was confirmed when the MIC was checked.
LEMMA ActivateDbSession ==
    \A u \in Copies : TypeInv /\ SessionInv /\ ActivateDb(u) => SessionInv'
<1> SUFFICES ASSUME TypeInv, SessionInv, NEW u \in Copies, ActivateDb(u) PROVE SessionInv'
  OBVIOUS
<1>1. up \in [Copies -> UpTask] /\ up[u] \in UpTask
  BY DEF TypeInv, TypeOK
<1>2. \A v \in Copies \ {u} : up'[v] = up[v]
  BY <1>1 DEF ActivateDb
<1>3. up'[u].pc = "activate" /\ up'[u].otaa = up[u].otaa
  BY <1>1 DEF ActivateDb, UpTask
<1>4. dbSess' = up[u].otaa /\ Confirmed(up[u].otaa)
  BY DEF ActivateDb, SessionInv
<1>5. UNCHANGED <<air, stored, join>>
  BY DEF ActivateDb
<1> QED
  BY <1>2, <1>3, <1>4, <1>5 DEF SessionInv, Confirmed

\* What goes to redis was confirmed when the MIC was checked.
LEMMA ActivateSession ==
    \A u \in Copies : TypeInv /\ SessionInv /\ Activate(u) => SessionInv'
<1> SUFFICES ASSUME TypeInv, SessionInv, NEW u \in Copies, Activate(u) PROVE SessionInv'
  OBVIOUS
<1>1. up \in [Copies -> UpTask] /\ up[u] \in UpTask
  BY DEF TypeInv, TypeOK
<1>2. stored \in Info
  BY LoadedTask DEF Activate, Loaded, UpPc, UpEnded
<1>3. up'[u].pc \notin Carrying /\ \A v \in Copies \ {u} : up'[v] = up[v]
  BY <1>1 DEF Activate, Carrying, UpTask
<1>4. stored'.sess = up[u].otaa /\ Confirmed(up[u].otaa)
  BY <1>2 DEF Activate, SessionInv, Info
<1>5. UNCHANGED <<air, dbSess, join>>
  BY DEF Activate
<1> QED
  BY <1>3, <1>4, <1>5 DEF SessionInv, Confirmed, Carrying

\* payload_decode touches the counters only.
LEMMA DecodeSession == \A u \in Copies : TypeInv /\ SessionInv /\ Decode(u) => SessionInv'
<1> SUFFICES ASSUME TypeInv, SessionInv, NEW u \in Copies, Decode(u) PROVE SessionInv'
  OBVIOUS
<1>1. up \in [Copies -> UpTask] /\ up[u] \in UpTask
  BY DEF TypeInv, TypeOK
<1>2. stored \in Info
  BY LoadedTask DEF Decode, Loaded, UpPc, UpEnded
<1>3. up'[u].pc \notin Carrying /\ \A v \in Copies \ {u} : up'[v] = up[v]
  BY <1>1 DEF Decode, StoreCount, Carrying, UpTask
<1>4. stored' = stored \/ stored'.sess = stored.sess
  BY <1>2 DEF Decode, StoreCount, Info
<1>5. UNCHANGED <<air, dbSess, join>>
  BY DEF Decode
<1> QED
  BY <1>2, <1>3, <1>4, <1>5, UplinkNeutral

\* A new task carries no session.
LEMMA ReceiveSession ==
    ASSUME TypeInv, SessionInv, NEW u \in Copies, NEW i \in 1 .. Len(air),
           NEW g \in Gateways, NEW s \in Rssi, Receive(u, i, g, s)
    PROVE  SessionInv'
<1>1. up \in [Copies -> UpTask]
  BY DEF TypeInv, TypeOK
<1>2. up'[u].pc \notin Carrying /\ \A v \in Copies \ {u} : up'[v] = up[v]
  BY <1>1 DEF Receive, NewUp, Carrying
<1>3. UNCHANGED <<air, dbSess, join, stored>>
  BY DEF Receive
<1> QED
  BY <1>2, <1>3, UplinkNeutral


\* The row is read for a registration only when redis has nothing.
LEMMA JoinLoadSession ==
    \A j \in Joins : TypeInv /\ SessionInv /\ JoinLoad(j) => SessionInv'
<1> SUFFICES ASSUME TypeInv, SessionInv, NEW j \in Joins, JoinLoad(j) PROVE SessionInv'
  OBVIOUS
<1>1. join \in [Joins -> JoinTask] /\ join[j] \in JoinTask
  BY DEF TypeInv, TypeOK
<1>2. \A i \in Joins \ {j} : join'[i] = join[i]
  BY <1>1 DEF JoinLoad
<1>3. join'[j].pc = "register" => join'[j].sess = dbSess
  BY <1>1 DEF JoinLoad, JoinTask
<1>4. UNCHANGED <<air, dbSess, stored, up>>
  BY DEF JoinLoad
<1> QED
  BY <1>2, <1>3, <1>4 DEF SessionInv, Confirmed

\* The row read some time ago is written: its session was confirmed then.
LEMMA JoinRegisterSession ==
    \A j \in Joins : TypeInv /\ SessionInv /\ JoinRegister(j) => SessionInv'
<1> SUFFICES ASSUME TypeInv, SessionInv, NEW j \in Joins, JoinRegister(j) PROVE SessionInv'
  OBVIOUS
<1>1. join \in [Joins -> JoinTask] /\ join[j] \in JoinTask
  BY DEF TypeInv, TypeOK
<1>2. join'[j].pc = "answer" /\ \A i \in Joins \ {j} : join'[i] = join[i]
  BY <1>1 DEF JoinRegister, JoinTask
<1>3. stored'.sess = join[j].sess /\ Confirmed(join[j].sess)
  BY DEF JoinRegister, WriteRegistered, Registered, SessionInv
<1>4. UNCHANGED <<air, dbSess, up>>
  BY DEF JoinRegister, WriteRegistered
<1> QED
  BY <1>2, <1>3, <1>4 DEF SessionInv, Confirmed

\* The other steps of a join task, and those of the device and the timers.
LEMMA JoinOthersSession ==
    ASSUME TypeInv, SessionInv,
           \/ DeviceJoin \/ DeviceReset
           \/ \E u \in Copies : Timer(u)
           \/ \E j \in Joins :
               \/ \E a \in 1 .. device.attempts, s \in Rssi : JoinReceive(j, a, s)
               \/ JoinWake(j) \/ JoinTimer(j) \/ JoinAnswer(j) \/ JoinSend(j)
               \/ DeviceAccept(j) \/ JoinFails(j)
    PROVE  SessionInv'
<1>1. join \in [Joins -> JoinTask]
  BY DEF TypeInv, TypeOK
<1>2. CASE DeviceJoin \/ DeviceReset \/ (\E u \in Copies : Timer(u))
           \/ \E j \in Joins : JoinTimer(j) \/ DeviceAccept(j)
  <2>1. UNCHANGED <<air, dbSess, stored, up, join>>
    BY <1>2 DEF DeviceJoin, DeviceReset, Timer, JoinTimer, DeviceAccept
  <2> QED
    BY <2>1, OtherNeutral
<1>3. ASSUME NEW j \in Joins,
             \/ \E a \in 1 .. device.attempts, s \in Rssi : JoinReceive(j, a, s)
             \/ JoinWake(j) \/ JoinAnswer(j) \/ JoinSend(j) \/ JoinFails(j)
      PROVE  SessionInv'
  <2>1. join[j] \in JoinTask
    BY <1>1
  <2>2. join'[j].pc # "register" /\ \A i \in Joins \ {j} : join'[i] = join[i]
    <3>1. CASE \E a \in 1 .. device.attempts, s \in Rssi : JoinReceive(j, a, s)
      BY <1>1, <3>1, ZenonT(40) DEF JoinReceive, NewJoin
    <3>2. CASE JoinWake(j)
      BY <1>1, <2>1, <3>2 DEF JoinWake, JoinTask
    <3>3. CASE JoinAnswer(j) \/ JoinSend(j) \/ JoinFails(j)
      BY <1>1, <2>1, <3>3 DEF JoinAnswer, JoinSend, JoinFails, JoinTask
    <3> QED
      BY <1>3, <3>1, <3>2, <3>3
  <2>3. UNCHANGED <<air, dbSess, stored, up>>
    BY <1>3 DEF JoinReceive, JoinWake, JoinAnswer, JoinSend, JoinFails
  <2> QED
    BY <2>2, <2>3, OtherNeutral
<1> QED
  BY <1>2, <1>3

\* Downlink requests touch at most the downlink counter.
LEMMA RequestSession ==
    ASSUME TypeInv, SessionInv, NEW r \in Requests,
           Dispatch(r) \/ DispatchStep(r) \/ DispatchFails(r)
    PROVE  SessionInv'
<1>1. stored \in Info \cup {None} /\ (req[r].pc = "dispatch" => stored \in Info)
  BY DEF TypeInv, TypeOK, WellFounded
<1>2. stored' \in Info => stored \in Info /\ stored'.sess = stored.sess
  BY <1>1 DEF Dispatch, DispatchStep, DispatchCount, DispatchSend, DispatchQueue,
              DispatchFails, CountDownlink, Info
<1>3. UNCHANGED <<air, dbSess, up, join>>
  BY DEF Dispatch, DispatchStep, DispatchCount, DispatchSend, DispatchQueue, DispatchFails
<1> QED
  BY <1>2, <1>3, OtherNeutral

\* A restart ends tasks, and with them the sessions they carry.
LEMMA RestartSession == TypeInv /\ SessionInv /\ Restart => SessionInv'
<1> SUFFICES ASSUME TypeInv, SessionInv, Restart PROVE SessionInv'
  OBVIOUS
<1>1. up \in [Copies -> UpTask] /\ join \in [Joins -> JoinTask]
  BY DEF TypeInv, TypeOK
<1>2. ASSUME NEW u \in Copies PROVE up'[u] = up[u] \/ up'[u].pc = "failed"
  BY <1>1 DEF Restart, UpTask
<1>3. ASSUME NEW j \in Joins PROVE join'[j] = join[j] \/ join'[j].pc = "failed"
  BY <1>1 DEF Restart, JoinTask
<1>4. UNCHANGED <<air, dbSess, stored>>
  BY DEF Restart
<1> QED
  BY <1>2, <1>3, <1>4, OtherNeutral DEF Carrying

\* Every step keeps the sessions in use confirmed.
LEMMA StepSession == TypeInv /\ SessionInv /\ [Next]_vars => SessionInv'
<1> SUFFICES ASSUME TypeInv, SessionInv, [Next]_vars PROVE SessionInv'
  OBVIOUS
<1>1. CASE JoinNext
  BY <1>1, JoinLoadSession, JoinRegisterSession, JoinOthersSession DEF JoinNext, JoinStep
<1>2. CASE UplinkNext
  BY <1>2, DeviceSendSession, ReceiveSession, LoadSession, RegisterSession, GetOtaaSession,
     DelOtaaSession, ActivateDbSession, ActivateSession, DecodeSession, ResetDownSession,
     InsertSession, WakeSession, DeliverSession, ReportSession, UplinkFailsSession,
     JoinOthersSession
  DEF UplinkNext, UplinkStep
<1>3. CASE DownlinkNext
  BY <1>3, PullSession, IncrDownSession, SendDownSession, SendAckSession, IncrAckSession,
     RequestSession
  DEF DownlinkNext, PullStep
<1>4. CASE Restart
  BY <1>4, RestartSession
<1>5. CASE UNCHANGED vars
  <2>1. UNCHANGED <<air, dbSess, stored, up, join>>
    BY <1>5 DEF vars
  <2> QED
    BY <2>1, OtherNeutral
<1> QED
  BY <1>1, <1>2, <1>3, <1>4, <1>5 DEF Next

\* A session negotiated by a join replaces the old one, in the database and
\* in redis, only after the device has sent a frame under it.
THEOREM SessionConfirmedAlways == Spec => []SessionConfirmed
<1>1. TypeInv /\ SessionInv => SessionConfirmed
  <2> SUFFICES ASSUME TypeInv, SessionInv PROVE SessionConfirmed
    OBVIOUS
  <2>1. stored # None => stored \in Info
    BY DEF TypeInv, TypeOK
  <2> QED
    BY <2>1 DEF SessionInv, SessionConfirmed, Confirmed
<1> QED
  BY InitType, StepType, InitSession, StepSession, <1>1, PTL DEF Spec

-----------------------------------------------------------------------------
(* No session the device has accepted is lost, but in the ways SessionKept  *)
(* names.                                                                   *)

\* A join task that has its new session.
Answered == {"send", "sent"}

\* Session s waits, or something the property names has taken its place.
Held(s) ==
    \/ pending = s
    \/ \E u \in Copies :
        /\ up[u].otaa = s
        /\ \/ up[u].pc \in {"delotaa", "activatedb", "activate", "failed"}
           \/ ~MicOk(u, s, Fcnt(u))
    \/ \E u \in Copies : up[u].otaa # None /\ up[u].otaa < s
    \/ \E j \in Joins : join[j].pc # "register" /\ join[j].sess # None /\ join[j].sess > s

InUse(s) == s = 0 \/ rewound.sess \/ (stored # None /\ stored.sess = s) \/ Held(s)

\* A join request the device has not been answered for gets a session newer
\* than the one in use.
JoinInv ==
    /\ joinSlot # None => join[joinSlot].pc # "idle"
    /\ \A j \in Joins :
        /\ join[j].attempt <= device.attempts
        /\ join[j].pc \in {"idle", "sleep", "merged", "empty", "load", "answer"} =>
             join[j].sess = None
        /\ join[j].sess # None => join[j].sess <= sessions
        /\ join[j].pc \in {"load", "register", "answer", "send", "sent"} => join[j].item # None
        /\ join[j].item # None => join[join[j].item].pc # "idle"
        /\ (device.joining /\ join[j].pc \in Answered
              /\ join[join[j].item].attempt = device.attempts) => join[j].sess > device.sess

\* Sessions are numbered by age: what is on the air is not newer than what
\* the device uses, what a task took not newer than what waits.
AgeInv ==
    /\ device.sess <= sessions
    /\ \A i \in 1 .. Len(air) : air[i].sess <= device.sess
    /\ pending # None => pending \in 1 .. sessions
    /\ \A u \in Copies :
        /\ up[u].pc \in {"idle", "load", "register", "getotaa"} => up[u].otaa = None
        /\ up[u].otaa # None => up[u].otaa \in 1 .. sessions
        /\ (up[u].otaa # None /\ pending # None) => up[u].otaa <= pending

\* The session in use is not lost, nor one the device may still accept.
KeptInv ==
    /\ InUse(device.sess)
    /\ \A j \in Joins :
         (join[j].pc \in Answered /\ join[j].sess > device.sess) => Held(join[j].sess)

\* No join, no session.
LEMMA InitKept == Init => JoinInv /\ AgeInv /\ KeptInv
  BY SetsAssumption DEF Init, JoinInv, AgeInv, KeptInv, InUse, NewUp, NewJoin, Answered

-----------------------------------------------------------------------------
(* Join tasks                                                               *)

\* A step of a join task that has been received.
LEMMA JoinTaskInv ==
    ASSUME TypeInv, JoinInv, device.sess <= sessions, NEW j \in Joins, join[j].pc # "idle",
           \A i \in Joins \ {j} : join'[i] = join[i],
           join'[j].pc # "idle", join'[j].attempt = join[j].attempt,
           join'[j].pc \in {"sleep", "merged", "empty", "load", "answer"} => join'[j].sess = None,
           join'[j].sess # None => join'[j].sess <= sessions',
           join'[j].pc \in {"load", "register", "answer", "send", "sent"} => join'[j].item # None,
           join'[j].item \in {join[j].item, joinSlot},
           (join'[j].pc \in Answered /\ join[j].pc \notin Answered) => join'[j].sess > device.sess,
           (join'[j].pc \in Answered /\ join[j].pc \in Answered) => join'[j].sess = join[j].sess
               /\ join'[j].item = join[j].item,
           joinSlot' \in {joinSlot, None},
           sessions' \in Nat, sessions <= sessions', UNCHANGED device
    PROVE  JoinInv'
<1>1. /\ join \in [Joins -> JoinTask] /\ sessions \in Nat /\ joinSlot \in Joins \cup {None}
      /\ device.attempts \in Nat /\ device.sess \in Nat /\ None \notin Joins
  BY SetsAssumption, BoundsAssumption DEF TypeInv, TypeOK, Session
<1>2. \A i \in Joins : /\ join[i].attempt \in Nat /\ join[i].item \in Joins \cup {None}
                       /\ join[i].sess \in Nat \cup {None}
  BY <1>1, BoundsAssumption DEF JoinTask, Session
<1>3. \A i \in Joins : /\ join'[i].attempt = join[i].attempt
                       /\ (join[i].pc # "idle" => join'[i].pc # "idle")
  OBVIOUS
<1>4. joinSlot' # None => join'[joinSlot'].pc # "idle"
  BY <1>1, <1>3 DEF JoinInv
<1>5. ASSUME NEW i \in Joins
      PROVE  /\ join'[i].attempt <= device.attempts
             /\ join'[i].pc \in {"idle", "sleep", "merged", "empty", "load", "answer"} =>
                  join'[i].sess = None
             /\ join'[i].sess # None => join'[i].sess <= sessions'
             /\ join'[i].pc \in {"load", "register", "answer", "send", "sent"} => join'[i].item # None
             /\ join'[i].item # None => join'[join'[i].item].pc # "idle"
  <2>1. CASE i = j
    BY <1>1, <1>2, <1>3, <2>1 DEF JoinInv
  <2>2. CASE i # j
    BY <1>1, <1>2, <1>3, <2>2 DEF JoinInv
  <2> QED
    BY <2>1, <2>2
<1>6. ASSUME NEW i \in Joins, device.joining, join'[i].pc \in Answered,
             join'[join'[i].item].attempt = device.attempts
      PROVE  join'[i].sess > device.sess
  <2>1. CASE i # j
    <3>1. join[i].item # None
      BY <1>6, <2>1 DEF JoinInv, Answered
    <3>2. join[join[i].item].attempt = device.attempts
      BY <1>2, <1>3, <1>6, <2>1, <3>1
    <3> QED
      BY <1>6, <2>1, <3>2 DEF JoinInv
  <2>2. CASE i = j /\ join[j].pc \in Answered
    <3>1. join[j].item # None
      BY <2>2 DEF JoinInv, Answered
    <3>2. join[join[j].item].attempt = device.attempts
      BY <1>2, <1>3, <1>6, <2>2, <3>1
    <3> QED
      BY <1>6, <2>2, <3>2 DEF JoinInv
  <2>3. CASE i = j /\ join[j].pc \notin Answered
    BY <1>6, <2>3
  <2> QED
    BY <2>1, <2>2, <2>3
<1> QED
  BY <1>4, <1>5, <1>6 DEF JoinInv

\* The joins and the device keep their order.
LEMMA JoinInvStep ==
    ASSUME TypeInv, JoinInv, AgeInv, SessionInv, Next
    PROVE  JoinInv'
<1>1. /\ join \in [Joins -> JoinTask] /\ sessions \in Nat /\ joinSlot \in Joins \cup {None}
      /\ device.attempts \in Nat /\ device.sess \in Nat /\ None \notin Joins
      /\ device \in [classC : BOOLEAN, sess : Session, next : Nat, joining : BOOLEAN,
                     attempts : 0 .. MaxAttempts, resets : 0 .. MaxResets]
  BY SetsAssumption, BoundsAssumption DEF TypeInv, TypeOK, Session
<1>2. \A i \in Joins : /\ join[i].attempt \in Nat /\ join[i].item \in Joins \cup {None}
                       /\ join[i].sess \in Nat \cup {None}
  BY <1>1, BoundsAssumption DEF JoinTask, Session
<1>3. device.sess <= sessions
  BY DEF AgeInv
<1>4. CASE DeviceJoin
  <2>1. /\ device'.attempts = device.attempts + 1 /\ device'.sess = device.sess
        /\ UNCHANGED <<join, joinSlot, sessions>>
    BY <1>1, <1>4 DEF DeviceJoin
  <2>2. \A i \in Joins : join[i].item # None =>
          join[join[i].item].attempt < device'.attempts
    BY <1>1, <1>2, <2>1 DEF JoinInv
  <2>3. \A i \in Joins : join[i].pc \in Answered => join[i].item # None
    BY DEF JoinInv, Answered
  <2>4. \A i \in Joins : join[i].attempt <= device'.attempts
    BY <1>1, <1>2, <2>1 DEF JoinInv
  <2>5. \A i \in Joins : join[i].pc \in Answered =>
          join[join[i].item].attempt # device'.attempts
    BY <1>1, <1>2, <2>2, <2>3, <2>1
  <2> QED
    BY <2>1, <2>4, <2>5 DEF JoinInv
<1>5. ASSUME NEW j \in Joins, NEW a \in 1 .. device.attempts, NEW s \in Rssi, JoinReceive(j, a, s)
      PROVE  JoinInv'
  <2>1. /\ join[j].pc = "idle" /\ join'[j].pc \in {"sleep", "merged"} /\ join'[j].sess = None
        /\ join'[j].item = None /\ join'[j].attempt = a
        /\ \A i \in Joins \ {j} : join'[i] = join[i]
        /\ joinSlot' \in {j, joinSlot} /\ UNCHANGED <<device, sessions>>
    BY <1>1, <1>5 DEF JoinReceive, NewJoin
  <2>2. \A i \in Joins : join[i].item # j
    BY <1>1, <2>1 DEF JoinInv
  <2>3. joinSlot' # None => join'[joinSlot'].pc # "idle"
    BY <1>1, <2>1 DEF JoinInv
  <2>4. ASSUME NEW i \in Joins, i # j
        PROVE  /\ join'[i].attempt <= device.attempts
               /\ join'[i].pc \in {"idle", "sleep", "merged", "empty", "load", "answer"} =>
                    join'[i].sess = None
               /\ join'[i].sess # None => join'[i].sess <= sessions
               /\ join'[i].pc \in {"load", "register", "answer", "send", "sent"} =>
                    join'[i].item # None
               /\ join'[i].item # None => join'[join'[i].item].pc # "idle"
               /\ (device.joining /\ join'[i].pc \in Answered
                    /\ join'[join'[i].item].attempt = device.attempts) => join'[i].sess > device.sess
    <3>1. join'[i] = join[i]
      BY <2>1, <2>4
    <3>2. join[i].item # None => join'[join[i].item] = join[join[i].item]
      BY <1>2, <2>1, <2>2
    <3>3. join[i].pc \in Answered => join[i].item # None
      BY DEF JoinInv, Answered
    <3> QED
      BY <3>1, <3>2, <3>3 DEF JoinInv
  <2>5. a <= device.attempts
    BY <1>1
  <2> QED
    BY <2>1, <2>3, <2>4, <2>5 DEF JoinInv, Answered
<1>6. ASSUME NEW j \in Joins, JoinWake(j) PROVE JoinInv'
  <2>1. /\ join[j].pc = "sleep" /\ \A i \in Joins \ {j} : join'[i] = join[i]
        /\ join'[j].pc = IF joinSlot = None THEN "empty" ELSE "load"
        /\ join'[j].item = joinSlot /\ join'[j].attempt = join[j].attempt
        /\ join'[j].sess = join[j].sess /\ joinSlot' = None /\ UNCHANGED <<device, sessions>>
    BY <1>1, <1>6 DEF JoinWake, JoinTask
  <2>2. join'[j].sess = None
    BY <2>1 DEF JoinInv
  <2>3. join'[j].pc \in {"empty", "load"} /\ (joinSlot = None => join'[j].pc = "empty")
    BY <2>1
  <2> QED
    BY <1>1, <1>3, <2>1, <2>2, <2>3, JoinTaskInv DEF Answered
<1>7. ASSUME NEW j \in Joins, JoinTimer(j) PROVE JoinInv'
  BY <1>7 DEF JoinTimer, JoinInv
<1>8. ASSUME NEW j \in Joins, JoinLoad(j) PROVE JoinInv'
  <2>1. /\ join[j].pc = "load" /\ \A i \in Joins \ {j} : join'[i] = join[i]
        /\ join'[j].pc \in {"register", "answer"} /\ join'[j].sess \in {dbSess, None}
        /\ join'[j].pc = "answer" => join'[j].sess = None
        /\ join'[j].item = join[j].item /\ join'[j].attempt = join[j].attempt
        /\ UNCHANGED <<device, sessions, joinSlot>>
    BY <1>1, <1>8 DEF JoinLoad, JoinTask
  <2>2. dbSess <= sessions /\ dbSess \in Nat
    <3>1. dbSess \in Nat /\ air \in Seq(Frame)
      BY DEF TypeInv, TypeOK, Session
    <3>2. \A i \in 1 .. Len(air) : air[i].sess \in Nat
      <4>1. \A i \in 1 .. Len(air) : air[i] \in Frame
        BY <3>1
      <4> QED
        BY <4>1 DEF Frame, Session
    <3> QED
      BY <1>1, <3>1, <3>2 DEF SessionInv, Confirmed, AgeInv
  <2>3. join[j].item # None
    BY <2>1 DEF JoinInv
  <2> QED
    BY <1>1, <1>3, <2>1, <2>2, <2>3, JoinTaskInv DEF Answered
<1>9. ASSUME NEW j \in Joins, JoinRegister(j) PROVE JoinInv'
  <2>1. /\ join[j].pc = "register" /\ \A i \in Joins \ {j} : join'[i] = join[i]
        /\ join'[j].pc = "answer" /\ join'[j].sess = None
        /\ join'[j].item = join[j].item /\ join'[j].attempt = join[j].attempt
        /\ UNCHANGED <<device, sessions, joinSlot>>
    BY <1>1, <1>9 DEF JoinRegister, JoinTask
  <2>2. join[j].item # None
    BY <2>1 DEF JoinInv
  <2> QED
    BY <1>1, <1>3, <2>1, <2>2, JoinTaskInv DEF Answered
<1>10. ASSUME NEW j \in Joins, JoinAnswer(j) PROVE JoinInv'
  <2>1. /\ join[j].pc = "answer" /\ \A i \in Joins \ {j} : join'[i] = join[i]
        /\ sessions' = sessions + 1
        /\ join'[j].pc = "send" /\ join'[j].sess = sessions'
        /\ join'[j].item = join[j].item /\ join'[j].attempt = join[j].attempt
        /\ UNCHANGED <<device, joinSlot>>
    BY <1>1, <1>10 DEF JoinAnswer, JoinTask
  <2>2. join[j].item # None
    BY <2>1 DEF JoinInv
  <2>3. sessions' > device.sess /\ sessions' \in Nat /\ sessions <= sessions'
    BY <1>1, <1>3, <2>1
  <2> QED
    BY <1>1, <1>3, <2>1, <2>2, <2>3, JoinTaskInv DEF Answered
<1>11. ASSUME NEW j \in Joins, JoinSend(j) \/ JoinFails(j) PROVE JoinInv'
  <2>1. /\ join[j].pc \in {"load", "register", "answer", "send"}
        /\ \A i \in Joins \ {j} : join'[i] = join[i]
        /\ join'[j].pc \in {"sent", "failed"} /\ join'[j].sess = join[j].sess
        /\ join'[j].pc = "sent" => join[j].pc = "send"
        /\ join'[j].item = join[j].item /\ join'[j].attempt = join[j].attempt
        /\ UNCHANGED <<device, joinSlot, sessions>>
    BY <1>1, <1>11 DEF JoinSend, JoinFails, JoinTask
  <2>2. join[j].item # None /\ (join[j].sess # None => join[j].sess <= sessions)
    BY <2>1 DEF JoinInv
  <2> QED
    BY <1>1, <1>3, <2>1, <2>2, JoinTaskInv DEF Answered
<1>12. ASSUME NEW j \in Joins, DeviceAccept(j) PROVE JoinInv'
  BY <1>1, <1>12 DEF DeviceAccept, JoinInv
<1>13. CASE Restart
  <2>1. /\ \A i \in Joins : \/ join'[i] = join[i]
                            \/ /\ join[i].pc # "idle" /\ join'[i].pc = "failed"
                               /\ join'[i].attempt = join[i].attempt
                               /\ join'[i].sess = join[i].sess /\ join'[i].item = join[i].item
        /\ joinSlot' = None /\ UNCHANGED <<device, sessions>>
    BY <1>1, <1>13 DEF Restart, JoinTask
  <2>2. \A i \in Joins : join'[i].attempt = join[i].attempt
                         /\ (join[i].pc # "idle" => join'[i].pc # "idle")
    BY <2>1
  <2>3. ASSUME NEW i \in Joins
        PROVE  /\ join'[i].item # None => join'[join'[i].item].pc # "idle"
               /\ (device.joining /\ join'[i].pc \in Answered
                    /\ join'[join'[i].item].attempt = device.attempts) => join'[i].sess > device.sess
    <3>1. join'[i].item = join[i].item
      BY <2>1
    <3>2. join[i].item # None => join'[join[i].item].attempt = join[join[i].item].attempt
                                 /\ join'[join[i].item].pc # "idle"
      BY <1>2, <2>2 DEF JoinInv
    <3>3. join'[i].pc \in Answered => join'[i] = join[i] /\ join[i].item # None
      BY <2>1 DEF JoinInv, Answered
    <3> QED
      BY <3>1, <3>2, <3>3 DEF JoinInv
  <2> QED
    BY <2>1, <2>2, <2>3 DEF JoinInv
<1>14. CASE UplinkNext
  <2>1. /\ UNCHANGED <<join, joinSlot, sessions>>
        /\ device'.attempts = device.attempts /\ device'.sess = device.sess
        /\ device'.joining = device.joining
    BY <1>1, <1>14, ZenonT(40) DEF UplinkNext, UplinkStep, DeviceSend, DeviceReset, Receive,
              Timer, UplinkFails, Load, Register, GetOtaa, DelOtaa, ActivateDb, Activate,
              StoreCount, Decode, ResetDown, Insert, Wake, Deliver, Report
  <2> QED
    BY <2>1 DEF JoinInv
<1>15. CASE DownlinkNext
  BY <1>15, ZenonT(40) DEF DownlinkNext, PullStep, Pull, IncrDown, SendDown, SendAck, IncrAck,
            DispatchStep, Dispatch, DispatchCount, DispatchSend, DispatchQueue, DispatchFails,
            JoinInv
<1> QED
  BY <1>4, <1>5, <1>6, <1>7, <1>8, <1>9, <1>10, <1>11, <1>12, <1>13, <1>14, <1>15
  DEF Next, JoinNext, JoinStep

-----------------------------------------------------------------------------
(* Sessions                                                                 *)

\* The pending session a task took is its own for good.
LEMMA OtaaStep ==
    ASSUME TypeInv, AgeInv, Next, NEW u \in Copies
    PROVE  /\ up[u].otaa # None => up'[u].otaa = up[u].otaa
           /\ (up'[u].otaa # None /\ up[u].otaa = None) => GetOtaa(u) /\ up'[u].otaa = pending
           /\ up'[u].pc \in {"idle", "load", "register", "getotaa"} => up'[u].otaa = None
<1>1. up \in [Copies -> UpTask]
  BY DEF TypeInv, TypeOK
<1>0. up[u] \in UpTask /\ (up[u].pc \in {"idle", "load", "register", "getotaa"} => up[u].otaa = None)
  BY <1>1 DEF AgeInv
<1>2. CASE up' = up
  BY <1>0, <1>2
<1>3. CASE JoinNext
  BY <1>2, <1>3 DEF JoinNext, JoinStep, DeviceJoin, JoinReceive, JoinWake, JoinTimer, JoinLoad,
              JoinRegister, JoinAnswer, JoinSend, DeviceAccept, JoinFails
<1>4. CASE \E v \in Copies : UplinkStep(v)
  BY <1>0, <1>1, <1>4 DEF UpTask, UplinkStep, Load, AfterLoad, Register, GetOtaa, DelOtaa,
        ActivateDb, Activate, StoreCount, Decode, ResetDown, Insert, Wake, Deliver, Report
<1>5. CASE \E v \in Copies : PullStep(v)
  BY <1>0, <1>1, <1>5 DEF UpTask, PullStep, Pull, IncrDown, SendDown, SendAck, IncrAck
<1>6. CASE \E r \in Requests : Dispatch(r) \/ DispatchStep(r) \/ DispatchFails(r)
  BY <1>2, <1>6 DEF DispatchStep, Dispatch, DispatchCount, DispatchSend, DispatchQueue,
        DispatchFails
<1>7. CASE Restart
  BY <1>0, <1>1, <1>7 DEF Restart, UpTask, Working
<1>8. CASE (\E k \in Kinds : DeviceSend(k)) \/ DeviceReset \/ \E v \in Copies : Timer(v)
  BY <1>2, <1>8 DEF DeviceSend, DeviceReset, Timer
<1>9. CASE \E v \in Copies : UplinkFails(v)
  BY <1>0, <1>1, <1>9 DEF UplinkFails, UpTask, Working
<1>10. CASE \E v \in Copies, i \in 1 .. Len(air), g \in Gateways, s \in Rssi : Receive(v, i, g, s)
  BY <1>0, <1>1, <1>10 DEF Receive, NewUp, UpTask
<1> QED
  BY <1>3, <1>4, <1>5, <1>6, <1>7, <1>8, <1>9, <1>10 DEF Next, UplinkNext, DownlinkNext

\* The steps that change what waits under lora:otaa, and the count of joins.
LEMMA PendingStep ==
    ASSUME TypeInv, Next
    PROVE  \/ UNCHANGED <<pending, sessions>>
           \/ \E j \in Joins : JoinAnswer(j)
           \/ \E u \in Copies : DelOtaa(u)
<1>1. CASE JoinNext
  BY <1>1 DEF JoinNext, JoinStep, DeviceJoin, JoinReceive, JoinWake, JoinTimer, JoinLoad,
              JoinRegister, WriteRegistered, JoinSend, DeviceAccept, JoinFails
<1>2. CASE UplinkNext
  <2>1. ASSUME NEW u \in Copies, UplinkStep(u), ~DelOtaa(u) PROVE UNCHANGED <<pending, sessions>>
    BY <2>1 DEF UplinkStep, Load, Register, WriteRegistered, GetOtaa, ActivateDb, Activate, Decode,
                ResetDown, Insert, Wake, Deliver, Report
  <2> QED
    BY <1>2, <2>1 DEF UplinkNext, DeviceSend, DeviceReset, Receive, Timer, UplinkFails
<1>3. CASE DownlinkNext
  BY <1>3 DEF DownlinkNext, PullStep, Pull, IncrDown, SendDown, SendAck, IncrAck, DispatchStep,
              Dispatch, DispatchCount, DispatchSend, DispatchQueue, DispatchFails
<1>4. CASE Restart
  BY <1>4 DEF Restart
<1> QED
  BY <1>1, <1>2, <1>3, <1>4 DEF Next

\* The device changes its session only for a newer one, and what it sends
\* carries the one it uses.
LEMMA DeviceStep ==
    ASSUME TypeInv, JoinInv, Next
    PROVE  /\ \/ device'.sess = device.sess
              \/ \E j \in Joins : DeviceAccept(j) /\ device'.sess = join[j].sess
                                  /\ join[j].sess > device.sess /\ join[j].sess <= sessions
           /\ \/ air' = air
              \/ \E k \in Kinds : DeviceSend(k) /\ air' = Append(air, [sess |-> device.sess,
                    n |-> device.next, conf |-> k.conf, data |-> k.data])
<1>1. device \in [classC : BOOLEAN, sess : Session, next : Nat, joining : BOOLEAN,
                     attempts : 0 .. MaxAttempts, resets : 0 .. MaxResets]
  BY DEF TypeInv, TypeOK
<1>2. ASSUME NEW j \in Joins, DeviceAccept(j)
      PROVE  /\ device'.sess = join[j].sess /\ air' = air
             /\ join[j].sess > device.sess /\ join[j].sess <= sessions
  <2>1. join[j].sess # None
    BY <1>2, NoneAssumption DEF DeviceAccept, TypeInv, WellFounded
  <2>2. join[j].sess > device.sess
    BY <1>2 DEF DeviceAccept, JoinInv, Answered
  <2>3. join[j].sess <= sessions
    BY <2>1 DEF JoinInv
  <2> QED
    BY <1>1, <1>2, <2>2, <2>3 DEF DeviceAccept
<1>3. CASE JoinNext
  BY <1>1, <1>2, <1>3 DEF JoinNext, JoinStep, DeviceJoin, JoinReceive, JoinWake, JoinTimer,
              JoinLoad, JoinRegister, JoinAnswer, JoinSend, JoinFails
<1>4. CASE UplinkNext
  BY <1>1, <1>4, ZenonT(40) DEF UplinkNext, UplinkStep, DeviceSend, DeviceReset, Receive, Timer,
            UplinkFails, Load, Register, GetOtaa, DelOtaa, ActivateDb, Activate, StoreCount,
            Decode, ResetDown, Insert, Wake, Deliver, Report
<1>5. CASE DownlinkNext
  BY <1>5 DEF DownlinkNext, PullStep, Pull, IncrDown, SendDown, SendAck, IncrAck, DispatchStep,
              Dispatch, DispatchCount, DispatchSend, DispatchQueue, DispatchFails
<1>6. CASE Restart
  BY <1>6 DEF Restart
<1> QED
  BY <1>3, <1>4, <1>5, <1>6 DEF Next

\* Every step keeps the order of the sessions.
LEMMA AgeInvStep ==
    ASSUME TypeInv, JoinInv, AgeInv, Next
    PROVE  AgeInv'
<1>1. /\ up \in [Copies -> UpTask] /\ sessions \in Nat /\ device.sess \in Nat
      /\ pending \in Nat \cup {None} /\ air \in Seq(Frame)
  BY DEF TypeInv, TypeOK, Session
<1>2. \A u \in Copies : up[u].otaa \in Nat \cup {None}
  BY <1>1 DEF UpTask, Session
<1>3. sessions' \in Nat /\ sessions <= sessions'
      /\ (pending' # None => pending' \in 1 .. sessions' /\ (pending' = pending \/ sessions < pending'))
  <2>1. CASE UNCHANGED <<pending, sessions>>
    BY <1>1, <2>1 DEF AgeInv
  <2>2. ASSUME NEW j \in Joins, JoinAnswer(j)
        PROVE  sessions' = sessions + 1 /\ pending' = sessions'
    BY <2>2 DEF JoinAnswer
  <2>3. ASSUME NEW u \in Copies, DelOtaa(u) PROVE pending' = None /\ sessions' = sessions
    BY <2>3 DEF DelOtaa, joinVars
  <2> QED
    BY <1>1, <2>1, <2>2, <2>3, PendingStep
<1>4. device'.sess <= sessions' /\ device.sess <= device'.sess
  <2>1. CASE device'.sess = device.sess
    BY <1>1, <1>3, <2>1 DEF AgeInv
  <2>2. ASSUME NEW j \in Joins, DeviceAccept(j), device'.sess = join[j].sess,
               join[j].sess > device.sess, join[j].sess <= sessions
        PROVE  device'.sess <= sessions' /\ device.sess <= device'.sess
    <3>1. sessions' = sessions /\ join[j].sess \in Nat
      BY <2>2 DEF DeviceAccept, joinVars, TypeInv, WellFounded, Session
    <3> QED
      BY <1>1, <2>2, <3>1
  <2> QED
    BY <2>1, <2>2, DeviceStep
<1>5. \A i \in 1 .. Len(air') : air'[i].sess <= device'.sess
  <2>1. \A i \in 1 .. Len(air) : air[i].sess \in Nat /\ air[i].sess <= device.sess
    <3>1. \A i \in 1 .. Len(air) : air[i] \in Frame
      BY <1>1
    <3> QED
      BY <3>1 DEF Frame, Session, AgeInv
  <2>2. CASE air' = air
    <3>1. device'.sess \in Nat
      BY DeviceStep, <1>1 DEF DeviceAccept, TypeInv, WellFounded, Session
    <3> QED
      BY <1>1, <1>4, <2>1, <2>2, <3>1
  <2>3. ASSUME NEW k \in Kinds,
               air' = Append(air, [sess |-> device.sess, n |-> device.next,
                                   conf |-> k.conf, data |-> k.data]), DeviceSend(k)
        PROVE  \A i \in 1 .. Len(air') : air'[i].sess <= device'.sess
    <3>1. Len(air') = Len(air) + 1 /\ air'[Len(air) + 1].sess = device.sess
          /\ \A i \in 1 .. Len(air) : air'[i] = air[i]
      BY <1>1, <2>3
    <3>2. device'.sess = device.sess
      BY <2>3 DEF DeviceSend, TypeInv, TypeOK
    <3> QED
      BY <1>1, <2>1, <3>1, <3>2
  <2> QED
    BY <2>2, <2>3, DeviceStep
<1>6. ASSUME NEW u \in Copies
      PROVE  /\ up'[u].pc \in {"idle", "load", "register", "getotaa"} => up'[u].otaa = None
             /\ up'[u].otaa # None => up'[u].otaa \in 1 .. sessions'
             /\ (up'[u].otaa # None /\ pending' # None) => up'[u].otaa <= pending'
  <2>1. CASE up'[u].otaa = None
    BY <2>1
  <2>2. CASE up[u].otaa # None
    <3>1. up'[u].otaa = up[u].otaa /\ up[u].otaa \in 1 .. sessions
      BY <2>2, OtaaStep DEF AgeInv
    <3>2. pending' # None => up[u].otaa <= pending'
      <4>1. CASE pending' = pending
        BY <2>2, <4>1 DEF AgeInv
      <4>2. CASE pending' # None /\ sessions < pending'
        BY <1>1, <1>3, <3>1, <4>2
      <4> QED
        BY <1>3, <4>1, <4>2
    <3> QED
      BY <1>1, <1>3, <2>2, <3>1, <3>2, OtaaStep
  <2>3. CASE up[u].otaa = None /\ up'[u].otaa # None
    <3>1. GetOtaa(u) /\ up'[u].otaa = pending
      BY <2>3, OtaaStep
    <3>2. pending' = pending /\ sessions' = sessions
      BY <3>1 DEF GetOtaa, storeVars, joinVars
    <3>3. pending \in 1 .. sessions
      BY <2>3, <3>1 DEF AgeInv
    <3> QED
      BY <1>1, <2>3, <3>1, <3>2, <3>3, OtaaStep
  <2> QED
    BY <2>1, <2>2, <2>3
<1> QED
  BY <1>3, <1>4, <1>5, <1>6 DEF AgeInv

\* A task that has taken a pending session checks the frame against it.
LEMMA DelotaaStep ==
    ASSUME TypeInv, Next, NEW u \in Copies, up[u].pc = "delotaa", MicOk(u, up[u].otaa, Fcnt(u))
    PROVE  up'[u].pc \in {"delotaa", "activatedb", "failed"}
<1>1. up \in [Copies -> UpTask]
  BY DEF TypeInv, TypeOK
<1>3. CASE JoinNext
  BY <1>3 DEF JoinNext, JoinStep, DeviceJoin, JoinReceive, JoinWake, JoinTimer, JoinLoad,
              JoinRegister, JoinAnswer, JoinSend, DeviceAccept, JoinFails
<1>4. CASE \E v \in Copies : UplinkStep(v)
  BY <1>1, <1>4 DEF UpTask, UplinkStep, Load, AfterLoad, Register, GetOtaa, DelOtaa,
        ActivateDb, Activate, StoreCount, Decode, ResetDown, Insert, Wake, Deliver, Report
<1>5. CASE \E v \in Copies : PullStep(v)
  BY <1>1, <1>5 DEF UpTask, PullStep, Pull, IncrDown, SendDown, SendAck, IncrAck
<1>6. CASE \E r \in Requests : Dispatch(r) \/ DispatchStep(r) \/ DispatchFails(r)
  BY <1>6 DEF DispatchStep, Dispatch, DispatchCount, DispatchSend, DispatchQueue, DispatchFails
<1>7. CASE Restart
  BY <1>1, <1>7 DEF Restart, UpTask, Working
<1>8. CASE (\E k \in Kinds : DeviceSend(k)) \/ DeviceReset \/ \E v \in Copies : Timer(v)
  BY <1>8 DEF DeviceSend, DeviceReset, Timer
<1>9. CASE \E v \in Copies : UplinkFails(v)
  BY <1>1, <1>9 DEF UplinkFails, UpTask, Working
<1>10. CASE \E v \in Copies, i \in 1 .. Len(air), g \in Gateways, s \in Rssi : Receive(v, i, g, s)
  BY <1>1, <1>10 DEF Receive, NewUp, UpTask
<1> QED
  BY <1>3, <1>4, <1>5, <1>6, <1>7, <1>8, <1>9, <1>10 DEF Next, UplinkNext, DownlinkNext

\* A task whose frame was good under the pending session activates it or
\* fails.
LEMMA ActivatedStep ==
    ASSUME TypeInv, Next, NEW u \in Copies, up[u].pc \in {"activatedb", "activate", "failed"}
    PROVE  up'[u].pc \in {"activatedb", "activate", "failed"} \/ Activate(u)
<1>1. up \in [Copies -> UpTask]
  BY DEF TypeInv, TypeOK
<1>3. CASE JoinNext
  BY <1>3 DEF JoinNext, JoinStep, DeviceJoin, JoinReceive, JoinWake, JoinTimer, JoinLoad,
              JoinRegister, JoinAnswer, JoinSend, DeviceAccept, JoinFails
<1>4. CASE \E v \in Copies : UplinkStep(v)
  <2>1. PICK v \in Copies : UplinkStep(v)
    BY <1>4
  <2>2. CASE v = u
    <3>1. ActivateDb(u) \/ Activate(u)
      BY <2>1, <2>2 DEF UplinkStep, Load, Register, GetOtaa, DelOtaa, Decode, ResetDown,
            Insert, Wake, Deliver, Report
    <3>2. CASE ActivateDb(u)
      BY <1>1, <3>2 DEF ActivateDb, UpTask
    <3> QED
      BY <3>1, <3>2
  <2>3. CASE v # u
    BY <1>1, <2>1, <2>3 DEF UplinkStep, Load, Register, GetOtaa, DelOtaa,
        ActivateDb, Activate, StoreCount, Decode, ResetDown, Insert, Wake, Deliver, Report
  <2> QED
    BY <2>2, <2>3
<1>5. CASE \E v \in Copies : PullStep(v)
  BY <1>1, <1>5 DEF UpTask, PullStep, Pull, IncrDown, SendDown, SendAck, IncrAck
<1>6. CASE \E r \in Requests : Dispatch(r) \/ DispatchStep(r) \/ DispatchFails(r)
  BY <1>6 DEF DispatchStep, Dispatch, DispatchCount, DispatchSend, DispatchQueue, DispatchFails
<1>7. CASE Restart
  BY <1>1, <1>7 DEF Restart, UpTask, Working
<1>8. CASE (\E k \in Kinds : DeviceSend(k)) \/ DeviceReset \/ \E v \in Copies : Timer(v)
  BY <1>8 DEF DeviceSend, DeviceReset, Timer
<1>9. CASE \E v \in Copies : UplinkFails(v)
  BY <1>1, <1>9 DEF UplinkFails, UpTask, Working
<1>10. CASE \E v \in Copies, i \in 1 .. Len(air), g \in Gateways, s \in Rssi : Receive(v, i, g, s)
  BY <1>1, <1>10 DEF Receive, NewUp, UpTask
<1> QED
  BY <1>3, <1>4, <1>5, <1>6, <1>7, <1>8, <1>9, <1>10 DEF Next, UplinkNext, DownlinkNext

\* A join task keeps the session it has created.
LEMMA NewSessionStep ==
    ASSUME TypeInv, JoinInv, Next, NEW j \in Joins, join[j].pc # "register", join[j].sess # None
    PROVE  join'[j].pc # "register" /\ join'[j].sess = join[j].sess
           /\ (join[j].pc \notin Answered => join'[j].pc \notin Answered)
<1>1. join \in [Joins -> JoinTask] /\ join[j] \in JoinTask
  BY DEF TypeInv, TypeOK
<1>2. join[j].pc \in {"send", "sent", "failed"}
  BY <1>1 DEF JoinInv, JoinTask, JoinPc
<1>3. CASE JoinNext
  <2>1. CASE join' = join
    BY <1>2, <2>1
  <2>2. ASSUME NEW i \in Joins,
               \/ \E a \in 1 .. device.attempts, s \in Rssi : JoinReceive(i, a, s)
               \/ JoinStep(i) \/ JoinFails(i)
        PROVE  join'[j].pc # "register" /\ join'[j].sess = join[j].sess
               /\ (join[j].pc \notin Answered => join'[j].pc \notin Answered)
    <3>1. CASE i # j
      <4>1. join'[j] = join[j]
        BY <1>1, <2>2, <3>1 DEF JoinStep, JoinReceive, JoinWake, JoinLoad, JoinRegister,
              JoinAnswer, JoinSend, JoinFails
      <4> QED
        BY <1>2, <4>1
    <3>2. CASE i = j
      <4>1. JoinSend(j) \/ JoinFails(j)
        BY <1>2, <2>2, <3>2 DEF JoinStep, JoinReceive, JoinWake, JoinLoad, JoinRegister,
              JoinAnswer
      <4> QED
        BY <1>1, <4>1 DEF JoinSend, JoinFails, Answered, JoinTask
    <3> QED
      BY <3>1, <3>2
  <2> QED
    BY <1>3, <2>1, <2>2 DEF JoinNext, DeviceJoin, JoinTimer, DeviceAccept
<1>4. CASE UplinkNext
  BY <1>4, ZenonT(40) DEF UplinkNext, UplinkStep, DeviceSend, DeviceReset, Receive, Timer,
            UplinkFails, Load, Register, GetOtaa, DelOtaa, ActivateDb, Activate, StoreCount,
            Decode, ResetDown, Insert, Wake, Deliver, Report
<1>5. CASE DownlinkNext
  BY <1>5 DEF DownlinkNext, PullStep, Pull, IncrDown, SendDown, SendAck, IncrAck, DispatchStep,
              Dispatch, DispatchCount, DispatchSend, DispatchQueue, DispatchFails
<1>6. CASE Restart
  BY <1>1, <1>2, <1>6 DEF Restart, JoinTask, Answered
<1> QED
  BY <1>3, <1>4, <1>5, <1>6 DEF Next

\* A join task gets a session by answering, and it is the one that waits.
LEMMA AnsweredStep ==
    ASSUME TypeInv, JoinInv, Next, NEW j \in Joins, join'[j].pc \in Answered
    PROVE  \/ join[j].pc \in Answered /\ join'[j].sess = join[j].sess
           \/ JoinAnswer(j) /\ join'[j].sess = pending'
<1>1. join \in [Joins -> JoinTask] /\ join[j] \in JoinTask
  BY DEF TypeInv, TypeOK
<1>3. CASE JoinNext
  <2>1. CASE join' = join
    BY <2>1
  <2>2. ASSUME NEW i \in Joins,
               \/ \E a \in 1 .. device.attempts, s \in Rssi : JoinReceive(i, a, s)
               \/ JoinStep(i) \/ JoinFails(i)
        PROVE  \/ join[j].pc \in Answered /\ join'[j].sess = join[j].sess
               \/ JoinAnswer(j) /\ join'[j].sess = pending'
    <3>1. CASE i # j
      <4>1. join'[j] = join[j]
        BY <1>1, <2>2, <3>1 DEF JoinStep, JoinReceive, JoinWake, JoinLoad, JoinRegister,
              JoinAnswer, JoinSend, JoinFails
      <4> QED
        BY <4>1
    <3>2. CASE i = j
      <4>1. JoinSend(j) \/ JoinAnswer(j)
        <5>1. ASSUME NEW a \in 1 .. device.attempts, NEW s \in Rssi, JoinReceive(j, a, s)
              PROVE  FALSE
          <6>1. join'[j].pc \in {"sleep", "merged"}
            BY <1>1, <5>1 DEF JoinReceive, NewJoin
          <6> QED
            BY <6>1 DEF Answered
        <5>2. ~(JoinWake(j) \/ JoinLoad(j) \/ JoinRegister(j) \/ JoinFails(j))
          BY <1>1 DEF JoinWake, JoinLoad, JoinRegister, JoinFails, JoinTask, Answered
        <5> QED
          BY <2>2, <3>2, <5>1, <5>2 DEF JoinStep
      <4>2. CASE JoinSend(j)
        BY <1>1, <4>2 DEF JoinSend, Answered, JoinTask
      <4>3. CASE JoinAnswer(j)
        BY <1>1, <4>3 DEF JoinAnswer, JoinTask
      <4> QED
        BY <4>1, <4>2, <4>3
    <3> QED
      BY <3>1, <3>2
  <2> QED
    BY <1>3, <2>1, <2>2 DEF JoinNext, DeviceJoin, JoinTimer, DeviceAccept
<1>4. CASE UplinkNext
  <2>1. UNCHANGED join
    BY <1>4, ZenonT(40) DEF UplinkNext, UplinkStep, DeviceSend, DeviceReset, Receive, Timer,
              UplinkFails, Load, Register, GetOtaa, DelOtaa, ActivateDb, Activate, Decode,
              ResetDown, Insert, Wake, Deliver, Report
  <2> QED
    BY <2>1
<1>5. CASE DownlinkNext
  <2>1. UNCHANGED join
    BY <1>5 DEF DownlinkNext, PullStep, Pull, IncrDown, SendDown, SendAck, IncrAck, DispatchStep,
              Dispatch, DispatchCount, DispatchSend, DispatchQueue, DispatchFails
  <2> QED
    BY <2>1
<1>6. CASE Restart
  BY <1>1, <1>6 DEF Restart, JoinTask, Answered
<1> QED
  BY <1>3, <1>4, <1>5, <1>6 DEF Next

\* A frame and the task for it do not change, so neither does the verdict.
LEMMA MicStep ==
    ASSUME TypeInv, Next, NEW u \in Copies, NEW s, up[u].pc # "idle"
    PROVE  MicOk(u, s, Fcnt(u))' <=> MicOk(u, s, Fcnt(u))
<1>1. FrameOf(u)' = FrameOf(u) /\ Fcnt(u)' = Fcnt(u)
  BY FcntStep
<1> QED
  BY <1>1 DEF MicOk

\* A session that waits goes on waiting, until a task activates it or
\* something else takes its place.
LEMMA HeldStep ==
    ASSUME TypeInv, JoinInv, AgeInv, Next, NEW s \in Nat, s # 0, s <= sessions, Held(s)
    PROVE  Held(s)' \/ \E u \in Copies : Activate(u) /\ up[u].otaa = s
<1>1. /\ up \in [Copies -> UpTask] /\ join \in [Joins -> JoinTask] /\ sessions \in Nat
      /\ None \notin Nat
  BY NoneAssumption DEF TypeInv, TypeOK, Session
<1>2. CASE pending = s
  <2>1. CASE UNCHANGED <<pending, sessions>>
    BY <1>2, <2>1 DEF Held
  <2>2. ASSUME NEW j \in Joins, JoinAnswer(j) PROVE Held(s)'
    <3>1. join'[j].pc = "send" /\ join'[j].sess = sessions + 1
      BY <1>1, <2>2 DEF JoinAnswer, JoinTask
    <3>2. join'[j].sess # None /\ join'[j].sess > s
      BY <1>1, <3>1
    <3> QED
      BY <3>1, <3>2 DEF Held
  <2>3. ASSUME NEW u \in Copies, DelOtaa(u) PROVE Held(s)'
    <3>1. up[u].pc = "delotaa" /\ up[u].otaa # None /\ up[u].otaa \in Nat
      BY <1>1, <2>3 DEF DelOtaa, TypeInv, WellFounded, Session
    <3>2. up'[u].otaa = up[u].otaa
      BY <3>1, OtaaStep
    <3>3. up[u].otaa <= s
      BY <1>1, <1>2, <3>1 DEF AgeInv
    <3>4. CASE up[u].otaa < s
      BY <3>1, <3>2, <3>4 DEF Held
    <3>5. CASE up[u].otaa = s
      <4>1. up'[u].pc = IF MicOk(u, s, Fcnt(u)) THEN "activatedb" ELSE "rejected"
        BY <1>1, <2>3, <3>5 DEF DelOtaa, UpTask
      <4>2. CASE MicOk(u, s, Fcnt(u))
        BY <3>2, <3>5, <4>1, <4>2 DEF Held
      <4>3. CASE ~MicOk(u, s, Fcnt(u))
        <5>1. ~MicOk(u, s, Fcnt(u))'
          BY <3>1, <4>3, MicStep
        <5> QED
          BY <3>2, <3>5, <5>1 DEF Held
      <4> QED
        BY <4>2, <4>3
    <3> QED
      BY <3>1, <3>3, <3>4, <3>5
  <2> QED
    BY <2>1, <2>2, <2>3, PendingStep
<1>3. ASSUME NEW u \in Copies, up[u].otaa = s,
             \/ up[u].pc \in {"delotaa", "activatedb", "activate", "failed"}
             \/ ~MicOk(u, s, Fcnt(u))
      PROVE  Held(s)' \/ (Activate(u) /\ up[u].otaa = s)
  <2>1. up[u].otaa # None /\ up[u].pc # "idle"
    BY <1>1, <1>3 DEF AgeInv
  <2>2. up'[u].otaa = s
    BY <1>3, <2>1, OtaaStep
  <2>3. CASE ~MicOk(u, s, Fcnt(u))
    BY <2>1, <2>2, <2>3, MicStep DEF Held
  <2>4. CASE MicOk(u, s, Fcnt(u)) /\ up[u].pc = "delotaa"
    <3>1. up'[u].pc \in {"delotaa", "activatedb", "failed"}
      BY <1>1, <1>3, <2>4, DelotaaStep
    <3> QED
      BY <2>2, <3>1 DEF Held
  <2>5. CASE up[u].pc \in {"activatedb", "activate", "failed"}
    <3>1. up'[u].pc \in {"activatedb", "activate", "failed"} \/ Activate(u)
      BY <2>5, ActivatedStep
    <3> QED
      BY <1>3, <2>2, <3>1 DEF Held
  <2> QED
    BY <1>3, <2>3, <2>4, <2>5
<1>4. ASSUME NEW u \in Copies, up[u].otaa # None, up[u].otaa < s PROVE Held(s)'
  BY <1>4, OtaaStep DEF Held
<1>5. ASSUME NEW j \in Joins, join[j].pc # "register", join[j].sess # None, join[j].sess > s
      PROVE  Held(s)'
  <2>1. join'[j].pc # "register" /\ join'[j].sess = join[j].sess
    BY <1>5, NewSessionStep
  <2> QED
    BY <1>5, <2>1 DEF Held
<1> QED
  BY <1>2, <1>3, <1>4, <1>5 DEF Held

\* What is written to redis and the row is not newer than what the device
\* uses.
LEMMA ConfirmedIsOld ==
    ASSUME TypeInv, AgeInv, NEW s \in Nat, Confirmed(s)
    PROVE  s <= device.sess
  BY DEF Confirmed, AgeInv, TypeInv, TypeOK, Session

\* That the session went back once is not forgotten.
LEMMA SessRewoundStep ==
    ASSUME TypeInv, Next, rewound.sess
    PROVE  rewound'.sess
<1>1. rewound \in [up : BOOLEAN, down : BOOLEAN, sess : BOOLEAN]
  BY DEF TypeInv, TypeOK
<1>2. CASE UNCHANGED rewound
  BY <1>2
<1>3. CASE \E u \in Copies : Register(u) \/ Activate(u) \/ Decode(u) \/ ResetDown(u)
  BY <1>1, <1>3 DEF Register, WriteRegistered, Activate, Decode, StoreCount, ResetDown
<1>4. CASE \E j \in Joins : JoinRegister(j)
  BY <1>1, <1>4 DEF JoinRegister, WriteRegistered
<1>5. CASE (\E u \in Copies : Deliver(u) \/ IncrDown(u) \/ IncrAck(u)) \/ \E r \in Requests : DispatchCount(r)
  BY <1>2, <1>5 DEF Deliver, IncrDown, IncrAck, DispatchCount
<1> QED
  BY <1>2, <1>3, <1>4, <1>5, StoredStep

\* The session in redis is replaced by the one a task activates, or the
\* history says so.
LEMMA ReplacedStep ==
    ASSUME TypeInv, AgeInv, SessionInv, Next, ~rewound'.sess,
           stored # None, stored.sess = device.sess
    PROVE  ~rewound.sess /\ stored' # None /\ stored'.sess = device.sess
<1>1. /\ rewound \in [up : BOOLEAN, down : BOOLEAN, sess : BOOLEAN]
      /\ up \in [Copies -> UpTask] /\ stored \in Info /\ None \notin Info /\ None \notin Session
      /\ stored.sess \in Nat
  <2>1. stored \in Info
    BY DEF TypeInv, TypeOK
  <2> QED
    BY <2>1, NoneAssumption DEF TypeInv, TypeOK, Info, Session
<1>2. CASE UNCHANGED <<stored, rewound>>
  BY <1>2
<1>3. ASSUME NEW s \in Nat, WriteRegistered(s), Confirmed(s)
      PROVE  ~rewound.sess /\ stored' # None /\ stored'.sess = device.sess
  <2>1. s <= device.sess
    BY <1>3, ConfirmedIsOld
  <2>2. stored'.sess = s /\ stored' \in Info /\ (rewound'.sess <=> rewound.sess \/ s < stored.sess)
    BY <1>1, <1>3 DEF WriteRegistered, Registered, Info, Session
  <2> QED
    BY <1>1, <2>1, <2>2
<1>4. ASSUME NEW u \in Copies, Activate(u)
      PROVE  ~rewound.sess /\ stored' # None /\ stored'.sess = device.sess
  <2>1. Confirmed(up[u].otaa) /\ up[u].otaa \in Nat /\ Fcnt(u) \in Nat
    <3>1. FrameOf(u) \in Frame
      BY <1>4 DEF Activate, TypeInv, TypeOK, WellFounded, FrameOf
    <3>2. FrameOf(u).n \in Nat
      BY <3>1 DEF Frame
    <3> QED
      BY <1>4, <3>2, ModulusAssumption DEF Activate, SessionInv, TypeInv, WellFounded, Session,
                Fcnt, Low
  <2>2. up[u].otaa <= device.sess
    BY <2>1, ConfirmedIsOld
  <2>3. stored'.sess = up[u].otaa /\ stored' \in Info
        /\ (rewound'.sess <=> rewound.sess \/ up[u].otaa < stored.sess)
    BY <1>1, <1>4, <2>1 DEF Activate, Info, Session
  <2> QED
    BY <1>1, <2>1, <2>2, <2>3
<1>5. ASSUME NEW u \in Copies,
             Decode(u) \/ ResetDown(u) \/ Deliver(u) \/ IncrDown(u) \/ IncrAck(u)
      PROVE  ~rewound.sess /\ stored' # None /\ stored'.sess = device.sess
  <2>1. stored' \in Info
    BY <1>1, RecordGrows
  <2>2. stored'.sess = stored.sess /\ rewound'.sess = rewound.sess
    BY <1>1, <1>5 DEF Decode, StoreCount, ResetDown, Deliver, IncrDown, IncrAck, CountDownlink, Info
  <2> QED
    BY <1>1, <2>1, <2>2
<1>6. ASSUME NEW r \in Requests, DispatchCount(r)
      PROVE  ~rewound.sess /\ stored' # None /\ stored'.sess = device.sess
  BY <1>1, <1>6, RecordGrows DEF DispatchCount, CountDownlink, Info
<1>7. ASSUME NEW u \in Copies, Register(u)
      PROVE  ~rewound.sess /\ stored' # None /\ stored'.sess = device.sess
  <2>1. up[u].snap.sess \in Nat
    BY <1>1 DEF UpTask, Info, Session
  <2> QED
    BY <1>3, <1>7, <2>1 DEF Register, SessionInv
<1>8. ASSUME NEW j \in Joins, JoinRegister(j)
      PROVE  ~rewound.sess /\ stored' # None /\ stored'.sess = device.sess
  BY <1>3, <1>8 DEF JoinRegister, SessionInv, TypeInv, WellFounded, Session
<1> QED
  BY <1>2, <1>4, <1>5, <1>6, <1>7, <1>8, StoredStep

\* Every step keeps the sessions the device uses or may still accept.
LEMMA KeptInvStep ==
    ASSUME TypeInv, JoinInv, AgeInv, SessionInv, SessionInv', TypeInv', KeptInv, Next
    PROVE  KeptInv'
<1>1. /\ up \in [Copies -> UpTask] /\ join \in [Joins -> JoinTask] /\ sessions \in Nat
      /\ device.sess \in Nat /\ device'.sess \in Nat /\ stored \in Info \cup {None}
      /\ None \notin Nat /\ None \notin Info /\ device.sess <= sessions
      /\ rewound \in [up : BOOLEAN, down : BOOLEAN, sess : BOOLEAN]
  BY NoneAssumption DEF TypeInv, TypeOK, Session, AgeInv
<1>2. device.sess <= device'.sess
  BY <1>1, DeviceStep
<1>3. ASSUME NEW u \in Copies, Activate(u)
      PROVE  /\ up[u].otaa \in Nat /\ up[u].otaa <= device.sess /\ device'.sess = device.sess
             /\ stored' # None /\ stored'.sess = up[u].otaa
  <2>1. up[u].otaa \in Nat /\ Confirmed(up[u].otaa)
    BY <1>3 DEF Activate, TypeInv, WellFounded, Session, SessionInv
  <2>2. up[u].otaa <= device.sess
    BY <2>1, ConfirmedIsOld
  <2>3. stored \in Info
    BY <1>3, LoadedTask DEF Activate, Loaded, UpPc, UpEnded
  <2>4. stored'.sess = up[u].otaa /\ stored' \in Info
    BY <1>3, <2>1, <2>3, RecordGrows DEF Activate, Info, Session
  <2> QED
    BY <1>1, <1>3, <2>1, <2>2, <2>4 DEF Activate, deviceVars
<1>4. ASSUME NEW j \in Joins, NEW s \in Nat, s = join'[j].sess,
             join'[j].pc \in Answered, s > device'.sess
      PROVE  Held(s)'
  <2>1. CASE JoinAnswer(j) /\ join'[j].sess = pending'
    BY <1>4, <2>1 DEF Held
  <2>2. CASE join[j].pc \in Answered /\ join'[j].sess = join[j].sess
    <3>1. s # 0 /\ s > device.sess /\ s <= sessions
      <4>1. s # None
        BY <1>1
      <4> QED
        BY <1>1, <1>2, <1>4, <2>2, <4>1 DEF JoinInv
    <3>2. Held(s)
      BY <1>4, <2>2, <3>1 DEF KeptInv
    <3>3. \A u \in Copies : ~(Activate(u) /\ up[u].otaa = s)
      BY <1>1, <1>3, <3>1
    <3> QED
      BY <3>1, <3>2, <3>3, HeldStep
  <2> QED
    BY <1>4, <2>1, <2>2, AnsweredStep
<1>5. \A j \in Joins : (join'[j].pc \in Answered /\ join'[j].sess > device'.sess)
        => Held(join[j].sess)'
  <2> SUFFICES ASSUME NEW j \in Joins, join'[j].pc \in Answered, join'[j].sess > device'.sess
               PROVE  Held(join[j].sess)'
    OBVIOUS
  <2>1. join'[j].sess \in Nat
    BY DEF TypeInv, WellFounded, Answered, Session
  <2>2. \A s \in Nat : s = join'[j].sess => Held(s)'
    BY <1>4
  <2>3. PICK s \in Nat : s = join'[j].sess
    BY <2>1
  <2>4. Held(s)'
    BY <2>2, <2>3
  <2> QED
    BY <2>3, <2>4 DEF Held, MicOk, Fcnt, FrameOf
<1>6. CASE device'.sess = device.sess
  <2>1. PICK s \in Nat : s = device.sess
    BY <1>1
  <2>2. s = device'.sess /\ s <= sessions
    BY <1>1, <1>6, <2>1
  <2>3. InUse(s)
    BY <2>1 DEF KeptInv
  <2>4. InUse(s)'
    <3>1. CASE s = 0 \/ rewound'.sess
      BY <3>1 DEF InUse
    <3>2. CASE ~rewound'.sess /\ rewound.sess
      BY <3>2, SessRewoundStep
    <3>3. CASE ~rewound'.sess /\ stored # None /\ stored.sess = s
      BY <2>1, <3>3, ReplacedStep DEF InUse
    <3>4. CASE s # 0 /\ Held(s)
      <4>1. Held(s)' \/ \E u \in Copies : Activate(u) /\ up[u].otaa = s
        BY <2>2, <3>4, HeldStep
      <4>2. Held(s)' \/ (stored' # None /\ stored'.sess = s)
        BY <1>3, <4>1
      <4> QED
        BY <4>2 DEF InUse
    <3> QED
      BY <2>3, <3>1, <3>2, <3>3, <3>4 DEF InUse
  <2>5. InUse(device.sess)'
    BY <2>2, <2>4 DEF InUse, Held, MicOk, Fcnt, FrameOf
  <2> QED
    BY <1>5, <2>5 DEF KeptInv
<1>7. ASSUME NEW j \in Joins, DeviceAccept(j), device'.sess = join[j].sess,
             join[j].sess > device.sess, join[j].sess <= sessions
      PROVE  KeptInv'
  <2>1. PICK s \in Nat : s = device'.sess
    BY <1>1
  <2>2. Held(s)
    BY <1>7, <2>1 DEF DeviceAccept, Answered, KeptInv
  <2>3. Held(s)'
    BY <1>7, <2>2 DEF Held, MicOk, Fcnt, FrameOf, DeviceAccept
  <2>4. InUse(device.sess)'
    BY <2>1, <2>3 DEF InUse, Held, MicOk, Fcnt, FrameOf
  <2> QED
    BY <1>5, <2>4 DEF KeptInv
<1> QED
  BY <1>6, <1>7, DeviceStep

\* The three parts are inductive together.
LEMMA KeptNext ==
    TypeInv /\ SessionInv /\ JoinInv /\ AgeInv /\ KeptInv /\ [Next]_vars
        => (JoinInv /\ AgeInv /\ KeptInv)'
<1> SUFFICES ASSUME TypeInv, SessionInv, JoinInv, AgeInv, KeptInv, [Next]_vars
             PROVE  (JoinInv /\ AgeInv /\ KeptInv)'
  OBVIOUS
<1>1. CASE Next
  <2>1. TypeInv' /\ SessionInv'
    BY <1>1, StepType, StepSession
  <2> QED
    BY <1>1, <2>1, JoinInvStep, AgeInvStep, KeptInvStep
<1>2. CASE UNCHANGED vars
  BY <1>2, ZenonT(40) DEF vars, JoinInv, AgeInv, KeptInv, InUse, Held, MicOk, Fcnt, FrameOf
<1> QED
  BY <1>1, <1>2

\* A session the device has accepted is in use or waits in redis, unless one
\* of the things that may take its place has: for every number of devices'
\* frames, joins, tasks, faults and restarts.
THEOREM SessionKeptAlways == Spec => []SessionKept
<1>1. JoinInv /\ AgeInv /\ KeptInv => SessionKept
  BY DEF KeptInv, InUse, Held, SessionKept
<1> QED
  BY InitType, StepType, InitSession, StepSession, InitKept, KeptNext, <1>1, PTL DEF Spec


-----------------------------------------------------------------------------
(* The counter kept stays within reach of the device's.                     *)

\* A task that will write a record of its own.
Registering == \/ \E u \in Copies : up[u].pc = "register"
               \/ \E j \in Joins : join[j].pc = "register"

\* Either the device counts from zero since the start of the run, or it has
\* neither joined nor been reset, and the counter kept is the one the run
\* started from or that of a frame on the air.
NearInv ==
    /\ device.next + MaxFrames < CounterSpace + Len(air)
    /\ \/ device.next <= Len(air)
       \/ /\ stored \in Info /\ ~Registering
          /\ device.sess = 0
          /\ stored.up <= device.next /\ device.next <= stored.up + Len(air) + 1
          /\ \A i \in 1 .. Len(air) :
               air[i].sess = 0 /\ air[i].n <= device.next /\ device.next <= air[i].n + Len(air)

\* What the device does to its counter.
LEMMA CounterStep ==
    ASSUME TypeInv, Next
    PROVE  \/ device'.next = device.next /\ device'.sess = device.sess /\ air' = air
           \/ device'.next = 0 /\ air' = air
           \/ /\ Len(air') = Len(air) + 1 /\ device'.next = device.next + 1
              /\ air'[Len(air) + 1].sess = device.sess /\ air'[Len(air) + 1].n = device.next
              /\ \A i \in 1 .. Len(air) : air'[i] = air[i]
              /\ device'.sess = device.sess /\ UNCHANGED <<stored, up, join>>
<1>1. device \in [classC : BOOLEAN, sess : Session, next : Nat, joining : BOOLEAN,
                  attempts : 0 .. MaxAttempts, resets : 0 .. MaxResets] /\ air \in Seq(Frame)
  BY DEF TypeInv, TypeOK
<1>2. CASE JoinNext
  BY <1>1, <1>2, ZenonT(40) DEF JoinNext, JoinStep, DeviceJoin, JoinReceive, JoinWake, JoinTimer,
              JoinLoad, JoinRegister, JoinAnswer, JoinSend, JoinFails, DeviceAccept
<1>3. ASSUME NEW k \in Kinds, DeviceSend(k)
      PROVE  /\ Len(air') = Len(air) + 1 /\ device'.next = device.next + 1
             /\ air'[Len(air) + 1].sess = device.sess /\ air'[Len(air) + 1].n = device.next
             /\ \A i \in 1 .. Len(air) : air'[i] = air[i]
             /\ device'.sess = device.sess /\ UNCHANGED <<stored, up, join>>
  <2> DEFINE f == [sess |-> device.sess, n |-> device.next, conf |-> k.conf, data |-> k.data]
  <2>1. f.sess = device.sess /\ f.n = device.next /\ air' = Append(air, f)
    BY <1>3 DEF DeviceSend
  <2>2. device'.next = device.next + 1 /\ device'.sess = device.sess /\ UNCHANGED <<stored, up, join>>
    BY <1>1, <1>3 DEF DeviceSend
  <2> HIDE DEF f
  <2> QED
    BY <1>1, <2>1, <2>2
<1>4. CASE DeviceReset
  BY <1>1, <1>4 DEF DeviceReset
<1>5. CASE UplinkNext /\ ~DeviceReset /\ ~\E k \in Kinds : DeviceSend(k)
  <2>1. ASSUME NEW u \in Copies, UplinkStep(u) PROVE UNCHANGED <<device, air>>
    BY <2>1 DEF UplinkStep, Load, Register, GetOtaa, DelOtaa, ActivateDb, Activate, Decode,
                ResetDown, Insert, Wake, Deliver, Report
  <2> QED
    BY <1>5, <2>1 DEF UplinkNext, Receive, Timer, UplinkFails
<1>6. CASE DownlinkNext
  BY <1>6 DEF DownlinkNext, PullStep, Pull, IncrDown, SendDown, SendAck, IncrAck, DispatchStep,
              Dispatch, DispatchCount, DispatchSend, DispatchQueue, DispatchFails
<1>7. CASE Restart
  BY <1>7 DEF Restart
<1> QED
  BY <1>2, <1>3, <1>4, <1>5, <1>6, <1>7 DEF Next

\* A task registers the device only if it found no record.
LEMMA RegisteringStep ==
    ASSUME TypeInv, Next, stored \in Info, ~Registering
    PROVE  ~Registering'
<1>1. up \in [Copies -> UpTask] /\ join \in [Joins -> JoinTask] /\ stored # None
  BY NoneAssumption DEF TypeInv, TypeOK
<1>2. ASSUME NEW u \in Copies PROVE up'[u].pc # "register"
  <2>0. up[u].pc # "register" /\ up[u] \in UpTask
    BY <1>1 DEF Registering
  <2>1. CASE JoinNext
    BY <2>0, <2>1 DEF JoinNext, JoinStep, DeviceJoin, JoinReceive, JoinWake, JoinTimer,
              JoinLoad, JoinRegister, JoinAnswer, JoinSend, JoinFails, DeviceAccept
  <2>5. ASSUME NEW v \in Copies, PullStep(v) PROVE up'[u].pc # "register"
    <3>1. CASE v # u
      BY <1>1, <2>0, <2>5, <3>1 DEF PullStep, Pull, IncrDown, SendDown, SendAck, IncrAck
    <3>2. CASE v = u
      BY <1>1, <2>0, <2>5, <3>2 DEF PullStep, Pull, IncrDown, SendDown, SendAck, IncrAck, UpTask
    <3> QED
      BY <3>1, <3>2
  <2>6. CASE \E r \in Requests : Dispatch(r) \/ DispatchStep(r) \/ DispatchFails(r)
    BY <2>0, <2>6 DEF DispatchStep, Dispatch, DispatchCount, DispatchSend, DispatchQueue,
              DispatchFails
  <2>2. ASSUME NEW v \in Copies, UplinkStep(v) PROVE up'[u].pc # "register"
    <3>1. CASE v # u
      BY <1>1, <2>0, <2>2, <3>1 DEF UplinkStep, Load, Register, GetOtaa, DelOtaa, ActivateDb,
              Activate, StoreCount, Decode, ResetDown, Insert, Wake, Deliver, Report
    <3>2. CASE v = u
      BY <1>1, <2>0, <2>2, <3>2 DEF UplinkStep, Load, AfterLoad, Register, GetOtaa, DelOtaa,
              ActivateDb, Activate, StoreCount, Decode, ResetDown, Insert, Wake, Deliver, Report,
              UpTask
    <3> QED
      BY <3>1, <3>2
  <2>3. CASE UplinkNext /\ ~\E v \in Copies : UplinkStep(v)
    <3>1. CASE up' = up
      BY <2>0, <3>1
    <3>2. ASSUME NEW v \in Copies, UplinkFails(v) PROVE up'[u].pc # "register"
      BY <1>1, <2>0, <3>2 DEF UplinkFails
    <3>3. ASSUME NEW v \in Copies, NEW i \in 1 .. Len(air), NEW g \in Gateways, NEW s \in Rssi,
                 Receive(v, i, g, s)
          PROVE  up'[u].pc # "register"
      BY <1>1, <2>0, <3>3 DEF Receive, NewUp
    <3> QED
      BY <2>3, <3>1, <3>2, <3>3 DEF UplinkNext, DeviceSend, DeviceReset, Timer
  <2>4. CASE Restart
    BY <1>1, <2>0, <2>4 DEF Restart
  <2> QED
    BY <2>1, <2>2, <2>3, <2>4, <2>5, <2>6 DEF Next, DownlinkNext
<1>3. ASSUME NEW j \in Joins PROVE join'[j].pc # "register"
  <2>0. join[j].pc # "register" /\ join[j] \in JoinTask
    BY <1>1 DEF Registering
  <2>1. CASE JoinNext
    <3>1. CASE join' = join
      BY <2>0, <3>1
    <3>2. ASSUME NEW i \in Joins, JoinStep(i) \/ JoinFails(i) PROVE join'[j].pc # "register"
      <4>1. CASE i # j
        BY <1>1, <2>0, <3>2, <4>1 DEF JoinStep, JoinWake, JoinLoad, JoinRegister, JoinAnswer,
              JoinSend, JoinFails
      <4>2. CASE i = j
        BY <1>1, <2>0, <3>2, <4>2 DEF JoinStep, JoinWake, JoinLoad, JoinRegister, JoinAnswer,
              JoinSend, JoinFails, JoinTask
      <4> QED
        BY <4>1, <4>2
    <3>3. ASSUME NEW i \in Joins, NEW a \in 1 .. device.attempts, NEW s \in Rssi, JoinReceive(i, a, s)
          PROVE  join'[j].pc # "register"
      BY <1>1, <2>0, <3>3 DEF JoinReceive, NewJoin
    <3> QED
      BY <2>1, <3>1, <3>2, <3>3 DEF JoinNext, DeviceJoin, JoinTimer, DeviceAccept
  <2>2. CASE UplinkNext
    BY <2>0, <2>2, ZenonT(40) DEF UplinkNext, UplinkStep, DeviceSend, DeviceReset, Receive,
              Timer, UplinkFails, Load, Register, GetOtaa, DelOtaa, ActivateDb, Activate,
              StoreCount, Decode, ResetDown, Insert, Wake, Deliver, Report
  <2>3. CASE DownlinkNext
    BY <2>0, <2>3 DEF DownlinkNext, PullStep, Pull, IncrDown, SendDown, SendAck, IncrAck,
              DispatchStep, Dispatch, DispatchCount, DispatchSend, DispatchQueue, DispatchFails
  <2>4. CASE Restart
    BY <1>1, <2>0, <2>4 DEF Restart
  <2> QED
    BY <2>1, <2>2, <2>3, <2>4 DEF Next
<1> QED
  BY <1>2, <1>3 DEF Registering

\* The counter written while no session is activated and nothing registered
\* is the one kept, or that of a frame the MIC has confirmed.
LEMMA KeptCounterStep ==
    ASSUME TypeInv, Next, stored \in Info, ~Registering,
           \A u \in Copies : up[u].pc # "activate"
    PROVE  stored'.up = stored.up \/ \E i \in 1 .. Len(air) : stored'.up = air[i].n
<1>1. CASE UNCHANGED <<stored, rewound>>
  BY <1>1
<1>2. ASSUME NEW u \in Copies, Decode(u)
      PROVE  stored'.up = stored.up \/ \E i \in 1 .. Len(air) : stored'.up = air[i].n
  <2>1. up[u].at \in 1 .. Len(air)
    BY <1>2 DEF Decode, TypeInv, WellFounded
  <2>2. stored' = stored \/ stored'.up = FrameOf(u).n
    BY <1>2 DEF Decode, StoreCount, MicOk, Info
  <2> QED
    BY <2>1, <2>2 DEF FrameOf
<1>3. ASSUME NEW u \in Copies, ResetDown(u) \/ Deliver(u) \/ IncrDown(u) \/ IncrAck(u)
      PROVE  stored'.up = stored.up
  BY <1>3 DEF ResetDown, Deliver, IncrDown, IncrAck, CountDownlink, Info
<1>4. ASSUME NEW r \in Requests, DispatchCount(r) PROVE stored'.up = stored.up
  BY <1>4 DEF DispatchCount, CountDownlink, Info
<1>5. \A u \in Copies : ~Register(u) /\ ~Activate(u)
  BY DEF Register, Activate, Registering
<1>6. \A j \in Joins : ~JoinRegister(j)
  BY DEF JoinRegister, Registering
<1> QED
  BY <1>1, <1>2, <1>3, <1>4, <1>5, <1>6, StoredStep

\* The bounds put in numbers.
LEMMA Bounds ==
    ASSUME MaxFrames + 1 < Half
    PROVE  /\ Modulus \in Nat \ {0} /\ Half \in Nat /\ Half <= Modulus /\ MaxFrames \in Nat
           /\ CounterSpace \in Nat /\ Modulus <= CounterSpace
<1>1. Modulus \in Nat \ {0} /\ Half \in Nat /\ Half <= Modulus /\ MaxFrames \in Nat
  BY ModulusAssumption, BoundsAssumption DEF Half
<1>2. \A m \in Nat \ {0} : m * m \in Nat /\ m <= m * m
  BY SMT
<1> QED
  BY <1>1, <1>2 DEF CounterSpace

LEMMA InitNear ==
    ASSUME Init, MaxFrames + 1 < Half, \A n \in Starts : n + MaxFrames < CounterSpace
    PROVE  NearInv
<1>1. PICK n \in Starts, cached \in Cached, c \in ClassC :
        /\ cached \/ n = 0
        /\ device = [classC |-> c, sess |-> 0, next |-> n, joining |-> FALSE,
                     attempts |-> 0, resets |-> 0]
        /\ stored = IF cached
                    THEN [Registered(0) EXCEPT !.up = IF n = 0 THEN 0 ELSE n - 1]
                    ELSE None
  BY DEF Init
<1>2. /\ device.next = n /\ device.sess = 0 /\ air = <<>> /\ n \in Nat /\ Len(air) = 0
      /\ ~Registering
  BY <1>1, BoundsAssumption DEF Init, NewUp, NewJoin, Registering
<1>3. n + MaxFrames < CounterSpace
  OBVIOUS
<1>4. CASE n = 0
  BY <1>2, <1>3, <1>4, Bounds DEF NearInv
<1>5. CASE n # 0
  <2>1. stored.up = n - 1 /\ stored \in Info
    BY <1>1, <1>2, <1>5, SetsAssumption DEF Registered, Info, Session
  <2> QED
    BY <1>2, <1>3, <2>1, Bounds DEF NearInv
<1> QED
  BY <1>4, <1>5

\* Every step keeps the counters near to each other.
LEMMA NearStep ==
    ASSUME TypeInv, TypeInv', AgeInv, SessionInv, NearInv, Next, MaxFrames + 1 < Half
    PROVE  NearInv'
<1>1. /\ device.next \in Nat /\ device'.next \in Nat /\ air \in Seq(Frame) /\ air' \in Seq(Frame)
      /\ Len(air) \in Nat /\ Len(air') \in Nat /\ Len(air) <= MaxFrames
      /\ \A i \in 1 .. Len(air) : air[i].n \in Nat /\ air[i].sess \in Nat
  <2>1. air \in Seq(Frame) /\ air' \in Seq(Frame)
    BY DEF TypeInv, TypeOK
  <2>2. \A i \in 1 .. Len(air) : air[i] \in Frame
    BY <2>1
  <2>3. \A i \in 1 .. Len(air) : air[i].n \in Nat /\ air[i].sess \in Nat
    BY <2>2 DEF Frame, Session
  <2>4. Len(air) \in Nat /\ Len(air') \in Nat
    BY <2>1
  <2> QED
    BY <2>1, <2>3, <2>4 DEF TypeInv, TypeOK
<1>2. device'.next + MaxFrames < CounterSpace + Len(air')
  BY <1>1, CounterStep, Bounds, SMTT(40) DEF NearInv
<1>3. CASE device.next <= Len(air)
  <2>1. device'.next <= Len(air')
    BY <1>1, <1>3, CounterStep
  <2> QED
    BY <1>2, <2>1 DEF NearInv
<1>4. CASE device'.next = 0
  BY <1>1, <1>2, <1>4 DEF NearInv
<1>5. CASE ~(device.next <= Len(air)) /\ device'.next # 0
  <2>1. /\ stored \in Info /\ ~Registering /\ device.sess = 0
        /\ stored.up <= device.next /\ device.next <= stored.up + Len(air) + 1
        /\ \A i \in 1 .. Len(air) :
             air[i].sess = 0 /\ air[i].n <= device.next /\ device.next <= air[i].n + Len(air)
    BY <1>5 DEF NearInv
  <2>2. \A u \in Copies : up[u].pc # "activate"
    <3> SUFFICES ASSUME NEW u \in Copies, up[u].pc = "activate" PROVE FALSE
      OBVIOUS
    <3>1. up[u].otaa \in Nat /\ up[u].otaa # None
      BY NoneAssumption DEF TypeInv, WellFounded, Session
    <3>2. up[u].otaa >= 1
      BY <3>1, SMTT(40) DEF AgeInv, TypeInv, TypeOK, Session
    <3>3. Confirmed(up[u].otaa)
      BY DEF SessionInv
    <3> QED
      BY <2>1, <3>1, <3>2, <3>3 DEF Confirmed
  <2>3. stored' \in Info /\ ~Registering'
    BY <2>1, RecordGrows, RegisteringStep
  <2>4. stored.up \in Nat /\ stored'.up \in Nat
    BY <2>1, <2>3 DEF Info
  <2>5. stored'.up = stored.up \/ \E i \in 1 .. Len(air) : stored'.up = air[i].n
    BY <2>1, <2>2, KeptCounterStep
  <2>6. stored'.up <= device.next /\ device.next <= stored'.up + Len(air) + 1
    BY <1>1, <2>1, <2>4, <2>5
  <2>7. CASE device'.next = device.next /\ device'.sess = device.sess /\ air' = air
    BY <1>2, <2>1, <2>3, <2>6, <2>7 DEF NearInv
  <2>8. CASE /\ Len(air') = Len(air) + 1 /\ device'.next = device.next + 1
             /\ air'[Len(air) + 1].sess = device.sess /\ air'[Len(air) + 1].n = device.next
             /\ \A i \in 1 .. Len(air) : air'[i] = air[i]
             /\ device'.sess = device.sess /\ UNCHANGED <<stored, up, join>>
    <3>1. stored'.up <= device'.next /\ device'.next <= stored'.up + Len(air') + 1
      BY <1>1, <2>4, <2>6, <2>8
    <3>2. ASSUME NEW i \in 1 .. Len(air')
          PROVE  air'[i].sess = 0 /\ air'[i].n <= device'.next
                 /\ device'.next <= air'[i].n + Len(air')
      <4>1. CASE i \in 1 .. Len(air)
        BY <1>1, <2>1, <2>8, <4>1
      <4>2. CASE i = Len(air) + 1
        BY <1>1, <2>1, <2>8, <4>2
      <4> QED
        BY <1>1, <2>8, <4>1, <4>2
    <3> QED
      BY <1>2, <2>1, <2>3, <2>8, <3>1, <3>2 DEF NearInv
  <2> QED
    BY <1>5, <2>7, <2>8, CounterStep
<1> QED
  BY <1>3, <1>4, <1>5

\* As long as the device sends fewer frames than half the modulus, and its
\* counter does not leave the counter space, the counter kept lets
\* payload_decode authenticate its next frame: across the rollover of the 16
\* transmitted bits, after joins and resets, and whatever copies, restarts
\* and failures do to it.
THEOREM ResynchronisesAlways ==
    ASSUME MaxFrames + 1 < Half, \A n \in Starts : n + MaxFrames < CounterSpace
    PROVE  Spec => []Resynchronises
<1>1. TypeInv /\ NearInv => Resynchronises
  <2> SUFFICES ASSUME TypeInv, NearInv PROVE Reconstruct(stored.up, Low(device.next)) = device.next
                                              \/ Low(device.next) = device.next
    BY DEF Resynchronises
  <2>1. device.next \in Nat /\ Len(air) \in Nat /\ Len(air) <= MaxFrames
    BY DEF TypeInv, TypeOK
  <2>2. CASE device.next <= Len(air)
    <3>1. device.next \in 0 .. Modulus - 1
      BY <2>1, <2>2, Bounds
    <3>2. \A m \in Nat \ {0} : \A n \in 0 .. m - 1 : n % m = n
      BY SMT
    <3> QED
      BY <3>1, <3>2, Bounds DEF Low
  <2>3. CASE ~(device.next <= Len(air))
    <3>1. stored \in Info /\ stored.up <= device.next /\ device.next <= stored.up + Len(air) + 1
          /\ device.next + MaxFrames < CounterSpace + Len(air)
      BY <2>3 DEF NearInv
    <3>2. stored.up \in Nat
      BY <3>1 DEF Info
    <3>3. device.next < stored.up + Half /\ device.next < CounterSpace
      BY <2>1, <3>1, <3>2, Bounds
    <3> QED
      BY <2>1, <3>1, <3>2, <3>3, ReconstructExact
  <2> QED
    BY <2>2, <2>3
<1>2. TypeInv /\ TypeInv' /\ AgeInv /\ SessionInv /\ NearInv /\ [Next]_vars => NearInv'
  <2> SUFFICES ASSUME TypeInv, TypeInv', AgeInv, SessionInv, NearInv, [Next]_vars PROVE NearInv'
    OBVIOUS
  <2>1. CASE Next
    BY <2>1, NearStep
  <2>2. CASE UNCHANGED vars
    BY <2>2 DEF vars, NearInv, Registering
  <2> QED
    BY <2>1, <2>2
<1>3. Init => NearInv
  BY InitNear
<1> QED
  BY InitType, StepType, InitSession, StepSession, InitKept, KeptNext, <1>1, <1>2, <1>3, PTL DEF
            Spec

=============================================================================

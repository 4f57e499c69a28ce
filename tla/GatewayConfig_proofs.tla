------------------------ MODULE GatewayConfig_proofs ------------------------
(***************************************************************************)
(* Safety of the gateway configuration calls, for any number of requests,  *)
(* gateways and answers.                                                   *)
(***************************************************************************)
EXTENDS GatewayConfig, TLAPS

SomeReadOk == \E r \in Reads : req[r].pc = "ok"

\* A request has no gateway before it starts and no timer before it registers;
\* an answer that sends has a request to send to.
Progress ==
    /\ \A r \in Requests :
        /\ req[r].pc # "idle" => req[r].gw \in Gateways
        /\ req[r].pc \in {"idle", "insert"} => r \notin timers \cup late
    /\ \A a \in Answers : answer[a].pc = "send" => answer[a].to \in Requests

\* The map contains_key saw is there until a config call succeeds.
KnownMap ==
    \A r \in Requests :
        (req[r].pc = "insert" /\ req[r].known) => CacheOf(r) # Absent \/ SomeReadOk

ConfigInv == TypeOK /\ Progress /\ KnownMap /\ NothingLeftBehind /\ PoisonedByRead

-----------------------------------------------------------------------------
\* A map is never mistaken for no map, whatever is put in or taken out.
LEMMA MapIsNotAbsent == \A S \in SUBSET Requests : S # Absent
  BY ConfigAssumption DEF Absent

\* A sender is put into a map that is there.
LEMMA AddSender ==
    ASSUME NEW S \in Registrations, NEW r \in Requests, S # Absent
    PROVE  S \cup {r} \in Registrations /\ S \cup {r} # Absent
<1>1. S \in SUBSET Requests
  BY Zenon DEF Registrations
<1>2. S \cup {r} \in SUBSET Requests
  BY <1>1
<1> QED
  BY <1>2, MapIsNotAbsent DEF Registrations

\* A first registration makes a map of its own.
LEMMA NewMap ==
    ASSUME NEW r \in Requests
    PROVE  {r} \in Registrations /\ {r} # Absent
<1>1. {r} \in SUBSET Requests
  OBVIOUS
<1> QED
  BY <1>1, MapIsNotAbsent DEF Registrations

\* A sender is taken out; an absent map stays absent.
LEMMA RemoveSender ==
    ASSUME NEW S \in Registrations, NEW r \in Requests
    PROVE  /\ S \ {r} \in Registrations
           /\ S # Absent => S \ {r} # Absent
           /\ r \notin S \ {r}
<1>1. CASE S = Absent
  BY <1>1, ConfigAssumption DEF Registrations, Absent
<1>2. CASE S # Absent
  <2>1. S \in SUBSET Requests
    BY <1>2, Zenon DEF Registrations
  <2>2. S \ {r} \in SUBSET Requests
    BY <2>1
  <2> QED
    BY <2>2, MapIsNotAbsent DEF Registrations
<1> QED
  BY <1>1, <1>2

\* An update of one gateway's map keeps the type of the cache.
LEMMA CacheType ==
    ASSUME cache \in [Gateways -> Registrations],
           NEW g, NEW S, g \in Gateways => S \in Registrations,
           cache' = [cache EXCEPT ![g] = S]
    PROVE  cache' \in [Gateways -> Registrations]
  OBVIOUS

\* The empty cache satisfies the invariant.
LEMMA InitInv == Init => ConfigInv
<1> SUFFICES ASSUME Init PROVE ConfigInv
  OBVIOUS
<1>1. cache \in [Gateways -> Registrations]
  BY DEF Init, Registrations
<1>2. TypeOK
  BY <1>1 DEF Init, TypeOK, ReqPc
<1> QED
  BY <1>2 DEF Init, ConfigInv, Progress, KnownMap, NothingLeftBehind, PoisonedByRead

\* A step of a request's own task, of its timer or of an answer preserves it.
LEMMA StepInv == ConfigInv /\ [Next]_vars => ConfigInv'
<1> SUFFICES ASSUME ConfigInv, [Next]_vars PROVE ConfigInv'
  OBVIOUS
<1> USE DEF CacheOf, SomeReadOk
<1>a. Reads \subseteq Requests /\ Updates \subseteq Requests
  BY DEF Requests
<1>1. ASSUME NEW r \in Requests, NEW g \in Gateways, Check(r, g) PROVE ConfigInv'
  <2>1. TypeOK'
    BY <1>1, SMTT(30) DEF ConfigInv, Check, TypeOK, ReqPc
  <2>2. Progress'
    BY <1>1, SMTT(30) DEF ConfigInv, Check, TypeOK, Progress, ReqPc
  <2>3. KnownMap'
    BY <1>a, <1>1, SMTT(30) DEF ConfigInv, Check, TypeOK, Progress, KnownMap, PoisonedByRead, ReqPc
  <2>4. NothingLeftBehind'
    BY <1>1, SMTT(30) DEF ConfigInv, Check, TypeOK, Progress, NothingLeftBehind, ReqPc
  <2>5. PoisonedByRead'
    BY <1>a, <1>1, SMTT(30) DEF ConfigInv, Check, TypeOK, KnownMap, PoisonedByRead, ReqPc
  <2> QED
    BY <2>1, <2>2, <2>3, <2>4, <2>5 DEF ConfigInv
<1>2. ASSUME NEW r \in Requests, InsertKnown(r) PROVE ConfigInv'
  <2>1. CASE CacheOf(r) = Absent
    <3>1. SomeReadOk
      BY <1>2, <2>1 DEF ConfigInv, InsertKnown, KnownMap
    <3>2. UNCHANGED <<cache, timers, late, answer, delivered>> /\ poisoned'
      BY <1>2, <2>1 DEF InsertKnown
    <3>3. req' = [req EXCEPT ![r].pc = "panicked"] /\ req[r].pc = "insert"
      BY <1>2, <2>1 DEF InsertKnown, Panics
    <3>4. TypeOK' /\ Progress' /\ NothingLeftBehind'
      BY <3>2, <3>3, <1>2, <2>1 DEF InsertKnown, ConfigInv, TypeOK, Progress, NothingLeftBehind,
                ReqPc
    <3>5. SomeReadOk'
      BY <1>a, <3>1, <3>3 DEF ConfigInv, TypeOK
    <3> QED
      BY <3>4, <3>5 DEF ConfigInv, KnownMap, PoisonedByRead
  <2>2. CASE CacheOf(r) # Absent
    <3>1. /\ cache' = [cache EXCEPT ![req[r].gw] = cache[req[r].gw] \cup {r}]
          /\ timers' = timers \cup {r}
          /\ req' = [req EXCEPT ![r].pc = "publish"]
          /\ UNCHANGED <<late, answer, delivered, poisoned>>
          /\ req[r].pc = "insert" /\ ~poisoned
      BY <1>2, <2>2 DEF InsertKnown
    <3>2. req[r].gw \in Gateways =>
            /\ cache[req[r].gw] \cup {r} \in Registrations
            /\ cache[req[r].gw] \cup {r} # Absent
      BY <2>2, AddSender DEF ConfigInv, TypeOK
    <3>3. cache' \in [Gateways -> Registrations]
      BY <3>1, <3>2, CacheType DEF ConfigInv, TypeOK
    <3>4. TypeOK'
      BY <3>1, <3>3 DEF ConfigInv, TypeOK, ReqPc
    <3>5. Progress'
      BY <3>1 DEF ConfigInv, TypeOK, Progress
    <3>6. KnownMap'
      BY <1>a, <3>1, <3>2 DEF ConfigInv, TypeOK, Progress, KnownMap
    <3>7. NothingLeftBehind'
      BY <3>1 DEF ConfigInv, TypeOK, Progress, NothingLeftBehind
    <3>8. PoisonedByRead'
      BY <3>1 DEF PoisonedByRead
    <3> QED
      BY <3>4, <3>5, <3>6, <3>7, <3>8 DEF ConfigInv
  <2> QED
    BY <2>1, <2>2
<1>3. ASSUME NEW r \in Requests, InsertNew(r) PROVE ConfigInv'
  <2>1. TypeOK'
    <3>1. cache' = cache \/ cache' = [cache EXCEPT ![req[r].gw] = {r}]
      BY <1>3 DEF InsertNew
    <3>2. req[r].gw \in Gateways => {r} \in Registrations
      BY <1>3, NewMap DEF ConfigInv, TypeOK
    <3>3. cache' \in [Gateways -> Registrations]
      BY <3>1, <3>2, CacheType DEF ConfigInv, TypeOK
    <3> QED
      BY <1>3, <3>3, SMTT(30) DEF ConfigInv, InsertNew, TypeOK, ReqPc
  <2>2. Progress'
    BY <1>3, SMTT(30) DEF ConfigInv, InsertNew, TypeOK, Progress, ReqPc
  <2>3. KnownMap'
    <3>1. cache' = cache \/ cache' = [cache EXCEPT ![req[r].gw] = {r}]
      BY <1>3 DEF InsertNew
    <3>2. req[r].gw \in Gateways /\ cache[req[r].gw] # Absent => {r} # Absent
      BY <1>3, NewMap DEF ConfigInv, TypeOK
    <3>3. \A g \in Gateways : cache[g] # Absent => cache'[g] # Absent
      BY <3>1, <3>2 DEF ConfigInv, TypeOK
    <3> QED
      BY <1>a, <1>3, <3>3, SMTT(30) DEF ConfigInv, InsertNew, TypeOK, Progress, KnownMap
  <2>4. NothingLeftBehind'
    BY <1>3, SMTT(30) DEF ConfigInv, InsertNew, TypeOK, Progress, NothingLeftBehind, ReqPc
  <2>5. PoisonedByRead'
    BY <1>a, <1>3, SMTT(30) DEF ConfigInv, InsertNew, TypeOK, KnownMap, PoisonedByRead, ReqPc
  <2> QED
    BY <2>1, <2>2, <2>3, <2>4, <2>5 DEF ConfigInv
<1>4. ASSUME NEW r \in Requests, InsertPanics(r) PROVE ConfigInv'
  <2>1. TypeOK'
    BY <1>4, SMTT(30) DEF ConfigInv, InsertPanics, Panics, TypeOK, ReqPc
  <2>2. Progress'
    BY <1>4, SMTT(30) DEF ConfigInv, InsertPanics, Panics, TypeOK, Progress, ReqPc
  <2>3. KnownMap'
    BY <1>a, <1>4, SMTT(30) DEF ConfigInv, InsertPanics, Panics, TypeOK, Progress, KnownMap,
              PoisonedByRead, ReqPc
  <2>4. NothingLeftBehind'
    BY <1>4, SMTT(30) DEF ConfigInv, InsertPanics, Panics, TypeOK, Progress, NothingLeftBehind,
              ReqPc
  <2>5. PoisonedByRead'
    BY <1>a, <1>4, SMTT(30) DEF ConfigInv, InsertPanics, Panics, TypeOK, KnownMap,
              PoisonedByRead, ReqPc
  <2> QED
    BY <2>1, <2>2, <2>3, <2>4, <2>5 DEF ConfigInv
<1>5. ASSUME NEW r \in Requests, Publish(r) PROVE ConfigInv'
  <2>1. TypeOK'
    BY <1>5, SMTT(30) DEF ConfigInv, Publish, TypeOK, ReqPc
  <2>2. Progress'
    BY <1>5, SMTT(30) DEF ConfigInv, Publish, TypeOK, Progress, ReqPc
  <2>3. KnownMap'
    BY <1>a, <1>5, SMTT(30) DEF ConfigInv, Publish, TypeOK, Progress, KnownMap, PoisonedByRead,
              ReqPc
  <2>4. NothingLeftBehind'
    BY <1>5, SMTT(30) DEF ConfigInv, Publish, TypeOK, Progress, NothingLeftBehind, ReqPc
  <2>5. PoisonedByRead'
    BY <1>a, <1>5, SMTT(30) DEF ConfigInv, Publish, TypeOK, KnownMap, PoisonedByRead, ReqPc
  <2> QED
    BY <2>1, <2>2, <2>3, <2>4, <2>5 DEF ConfigInv
<1>6. ASSUME NEW r \in Requests, Resolve(r) PROVE ConfigInv'
  <2>1. TypeOK'
    BY <1>6, SMTT(30) DEF ConfigInv, Resolve, TypeOK, ReqPc
  <2>2. Progress'
    BY <1>6, SMTT(30) DEF ConfigInv, Resolve, TypeOK, Progress, ReqPc
  <2>3. KnownMap'
    BY <1>a, <1>6, SMTT(30) DEF ConfigInv, Resolve, TypeOK, Progress, KnownMap, PoisonedByRead,
              ReqPc
  <2>4. NothingLeftBehind'
    BY <1>6, SMTT(30) DEF ConfigInv, Resolve, TypeOK, Progress, NothingLeftBehind, ReqPc
  <2>5. PoisonedByRead'
    BY <1>a, <1>6, SMTT(30) DEF ConfigInv, Resolve, TypeOK, KnownMap, PoisonedByRead, ReqPc
  <2> QED
    BY <2>1, <2>2, <2>3, <2>4, <2>5 DEF ConfigInv
<1>7. ASSUME NEW r \in Requests, Timeout(r) PROVE ConfigInv'
  <2>1. TypeOK'
    BY <1>7, SMTT(30) DEF ConfigInv, Timeout, TypeOK, ReqPc
  <2>2. Progress'
    BY <1>7, SMTT(30) DEF ConfigInv, Timeout, TypeOK, Progress, ReqPc
  <2>3. KnownMap'
    BY <1>a, <1>7, SMTT(30) DEF ConfigInv, Timeout, TypeOK, Progress, KnownMap, PoisonedByRead,
              ReqPc
  <2>4. NothingLeftBehind'
    BY <1>7, SMTT(30) DEF ConfigInv, Timeout, TypeOK, Progress, NothingLeftBehind, ReqPc
  <2>5. PoisonedByRead'
    BY <1>a, <1>7, SMTT(30) DEF ConfigInv, Timeout, TypeOK, KnownMap, PoisonedByRead, ReqPc
  <2> QED
    BY <2>1, <2>2, <2>3, <2>4, <2>5 DEF ConfigInv
<1>8. ASSUME NEW r \in Requests, FinishRead(r) PROVE ConfigInv'
  <2>1. TypeOK'
    <3>1. cache' = cache \/ cache' = [cache EXCEPT ![req[r].gw] = Absent]
      BY <1>8 DEF FinishRead
    <3>2. req[r].gw \in Gateways => Absent \in Registrations
      BY <1>8, MapIsNotAbsent DEF ConfigInv, TypeOK, Registrations
    <3>3. cache' \in [Gateways -> Registrations]
      BY <3>1, <3>2, CacheType DEF ConfigInv, TypeOK
    <3> QED
      BY <1>8, <3>3, SMTT(30) DEF ConfigInv, FinishRead, TypeOK, ReqPc
  <2>2. Progress'
    BY <1>8, SMTT(30) DEF ConfigInv, FinishRead, TypeOK, Progress, ReqPc
  <2>3. KnownMap'
    BY <1>a, <1>8, SMTT(30) DEF ConfigInv, FinishRead, TypeOK, Progress, KnownMap,
              PoisonedByRead, ReqPc
  <2>4. NothingLeftBehind'
    BY <1>8, ConfigAssumption, SMTT(30) DEF Absent, Requests, ConfigInv, FinishRead, TypeOK,
              Progress, NothingLeftBehind, ReqPc
  <2>5. PoisonedByRead'
    BY <1>a, <1>8, SMTT(30) DEF ConfigInv, FinishRead, TypeOK, KnownMap, PoisonedByRead, ReqPc
  <2> QED
    BY <2>1, <2>2, <2>3, <2>4, <2>5 DEF ConfigInv
<1>9. ASSUME NEW r \in Requests, FinishUpdate(r) PROVE ConfigInv'
  <2>1. TypeOK'
    BY <1>9, SMTT(30) DEF ConfigInv, FinishUpdate, TypeOK, ReqPc
  <2>2. Progress'
    BY <1>9, SMTT(30) DEF ConfigInv, FinishUpdate, TypeOK, Progress, ReqPc
  <2>3. KnownMap'
    BY <1>a, <1>9, SMTT(30) DEF ConfigInv, FinishUpdate, TypeOK, Progress, KnownMap,
              PoisonedByRead, ReqPc
  <2>4. NothingLeftBehind'
    BY <1>9, SMTT(30) DEF ConfigInv, FinishUpdate, TypeOK, Progress, NothingLeftBehind, ReqPc
  <2>5. PoisonedByRead'
    BY <1>a, <1>9, SMTT(30) DEF ConfigInv, FinishUpdate, TypeOK, KnownMap, PoisonedByRead, ReqPc
  <2> QED
    BY <2>1, <2>2, <2>3, <2>4, <2>5 DEF ConfigInv
<1>10. ASSUME NEW r \in Requests, Cancel(r) PROVE ConfigInv'
  <2>1. TypeOK'
    BY <1>10, SMTT(30) DEF ConfigInv, Cancel, TypeOK, ReqPc
  <2>2. Progress'
    BY <1>10, SMTT(30) DEF ConfigInv, Cancel, TypeOK, Progress, ReqPc
  <2>3. KnownMap'
    BY <1>a, <1>10, SMTT(30) DEF ConfigInv, Cancel, TypeOK, Progress, KnownMap, PoisonedByRead,
              ReqPc
  <2>4. NothingLeftBehind'
    BY <1>10, SMTT(30) DEF ConfigInv, Cancel, TypeOK, Progress, NothingLeftBehind, ReqPc
  <2>5. PoisonedByRead'
    BY <1>a, <1>10, SMTT(30) DEF ConfigInv, Cancel, TypeOK, KnownMap, PoisonedByRead, ReqPc
  <2> QED
    BY <2>1, <2>2, <2>3, <2>4, <2>5 DEF ConfigInv
<1>11. ASSUME NEW r \in Requests, Elapse(r) PROVE ConfigInv'
  <2>1. TypeOK'
    BY <1>11, SMTT(30) DEF ConfigInv, Elapse, TypeOK, ReqPc
  <2>2. Progress'
    BY <1>11, SMTT(30) DEF ConfigInv, Elapse, TypeOK, Progress, ReqPc
  <2>3. KnownMap'
    BY <1>a, <1>11, SMTT(30) DEF ConfigInv, Elapse, TypeOK, Progress, KnownMap, PoisonedByRead,
              ReqPc
  <2>4. NothingLeftBehind'
    BY <1>11, SMTT(30) DEF ConfigInv, Elapse, TypeOK, Progress, NothingLeftBehind, ReqPc
  <2>5. PoisonedByRead'
    BY <1>a, <1>11, SMTT(30) DEF ConfigInv, Elapse, TypeOK, KnownMap, PoisonedByRead, ReqPc
  <2> QED
    BY <2>1, <2>2, <2>3, <2>4, <2>5 DEF ConfigInv
<1>12. ASSUME NEW r \in Requests, Cleanup(r) PROVE ConfigInv'
  <2>1. TypeOK'
    <3>1. cache' = cache \/ cache' = [cache EXCEPT ![req[r].gw] = cache[req[r].gw] \ {r}]
      BY <1>12 DEF Cleanup
    <3>2. req[r].gw \in Gateways => cache[req[r].gw] \ {r} \in Registrations
      BY <1>12, RemoveSender DEF ConfigInv, TypeOK
    <3>3. cache' \in [Gateways -> Registrations]
      BY <3>1, <3>2, CacheType DEF ConfigInv, TypeOK
    <3> QED
      BY <1>12, <3>3, SMTT(30) DEF ConfigInv, Cleanup, TypeOK, ReqPc
  <2>2. Progress'
    BY <1>12, SMTT(30) DEF ConfigInv, Cleanup, TypeOK, Progress, ReqPc
  <2>3. KnownMap'
    <3>1. cache' = cache \/ cache' = [cache EXCEPT ![req[r].gw] = cache[req[r].gw] \ {r}]
      BY <1>12 DEF Cleanup
    <3>2. req[r].gw \in Gateways /\ cache[req[r].gw] # Absent => cache[req[r].gw] \ {r} # Absent
      BY <1>12, RemoveSender DEF ConfigInv, TypeOK
    <3>3. \A g \in Gateways : cache[g] # Absent => cache'[g] # Absent
      BY <3>1, <3>2 DEF ConfigInv, TypeOK
    <3> QED
      BY <1>a, <1>12, <3>3, SMTT(30) DEF ConfigInv, Cleanup, TypeOK, Progress, KnownMap
  <2>4. NothingLeftBehind'
    BY <1>a, RemoveSender, <1>12, SMTT(30) DEF ConfigInv, Cleanup, TypeOK, Progress,
              NothingLeftBehind, ReqPc
  <2>5. PoisonedByRead'
    BY <1>a, <1>12, SMTT(30) DEF ConfigInv, Cleanup, TypeOK, KnownMap, PoisonedByRead, ReqPc
  <2> QED
    BY <2>1, <2>2, <2>3, <2>4, <2>5 DEF ConfigInv
<1>13. ASSUME NEW a \in Answers, NEW r \in Requests, Take(a, r) PROVE ConfigInv'
  <2>1. TypeOK'
    <3>1. cache' = cache \/ cache' = [cache EXCEPT ![req[r].gw] = cache[req[r].gw] \ {r}]
      BY <1>13 DEF Take
    <3>2. req[r].gw \in Gateways => cache[req[r].gw] \ {r} \in Registrations
      BY <1>13, RemoveSender DEF ConfigInv, TypeOK
    <3>3. cache' \in [Gateways -> Registrations]
      BY <3>1, <3>2, CacheType DEF ConfigInv, TypeOK
    <3> QED
      BY <1>13, <3>3, SMTT(30) DEF ConfigInv, Take, TypeOK, ReqPc
  <2>2. Progress'
    BY <1>13, SMTT(30) DEF ConfigInv, Take, TypeOK, Progress, ReqPc
  <2>3. KnownMap'
    <3>1. cache' = cache \/ cache' = [cache EXCEPT ![req[r].gw] = cache[req[r].gw] \ {r}]
      BY <1>13 DEF Take
    <3>2. req[r].gw \in Gateways /\ cache[req[r].gw] # Absent => cache[req[r].gw] \ {r} # Absent
      BY <1>13, RemoveSender DEF ConfigInv, TypeOK
    <3>3. \A g \in Gateways : cache[g] # Absent => cache'[g] # Absent
      BY <3>1, <3>2 DEF ConfigInv, TypeOK
    <3> QED
      BY <1>a, <1>13, <3>3, SMTT(30) DEF ConfigInv, Take, TypeOK, Progress, KnownMap
  <2>4. NothingLeftBehind'
    BY <1>a, RemoveSender, <1>13, SMTT(30) DEF ConfigInv, Take, TypeOK, Progress,
              NothingLeftBehind, ReqPc
  <2>5. PoisonedByRead'
    BY <1>a, <1>13, SMTT(30) DEF ConfigInv, Take, TypeOK, KnownMap, PoisonedByRead, ReqPc
  <2> QED
    BY <2>1, <2>2, <2>3, <2>4, <2>5 DEF ConfigInv
<1>14. ASSUME NEW a \in Answers, Send(a) PROVE ConfigInv'
  <2>1. TypeOK'
    BY <1>14, SMTT(30) DEF ConfigInv, Send, TypeOK, Progress, ReqPc
  <2>2. Progress'
    BY <1>14, SMTT(30) DEF ConfigInv, Send, TypeOK, Progress, ReqPc
  <2>3. KnownMap'
    BY <1>a, <1>14, SMTT(30) DEF ConfigInv, Send, TypeOK, Progress, KnownMap, PoisonedByRead, ReqPc
  <2>4. NothingLeftBehind'
    BY <1>14, SMTT(30) DEF ConfigInv, Send, TypeOK, Progress, NothingLeftBehind, ReqPc
  <2>5. PoisonedByRead'
    BY <1>a, <1>14, SMTT(30) DEF ConfigInv, Send, TypeOK, KnownMap, PoisonedByRead, ReqPc
  <2> QED
    BY <2>1, <2>2, <2>3, <2>4, <2>5 DEF ConfigInv
<1>15. CASE UNCHANGED vars
  BY <1>15 DEF vars, ConfigInv, TypeOK, Progress, KnownMap, NothingLeftBehind, PoisonedByRead
<1> QED
  BY <1>1, <1>2, <1>3, <1>4, <1>5, <1>6, <1>7, <1>8, <1>9, <1>10, <1>11, <1>12, <1>13, <1>14, <1>15
  DEF Next, RequestStep

-----------------------------------------------------------------------------
(* Who takes a waiting call's sender away.                                  *)

\* An answer holds the sender of a call whose command is out.
AnswersPublished ==
    \A a \in Answers :
        answer[a].pc = "send" => req[answer[a].to].pc \notin {"idle", "insert", "publish"}

Waits(r) == r \notin late \cup delivered /\ req[r].pc \in {"publish", "wait"}

\* The calls that WaiterReachable excepts.
TakenBy(q, r) ==
    /\ q # r /\ req[q].gw = req[r].gw
    /\ \/ q \in Reads /\ req[q].pc = "ok"
       \/ ~req[q].known /\ q \in timers \cup late

HeldBy(a, r) == answer[a] = [pc |-> "send", to |-> r]

\* WaiterReachable, in these terms.
Reachable(r) ==
    r \in CacheOf(r) \/ (\E a \in Answers : HeldBy(a, r)) \/ (\E q \in Requests : TakenBy(q, r))

WaiterInv == AnswersPublished /\ \A r \in Requests : Waits(r) => Reachable(r)

\* It is what the property says.
LEMMA WaiterInvIsReachable == WaiterInv => WaiterReachable
  BY DEF WaiterInv, Waits, Reachable, WaiterReachable, SenderLives, HeldBy, TakenBy

\* Whoever has taken the sender of a call that waits goes on being excepted.
LEMMA TakenStays ==
    ASSUME ConfigInv, Next, NEW r \in Requests, Waits(r)
    PROVE  \A q \in Requests : TakenBy(q, r) => TakenBy(q, r)'
<1> SUFFICES ASSUME NEW q \in Requests, TakenBy(q, r) PROVE TakenBy(q, r)'
  OBVIOUS
<1>1. timers \cup late \subseteq timers' \cup late'
  BY DEF Next, RequestStep, Check, InsertKnown, InsertNew, InsertPanics, Publish, Resolve, Timeout,
         FinishRead, FinishUpdate, Cancel, Elapse, Cleanup, Take, Send
<1>2. \A p \in Requests : req[p].pc # "idle" =>
        req'[p].gw = req[p].gw /\ req'[p].known = req[p].known
  BY ZenonT(40), SMTT(40) DEF ConfigInv, TypeOK, Next, RequestStep, Check, InsertKnown, InsertNew,
            InsertPanics, Panics, Publish, Resolve, Timeout, FinishRead, FinishUpdate, Cancel,
            Elapse, Cleanup, Take, Send
<1>3. \A p \in Requests : req[p].pc = "ok" => req'[p].pc = "ok"
  BY SMTT(40) DEF ConfigInv, TypeOK, Next, RequestStep, Check, InsertKnown, InsertNew,
            InsertPanics, Panics, Publish, Resolve, Timeout, FinishRead, FinishUpdate, Cancel,
            Elapse, Cleanup, Take, Send
<1>4. req[q].pc # "idle" /\ req[r].pc # "idle"
  BY DEF TakenBy, Waits, ConfigInv, Progress
<1> QED
  BY <1>1, <1>2, <1>3, <1>4 DEF TakenBy

\* An answer that holds the sender of a waiting call keeps it until it sends,
\* and then the call has its configuration.
LEMMA HeldStays ==
    ASSUME ConfigInv, AnswersPublished, Next, NEW r \in Requests, Waits(r), Waits(r)'
    PROVE  \A a \in Answers : HeldBy(a, r) => HeldBy(a, r)'
<1> SUFFICES ASSUME NEW a \in Answers, HeldBy(a, r) PROVE HeldBy(a, r)'
  OBVIOUS
<1>1. req[r].pc = "wait"
  BY DEF AnswersPublished, HeldBy, Waits
<1>2. ~Send(a)
  BY <1>1 DEF Send, HeldBy, Waits
<1>3. answer' = answer \/ \E b \in Answers :
        /\ answer[b].pc = "idle" \/ Send(b)
        /\ \E v : answer' = [answer EXCEPT ![b] = v]
  BY DEF Next, RequestStep, Check, InsertKnown, InsertNew, InsertPanics, Publish, Resolve, Timeout,
         FinishRead, FinishUpdate, Cancel, Elapse, Cleanup, Take, Send
<1> QED
  BY <1>2, <1>3 DEF HeldBy, ConfigInv, TypeOK

\* A registered sender of a waiting call stays until an answer or another call
\* takes it.
LEMMA CachedStays ==
    ASSUME ConfigInv, Next, NEW r \in Requests, Waits(r), r \in CacheOf(r)
    PROVE  \/ r \in CacheOf(r)'
           \/ \E a \in Answers : HeldBy(a, r)'
           \/ \E q \in Requests : TakenBy(q, r)'
<1>a. req[r].gw \in Gateways /\ Reads \subseteq Requests /\ Updates \subseteq Requests
  BY DEF ConfigInv, Progress, Waits, Requests
<1>b. req'[r].gw = req[r].gw
  BY ZenonT(40), SMTT(40) DEF Waits, ConfigInv, TypeOK, Next, RequestStep, Check, InsertKnown,
            InsertNew, InsertPanics, Panics, Publish, Resolve, Timeout, FinishRead, FinishUpdate,
            Cancel, Elapse, Cleanup, Take, Send
<1>1. CASE cache' = cache
  BY <1>b, <1>1 DEF CacheOf
<1>2. ASSUME NEW q \in Requests, InsertKnown(q) PROVE r \in CacheOf(r)'
  BY <1>a, <1>b, <1>2 DEF ConfigInv, TypeOK, InsertKnown, CacheOf
<1>3. ASSUME NEW q \in Requests, InsertNew(q) PROVE r \in CacheOf(r)' \/ TakenBy(q, r)'
  <2>1. CASE req[q].gw = req[r].gw
    <3>1. q # r
      BY <1>3 DEF InsertNew, Waits
    <3> QED
      BY <1>3, <2>1, <3>1 DEF ConfigInv, TypeOK, InsertNew, TakenBy
  <2>2. CASE req[q].gw # req[r].gw
    BY <1>a, <1>b, <1>3, <2>2 DEF ConfigInv, TypeOK, InsertNew, CacheOf
  <2> QED
    BY <2>1, <2>2
<1>4. ASSUME NEW q \in Requests, FinishRead(q) PROVE r \in CacheOf(r)' \/ TakenBy(q, r)'
  <2>1. CASE req[q].gw = req[r].gw /\ ~poisoned
    <3>1. q # r
      BY <1>4 DEF FinishRead, Waits
    <3> QED
      BY <1>4, <2>1, <3>1 DEF ConfigInv, TypeOK, FinishRead, TakenBy
  <2>2. CASE req[q].gw # req[r].gw \/ poisoned
    BY <1>a, <1>b, <1>4, <2>2 DEF ConfigInv, TypeOK, FinishRead, CacheOf
  <2> QED
    BY <2>1, <2>2
<1>5. ASSUME NEW q \in Requests, Cleanup(q) PROVE r \in CacheOf(r)'
  <2>1. q # r
    BY <1>5 DEF Cleanup, Waits
  <2> QED
    BY <1>a, <1>b, <1>5, <2>1 DEF ConfigInv, TypeOK, Cleanup, CacheOf
<1>6. ASSUME NEW b \in Answers, NEW q \in Requests, Take(b, q)
      PROVE  r \in CacheOf(r)' \/ HeldBy(b, r)'
  <2>1. CASE q = r /\ ~poisoned
    BY <1>6, <2>1 DEF ConfigInv, TypeOK, Take, HeldBy
  <2>2. CASE q # r \/ poisoned
    BY <1>a, <1>b, <1>6, <2>2 DEF ConfigInv, TypeOK, Take, CacheOf
  <2> QED
    BY <2>1, <2>2
<1> QED
  BY <1>1, <1>2, <1>3, <1>4, <1>5, <1>6
  DEF Next, RequestStep, Check, InsertPanics, Publish, Resolve, Timeout, FinishUpdate, Cancel, Elapse, Send

\* A call that begins to wait has just registered.
LEMMA WaitBegins ==
    ASSUME ConfigInv, Next, NEW r \in Requests, ~Waits(r), Waits(r)'
    PROVE  r \in CacheOf(r)'
<1>1. r \notin late \cup delivered
  BY DEF Waits, Next, RequestStep, Check, InsertKnown, InsertNew, InsertPanics, Publish, Resolve,
         Timeout, FinishRead, FinishUpdate, Cancel, Elapse, Cleanup, Take, Send
<1>2. req[r].pc \notin {"publish", "wait"} /\ req'[r].pc \in {"publish", "wait"}
  BY <1>1 DEF Waits
<1>3. (InsertKnown(r) /\ CacheOf(r) # Absent) \/ InsertNew(r)
  <2>1. req \in [Requests -> [pc : ReqPc, gw : Gateways \cup {None}, known : BOOLEAN]]
    BY DEF ConfigInv, TypeOK
  <2>2. CASE \E q \in Requests : (\E g \in Gateways : Check(q, g)) \/ Cancel(q) \/ Elapse(q) \/ Cleanup(q)
    BY <1>2, <2>1, <2>2 DEF Check, Cancel, Elapse, Cleanup
  <2>3. CASE \E q \in Requests : InsertPanics(q) \/ Publish(q) \/ Resolve(q) \/ Timeout(q)
                                   \/ FinishRead(q) \/ FinishUpdate(q)
    BY <1>2, <2>1, <2>3 DEF InsertPanics, Panics, Publish, Resolve, Timeout, FinishRead,
                            FinishUpdate
  <2>4. CASE \E q \in Requests : InsertKnown(q) \/ InsertNew(q)
    BY <1>2, <2>1, <2>4 DEF InsertKnown, InsertNew, Panics
  <2>5. CASE \E a \in Answers : (\E q \in Requests : Take(a, q)) \/ Send(a)
    BY <1>2, <2>1, <2>5 DEF Take, Send
  <2> QED
    BY <2>2, <2>3, <2>4, <2>5 DEF Next, RequestStep
<1>4. req[r].gw \in Gateways
  BY <1>3 DEF ConfigInv, Progress, InsertKnown, InsertNew
<1> QED
  BY <1>3, <1>4 DEF ConfigInv, TypeOK, InsertKnown, InsertNew, CacheOf

\* The sender of a call that waits is where it can be used, or was taken.
LEMMA WaiterStep == ConfigInv /\ WaiterInv /\ [Next]_vars => WaiterInv'
<1> SUFFICES ASSUME ConfigInv, WaiterInv, [Next]_vars PROVE WaiterInv'
  OBVIOUS
<1>1. CASE UNCHANGED vars
  BY <1>1 DEF vars, WaiterInv, AnswersPublished, Waits, Reachable, CacheOf, HeldBy, TakenBy
<1>2. CASE Next
  <2>1. AnswersPublished'
    <3> USE DEF WaiterInv, AnswersPublished, ConfigInv, TypeOK, Progress
    <3>1. ASSUME NEW r \in Requests,
                 (\E g \in Gateways : Check(r, g)) \/ InsertKnown(r) \/ InsertNew(r)
                 \/ InsertPanics(r)
          PROVE  AnswersPublished'
      BY <3>1 DEF Check, InsertKnown, InsertNew, InsertPanics, Panics
    <3>2. ASSUME NEW r \in Requests, Publish(r) \/ Resolve(r) \/ Timeout(r) \/ Cancel(r)
          PROVE  AnswersPublished'
      BY <3>2 DEF Publish, Resolve, Timeout, Cancel
    <3>3. ASSUME NEW r \in Requests, FinishRead(r) \/ FinishUpdate(r) \/ Elapse(r) \/ Cleanup(r)
          PROVE  AnswersPublished'
      BY <3>3 DEF FinishRead, FinishUpdate, Elapse, Cleanup, Panics
    <3>4. ASSUME NEW a \in Answers, (\E r \in Requests : Take(a, r)) \/ Send(a)
          PROVE  AnswersPublished'
      BY <3>4 DEF Take, Send
    <3> QED
      BY <1>2, <3>1, <3>2, <3>3, <3>4 DEF Next, RequestStep
  <2>2. ASSUME NEW r \in Requests, Waits(r)' PROVE Reachable(r)'
    <3>1. CASE ~Waits(r)
      BY <1>2, <2>2, <3>1, WaitBegins DEF Reachable
    <3>2. CASE Waits(r)
      <4>1. Reachable(r) /\ AnswersPublished
        BY <3>2 DEF WaiterInv
      <4> QED
        BY <1>2, <2>2, <3>2, <4>1, TakenStays, HeldStays, CachedStays DEF Reachable
    <3> QED
      BY <3>1, <3>2
  <2> QED
    BY <2>1, <2>2 DEF WaiterInv
<1> QED
  BY <1>1, <1>2

-----------------------------------------------------------------------------
\* Every variable keeps the type of the Rust value it stands for, in every
\* instance: in particular a removed map is never mistaken for an empty one.
THEOREM ConfigTypeCorrect == Spec => []TypeOK
<1>1. ConfigInv => TypeOK
  BY DEF ConfigInv
<1> QED
  BY InitInv, StepInv, <1>1, PTL DEF Spec

\* The removal task leaves no registration behind, in every instance.
THEOREM NothingLeftBehindAlways == Spec => []NothingLeftBehind
<1>1. ConfigInv => NothingLeftBehind
  BY DEF ConfigInv
<1> QED
  BY InitInv, StepInv, <1>1, PTL DEF Spec

\* Only the success of a config call can make get_mut().unwrap() panic under
\* the lock, however many calls and gateways there are.
THEOREM PoisonedByReadAlways == Spec => []PoisonedByRead
<1>1. ConfigInv => PoisonedByRead
  BY DEF ConfigInv
<1> QED
  BY InitInv, StepInv, <1>1, PTL DEF Spec

\* Only a config call that succeeds, or a first registration for the same
\* gateway, takes away the sender of a call that waits, in every instance.
THEOREM WaiterReachableAlways == Spec => []WaiterReachable
<1>1. Init => WaiterInv
  BY DEF Init, WaiterInv, AnswersPublished, Waits
<1> QED
  BY InitInv, StepInv, <1>1, WaiterStep, WaiterInvIsReachable, PTL DEF Spec

=============================================================================

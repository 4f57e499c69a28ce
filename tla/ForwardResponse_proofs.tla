----------------------- MODULE ForwardResponse_proofs -----------------------
(***************************************************************************)
(* Safety of forwarded responses, for any number of forwards and uplinks   *)
(* of a device.                                                            *)
(***************************************************************************)
EXTENDS ForwardResponse, TLAPS

Sends(u, f) == uplink[u] = [pc |-> "send", to |-> f]
Running(f) == fwd[f] \in {"add", "wait", "remove"}

Typed ==
    /\ fwd \in [Forwards -> FwdPc]
    /\ entry \in Forwards \cup {None}
    /\ uplink \in [Uplinks -> [pc : {"idle", "send", "done"}, to : Forwards \cup {None}]]
    /\ \A u \in Uplinks : uplink[u].pc = "send" => uplink[u].to \in Forwards

\* A sender is made once and is in one place: nowhere before its forward
\* registers it, then registered, with one uplink, used or dropped.
SenderOnce ==
    /\ \A f \in Forwards :
        /\ fwd[f] \in {"idle", "add"} =>
            entry # f /\ f \notin delivered /\ \A u \in Uplinks : ~Sends(u, f)
        /\ entry = f => f \notin delivered /\ \A u \in Uplinks : ~Sends(u, f)
        /\ \A u \in Uplinks : Sends(u, f) => f \notin delivered
    /\ \A u, v \in Uplinks, f \in Forwards : Sends(u, f) /\ Sends(v, f) => u = v

\* Unless a forward registered while another was not over, one runs at most.
OneRuns == overlap = {} => \A f, h \in Forwards : Running(f) /\ Running(h) => f = h

ForwardInv == Typed /\ SenderOnce /\ OneRuns /\ EntryHasOwner /\ AloneIsReachable

-----------------------------------------------------------------------------
\* Nothing is registered at the start.
LEMMA InitInv == Init => ForwardInv
<1> SUFFICES ASSUME Init PROVE ForwardInv
  OBVIOUS
<1>1. Typed
  BY DEF Init, Typed, FwdPc
<1>2. SenderOnce
  BY ForwardAssumption DEF Init, SenderOnce, Sends
<1>3. OneRuns /\ EntryHasOwner /\ AloneIsReachable
  BY DEF Init, OneRuns, Running, EntryHasOwner, AloneIsReachable
<1> QED
  BY <1>1, <1>2, <1>3 DEF ForwardInv

\* A forward's step or an uplink's preserves it.
LEMMA StepInv == ForwardInv /\ [Next]_vars => ForwardInv'
<1> SUFFICES ASSUME ForwardInv, [Next]_vars PROVE ForwardInv'
  OBVIOUS
<1>a. Typed /\ SenderOnce /\ OneRuns /\ EntryHasOwner /\ AloneIsReachable
  BY DEF ForwardInv
<1>b. None \notin Forwards
  BY ForwardAssumption
<1>1. ASSUME NEW f \in Forwards, Check(f) PROVE ForwardInv'
  <2>1. Typed'
    BY <1>a, <1>1 DEF Typed, Check, FwdPc
  <2>2. SenderOnce'
    BY <1>a, <1>1 DEF Typed, SenderOnce, Sends, Check
  <2>3. OneRuns'
    <3>1. CASE entry # None
      BY <1>a, <1>1, <3>1 DEF Typed, OneRuns, Running, Check
    <3>2. CASE entry = None /\ \E h \in Forwards : fwd[h] \notin Over \cup {"idle"}
      BY <1>1, <3>2 DEF OneRuns, Check
    <3>3. CASE \A h \in Forwards : fwd[h] \in Over \cup {"idle"}
      BY <1>a, <1>1, <3>3 DEF Typed, OneRuns, Running, Check, Over
    <3> QED
      BY <3>1, <3>2, <3>3
  <2>4. EntryHasOwner'
    BY <1>a, <1>1 DEF Typed, EntryHasOwner, Check
  <2>5. AloneIsReachable'
    BY <1>a, <1>1 DEF Typed, AloneIsReachable, SenderLives, Check
  <2> QED
    BY <2>1, <2>2, <2>3, <2>4, <2>5 DEF ForwardInv
<1>2. ASSUME NEW f \in Forwards, Register(f) PROVE ForwardInv'
  <2>1. Typed'
    BY <1>a, <1>2 DEF Typed, Register, FwdPc
  <2>2. SenderOnce'
    BY <1>a, <1>2 DEF Typed, SenderOnce, Sends, Register
  <2>3. OneRuns'
    BY <1>a, <1>2 DEF Typed, OneRuns, Running, Register
  <2>4. EntryHasOwner'
    BY <1>a, <1>2 DEF Typed, EntryHasOwner, Register
  <2>5. AloneIsReachable'
    BY <1>a, <1>2 DEF Typed, OneRuns, Running, AloneIsReachable, SenderLives, Register
  <2> QED
    BY <2>1, <2>2, <2>3, <2>4, <2>5 DEF ForwardInv
<1>3. ASSUME NEW f \in Forwards, Answered(f) PROVE ForwardInv'
  <2>1. Typed'
    BY <1>a, <1>3 DEF Typed, Answered, FwdPc
  <2>2. SenderOnce'
    BY <1>a, <1>3 DEF Typed, SenderOnce, Sends, Answered
  <2>3. OneRuns'
    BY <1>a, <1>3 DEF Typed, OneRuns, Running, Answered
  <2>4. EntryHasOwner'
    BY <1>a, <1>3 DEF Typed, SenderOnce, EntryHasOwner, Answered
  <2>5. AloneIsReachable'
    BY <1>a, <1>3 DEF Typed, AloneIsReachable, SenderLives, Answered
  <2> QED
    BY <2>1, <2>2, <2>3, <2>4, <2>5 DEF ForwardInv
<1>4. ASSUME NEW f \in Forwards, GiveUp(f) PROVE ForwardInv'
  <2>1. Typed'
    BY <1>a, <1>4 DEF Typed, GiveUp, FwdPc
  <2>2. SenderOnce'
    BY <1>a, <1>4 DEF Typed, SenderOnce, Sends, GiveUp
  <2>3. OneRuns'
    BY <1>a, <1>4 DEF Typed, OneRuns, Running, GiveUp
  <2>4. EntryHasOwner'
    BY <1>a, <1>4 DEF Typed, EntryHasOwner, GiveUp
  <2>5. AloneIsReachable'
    BY <1>a, <1>4 DEF Typed, AloneIsReachable, SenderLives, GiveUp
  <2> QED
    BY <2>1, <2>2, <2>3, <2>4, <2>5 DEF ForwardInv
<1>5. ASSUME NEW f \in Forwards, Remove(f) PROVE ForwardInv'
  <2>1. Typed'
    BY <1>a, <1>5 DEF Typed, Remove, FwdPc
  <2>2. SenderOnce'
    BY <1>a, <1>b, <1>5 DEF Typed, SenderOnce, Sends, Remove
  <2>3. OneRuns'
    BY <1>a, <1>5 DEF Typed, OneRuns, Running, Remove
  <2>4. EntryHasOwner'
    BY <1>5 DEF EntryHasOwner, Remove
  <2>5. AloneIsReachable'
    BY <1>a, <1>5 DEF Typed, OneRuns, Running, AloneIsReachable, SenderLives, Remove
  <2> QED
    BY <2>1, <2>2, <2>3, <2>4, <2>5 DEF ForwardInv
<1>6. ASSUME NEW u \in Uplinks, Take(u) PROVE ForwardInv'
  <2>1. Typed'
    BY <1>a, <1>6 DEF Typed, Take
  <2>2. SenderOnce'
    BY <1>a, <1>b, <1>6 DEF Typed, SenderOnce, Sends, Take
  <2>3. OneRuns'
    BY <1>a, <1>6 DEF OneRuns, Running, Take
  <2>4. EntryHasOwner'
    BY <1>6 DEF EntryHasOwner, Take
  <2>5. AloneIsReachable'
    <3>1. ASSUME NEW f \in Forwards, SenderLives(f) PROVE SenderLives(f)'
      <4>1. CASE entry = f
        BY <1>a, <1>b, <1>6, <4>1 DEF Typed, SenderLives, Take
      <4>2. CASE \E v \in Uplinks : Sends(v, f)
        BY <1>a, <1>6, <4>2 DEF Typed, SenderLives, Sends, Take
      <4> QED
        BY <3>1, <4>1, <4>2 DEF SenderLives, Sends
    <3> QED
      BY <1>a, <1>6, <3>1 DEF AloneIsReachable, Take
  <2> QED
    BY <2>1, <2>2, <2>3, <2>4, <2>5 DEF ForwardInv
<1>7. ASSUME NEW u \in Uplinks, Send(u) PROVE ForwardInv'
  <2>1. Typed'
    BY <1>a, <1>7 DEF Typed, Send
  <2>2. SenderOnce'
    <3>1. uplink[u].to \in Forwards /\ Sends(u, uplink[u].to)
      BY <1>a, <1>7 DEF Typed, Send, Sends
    <3>2. \A v \in Uplinks, f \in Forwards : Sends(v, f)' => v # u /\ Sends(v, f)
      BY <1>a, <1>7 DEF Typed, Send, Sends
    <3>3. \A f \in Forwards : f \in delivered' =>
            f \in delivered \/ (f = uplink[u].to /\ fwd[f] = "wait")
      BY <1>7 DEF Send
    <3> QED
      BY <1>a, <1>7, <3>1, <3>2, <3>3 DEF SenderOnce, Send
  <2>3. OneRuns'
    BY <1>a, <1>7 DEF OneRuns, Running, Send
  <2>4. EntryHasOwner'
    BY <1>a, <1>7 DEF EntryHasOwner, Send
  <2>5. AloneIsReachable'
    <3> SUFFICES ASSUME overlap = {}, NEW f \in Forwards, fwd[f] = "wait"
                 PROVE  SenderLives(f)' \/ f \in delivered'
      BY <1>7 DEF AloneIsReachable, Send
    <3>1. SenderLives(f) \/ f \in delivered
      BY <1>a DEF AloneIsReachable
    <3>2. CASE Sends(u, f)
      BY <1>7, <3>2 DEF Send, Sends
    <3>3. CASE f \in delivered
      BY <1>7, <3>3 DEF Send
    <3>4. CASE entry = f
      BY <1>7, <3>4 DEF Send, SenderLives
    <3>5. ASSUME NEW v \in Uplinks, Sends(v, f), v # u PROVE SenderLives(f)'
      BY <1>a, <1>7, <3>5 DEF Typed, Send, Sends, SenderLives
    <3> QED
      BY <3>1, <3>2, <3>3, <3>4, <3>5 DEF SenderLives, Sends
  <2> QED
    BY <2>1, <2>2, <2>3, <2>4, <2>5 DEF ForwardInv
<1>8. CASE UNCHANGED vars
  <2>1. UNCHANGED <<fwd, entry, uplink, delivered, overlap>>
    BY <1>8 DEF vars
  <2>2. Typed' /\ OneRuns' /\ EntryHasOwner'
    BY <1>a, <2>1 DEF Typed, OneRuns, Running, EntryHasOwner
  <2>3. SenderOnce'
    BY <1>a, <2>1 DEF SenderOnce, Sends
  <2>4. AloneIsReachable'
    BY <1>a, <2>1 DEF AloneIsReachable, SenderLives
  <2> QED
    BY <2>2, <2>3, <2>4 DEF ForwardInv
<1> QED
  BY <1>1, <1>2, <1>3, <1>4, <1>5, <1>6, <1>7, <1>8 DEF Next, ForwardStep

\* A sender never stays registered without a task that will take it out, a
\* long forward's excepted, however many forwards and uplinks race.
THEOREM EntryHasOwnerAlways == Spec => []EntryHasOwner
<1>1. ForwardInv => EntryHasOwner
  BY DEF ForwardInv
<1> QED
  BY InitInv, StepInv, <1>1, PTL DEF Spec

\* While no forward has overlapped another, one that waits can be answered:
\* the two locks of add() and the blind removal harm nobody else.
THEOREM AloneIsReachableAlways == Spec => []AloneIsReachable
<1>1. ForwardInv => AloneIsReachable
  BY DEF ForwardInv
<1> QED
  BY InitInv, StepInv, <1>1, PTL DEF Spec

=============================================================================

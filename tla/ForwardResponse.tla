--------------------------- MODULE ForwardResponse ---------------------------
(***************************************************************************)
(* Answers to forwarded downlinks (devices_manager): a user's MQTT message *)
(* on .../forward sends a downlink to a device and waits ten seconds for   *)
(* the device's next uplink, which decode_payload hands to the sender      *)
(* registered in DownloadResponse under the device's EUI. The registration *)
(* is keyed by the device alone, so this is one device and the forwards to *)
(* it. One action stands for one critical section of the mutex.            *)
(***************************************************************************)
EXTENDS FiniteSets, Integers

CONSTANTS
    Shorts,     \* forwards with a timeout of at most 60
    Longs,      \* forwards with a longer one: they do not wait
    Uplinks,    \* uplinks of the device that carry data
    None

Forwards == Shorts \cup Longs

ASSUME ForwardAssumption ==
    /\ Shorts \cap Longs = {}
    /\ None \notin Forwards \cup Uplinks

VARIABLES
    fwd,        \* process_downlink tasks
    entry,      \* DownloadResponse: the forward whose sender is registered
    uplink,     \* decode_payload tasks: the sender they hold
    delivered,  \* forwards whose receiver holds a payload
    overlap     \* history: forwards that registered while another was not over

vars == <<fwd, entry, uplink, delivered, overlap>>

FwdPc == {"idle", "add", "wait", "remove", "left", "refused", "answered", "unanswered"}
Over  == {"left", "refused", "answered", "unanswered"}

\* The sender of f is registered or in the hands of an uplink.
SenderLives(f) == entry = f \/ \E u \in Uplinks : uplink[u] = [pc |-> "send", to |-> f]

-----------------------------------------------------------------------------
\* The downlink is sent; then add() first asks has(), under a lock of its
\* own. A forward that finds another one registered reports status -1, or
\* nothing if its timeout is long.
Check(f) ==
    /\ fwd[f] = "idle"
    /\ fwd' = [fwd EXCEPT ![f] = IF entry # None THEN "refused" ELSE "add"]
    /\ overlap' = IF entry = None /\ \E h \in Forwards : fwd[h] \notin Over \cup {"idle"}
                  THEN overlap \cup {f} ELSE overlap
    /\ UNCHANGED <<entry, uplink, delivered>>

\* add() inserts, whatever the entry holds by now; the sender it replaces is
\* dropped. The receiver of a long timeout is dropped at once, its sender
\* stays.
Register(f) ==
    /\ fwd[f] = "add"
    /\ entry' = f
    /\ fwd' = [fwd EXCEPT ![f] = IF f \in Longs THEN "left" ELSE "wait"]
    /\ UNCHANGED <<uplink, delivered, overlap>>

\* The receiver has the payload: status 0.
Answered(f) ==
    /\ fwd[f] = "wait" /\ f \in delivered
    /\ fwd' = [fwd EXCEPT ![f] = "answered"]
    /\ UNCHANGED <<entry, uplink, delivered, overlap>>

\* Ten seconds have passed, or the sender has been dropped: the receiver is
\* dropped ...
GiveUp(f) ==
    /\ fwd[f] = "wait" /\ f \notin delivered
    /\ fwd' = [fwd EXCEPT ![f] = "remove"]
    /\ UNCHANGED <<entry, uplink, delivered, overlap>>

\* Mutant of Remove: the sender stays registered.
RemoveForgotten(f) ==
    /\ fwd[f] = "remove"
    /\ fwd' = [fwd EXCEPT ![f] = "unanswered"]
    /\ UNCHANGED <<entry, uplink, delivered, overlap>>

\* ... and the task takes out whatever is registered by now.
Remove(f) ==
    /\ fwd[f] = "remove"
    /\ entry' = None
    /\ fwd' = [fwd EXCEPT ![f] = "unanswered"]
    /\ UNCHANGED <<uplink, delivered, overlap>>

\* Mutant of Take: the sender is taken out and dropped.
TakeDropped(u) ==
    /\ uplink[u].pc = "idle"
    /\ uplink' = [uplink EXCEPT ![u].pc = "done"]
    /\ entry' = None
    /\ UNCHANGED <<fwd, delivered, overlap>>

\* decode_payload takes the registered sender ...
Take(u) ==
    /\ uplink[u].pc = "idle"
    /\ uplink' = [uplink EXCEPT ![u] = IF entry = None THEN [pc |-> "done", to |-> None]
                                       ELSE [pc |-> "send", to |-> entry]]
    /\ entry' = None
    /\ UNCHANGED <<fwd, delivered, overlap>>

\* ... and sends the payload, which is lost if the receiver is gone.
Send(u) ==
    /\ uplink[u].pc = "send"
    /\ delivered' = IF fwd[uplink[u].to] = "wait" THEN delivered \cup {uplink[u].to}
                    ELSE delivered
    /\ uplink' = [uplink EXCEPT ![u].pc = "done"]
    /\ UNCHANGED <<fwd, entry, overlap>>

-----------------------------------------------------------------------------
Init ==
    /\ fwd = [f \in Forwards |-> "idle"]
    /\ entry = None
    /\ uplink = [u \in Uplinks |-> [pc |-> "idle", to |-> None]]
    /\ delivered = {}
    /\ overlap = {}

ForwardStep(f) == Register(f) \/ Answered(f) \/ GiveUp(f) \/ Remove(f)

Next ==
    \/ \E f \in Forwards : Check(f) \/ ForwardStep(f)
    \/ \E u \in Uplinks : Take(u) \/ Send(u)

Spec == Init /\ [][Next]_vars

\* tokio polls ready tasks, and a timeout ends.
FairSpec == Spec /\ \A f \in Forwards : WF_vars(ForwardStep(f))

-----------------------------------------------------------------------------
(* Properties *)

\* A sender in the registry has a task that will take it out, or is one a
\* long forward has left for an uplink to take.
EntryHasOwner ==
    entry # None => \/ fwd[entry] \in {"wait", "remove"}
                    \/ entry \in Longs /\ fwd[entry] = "left"

\* Forwards that do not overlap do not disturb each other: one that waits
\* can be answered. Only a forward that registered while another was not
\* over, or one it overlapped, loses its sender to the other.
AloneIsReachable ==
    overlap = {} =>
        \A f \in Forwards : fwd[f] = "wait" => SenderLives(f) \/ f \in delivered

\* A forward that waits holds the device for ten seconds and no longer:
\* its sender leaves the registry, and further forwards are let in.
ShortForwardLeaves ==
    \A f \in Shorts : (entry = f) ~> (entry # f)

=============================================================================

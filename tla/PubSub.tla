------------------------------- MODULE PubSub -------------------------------
(***************************************************************************)
(* What the MQTT broker promises to a subscription: it has one place in    *)
(* the log of its filter, and while the client is connected everything     *)
(* from there on is handed over in order, each message once. The place     *)
(* goes back only when that connection ends, then at least to the first    *)
(* message that the client has not acknowledged and that is still there:   *)
(* those older than the log's base are gone.                               *)
(***************************************************************************)
EXTENDS Integers, Sequences

CONSTANTS Clients, Filters, Messages, None

VARIABLES
    joined, \* the clients that have a connection
    log,    \* per filter the offset of its oldest message, and the messages
    place,  \* the offset a client is to be handed next, None: no subscription
    owed,   \* offsets handed over and not acknowledged
    mail    \* what a client has been handed and has not fetched

pubsubVars == <<joined, log, place, owed, mail>>

End(f) == log[f].base + Len(log[f].msgs)
Entry(f, o) == [f |-> f, m |-> log[f].msgs[o - log[f].base + 1], off |-> o]

PubSubInit ==
    /\ joined = {}
    /\ log = [f \in Filters |-> [base |-> 0, msgs |-> <<>>]]
    /\ place = [c \in Clients |-> [f \in Filters |-> None]]
    /\ owed = [c \in Clients |-> [f \in Filters |-> {}]]
    /\ mail = [c \in Clients |-> <<>>]

\* The oldest messages of a log may go when one is appended.
Appended(l, m) ==
    {[base |-> l.base + d, msgs |-> SubSeq(Append(l.msgs, m), d + 1, Len(l.msgs) + 1)] :
        d \in 0 .. Len(l.msgs)}

Publish ==
    /\ UNCHANGED <<joined, place, owed, mail>>
    /\ \E m \in Messages : \A f \in Filters : log'[f] \in {log[f]} \cup Appended(log[f], m)

\* What a client does, and what is done to it, takes a connection.
Subscribe(c, f) ==
    /\ c \in joined /\ UNCHANGED <<joined, log, owed, mail>>
    /\ place[c][f] = None
    /\ place' = [place EXCEPT ![c][f] = End(f)]

Unsubscribe(c, f) ==
    /\ c \in joined /\ UNCHANGED <<joined, log, mail>>
    /\ place' = [place EXCEPT ![c][f] = None]
    /\ owed' = [owed EXCEPT ![c][f] = {}]

\* The next messages, from the place on or from the base if that is later.
Hand(c, f) ==
    /\ c \in joined /\ UNCHANGED <<joined, log>>
    /\ place[c][f] # None
    /\ \E to \in 0 .. End(f) :
        LET from == IF place[c][f] < log[f].base THEN log[f].base ELSE place[c][f]
        IN  /\ from <= to
            /\ place' = [place EXCEPT ![c][f] = to]
            /\ mail' = [mail EXCEPT ![c] = @ \o [i \in 1 .. to - from |-> Entry(f, from + i - 1)]]
            /\ owed' \in {owed, [owed EXCEPT ![c][f] = @ \cup (from .. to - 1)]}

Fetch(c) ==
    /\ c \in joined /\ UNCHANGED <<joined, log, place, owed>>
    /\ mail' = [mail EXCEPT ![c] = <<>>]

Acknowledge(c, f) ==
    /\ c \in joined /\ UNCHANGED <<joined, log, place, mail>>
    /\ \E o \in owed[c][f] :
        /\ \A n \in owed[c][f] : n >= log[f].base => o <= n
        /\ owed' = [owed EXCEPT ![c][f] = @ \ {o}]

\* The session of c ends.
Forgotten(c) ==
    /\ place' = [place EXCEPT ![c] = [f \in Filters |-> None]]
    /\ owed' = [owed EXCEPT ![c] = [f \in Filters |-> {}]]

\* A client connects, to the session it has or to a new one.
Join(c) ==
    /\ c \notin joined /\ joined' = joined \cup {c}
    /\ UNCHANGED <<log, mail>>
    /\ UNCHANGED <<place, owed>> \/ Forgotten(c)

\* Its connection ends and the session stays: what was handed over may be
\* handed over again, on the next connection.
Leave(c) ==
    /\ c \in joined /\ joined' = joined \ {c}
    /\ UNCHANGED <<log, owed>>
    /\ \A f \in Filters :
        IF place[c][f] = None THEN place'[c][f] = None
        ELSE /\ place'[c][f] \in 0 .. place[c][f]
             /\ \A o \in owed[c][f] : o >= log[f].base => place'[c][f] <= o
    /\ place' = [place EXCEPT ![c] = place'[c]]
    /\ mail' = [mail EXCEPT ![c] = <<>>]

\* Its connection ends and the session with it.
Forget(c) ==
    /\ c \in joined /\ joined' = joined \ {c}
    /\ UNCHANGED log
    /\ Forgotten(c)
    /\ mail' = [mail EXCEPT ![c] = <<>>]

Rest == UNCHANGED pubsubVars

PubSubNext ==
    \/ Rest
    \/ Publish
    \/ \E c \in Clients :
        \/ Join(c) \/ Fetch(c) \/ Leave(c) \/ Forget(c)
        \/ \E f \in Filters : Subscribe(c, f) \/ Unsubscribe(c, f) \/ Hand(c, f) \/ Acknowledge(c, f)

PubSubSpec == PubSubInit /\ [][PubSubNext]_pubsubVars

=============================================================================

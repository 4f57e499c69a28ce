------------------------ MODULE MqttRequests_proofs -------------------------
(***************************************************************************)
(* One data request for every subscription of a connection, wherever the   *)
(* router holds it, for every value of the constants: requests are counted *)
(* in the tracker, parked on the log, about to be tracked again, and being *)
(* served, and every step of the router moves them without losing one.     *)
(***************************************************************************)
EXTENDS MqttBroker_proofs

-----------------------------------------------------------------------------
(* Counting requests *)

\* Requests and waiters, wherever they read; those on a filter.
AnyRequest == [f : Filters, qos : 0 .. 2, cur : Positions, ret : BOOLEAN]
AnyWaiter == [id : Ids, req : AnyRequest]
OnIt(f) == {q \in AnyRequest : q.f = f}
WaitOn(id, f) == {w \in AnyWaiter : w.id = id /\ w.req.f = f}

\* How many requests of reqs are on f, and how many of connection id are
\* among the waiters.
Asked(reqs, f) == Len(Where(reqs, OnIt(f)))
Waiting(waiters, id, f) == Len(Where(waiters, WaitOn(id, f)))

\* Requests and waiters of a state are such.
LEMMA AnyType ==
    ASSUME NEW d
    PROVE  /\ RequestsIn(d) \subseteq AnyRequest /\ Seq(RequestsIn(d)) \subseteq Seq(AnyRequest)
           /\ WaitersIn(d) \subseteq AnyWaiter /\ Seq(WaitersIn(d)) \subseteq Seq(AnyWaiter)
<1>1. RequestsIn(d) \subseteq AnyRequest
  BY DEF RequestsIn, AnyRequest
<1>2. WaitersIn(d) \subseteq AnyWaiter
  BY <1>1 DEF WaitersIn, AnyWaiter
<1> QED
  BY <1>1, <1>2, SeqMono

\* Members of T are counted one after the other.
LEMMA CountSteps ==
    ASSUME NEW S, NEW s \in Seq(S), NEW T
    PROVE  /\ Len(Where(s, T)) \in Nat
           /\ \A u \in Seq(S) : Len(Where(s \o u, T)) = Len(Where(s, T)) + Len(Where(u, T))
           /\ \A x \in S : Len(Where(Append(s, x), T)) = Len(Where(s, T)) + (IF x \in T THEN 1 ELSE 0)
           /\ s # <<>> =>
                Len(Where(s, T)) = (IF Head(s) \in T THEN 1 ELSE 0) + Len(Where(Tail(s), T))
<1>1. ASSUME NEW u \in Seq(S) PROVE Where(u, T) \in Seq(S) /\ Len(Where(u, T)) \in Nat
  <2>1. Where(u, T) \in Seq(S)
    BY WhereRange
  <2> QED
    BY <2>1
<1>2. ASSUME NEW u \in Seq(S), NEW v \in Seq(S)
      PROVE  Len(Where(u \o v, T)) = Len(Where(u, T)) + Len(Where(v, T))
  <2>1. Where(u \o v, T) = Where(u, T) \o Where(v, T)
    BY WhereConcat
  <2> QED
    BY <1>1, <2>1
<1>3. ASSUME NEW x \in S
      PROVE  <<x>> \in Seq(S) /\ Len(Where(<<x>>, T)) = IF x \in T THEN 1 ELSE 0
  <2>1. Where(<<x>>, T) = IF x \in T THEN <<x>> ELSE <<>>
    BY WhereOne
  <2>2. <<x>> \in Seq(S) /\ Len(<<x>>) = 1 /\ Len(<<>>) = 0
    OBVIOUS
  <2>3. CASE x \in T
    BY <2>1, <2>2, <2>3, Zenon
  <2>4. CASE x \notin T
    BY <2>1, <2>2, <2>4, Zenon
  <2> QED
    BY <2>3, <2>4
<1>4. ASSUME NEW x \in S
      PROVE  Len(Where(Append(s, x), T)) = Len(Where(s, T)) + (IF x \in T THEN 1 ELSE 0)
  <2>1. Append(s, x) = s \o <<x>> /\ <<x>> \in Seq(S)
    OBVIOUS
  <2> QED
    BY <1>2, <1>3, <2>1
<1>5. ASSUME s # <<>>
      PROVE  Len(Where(s, T)) = (IF Head(s) \in T THEN 1 ELSE 0) + Len(Where(Tail(s), T))
  <2>1. Head(s) \in S /\ Tail(s) \in Seq(S) /\ <<Head(s)>> \in Seq(S) /\ s = <<Head(s)>> \o Tail(s)
    BY <1>5
  <2>2. Len(Where(<<Head(s)>> \o Tail(s), T)) = Len(Where(<<Head(s)>>, T)) + Len(Where(Tail(s), T))
    BY <1>2, <2>1
  <2>3. Len(Where(<<Head(s)>>, T)) = IF Head(s) \in T THEN 1 ELSE 0
    BY <1>3, <2>1
  <2> QED
    BY <2>1, <2>2, <2>3
<1> QED
  BY <1>1, <1>2, <1>4, <1>5

\* Asked in steps.
LEMMA AskedFacts ==
    ASSUME NEW s \in Seq(AnyRequest), NEW f
    PROVE  /\ Asked(s, f) \in Nat /\ Asked(<<>>, f) = 0
           /\ \A u \in Seq(AnyRequest) : Asked(s \o u, f) = Asked(s, f) + Asked(u, f)
           /\ \A q \in AnyRequest : Asked(Append(s, q), f) = Asked(s, f) + (IF q.f = f THEN 1 ELSE 0)
           /\ s # <<>> => Asked(s, f) = (IF Head(s).f = f THEN 1 ELSE 0) + Asked(Tail(s), f)
<1>1. Asked(<<>>, f) = 0
  BY WhereNil DEF Asked
<1>2. \A q \in AnyRequest : q \in OnIt(f) <=> q.f = f
  BY DEF OnIt
<1>3. s # <<>> => Head(s) \in AnyRequest
  OBVIOUS
<1> QED
  BY <1>1, <1>2, <1>3, CountSteps DEF Asked

\* Waiting in steps.
LEMMA WaitingFacts ==
    ASSUME NEW s \in Seq(AnyWaiter), NEW id, NEW f
    PROVE  /\ Waiting(s, id, f) \in Nat /\ Waiting(<<>>, id, f) = 0
           /\ \A u \in Seq(AnyWaiter) : Waiting(s \o u, id, f) = Waiting(s, id, f) + Waiting(u, id, f)
           /\ \A w \in AnyWaiter : Waiting(Append(s, w), id, f) =
                Waiting(s, id, f) + (IF w.id = id /\ w.req.f = f THEN 1 ELSE 0)
           /\ s # <<>> => Waiting(s, id, f) = (IF Head(s).id = id /\ Head(s).req.f = f THEN 1 ELSE 0)
                                                + Waiting(Tail(s), id, f)
<1>1. Waiting(<<>>, id, f) = 0
  BY WhereNil DEF Waiting
<1>2. \A w \in AnyWaiter : w \in WaitOn(id, f) <=> w.id = id /\ w.req.f = f
  BY DEF WaitOn
<1>3. s # <<>> => Head(s) \in AnyWaiter
  OBVIOUS
<1> QED
  BY <1>1, <1>2, <1>3, CountSteps DEF Waiting

\* OnFilter counts what Asked does.
LEMMA AskedIsOnFilter ==
    ASSUME NEW s \in Seq(AnyRequest), NEW f
    PROVE  Len(OnFilter(s, f)) = Asked(s, f)
<1> DEFINE T == {q \in Range(s) : q.f = f}
           U == OnIt(f)
<1>1. Range(s) \subseteq AnyRequest
  BY RangeFinite
<1>2. \A q \in Range(s) : q \in T <=> q \in U
  BY <1>1 DEF OnIt
<1> HIDE DEF T, U
<1>3. Where(s, T) = Where(s, U)
  BY <1>2, WhereSame
<1> QED
  BY <1>3 DEF OnFilter, Asked, T, U

\* Who waits, as RequestCount counts it.
LEMMA WaitingIsNoted ==
    ASSUME NEW s \in Seq(AnyWaiter), NEW id, NEW f
    PROVE  Len(Where(s, {w \in Range(s) : w.id = id /\ w.req.f = f})) = Waiting(s, id, f)
<1> DEFINE T == {w \in Range(s) : w.id = id /\ w.req.f = f}
           U == WaitOn(id, f)
<1>1. Range(s) \subseteq AnyWaiter
  BY RangeFinite
<1>2. \A w \in Range(s) : w \in T <=> w \in U
  BY <1>1 DEF WaitOn
<1> HIDE DEF T, U
<1>3. Where(s, T) = Where(s, U)
  BY <1>2, WhereSame
<1> QED
  BY <1>3 DEF Waiting, T, U

\* Where all waiters wait on f, RequestsOf counts what Waiting does.
LEMMA WaitingIsRequestsOf ==
    ASSUME NEW s \in Seq(AnyWaiter), NEW id, NEW f, \A w \in Range(s) : w.req.f = f
    PROVE  Len(RequestsOf(s, id)) = Waiting(s, id, f)
<1> DEFINE T == {w \in Range(s) : w.id = id}
           U == WaitOn(id, f)
<1>1. Range(s) \subseteq AnyWaiter
  BY RangeFinite
<1>2. \A w \in Range(s) : w \in T <=> w \in U
  BY <1>1 DEF WaitOn
<1> HIDE DEF T, U
<1>3. Where(s, T) = Where(s, U)
  BY <1>2, WhereSame
<1> QED
  BY <1>3 DEF RequestsOf, Waiting, T, U

\* None is counted where there is none.
LEMMA CountNone ==
    ASSUME NEW S, NEW s \in Seq(S), NEW T, \A x \in Range(s) : x \notin T
    PROVE  Len(Where(s, T)) = 0
<1>1. Where(s, T) \in Seq(S) /\ Range(Where(s, T)) = {}
  BY WhereRange
<1> DEFINE u == Where(s, T)
<1>2. Len(u) \in Nat /\ DOMAIN u = 1 .. Len(u)
  BY <1>1
<1> HIDE DEF u
<1>3. Range(u) = {}
  BY <1>1 DEF u
<1>4. Len(u) = 0
  <2>1. Len(u) # 0 => 1 \in DOMAIN u
    BY <1>2
  <2>2. 1 \in DOMAIN u => u[1] \in Range(u)
    BY DEF Range
  <2> QED
    BY <1>3, <2>1, <2>2
<1> QED
  BY <1>4 DEF u

\* Two sets that keep the same members of what a third has kept.
LEMMA WhereWhere ==
    ASSUME NEW S, NEW s \in Seq(S), NEW T, NEW U, NEW V, \A x \in Range(s) : x \in V <=> x \in T /\ x \in U
    PROVE  Where(Where(s, U), T) = Where(s, V)
<1>1. Where(Where(s, U), T) = Where(s, T \cap U)
  BY WhereTwice
<1>2. Where(s, T \cap U) = Where(s, V)
  BY WhereSame
<1> QED
  BY <1>1, <1>2

\* NotOnFilter takes out the requests of one filter.
LEMMA AskedWithout ==
    ASSUME NEW s \in Seq(AnyRequest), NEW f, NEW g
    PROVE  Asked(NotOnFilter(s, g), f) = IF f = g THEN 0 ELSE Asked(s, f)
<1> DEFINE U == {q \in Range(s) : q.f # g}
           T == OnIt(f)
           n == NotOnFilter(s, g)
<1>1. n = Where(s, U)
  BY DEF NotOnFilter
<1>2. \A q \in Range(s) : (q \in U <=> q.f # g) /\ (q \in T <=> q.f = f)
  <2>1. Range(s) \subseteq AnyRequest
    BY RangeFinite
  <2> QED
    BY <2>1 DEF OnIt
<1> HIDE DEF U, T, n
<1>3. CASE f = g
  <2>1. n \in Seq(AnyRequest) /\ Range(n) = Range(s) \cap U
    BY <1>1, WhereRange
  <2>2. \A q \in Range(n) : q \notin T
    BY <1>2, <1>3, <2>1
  <2>3. Len(Where(n, T)) = 0
    BY <2>1, <2>2, CountNone
  <2> QED
    BY <1>3, <2>3 DEF Asked, T, n
<1>4. CASE f # g
  <2>1. \A q \in Range(s) : q \in T <=> q \in T /\ q \in U
    BY <1>2, <1>4
  <2>2. Where(Where(s, U), T) = Where(s, T)
    BY <2>1, WhereWhere
  <2> QED
    BY <1>1, <1>4, <2>2 DEF Asked, T, n
<1> QED
  BY <1>3, <1>4

\* WithoutId takes out the requests of one connection.
LEMMA WaitingWithout ==
    ASSUME NEW s \in Seq(AnyWaiter), NEW id, NEW i, NEW f
    PROVE  Waiting(WithoutId(s, i), id, f) = IF id = i THEN 0 ELSE Waiting(s, id, f)
<1> DEFINE U == {w \in Range(s) : w.id # i}
           T == WaitOn(id, f)
           n == WithoutId(s, i)
<1>1. n = Where(s, U)
  BY DEF WithoutId
<1>2. \A w \in Range(s) : (w \in U <=> w.id # i) /\ (w \in T => w.id = id)
  BY DEF WaitOn
<1> HIDE DEF U, T, n
<1>3. CASE id = i
  <2>1. n \in Seq(AnyWaiter) /\ Range(n) = Range(s) \cap U
    BY <1>1, WhereRange
  <2>2. \A w \in Range(n) : w \notin T
    BY <1>2, <1>3, <2>1
  <2>3. Len(Where(n, T)) = 0
    BY <2>1, <2>2, CountNone
  <2> QED
    BY <1>3, <2>3 DEF Waiting, T, n
<1>4. CASE id # i
  <2>1. \A w \in Range(s) : w \in T <=> w \in T /\ w \in U
    BY <1>2, <1>4
  <2>2. Where(Where(s, U), T) = Where(s, T)
    BY <2>1, WhereWhere
  <2> QED
    BY <1>1, <1>4, <2>2 DEF Waiting, T, n
<1> QED
  BY <1>3, <1>4

\* Requests of the same filters in the same places count the same.
LEMMA AskedAlike ==
    ASSUME NEW s \in Seq(AnyRequest), NEW u \in Seq(AnyRequest), Len(s) = Len(u),
           \A i \in 1 .. Len(s) : s[i].f = u[i].f, NEW f
    PROVE  Asked(s, f) = Asked(u, f)
<1> DEFINE T == OnIt(f)
           is(t) == {i \in 1 .. Len(t) : t[i] \in T}
<1>1. /\ Len(Where(s, T)) = Cardinality(is(s))
      /\ Len(Where(u, T)) = Cardinality(is(u))
  BY WhereCount
<1>2. \A i \in 1 .. Len(s) : s[i] \in AnyRequest /\ u[i] \in AnyRequest
  OBVIOUS
<1>3. \A i \in 1 .. Len(s) : s[i] \in T <=> u[i] \in T
  BY <1>2 DEF OnIt
<1>4. is(s) = is(u)
  BY <1>3
<1> QED
  BY <1>1, <1>4 DEF Asked

-----------------------------------------------------------------------------
(* Counting what is taken out of the logs, and what is kept of a session *)

\* Who waits on a filter has asked for it; filters that are listed once.
WaitTheirs(ws) ==
    /\ ws \in [Filters -> Seq(AnyWaiter)]
    /\ \A f \in Filters : \A w \in Range(ws[f]) : w.req.f = f
ListedOnce(fs) ==
    fs \in Seq(Filters) /\ \A i, j \in 1 .. Len(fs) : fs[i] = fs[j] => i = j

\* What is taken out of the logs of filters that differ: from each of them
\* what waited there.
LEMMA FlattenWaiting ==
    ASSUME NEW ws, WaitTheirs(ws), NEW id, NEW f \in Filters, NEW fs, ListedOnce(fs), NEW ss, ss = [i \in 1 .. Len(fs) |-> ws[fs[i]]]
    PROVE  Waiting(FlattenSeq(ss), id, f) =
             IF f \in Range(fs) THEN Waiting(ws[f], id, f) ELSE 0
<1> DEFINE Of(t) == [i \in 1 .. Len(t) |-> ws[t[i]]]
           One(t) == \A i, j \in 1 .. Len(t) : t[i] = t[j] => i = j
           Right(t) == Waiting(FlattenSeq(Of(t)), id, f) =
                         IF f \in Range(t) THEN Waiting(ws[f], id, f) ELSE 0
           P == {t \in Seq(Filters) : One(t) => Right(t)}
           SW == Seq(AnyWaiter)
<1>0. /\ ws \in [Filters -> Seq(AnyWaiter)]
      /\ \A g \in Filters : \A w \in Range(ws[g]) : w.req.f = g
      /\ fs \in Seq(Filters) /\ One(fs)
  BY DEF WaitTheirs, ListedOnce
<1>1. <<>> \in P
  <2> DEFINE e == <<>>
  <2>1. Of(e) = e /\ Range(e) = {} /\ e \in Seq(Filters)
    BY DEF Range
  <2>2. FlattenSeq(e) = e /\ e \in Seq(AnyWaiter)
    BY FlattenNil
  <2>3. Waiting(e, id, f) = 0
    BY <2>2, WaitingFacts
  <2> HIDE DEF e, Of
  <2>4. Right(e)
    BY <2>1, <2>2, <2>3
  <2> QED
    BY <2>1, <2>4 DEF e
<1>2. ASSUME NEW t \in Seq(Filters), NEW g \in Filters, t \in P PROVE Append(t, g) \in P
  <2> DEFINE u == Append(t, g)
  <2>1. /\ u \in Seq(Filters) /\ Len(t) \in Nat /\ Len(u) = Len(t) + 1 /\ u[Len(t) + 1] = g
        /\ \A i \in 1 .. Len(t) : u[i] = t[i] /\ t[i] \in Filters
    OBVIOUS
  <2>2. Range(u) = Range(t) \cup {g}
    BY AppendFacts
  <2> HIDE DEF u
  <2> SUFFICES ASSUME One(u) PROVE Right(u)
    BY <2>1 DEF u
  <2>3. One(t) /\ g \notin Range(t)
    <3>1. One(t)
      BY <2>1
    <3>2. ASSUME NEW i \in DOMAIN t, t[i] = g PROVE FALSE
      <4>1. i \in 1 .. Len(t) /\ i \in 1 .. Len(u) /\ Len(t) + 1 \in 1 .. Len(u) /\ i # Len(t) + 1
        BY <2>1
      <4>2. u[i] = u[Len(t) + 1]
        BY <2>1, <3>2, <4>1
      <4> QED
        BY <4>1, <4>2
    <3> QED
      BY <3>1, <3>2 DEF Range
  <2>4. Right(t)
    BY <1>2, <2>3
  <2>5. Of(t) \in Seq(SW) /\ ws[g] \in SW
    <3> HIDE DEF SW
    <3>1. \A i \in 1 .. Len(t) : ws[t[i]] \in SW
      BY <1>0, <2>1 DEF SW
    <3> QED
      BY <1>0, <2>1, <3>1 DEF SW
  <2>6. Of(u) = Append(Of(t), ws[g])
    <3>1. Len(Of(t)) = Len(t)
      BY <2>1
    <3>2. Append(Of(t), ws[g]) = [i \in 1 .. Len(t) + 1 |-> IF i = Len(t) + 1 THEN ws[g] ELSE Of(t)[i]]
      BY <2>1, <2>5, <3>1
    <3>3. \A i \in 1 .. Len(t) + 1 : ws[u[i]] = IF i = Len(t) + 1 THEN ws[g] ELSE Of(t)[i]
      BY <2>1
    <3> QED
      BY <2>1, <3>2, <3>3
  <2> HIDE DEF Of
  <2>7. FlattenSeq(Of(t)) \in SW
    BY <2>5, FlattenType
  <2>8. FlattenSeq(Of(u)) = FlattenSeq(Of(t)) \o ws[g]
    BY <2>5, <2>6, <2>7, FlattenAppend
  <2>9. Waiting(FlattenSeq(Of(u)), id, f) = Waiting(FlattenSeq(Of(t)), id, f) + Waiting(ws[g], id, f)
    BY <2>5, <2>7, <2>8, WaitingFacts
  <2>10. CASE g = f
    <3>1. Waiting(FlattenSeq(Of(t)), id, f) = 0 /\ f \in Range(u)
      BY <2>2, <2>3, <2>4, <2>10
    <3>2. Waiting(ws[f], id, f) \in Nat
      BY <2>5, <2>10, WaitingFacts
    <3> QED
      BY <2>9, <2>10, <3>1, <3>2
  <2>11. CASE g # f
    <3>1. \A w \in Range(ws[g]) : w \notin WaitOn(id, f)
      BY <1>0, <2>11 DEF WaitOn
    <3>2. Waiting(ws[g], id, f) = 0
      BY <2>5, <3>1, CountNone DEF Waiting
    <3>3. Waiting(FlattenSeq(Of(t)), id, f) \in Nat
      BY <2>7, WaitingFacts
    <3>4. f \in Range(u) <=> f \in Range(t)
      BY <2>2, <2>11
    <3> QED
      BY <2>4, <2>9, <3>2, <3>3, <3>4
  <2> QED
    BY <2>10, <2>11
<1> HIDE DEF Of
<1>3. Seq(Filters) \subseteq P
  BY <1>1, <1>2, SeqInduct
<1>4. Right(fs)
  BY <1>0, <1>3
<1>5. ss = Of(fs)
  BY DEF Of
<1> QED
  BY <1>4, <1>5

\* The waiters a message takes out: those of the filters it goes to.
LEMMA RoutedWaiting ==
    ASSUME DataOK, ParkedOK, TablesOK, NEW t \in Topics, NEW id, NEW f \in Filters
    PROVE  Waiting(WaitersOf(SetToSeq(Routed(t))), id, f) =
             IF f \in Routed(t) THEN Waiting(data[f].waiters, id, f) ELSE 0
<1> DEFINE fs == SetToSeq(Routed(t))
           ws == [g \in Filters |-> data[g].waiters]
<1>1. /\ Routed(t) \subseteq Filters /\ IsFiniteSet(Routed(t))
      /\ fs \in Seq(Filters) /\ Range(fs) = Routed(t)
  BY RoutedFacts
<1>2. \A i, j \in 1 .. Len(fs) : fs[i] = fs[j] => i = j
  BY <1>1, SetToSeqLists
<1>3. ws \in [Filters -> Seq(AnyWaiter)]
  <2>1. \A g \in Filters : data[g].waiters \in Seq(WaitersIn(data))
    BY DEF DataOK, FilterData
  <2> DEFINE A == Seq(AnyWaiter)
  <2>2. \A g \in Filters : data[g].waiters \in A
    BY <2>1, AnyType
  <2> HIDE DEF A
  <2>3. ws \in [Filters -> A]
    BY <2>2
  <2> QED
    BY <2>3 DEF A
<1>4. \A g \in Filters : ws[g] = data[g].waiters
  OBVIOUS
<1>5. \A g \in Filters : \A w \in Range(ws[g]) : w.req.f = g
  BY <1>4 DEF ParkedOK
<1>6. WaitersOf(fs) = FlattenSeq([i \in 1 .. Len(fs) |-> ws[fs[i]]])
  <2> HIDE DEF fs
  <2>1. \A i \in 1 .. Len(fs) : fs[i] \in Filters
    BY <1>1
  <2>2. [i \in 1 .. Len(fs) |-> data[fs[i]].waiters] = [i \in 1 .. Len(fs) |-> ws[fs[i]]]
    BY <1>4, <2>1
  <2> QED
    BY <2>2 DEF WaitersOf
<1> DEFINE ss == [i \in 1 .. Len(fs) |-> ws[fs[i]]]
<1> HIDE DEF fs, ws
<1>8. ss = [i \in 1 .. Len(fs) |-> ws[fs[i]]]
  OBVIOUS
<1> HIDE DEF ss
<1>7. Waiting(FlattenSeq(ss), id, f) = IF f \in Range(fs) THEN Waiting(ws[f], id, f) ELSE 0
  <2>1. ListedOnce(fs)
    BY <1>1, <1>2 DEF ListedOnce
  <2>2. WaitTheirs(ws)
    BY <1>3, <1>5 DEF WaitTheirs
  <2> QED
    BY <1>8, <2>1, <2>2, FlattenWaiting
<1> QED
  BY <1>1, <1>4, <1>6, <1>7, <1>8 DEF fs

\* What is parked for a connection, as handle_disconnection collects it.
LEMMA ParkedCount ==
    ASSUME DataOK, ParkedOK, NEW id, NEW f \in Filters, Waiting(data[f].waiters, id, f) <= 1
    PROVE  Asked(SetToSeq(ParkedOf(id)), f) = Waiting(data[f].waiters, id, f)
<1> DEFINE S == ParkedOf(id)
           s == SetToSeq(S)
           ws == data[f].waiters
           v == Where(ws, WaitOn(id, f))
           T == OnIt(f)
<1>1. ws \in Seq(WaitersIn(data)) /\ ws \in Seq(AnyWaiter) /\ Range(ws) \subseteq AnyWaiter
  <2>1. ws \in Seq(WaitersIn(data))
    BY DEF DataOK, FilterData
  <2>2. ws \in Seq(AnyWaiter)
    BY <2>1, AnyType
  <2> QED
    BY <2>1, <2>2, RangeFinite
<1>2. v \in Seq(AnyWaiter) /\ Range(v) = Range(ws) \cap WaitOn(id, f)
  BY <1>1, WhereRange
<1>3. IsFiniteSet(S) /\ S \subseteq AnyRequest
  BY ParkedFacts, AnyType
<1>4. /\ s \in Seq(S) /\ Range(s) = S
      /\ \A i, j \in 1 .. Len(s) : s[i] = s[j] => i = j
  BY <1>3, SetToSeqLists
<1>5. s \in Seq(AnyRequest)
  BY <1>3, <1>4, SeqMono
<1>6. \A q \in S : q \in T <=> \E w \in Range(v) : w.req = q
  <2> SUFFICES ASSUME NEW q \in S PROVE q \in T <=> \E w \in Range(v) : w.req = q
    OBVIOUS
  <2>1. ASSUME q \in T PROVE \E w \in Range(v) : w.req = q
    <3>1. PICK g \in Filters : q \in {w.req : w \in {w \in Range(data[g].waiters) : w.id = id}}
      BY DEF ParkedOf
    <3>2. PICK w \in Range(data[g].waiters) : w.id = id /\ w.req = q
      BY <3>1
    <3>3. w.req.f = g /\ q.f = f
      BY <2>1, <3>2 DEF ParkedOK, OnIt
    <3>4. w \in Range(ws) /\ w.id = id /\ w.req.f = f
      BY <3>2, <3>3
    <3>5. w \in WaitOn(id, f)
      BY <1>1, <3>4 DEF WaitOn
    <3> QED
      BY <1>2, <3>2, <3>4, <3>5
  <2>2. ASSUME NEW w \in Range(v), w.req = q PROVE q \in T
    BY <1>2, <1>3, <2>2 DEF WaitOn, OnIt
  <2> QED
    BY <2>1, <2>2
<1>7. \A w \in Range(v) : w.req \in S
  BY <1>2 DEF WaitOn, ParkedOf
<1> DEFINE is == {i \in 1 .. Len(s) : s[i] \in T}
<1>8. Len(Where(s, T)) = Cardinality(is) /\ Len(s) \in Nat /\ DOMAIN s = 1 .. Len(s)
  <2>1. Len(Where(s, T)) = Cardinality(is)
    BY <1>5, WhereCount, Zenon
  <2>2. Len(s) \in Nat /\ DOMAIN s = 1 .. Len(s)
    BY <1>5
  <2> QED
    BY <2>1, <2>2
<1>9. Len(v) \in {0, 1} /\ DOMAIN v = 1 .. Len(v)
  <2>1. Len(v) <= 1
    BY DEF Waiting
  <2> HIDE DEF v
  <2>2. Len(v) \in Nat /\ DOMAIN v = 1 .. Len(v)
    BY <1>2
  <2> QED
    BY <2>1, <2>2
<1> HIDE DEF S, s, ws, v, T
<1>10. CASE Len(v) = 0
  <2>1. Range(v) = {}
    BY <1>9, <1>10 DEF Range
  <2>2. \A q \in Range(s) : q \notin T
    BY <1>4, <1>6, <2>1
  <2>3. Len(Where(s, T)) = 0
    BY <1>5, <2>2, CountNone
  <2> QED
    BY <1>10, <2>3 DEF Asked, Waiting, s, T, v, ws, S
<1>11. CASE Len(v) = 1
  <2>1. Range(v) = {v[1]}
    BY <1>9, <1>11 DEF Range
  <2> DEFINE r == v[1].req
  <2>2. r \in S /\ \A q \in S : q \in T <=> q = r
    BY <1>6, <1>7, <2>1
  <2> HIDE DEF r
  <2>3. PICK k \in 1 .. Len(s) : s[k] = r
    BY <1>4, <1>8, <2>2 DEF Range
  <2>4. \A i \in 1 .. Len(s) : s[i] \in T <=> i = k
    <3>1. \A i \in 1 .. Len(s) : s[i] \in S
      BY <1>4
    <3> QED
      BY <1>4, <2>2, <2>3, <3>1
  <2>5. is = {k}
    BY <2>4
  <2>6. Cardinality({k}) = 1
    BY FS_Singleton
  <2> QED
    BY <1>8, <1>11, <2>5, <2>6 DEF Asked, Waiting, s, T, v, ws, S
<1> QED
  BY <1>9, <1>10, <1>11

\* A session has the requests its connection had, the parked ones included.
LEMMA SessionCount ==
    ASSUME DataOK, ParkedOK, ConnOK, NEW id \in Ids, slab[id] \in Links, NEW f \in Filters,
           Waiting(data[f].waiters, id, f) <= 1
    PROVE  /\ Asked(Session(id).reqs, f) = Asked(conn[slab[id]].reqs, f) + Waiting(data[f].waiters, id, f)
           /\ Session(id).subs = conn[slab[id]].subs
<1> DEFINE c == conn[slab[id]]
           R == RequestsIn(data)
           pk == SetToSeq(ParkedOf(id))
           all == c.reqs \o pk
           rs == [i \in 1 .. Len(all) |-> Retransmit(c.inflight, all[i])]
<1>1. c.reqs \in Seq(R) /\ c.inflight \in Seq(InflightsIn(data))
  BY DEF ConnOK, ConnectionsIn
<1>2. pk \in Seq(R)
  <2>1. IsFiniteSet(ParkedOf(id)) /\ ParkedOf(id) \subseteq R
    BY ParkedFacts
  <2>2. pk \in Seq(ParkedOf(id))
    BY <2>1, SetToSeqLists
  <2>3. Seq(ParkedOf(id)) \subseteq Seq(R)
    BY <2>1, SeqMono
  <2> QED
    BY <2>2, <2>3
<1>3. Session(id).reqs = rs /\ Session(id).subs = c.subs
  BY DEF Session
<1>4. Asked(pk, f) = Waiting(data[f].waiters, id, f)
  BY ParkedCount
<1>5. c.reqs \in Seq(AnyRequest) /\ pk \in Seq(AnyRequest)
  BY <1>1, <1>2, AnyType
<1> HIDE DEF c, pk
<1>6. all \in Seq(R) /\ all \in Seq(AnyRequest) /\ Len(all) \in Nat
  BY <1>1, <1>2, <1>5
<1>7. Asked(all, f) = Asked(c.reqs, f) + Asked(pk, f)
  BY <1>5, AskedFacts
<1> HIDE DEF all
<1>8. \A i \in 1 .. Len(all) : Retransmit(c.inflight, all[i]) \in R
                               /\ Retransmit(c.inflight, all[i]).f = all[i].f
  <2>1. \A i \in 1 .. Len(all) : all[i] \in R
    BY <1>6
  <2> QED
    BY <1>1, <2>1, RetransmitKeeps
<1>9. /\ rs \in Seq(R) /\ Len(rs) = Len(all)
      /\ \A i \in 1 .. Len(rs) : rs[i].f = all[i].f
  <2> HIDE DEF R
  <2>1. rs \in Seq(R) /\ Len(rs) = Len(all)
    BY <1>6, <1>8
  <2>2. \A i \in 1 .. Len(all) : rs[i] = Retransmit(c.inflight, all[i])
    BY <1>6
  <2> QED
    BY <1>8, <2>1, <2>2
<1>10. rs \in Seq(AnyRequest)
  BY <1>9, AnyType
<1> HIDE DEF rs, R
<1>11. Asked(rs, f) = Asked(all, f)
  BY <1>6, <1>9, <1>10, AskedAlike
<1> QED
  BY <1>3, <1>4, <1>7, <1>11 DEF c

-----------------------------------------------------------------------------
(* One request for every subscription *)

\* The requests of connection id on f that are not in its tracker: parked on
\* the log, about to be tracked again, and being served.
Elsewhere(id, f) ==
    Waiting(data[f].waiters, id, f) + Waiting(task.notes, id, f)
        + (IF task.step = "requests" /\ task.id = id THEN Asked(task.reqs, f) ELSE 0)
Needed(subs, f) == IF f \in subs THEN 1 ELSE 0

CountOK ==
    \A id \in Ids : Used(id) =>
        \A f \in Filters :
            Asked(conn[slab[id]].reqs, f) + Elsewhere(id, f) = Needed(conn[slab[id]].subs, f)
\* A session that is kept has one request for every subscription.
SavedOK ==
    \A c \in Clients : grave[c] # None =>
        \A f \in Filters : Asked(grave[c].reqs, f) = Needed(grave[c].subs, f)

\* Who has what, in types.
LEMMA CountTypes ==
    ASSUME BrokerType, NEW f \in Filters
    PROVE  /\ data[f].waiters \in Seq(AnyWaiter) /\ task.notes \in Seq(AnyWaiter)
           /\ task.reqs \in Seq(AnyRequest)
           /\ \A l \in Links : conn[l].reqs \in Seq(AnyRequest) /\ conn[l].subs \subseteq Filters
           /\ \A id : Elsewhere(id, f) \in Nat /\ Waiting(data[f].waiters, id, f) \in Nat
                      /\ Waiting(task.notes, id, f) \in Nat /\ Asked(task.reqs, f) \in Nat
           /\ \A l \in Links : Asked(conn[l].reqs, f) \in Nat
<1>1. data[f].waiters \in Seq(AnyWaiter)
  <2>1. data[f].waiters \in Seq(WaitersIn(data))
    BY DEF BrokerType, DataOK, FilterData
  <2> QED
    BY <2>1, AnyType
<1>2. task.notes \in Seq(AnyWaiter) /\ task.reqs \in Seq(AnyRequest)
  <2>1. task.notes \in Seq(WaitersIn(data)) /\ task.reqs \in Seq(RequestsIn(data))
    BY TaskFields DEF BrokerType, TaskOK
  <2> QED
    BY <2>1, AnyType
<1>3. \A l \in Links : conn[l].reqs \in Seq(AnyRequest) /\ conn[l].subs \subseteq Filters
  <2>1. \A l \in Links : conn[l].reqs \in Seq(RequestsIn(data)) /\ conn[l].subs \in SUBSET Filters
    BY ConnFields DEF BrokerType, ConnOK
  <2> QED
    BY <2>1, AnyType
<1>4. ASSUME NEW id
      PROVE  Elsewhere(id, f) \in Nat /\ Waiting(data[f].waiters, id, f) \in Nat
             /\ Waiting(task.notes, id, f) \in Nat /\ Asked(task.reqs, f) \in Nat
  <2>1. /\ Waiting(data[f].waiters, id, f) \in Nat /\ Waiting(task.notes, id, f) \in Nat
        /\ Asked(task.reqs, f) \in Nat
    BY <1>1, <1>2, WaitingFacts, AskedFacts
  <2> QED
    BY <2>1 DEF Elsewhere
<1>5. \A l \in Links : Asked(conn[l].reqs, f) \in Nat
  BY <1>3, AskedFacts
<1> QED
  BY <1>1, <1>2, <1>3, <1>4, <1>5

\* Counted as RequestCount counts.
LEMMA CountFollows == BrokerType /\ CountOK => OneRequest
<1> SUFFICES ASSUME BrokerType, CountOK, NEW id \in Ids, NEW f \in Filters, Used(id)
             PROVE  RequestCount(id, f) = IF f \in conn[slab[id]].subs THEN 1 ELSE 0
  BY DEF OneRequest
<1> DEFINE l == slab[id]
           ws == data[f].waiters
           ns == task.notes
<1>1. l \in Links
  BY DEF BrokerType, SlabOK, Used
<1>2. ws \in Seq(AnyWaiter) /\ ns \in Seq(AnyWaiter) /\ task.reqs \in Seq(AnyRequest)
      /\ conn[l].reqs \in Seq(AnyRequest)
  BY <1>1, CountTypes
<1>3. Len(OnFilter(conn[l].reqs, f)) = Asked(conn[l].reqs, f)
      /\ Len(OnFilter(task.reqs, f)) = Asked(task.reqs, f)
  BY <1>2, AskedIsOnFilter
<1>4. \A w \in Range(ws) : w.req.f = f
  BY DEF BrokerType, ParkedOK
<1>5. Len(RequestsOf(ws, id)) = Waiting(ws, id, f)
  <2> HIDE DEF ws
  <2> QED
    BY <1>2, <1>4, WaitingIsRequestsOf
<1>6. Len(Where(ns, {w \in Range(ns) : w.id = id /\ w.req.f = f})) = Waiting(ns, id, f)
  <2> HIDE DEF ns
  <2> QED
    BY <1>2, WaitingIsNoted
<1>7. Asked(conn[l].reqs, f) + Elsewhere(id, f) = Needed(conn[l].subs, f)
  BY DEF CountOK
<1>8. /\ Asked(conn[l].reqs, f) \in Nat /\ Asked(task.reqs, f) \in Nat
      /\ Waiting(ws, id, f) \in Nat /\ Waiting(ns, id, f) \in Nat
  BY <1>1, CountTypes
<1>9. RequestCount(id, f) =
        Len(OnFilter(conn[l].reqs, f)) + Len(RequestsOf(ws, id))
          + (IF task.step = "requests" /\ task.id = id THEN Len(OnFilter(task.reqs, f)) ELSE 0)
          + Len(Where(ns, {w \in Range(ns) : w.id = id /\ w.req.f = f}))
  BY DEF RequestCount
<1> DEFINE t == IF task.step = "requests" /\ task.id = id THEN Asked(task.reqs, f) ELSE 0
<1>10. Elsewhere(id, f) = Waiting(ws, id, f) + Waiting(ns, id, f) + t /\ t \in Nat
  BY <1>8 DEF Elsewhere
<1>11. RequestCount(id, f) = Asked(conn[l].reqs, f) + Waiting(ws, id, f) + t + Waiting(ns, id, f)
  BY <1>3, <1>5, <1>6, <1>9
<1> HIDE DEF l, ws, ns, t
<1>12. RequestCount(id, f) = Needed(conn[l].subs, f)
  BY <1>7, <1>8, <1>10, <1>11
<1> QED
  BY <1>12 DEF Needed, l

\* A step that moves no request and changes no subscription.
LEMMA CountSame ==
    ASSUME BrokerType, CountOK, slab' = slab,
           \A l \in Links : conn'[l].reqs = conn[l].reqs /\ conn'[l].subs = conn[l].subs,
           \A f \in Filters : data'[f].waiters = data[f].waiters,
           task'.notes = task.notes,
           \/ task.step # "requests" /\ task'.step # "requests"
           \/ task'.step = task.step /\ task'.id = task.id /\ task'.reqs = task.reqs
    PROVE  CountOK'
<1> SUFFICES ASSUME NEW id \in Ids, Used(id), NEW f \in Filters
             PROVE  Asked(conn'[slab[id]].reqs, f) + Elsewhere(id, f)' = Needed(conn'[slab[id]].subs, f)
  BY DEF CountOK, Used
<1>1. slab[id] \in Links
  BY DEF BrokerType, SlabOK, Used
<1>2. Elsewhere(id, f)' = Elsewhere(id, f)
  BY DEF Elsewhere
<1> QED
  BY <1>1, <1>2 DEF CountOK

\* A step that replaces one connection.
LEMMA CountPut ==
    ASSUME BrokerType, CountOK, slab' = slab, NEW i \in Ids, Used(i), NEW d,
           conn' = [conn EXCEPT ![slab[i]] = d],
           \A id \in Ids : id # i /\ Used(id) =>
              \A f \in Filters : Elsewhere(id, f)' = Elsewhere(id, f),
           \A f \in Filters : Asked(d.reqs, f) + Elsewhere(i, f)' = Needed(d.subs, f)
    PROVE  CountOK'
<1> SUFFICES ASSUME NEW id \in Ids, Used(id), NEW f \in Filters
             PROVE  Asked(conn'[slab[id]].reqs, f) + Elsewhere(id, f)' = Needed(conn'[slab[id]].subs, f)
  BY DEF CountOK, Used
<1>1. slab[id] \in Links /\ slab[i] \in Links
  BY DEF BrokerType, SlabOK, Used
<1>2. conn'[slab[i]] = d /\ \A l \in Links : l # slab[i] => conn'[l] = conn[l]
  BY <1>1 DEF BrokerType, ConnOK
<1>3. CASE id = i
  BY <1>2, <1>3
<1>4. CASE id # i
  <2>1. slab[id] # slab[i]
    BY <1>4, OneId
  <2>2. conn'[slab[id]] = conn[slab[id]]
    BY <1>1, <1>2, <2>1
  <2> QED
    BY <1>4, <2>2 DEF CountOK
<1> QED
  BY <1>3, <1>4

\* handle_disconnection: the requests of the connection go with its session,
\* and those of others stay where they are.
LEMMA DisconnectionCounts ==
    ASSUME BrokerType, CountOK, SavedOK, NEW id \in Ids, Used(id), Disconnection(id),
           task.step # "requests", task.notes = <<>>, task'.step # "requests", task'.notes = <<>>
    PROVE  CountOK' /\ SavedOK'
<1> DEFINE l == slab[id]
<1>1. l \in Links /\ ClientOf[l] \in Clients
  BY BrokerAssumption DEF BrokerType, SlabOK, Used
<1>2. /\ slab' = [slab EXCEPT ![id] = None]
      /\ conn' = [conn EXCEPT ![l] = Fresh]
      /\ data' = [f \in Filters |-> [data[f] EXCEPT !.waiters = WithoutId(@, id)]]
      /\ grave' = [grave EXCEPT ![ClientOf[l]] = IF l \in Clean THEN None ELSE Session(id)]
  BY DEF Disconnection
<1>3. ASSUME NEW f \in Filters PROVE data'[f].waiters = WithoutId(data[f].waiters, id)
  <2>1. data[f] \in FilterData(data)
    BY DEF BrokerType, DataOK
  <2>2. data'[f] = [data[f] EXCEPT !.waiters = WithoutId(data[f].waiters, id)]
    BY <1>2
  <2> QED
    BY <2>1, <2>2 DEF FilterData
<1>4. ASSUME NEW i \in Ids, Used(i)', NEW f \in Filters
      PROVE  Asked(conn'[slab'[i]].reqs, f) + Elsewhere(i, f)' = Needed(conn'[slab'[i]].subs, f)
  <2>1. i # id /\ Used(i) /\ slab'[i] = slab[i]
    BY <1>2, <1>4 DEF Used, BrokerType, SlabOK
  <2>2. slab[i] # l
    BY <2>1, OneId
  <2>3. slab[i] \in Links
    BY <2>1 DEF BrokerType, SlabOK, Used
  <2>4. conn'[slab[i]] = conn[slab[i]]
    BY <1>1, <1>2, <2>2, <2>3 DEF BrokerType, ConnOK
  <2>5. data[f].waiters \in Seq(AnyWaiter)
    BY CountTypes
  <2>6. Waiting(data'[f].waiters, i, f) = Waiting(data[f].waiters, i, f)
    BY <1>3, <2>1, <2>5, WaitingWithout
  <2>7. Elsewhere(i, f)' = Elsewhere(i, f)
    BY <2>6 DEF Elsewhere
  <2> QED
    BY <2>1, <2>4, <2>7 DEF CountOK
<1>5. CountOK'
  BY <1>4 DEF CountOK
<1>6. ASSUME NEW f \in Filters
      PROVE  Asked(Session(id).reqs, f) = Needed(Session(id).subs, f)
  <2>1. Asked(conn[l].reqs, f) + Elsewhere(id, f) = Needed(conn[l].subs, f)
    BY DEF CountOK
  <2>2. /\ Asked(conn[l].reqs, f) \in Nat
        /\ Waiting(data[f].waiters, id, f) \in Nat
    BY <1>1, CountTypes
  <2>3. Waiting(<<>>, id, f) = 0
    <3>1. <<>> \in Seq(AnyWaiter)
      OBVIOUS
    <3> QED
      BY <3>1, WaitingFacts
  <2>4. Elsewhere(id, f) = Waiting(data[f].waiters, id, f)
    BY <2>2, <2>3 DEF Elsewhere
  <2>5. Needed(conn[l].subs, f) \in {0, 1}
    BY DEF Needed
  <2>6. Waiting(data[f].waiters, id, f) <= 1
    BY <2>1, <2>2, <2>4, <2>5
  <2>7. /\ Asked(Session(id).reqs, f) = Asked(conn[l].reqs, f) + Waiting(data[f].waiters, id, f)
        /\ Session(id).subs = conn[l].subs
    BY <1>1, <2>6, SessionCount DEF BrokerType
  <2> QED
    BY <2>1, <2>4, <2>7
<1>7. ASSUME NEW c \in Clients, grave'[c] # None, NEW f \in Filters
      PROVE  Asked(grave'[c].reqs, f) = Needed(grave'[c].subs, f)
  <2>1. CASE c = ClientOf[l]
    <3>1. grave'[c] = Session(id)
      BY <1>2, <1>7, <2>1 DEF BrokerType, GraveOK
    <3> QED
      BY <1>6, <3>1
  <2>2. CASE c # ClientOf[l]
    <3>1. grave'[c] = grave[c]
      BY <1>2, <2>2 DEF BrokerType, GraveOK
    <3> QED
      BY <1>7, <3>1 DEF SavedOK
  <2> QED
    BY <2>1, <2>2
<1> QED
  BY <1>5, <1>7 DEF SavedOK

\* Nobody is counted in a list that is empty.
LEMMA NobodyWaits ==
    ASSUME NEW id, NEW f
    PROVE  Waiting(<<>>, id, f) = 0 /\ Asked(<<>>, f) = 0
<1>1. <<>> \in Seq(AnyWaiter) /\ <<>> \in Seq(AnyRequest)
  OBVIOUS
<1> QED
  BY <1>1, WaitingFacts, AskedFacts, ZenonT(40)

\* A step of the turn of a connection: what it moves are requests of this
\* connection.
LEMMA TurnCounts ==
    ASSUME BrokerType, CountOK, task.step = "requests", slab' = slab, NEW d,
           conn' = [conn EXCEPT ![task.link] = d], d.subs = conn[task.link].subs,
           task'.notes = <<>>, task'.step = "requests" => task'.id = task.id,
           \A f \in Filters : \A id \in Ids : id # task.id =>
              Waiting(data'[f].waiters, id, f) = Waiting(data[f].waiters, id, f),
           \A f \in Filters :
              Asked(d.reqs, f) + Waiting(data'[f].waiters, task.id, f)
                + (IF task'.step = "requests" THEN Asked(task'.reqs, f) ELSE 0)
              = Asked(conn[task.link].reqs, f) + Waiting(data[f].waiters, task.id, f) + Asked(task.reqs, f),
           \A f \in Filters :
              /\ Asked(d.reqs, f) \in Nat /\ Waiting(data'[f].waiters, task.id, f) \in Nat
              /\ task'.step = "requests" => Asked(task'.reqs, f) \in Nat
    PROVE  CountOK'
<1> DEFINE c == conn[task.link]
<1>0. PICK i \in Ids : i = task.id
  BY ServingFacts
<1>1. /\ slab[i] = task.link /\ Used(i) /\ task.notes = <<>> /\ task.link \in Links
  BY <1>0, ServingFacts
<1>2. ASSUME NEW id \in Ids, id # i, NEW f \in Filters PROVE Elsewhere(id, f)' = Elsewhere(id, f)
  <2>1. Waiting(data'[f].waiters, id, f) = Waiting(data[f].waiters, id, f)
    BY <1>0, <1>2
  <2>2. task'.notes = task.notes
    BY <1>1
  <2>3. ~(task'.step = "requests" /\ task'.id = id) /\ ~(task.step = "requests" /\ task.id = id)
    BY <1>0, <1>2
  <2> QED
    BY <2>1, <2>2, <2>3 DEF Elsewhere
<1>3. ASSUME NEW f \in Filters PROVE Asked(d.reqs, f) + Elsewhere(i, f)' = Needed(d.subs, f)
  <2> DEFINE a1 == Asked(d.reqs, f)
             w1 == Waiting(data'[f].waiters, i, f)
             t1 == IF task'.step = "requests" THEN Asked(task'.reqs, f) ELSE 0
             a0 == Asked(c.reqs, f)
             w0 == Waiting(data[f].waiters, i, f)
             t0 == Asked(task.reqs, f)
  <2>1. a1 + w1 + t1 = a0 + w0 + t0
    BY <1>0
  <2>2. a1 \in Nat /\ w1 \in Nat /\ t1 \in Nat
    BY <1>0
  <2>3. a0 \in Nat /\ w0 \in Nat /\ t0 \in Nat
    BY <1>1, CountTypes
  <2>4. Waiting(<<>>, i, f) = 0
    BY NobodyWaits
  <2>5. Elsewhere(i, f) = w0 + t0
    <3>1. Elsewhere(i, f) = w0 + Waiting(task.notes, i, f) + t0
      BY <1>0 DEF Elsewhere
    <3> HIDE DEF w0, t0
    <3> QED
      BY <1>1, <2>3, <2>4, <3>1
  <2>6. Elsewhere(i, f)' = w1 + t1
    <3>1. Elsewhere(i, f)' = w1 + Waiting(task'.notes, i, f) + t1
      BY <1>0 DEF Elsewhere
    <3> HIDE DEF w1, t1
    <3> QED
      BY <2>2, <2>4, <3>1
  <2>7. a0 + Elsewhere(i, f) = Needed(c.subs, f)
    BY <1>1 DEF CountOK
  <2> HIDE DEF a0, a1, w0, w1, t0, t1
  <2>8. a1 + Elsewhere(i, f)' = Needed(c.subs, f)
    BY <2>1, <2>2, <2>3, <2>5, <2>6, <2>7
  <2> QED
    BY <2>8 DEF a1
<1>4. conn' = [conn EXCEPT ![slab[i]] = d]
  BY <1>1
<1>5. \A id \in Ids : id # i /\ Used(id) => \A f \in Filters : Elsewhere(id, f)' = Elsewhere(id, f)
  BY <1>2
<1>6. \A f \in Filters : Asked(d.reqs, f) + Elsewhere(i, f)' = Needed(d.subs, f)
  BY <1>3
<1> QED
  BY <1>1, <1>4, <1>5, <1>6, CountPut, ZenonT(40)

\* A turn that ends puts what it has not served back into the tracker.
LEMMA TurnEndCounts ==
    ASSUME BrokerType, CountOK, RequestInflightFull \/ CaughtUp \/ TurnEnds
    PROVE  CountOK'
<1> DEFINE c == conn[task.link]
           ts == task.reqs
           old == c.reqs
           R == AnyRequest
<1>1. task.step = "requests" /\ slab' = slab /\ task' = NoTask /\ data' = data
  BY DEF RequestInflightFull, CaughtUp, TurnEnds, InConsume
<1>2. task.link \in Links /\ c \in ConnectionsIn(data)
  BY <1>1, ServingFacts
<1>3. task'.notes = <<>> /\ task'.step # "requests"
  BY <1>1 DEF NoTask
<1>4. ts \in Seq(R) /\ old \in Seq(R)
  <2>1. ts \in Seq(RequestsIn(data)) /\ old \in Seq(RequestsIn(data))
    BY <1>1, <1>2, ServingFacts, ConnFields
  <2> QED
    BY <2>1, AnyType
<1>5. \A f \in Filters :
         /\ Asked(old, f) \in Nat /\ Asked(ts, f) \in Nat /\ Waiting(data[f].waiters, task.id, f) \in Nat
  BY <1>2, CountTypes
<1>6. ASSUME NEW d, conn' = [conn EXCEPT ![task.link] = d], d.subs = c.subs,
             \A f \in Filters : Asked(d.reqs, f) = Asked(old, f) + Asked(ts, f)
      PROVE  CountOK'
  <2>1. \A f \in Filters :
              /\ Asked(d.reqs, f) \in Nat /\ Waiting(data'[f].waiters, task.id, f) \in Nat
              /\ Asked(d.reqs, f) + Waiting(data'[f].waiters, task.id, f)
                   + (IF task'.step = "requests" THEN Asked(task'.reqs, f) ELSE 0)
                 = Asked(old, f) + Waiting(data[f].waiters, task.id, f) + Asked(ts, f)
    <3> SUFFICES ASSUME NEW f \in Filters
                 PROVE  /\ Asked(d.reqs, f) \in Nat /\ Waiting(data'[f].waiters, task.id, f) \in Nat
                        /\ Asked(d.reqs, f) + Waiting(data'[f].waiters, task.id, f)
                             + (IF task'.step = "requests" THEN Asked(task'.reqs, f) ELSE 0)
                           = Asked(old, f) + Waiting(data[f].waiters, task.id, f) + Asked(ts, f)
      OBVIOUS
    <3> HIDE DEF old, ts
    <3>1. Asked(d.reqs, f) = Asked(old, f) + Asked(ts, f)
      BY <1>6
    <3>2. Waiting(data'[f].waiters, task.id, f) = Waiting(data[f].waiters, task.id, f)
      BY <1>1
    <3> QED
      BY <1>3, <1>5, <3>1, <3>2
  <2> QED
    BY <1>1, <1>3, <1>6, <2>1, TurnCounts
<1>7. CASE RequestInflightFull
  <2> DEFINE req == Head(task.reqs)
             rs == c.reqs \o Tail(task.reqs) \o <<req>>
             c1 == [c EXCEPT !.reqs = rs]
             d == [c1 EXCEPT !.status = "InflightFull"]
  <2>1. conn' = [conn EXCEPT ![task.link] = d] /\ ts # <<>>
    BY <1>7 DEF RequestInflightFull, Paused
  <2>2. d.subs = c.subs /\ d.reqs = rs
    <3> HIDE DEF rs
    <3> QED
      BY <1>2, ConnFields
  <2>3. ASSUME NEW f \in Filters PROVE Asked(rs, f) = Asked(old, f) + Asked(ts, f)
    <3> DEFINE tl == Tail(ts)
    <3>1. rs = (old \o tl) \o <<req>> /\ req = Head(ts)
      OBVIOUS
    <3> HIDE DEF rs, req, old, ts
    <3>2. tl \in Seq(R) /\ req \in R /\ <<req>> \in Seq(R)
      BY <1>4, <2>1, <3>1
    <3>3. Asked(ts, f) = (IF req.f = f THEN 1 ELSE 0) + Asked(tl, f)
      BY <1>4, <2>1, <3>1, AskedFacts
    <3> HIDE DEF tl, R
    <3>4. old \o tl \in Seq(R) /\ rs = Append(old \o tl, req)
      BY <1>4, <3>1, <3>2
    <3>5. Asked(old \o tl, f) = Asked(old, f) + Asked(tl, f)
      BY <1>4, <3>2, AskedFacts DEF R
    <3>6. Asked(Append(old \o tl, req), f) = Asked(old \o tl, f) + (IF req.f = f THEN 1 ELSE 0)
      BY <3>2, <3>4, AskedFacts DEF R
    <3>7. Asked(tl, f) \in Nat /\ Asked(old, f) \in Nat
      BY <1>4, <3>2, AskedFacts DEF R
    <3> QED
      BY <3>3, <3>4, <3>5, <3>6, <3>7
  <2> HIDE DEF d, rs, c, old, ts
  <2> QED
    BY <1>6, <2>1, <2>2, <2>3
<1>8. CASE CaughtUp
  <2> DEFINE d == [c EXCEPT !.status = "Caughtup"]
  <2>1. conn' = [conn EXCEPT ![task.link] = d] /\ ts = <<>>
    BY <1>8 DEF CaughtUp, Paused
  <2>2. d.reqs = c.reqs /\ d.subs = c.subs
    BY <1>2, ConnFields
  <2>3. ASSUME NEW f \in Filters PROVE Asked(d.reqs, f) = Asked(old, f) + Asked(ts, f)
    <3>1. Asked(ts, f) = 0
      BY <2>1, NobodyWaits
    <3>2. Asked(d.reqs, f) = Asked(old, f) /\ Asked(old, f) \in Nat
      BY <1>5, <2>2
    <3> HIDE DEF d, old, ts
    <3> QED
      BY <3>1, <3>2
  <2> HIDE DEF d, c, old, ts
  <2> QED
    BY <1>6, <2>1, <2>2, <2>3
<1>9. CASE TurnEnds
  <2> DEFINE rs == old \o ts
             d == [c EXCEPT !.reqs = rs]
  <2>1. conn' = [conn EXCEPT ![task.link] = d]
    BY <1>2, <1>9 DEF TurnEnds, BrokerType, ConnOK
  <2>2. \A f \in Filters : Asked(rs, f) = Asked(old, f) + Asked(ts, f)
    BY <1>4, AskedFacts
  <2> HIDE DEF rs
  <2>3. d.reqs = rs /\ d.subs = c.subs
    BY <1>2, ConnFields
  <2> HIDE DEF d, c, old, ts
  <2> QED
    BY <1>6, <2>1, <2>2, <2>3
<1> QED
  BY <1>7, <1>8, <1>9

\* poll takes the requests of a connection out of its tracker to serve them.
LEMMA PollCounts ==
    ASSUME BrokerType, CountOK, Poll
    PROVE  CountOK'
<1>0. PICK i \in Ids : i = Head(ready)
  <2>1. ready \in Seq(Ids) /\ ready # <<>>
    BY DEF BrokerType, TablesOK, Poll
  <2> QED
    BY <2>1
<1> DEFINE l == slab[i]
           c == conn[l]
           e == <<>>
           c1 == [c EXCEPT !.acks = e]
           d == [c1 EXCEPT !.reqs = e]
<1>1. /\ ready # <<>> /\ Used(i) /\ slab' = slab /\ Idle /\ data' = data
      /\ conn' = [conn EXCEPT ![l].acks = <<>>, ![l].reqs = <<>>]
      /\ task' = [NoTask EXCEPT !.step = "requests", !.id = i, !.link = l,
                                !.reqs = c.reqs, !.left = MaxIterations]
  BY <1>0 DEF Poll
<1>3. l \in Links
  BY <1>1 DEF BrokerType, SlabOK, Used
<1>4. c \in ConnectionsIn(data) /\ conn \in [Links -> ConnectionsIn(data)]
  BY <1>3 DEF BrokerType, ConnOK
<1>5. conn' = [conn EXCEPT ![slab[i]] = d]
  BY <1>1, <1>3, <1>4, ConnFields
<1>6. task'.step = "requests" /\ task'.id = i /\ task'.reqs = c.reqs /\ task'.notes = <<>>
  BY <1>1 DEF NoTask
<1>7. task.step = "none" /\ task.notes = <<>>
  BY <1>1 DEF Idle, BrokerType, TaskHolds
<1>8. d.reqs = e /\ d.subs = c.subs
  <2>1. DOMAIN c = {"status", "reqs", "subs", "acks", "recorded", "inflight", "pubrels", "pkid"}
    BY <1>4, ConnFields
  <2> HIDE DEF c, e
  <2> QED
    BY <2>1
<1>9. \A f \in Filters : Asked(e, f) = 0
  BY NobodyWaits
<1>10. ASSUME NEW id \in Ids, id # i, NEW f \in Filters PROVE Elsewhere(id, f)' = Elsewhere(id, f)
  BY <1>1, <1>6, <1>7, <1>10 DEF Elsewhere
<1>11. ASSUME NEW f \in Filters PROVE Asked(d.reqs, f) + Elsewhere(i, f)' = Needed(d.subs, f)
  <2> DEFINE w == Waiting(data[f].waiters, i, f)
             n == Waiting(task.notes, i, f)
             a == Asked(c.reqs, f)
  <2>1. Elsewhere(i, f) = w + n + 0
    BY <1>7 DEF Elsewhere
  <2>2. Elsewhere(i, f)' = w + n + a
    BY <1>1, <1>6, <1>7 DEF Elsewhere
  <2>3. w \in Nat /\ n \in Nat /\ a \in Nat
    BY <1>3, CountTypes
  <2>4. a + Elsewhere(i, f) = Needed(c.subs, f)
    BY <1>1 DEF CountOK
  <2>5. Asked(d.reqs, f) = 0
    BY <1>8, <1>9
  <2> HIDE DEF w, n, a, d, c
  <2> QED
    BY <1>8, <2>1, <2>2, <2>3, <2>4, <2>5
<1> HIDE DEF d, l
<1> QED
  BY <1>1, <1>5, <1>10, <1>11, CountPut

\* forward_device_data tracks the request again, parks it, or serves it again.
LEMMA ServeCounts ==
    ASSUME BrokerType, CountOK, ServeRequest
    PROVE  CountOK'
<1>1. task.step = "requests" /\ task.left > 0 /\ task.reqs # <<>>
  BY DEF ServeRequest
<1>2. PICK order, read : ServeOK(order, read) /\ Serve(order, read)
  BY ServeRequestOK
<1>3. slab' = slab /\ (TurnBusy(order, read) \/ TurnParks(order, read) \/ TurnAgain(order, read))
  BY <1>2, ServeParts DEF InConsume
<1> DEFINE c == conn[task.link]
           d == TurnLeaves(order, read)
           ts == task.reqs
           req == Head(ts)
           tl == Tail(ts)
           old == c.reqs
           next == Following(read)
<1>4. d \in ConnectionsIn(data) /\ d.reqs = c.reqs /\ d.subs = c.subs
  BY <1>1, <1>2, LeavesFacts
<1>5. /\ task.link \in Links /\ c \in ConnectionsIn(data) /\ task \in TasksIn(data) /\ task.notes = <<>>
      /\ req \in RequestsIn(data) /\ tl \in Seq(RequestsIn(data)) /\ ts \in Seq(RequestsIn(data))
      /\ task.id \in Ids
  BY <1>1, ServingFacts
<1>6. /\ next \in RequestsIn(data) /\ next.f = req.f
      /\ [id |-> task.id, req |-> next] \in WaitersIn(data)
  BY <1>1, <1>2, FollowingType
<1>7. old \in Seq(RequestsIn(data))
  BY <1>5, ConnFields
<1>8. /\ ts \in Seq(AnyRequest) /\ tl \in Seq(AnyRequest) /\ old \in Seq(AnyRequest)
      /\ next \in AnyRequest /\ [id |-> task.id, req |-> next] \in AnyWaiter
  BY <1>5, <1>6, <1>7, AnyType
<1>9. ASSUME NEW f \in Filters
      PROVE  /\ Asked(old, f) \in Nat /\ Asked(ts, f) \in Nat /\ Asked(tl, f) \in Nat
             /\ Waiting(data[f].waiters, task.id, f) \in Nat
             /\ Asked(ts, f) = (IF next.f = f THEN 1 ELSE 0) + Asked(tl, f)
             /\ Asked(Append(tl, next), f) = Asked(tl, f) + (IF next.f = f THEN 1 ELSE 0)
             /\ Asked(Append(old \o tl, next), f) = Asked(old, f) + Asked(tl, f) + (IF next.f = f THEN 1 ELSE 0)
  <2>1. /\ Asked(old, f) \in Nat /\ Asked(ts, f) \in Nat /\ Waiting(data[f].waiters, task.id, f) \in Nat
    BY <1>5, CountTypes
  <2> HIDE DEF old, ts, next, c
  <2>2. ts # <<>>
    BY <1>1 DEF ts
  <2>3. Asked(ts, f) = (IF req.f = f THEN 1 ELSE 0) + Asked(tl, f)
    BY <1>8, <2>2, AskedFacts
  <2> HIDE DEF tl, req
  <2>4. /\ Asked(tl, f) \in Nat
        /\ Asked(Append(tl, next), f) = Asked(tl, f) + (IF next.f = f THEN 1 ELSE 0)
    BY <1>8, AskedFacts
  <2>5. old \o tl \in Seq(AnyRequest)
    <3> DEFINE A == AnyRequest
    <3>1. old \in Seq(A) /\ tl \in Seq(A)
      BY <1>8
    <3> HIDE DEF A
    <3>2. old \o tl \in Seq(A)
      BY <3>1
    <3> QED
      BY <3>2 DEF A
  <2>6. Asked(old \o tl, f) = Asked(old, f) + Asked(tl, f)
    BY <1>8, AskedFacts
  <2>7. Asked(Append(old \o tl, next), f) = Asked(old \o tl, f) + (IF next.f = f THEN 1 ELSE 0)
    BY <1>8, <2>5, AskedFacts
  <2> QED
    BY <1>6, <2>1, <2>3, <2>4, <2>6, <2>7
<1>10. CASE TurnBusy(order, read)
  <2> DEFINE rs == d.reqs \o tl \o <<next>>
             d1 == [d EXCEPT !.reqs = rs]
             g == [d1 EXCEPT !.status = "Busy"]
  <2>1. conn' = [conn EXCEPT ![task.link] = g] /\ task' = NoTask /\ data' = data
    BY <1>10 DEF TurnBusy, Paused
  <2>2. DOMAIN d = {"status", "reqs", "subs", "acks", "recorded", "inflight", "pubrels", "pkid"}
    BY <1>4, ConnFields
  <2>3. rs = Append(old \o tl, next)
    <3> DEFINE A == AnyRequest
    <3>1. old \in Seq(A) /\ tl \in Seq(A) /\ next \in A /\ rs = (old \o tl) \o <<next>>
      BY <1>4, <1>8
    <3> HIDE DEF A, rs, old, tl, next
    <3>2. (old \o tl) \o <<next>> = Append(old \o tl, next)
      BY <3>1
    <3> QED
      BY <3>1, <3>2
  <2> HIDE DEF rs, d
  <2>4. g.reqs = rs /\ g.subs = d.subs
    BY <2>2
  <2> HIDE DEF g
  <2>5. task'.notes = <<>> /\ task'.step # "requests"
    BY <2>1 DEF NoTask
  <2>6. \A f \in Filters :
           /\ Asked(g.reqs, f) \in Nat /\ Waiting(data'[f].waiters, task.id, f) \in Nat
           /\ Asked(g.reqs, f) + Waiting(data'[f].waiters, task.id, f)
                + (IF task'.step = "requests" THEN Asked(task'.reqs, f) ELSE 0)
              = Asked(old, f) + Waiting(data[f].waiters, task.id, f) + Asked(ts, f)
    <3> SUFFICES ASSUME NEW f \in Filters
                 PROVE  /\ Asked(g.reqs, f) \in Nat /\ Waiting(data'[f].waiters, task.id, f) \in Nat
                        /\ Asked(g.reqs, f) + Waiting(data'[f].waiters, task.id, f)
                             + (IF task'.step = "requests" THEN Asked(task'.reqs, f) ELSE 0)
                           = Asked(old, f) + Waiting(data[f].waiters, task.id, f) + Asked(ts, f)
      OBVIOUS
    <3>1. /\ Asked(old, f) \in Nat /\ Asked(tl, f) \in Nat /\ Waiting(data[f].waiters, task.id, f) \in Nat
          /\ Asked(ts, f) = (IF next.f = f THEN 1 ELSE 0) + Asked(tl, f)
          /\ Asked(Append(old \o tl, next), f) = Asked(old, f) + Asked(tl, f) + (IF next.f = f THEN 1 ELSE 0)
      BY <1>9
    <3>2. Asked(g.reqs, f) = Asked(Append(old \o tl, next), f)
      BY <2>3, <2>4
    <3>3. Waiting(data'[f].waiters, task.id, f) = Waiting(data[f].waiters, task.id, f)
      BY <2>1
    <3> HIDE DEF old, tl, ts, next
    <3> QED
      BY <2>5, <3>1, <3>2, <3>3
  <2>7. \A f \in Filters : \A id \in Ids : id # task.id =>
              Waiting(data'[f].waiters, id, f) = Waiting(data[f].waiters, id, f)
    BY <2>1
  <2>8. g.subs = conn[task.link].subs
    BY <1>4, <2>4 DEF d
  <2> QED
    BY <1>1, <1>3, <2>1, <2>5, <2>6, <2>7, <2>8, TurnCounts
<1>11. CASE TurnParks(order, read)
  <2> DEFINE w == [id |-> task.id, req |-> next]
  <2>1. /\ conn' = [conn EXCEPT ![task.link] = d]
        /\ data' = [data EXCEPT ![req.f].waiters = Append(@, w)]
        /\ task' = [task EXCEPT !.reqs = tl, !.left = task.left - 1]
    BY <1>11 DEF TurnParks
  <2>2. task'.step = "requests" /\ task'.id = task.id /\ task'.notes = <<>> /\ task'.reqs = tl
    BY <1>1, <1>5, <2>1, TurnGoesOn
  <2>3. w \in AnyWaiter /\ w.id = task.id /\ w.req = next
    BY <1>8
  <2>4. ASSUME NEW f \in Filters, NEW id
        PROVE  Waiting(data'[f].waiters, id, f) =
                 Waiting(data[f].waiters, id, f) + (IF id = task.id /\ next.f = f THEN 1 ELSE 0)
    <3>1. data[f].waiters \in Seq(AnyWaiter) /\ Waiting(data[f].waiters, id, f) \in Nat
      BY CountTypes
    <3> HIDE DEF w
    <3>2. CASE f = req.f
      <4>1. data'[f].waiters = Append(data[f].waiters, w)
        BY <2>1, <3>2 DEF BrokerType, DataOK, FilterData
      <4>2. Waiting(Append(data[f].waiters, w), id, f) = Waiting(data[f].waiters, id, f)
              + (IF w.id = id /\ w.req.f = f THEN 1 ELSE 0)
        BY <2>3, <3>1, WaitingFacts
      <4> QED
        BY <2>3, <4>1, <4>2
    <3>3. CASE f # req.f
      <4>1. data'[f] = data[f]
        BY <2>1, <3>3 DEF BrokerType, DataOK
      <4> QED
        BY <1>6, <3>1, <3>3, <4>1
    <3> QED
      BY <3>2, <3>3
  <2>5. \A f \in Filters :
           /\ Asked(d.reqs, f) \in Nat /\ Waiting(data'[f].waiters, task.id, f) \in Nat
           /\ Asked(task'.reqs, f) \in Nat
           /\ Asked(d.reqs, f) + Waiting(data'[f].waiters, task.id, f)
                + (IF task'.step = "requests" THEN Asked(task'.reqs, f) ELSE 0)
              = Asked(old, f) + Waiting(data[f].waiters, task.id, f) + Asked(ts, f)
    <3> SUFFICES ASSUME NEW f \in Filters
                 PROVE  /\ Asked(d.reqs, f) \in Nat /\ Waiting(data'[f].waiters, task.id, f) \in Nat
                        /\ Asked(task'.reqs, f) \in Nat
                        /\ Asked(d.reqs, f) + Waiting(data'[f].waiters, task.id, f)
                             + (IF task'.step = "requests" THEN Asked(task'.reqs, f) ELSE 0)
                           = Asked(old, f) + Waiting(data[f].waiters, task.id, f) + Asked(ts, f)
      OBVIOUS
    <3>1. /\ Asked(old, f) \in Nat /\ Asked(tl, f) \in Nat /\ Waiting(data[f].waiters, task.id, f) \in Nat
          /\ Asked(ts, f) = (IF next.f = f THEN 1 ELSE 0) + Asked(tl, f)
      BY <1>9
    <3>2. Asked(d.reqs, f) = Asked(old, f) /\ Asked(task'.reqs, f) = Asked(tl, f)
      BY <1>4, <2>2
    <3>3. Waiting(data'[f].waiters, task.id, f) =
            Waiting(data[f].waiters, task.id, f) + (IF next.f = f THEN 1 ELSE 0)
      BY <2>4
    <3> HIDE DEF old, tl, ts, next, d
    <3> QED
      BY <2>2, <3>1, <3>2, <3>3
  <2>6. \A f \in Filters : \A id \in Ids : id # task.id =>
              Waiting(data'[f].waiters, id, f) = Waiting(data[f].waiters, id, f)
    <3> SUFFICES ASSUME NEW f \in Filters, NEW id \in Ids, id # task.id
                 PROVE  Waiting(data'[f].waiters, id, f) = Waiting(data[f].waiters, id, f)
      OBVIOUS
    <3>1. Waiting(data[f].waiters, id, f) \in Nat
      BY CountTypes
    <3> QED
      BY <2>4, <3>1
  <2>7. d.subs = conn[task.link].subs /\ conn' = [conn EXCEPT ![task.link] = d]
    BY <1>4, <2>1
  <2> HIDE DEF d
  <2> QED
    BY <1>1, <1>3, <2>2, <2>5, <2>6, <2>7, TurnCounts
<1>12. CASE TurnAgain(order, read)
  <2> DEFINE rs == Append(tl, next)
  <2>1. /\ conn' = [conn EXCEPT ![task.link] = d] /\ data' = data
        /\ task' = [task EXCEPT !.reqs = rs, !.left = task.left - 1]
    BY <1>12 DEF TurnAgain
  <2>2. rs \in Seq(RequestsIn(data))
    <3> DEFINE A == RequestsIn(data)
    <3>1. tl \in Seq(A) /\ next \in A
      BY <1>5, <1>6
    <3> HIDE DEF A, tl, next
    <3>2. Append(tl, next) \in Seq(A)
      BY <3>1
    <3> QED
      BY <3>2 DEF A
  <2> HIDE DEF rs
  <2>3. task'.step = "requests" /\ task'.id = task.id /\ task'.notes = <<>> /\ task'.reqs = rs
    BY <1>1, <1>5, <2>1, <2>2, TurnGoesOn
  <2>4. \A f \in Filters :
           /\ Asked(d.reqs, f) \in Nat /\ Waiting(data'[f].waiters, task.id, f) \in Nat
           /\ Asked(task'.reqs, f) \in Nat
           /\ Asked(d.reqs, f) + Waiting(data'[f].waiters, task.id, f)
                + (IF task'.step = "requests" THEN Asked(task'.reqs, f) ELSE 0)
              = Asked(old, f) + Waiting(data[f].waiters, task.id, f) + Asked(ts, f)
    <3> SUFFICES ASSUME NEW f \in Filters
                 PROVE  /\ Asked(d.reqs, f) \in Nat /\ Waiting(data'[f].waiters, task.id, f) \in Nat
                        /\ Asked(task'.reqs, f) \in Nat
                        /\ Asked(d.reqs, f) + Waiting(data'[f].waiters, task.id, f)
                             + (IF task'.step = "requests" THEN Asked(task'.reqs, f) ELSE 0)
                           = Asked(old, f) + Waiting(data[f].waiters, task.id, f) + Asked(ts, f)
      OBVIOUS
    <3>1. /\ Asked(old, f) \in Nat /\ Asked(tl, f) \in Nat /\ Waiting(data[f].waiters, task.id, f) \in Nat
          /\ Asked(ts, f) = (IF next.f = f THEN 1 ELSE 0) + Asked(tl, f)
          /\ Asked(Append(tl, next), f) = Asked(tl, f) + (IF next.f = f THEN 1 ELSE 0)
      BY <1>9
    <3>2. Asked(d.reqs, f) = Asked(old, f) /\ Asked(task'.reqs, f) = Asked(Append(tl, next), f)
      BY <1>4, <2>3 DEF rs
    <3>3. Waiting(data'[f].waiters, task.id, f) = Waiting(data[f].waiters, task.id, f)
      BY <2>1
    <3> HIDE DEF old, tl, ts, next, d
    <3> QED
      BY <2>3, <3>1, <3>2, <3>3
  <2>5. \A f \in Filters : \A id \in Ids : id # task.id =>
              Waiting(data'[f].waiters, id, f) = Waiting(data[f].waiters, id, f)
    BY <2>1
  <2>6. d.subs = conn[task.link].subs /\ conn' = [conn EXCEPT ![task.link] = d]
    BY <1>4, <2>1
  <2> HIDE DEF d
  <2> QED
    BY <1>1, <1>3, <2>3, <2>4, <2>5, <2>6, TurnCounts
<1> QED
  BY <1>3, <1>10, <1>11, <1>12

\* A request that was parked is tracked again.
LEMMA NotifyCounts ==
    ASSUME BrokerType, CountOK, NotifyWaiter
    PROVE  CountOK'
<1> DEFINE ns == task.notes
           w == Head(ns)
<1>1. /\ task.step = "notify" /\ task.notes # <<>> /\ slab' = slab /\ data' = data
      /\ conn' = [conn EXCEPT ![slab[w.id]] =
                    Woken([conn[slab[w.id]] EXCEPT !.reqs = Append(@, w.req)], "FreshData")]
      /\ task' = [task EXCEPT !.notes = Tail(@)]
  BY DEF NotifyWaiter, InPayload
<1>2. task \in TasksIn(data) /\ ns \in Seq(WaitersIn(data))
  <2>1. task \in TasksIn(data)
    BY DEF BrokerType, TaskOK
  <2> QED
    BY <2>1, TaskFields
<1>3. w \in WaitersIn(data) /\ w \in Range(ns)
  <2> DEFINE W == WaitersIn(data)
  <2>1. ns \in Seq(W) /\ ns # <<>>
    BY <1>1, <1>2
  <2> HIDE DEF ns, W
  <2>2. Head(ns) \in W /\ Head(ns) \in Range(ns)
    BY <2>1, TailFacts
  <2> QED
    BY <2>2 DEF W
<1>4. task'.notes = Tail(ns) /\ task'.step = "notify"
  BY <1>1, <1>2, TaskFields
<1>5. ns \in Seq(AnyWaiter) /\ ns # <<>> /\ w \in AnyWaiter
  BY <1>1, <1>2, <1>3, AnyType
<1>6. PICK v \in AnyWaiter : v = w
  BY <1>5
<1>22. v.id \in Ids
  BY DEF AnyWaiter
<1>23. PICK i \in Ids : i = v.id
  BY <1>22
<1> DEFINE l == slab[i]
           c == conn[l]
           reqs == Append(c.reqs, v.req)
           c1 == [c EXCEPT !.reqs = reqs]
           d == Woken(c1, "FreshData")
<1>7. i \in Ids /\ v.req \in RequestsIn(data) /\ Used(i)
  BY <1>3, <1>6, <1>23 DEF WaitersIn, BrokerType, TaskHolds
<1>8. conn' = [conn EXCEPT ![slab[i]] = d]
  BY <1>1, <1>6, <1>23
<1>9. \A f \in Filters : \A id : Waiting(ns, id, f) = (IF i = id /\ v.req.f = f THEN 1 ELSE 0)
                                     + Waiting(Tail(ns), id, f)
  <2> HIDE DEF ns
  <2> QED
    BY <1>5, <1>6, <1>23, WaitingFacts
<1>10. \A f \in Filters : \A id : Waiting(Tail(ns), id, f) \in Nat
  <2> HIDE DEF ns
  <2>1. Tail(ns) \in Seq(AnyWaiter)
    BY <1>5
  <2> QED
    BY <2>1, WaitingFacts
<1> HIDE DEF w
<1>11. l \in Links
  BY <1>7 DEF BrokerType, SlabOK, Used
<1>12. c \in ConnectionsIn(data)
  BY <1>11 DEF BrokerType, ConnOK
<1>13. c.reqs \in Seq(RequestsIn(data))
  BY <1>12, ConnFields
<1>14. reqs \in Seq(RequestsIn(data)) /\ c.reqs \in Seq(AnyRequest)
  <2> DEFINE A == RequestsIn(data)
             o == c.reqs
  <2>1. o \in Seq(A) /\ v.req \in A
    BY <1>7, <1>13
  <2> HIDE DEF A, o
  <2>2. Append(o, v.req) \in Seq(A)
    BY <2>1
  <2> QED
    BY <1>13, <2>2, AnyType DEF A, o
<1>15. \A f \in Filters : Asked(reqs, f) = Asked(c.reqs, f) + (IF v.req.f = f THEN 1 ELSE 0)
  <2>1. v.req \in AnyRequest
    BY <1>7, AnyType
  <2> QED
    BY <1>14, <2>1, AskedFacts
<1>16. \A f \in Filters : Asked(c.reqs, f) \in Nat
  BY <1>11, CountTypes
<1> HIDE DEF reqs
<1>17. c1 \in ConnectionsIn(data) /\ c1.subs = c.subs /\ c1.reqs = reqs
  BY <1>12, <1>14, ConnEdits, ConnFields
<1> HIDE DEF c1
<1>18. d.reqs = reqs /\ d.subs = c.subs
  BY <1>17, WokenFacts
<1> HIDE DEF d
<1>19. ASSUME NEW id \in Ids, NEW f \in Filters
       PROVE  /\ Elsewhere(id, f) = Waiting(data[f].waiters, id, f) + Waiting(ns, id, f)
              /\ Elsewhere(id, f)' = Waiting(data[f].waiters, id, f) + Waiting(Tail(ns), id, f)
              /\ Waiting(data[f].waiters, id, f) \in Nat
  <2>1. Elsewhere(id, f) = Waiting(data[f].waiters, id, f) + Waiting(ns, id, f) + 0
    BY <1>1 DEF Elsewhere
  <2>2. Elsewhere(id, f)' = Waiting(data[f].waiters, id, f) + Waiting(Tail(ns), id, f) + 0
    BY <1>1, <1>4 DEF Elsewhere
  <2>3. Waiting(data[f].waiters, id, f) \in Nat /\ Waiting(ns, id, f) \in Nat
    BY CountTypes
  <2>4. Waiting(Tail(ns), id, f) \in Nat
    BY <1>10
  <2> HIDE DEF ns
  <2> QED
    BY <2>1, <2>2, <2>3, <2>4
<1> HIDE DEF ns
<1>20. \A id \in Ids : id # i /\ Used(id) => \A f \in Filters : Elsewhere(id, f)' = Elsewhere(id, f)
  <2> SUFFICES ASSUME NEW id \in Ids, id # i, NEW f \in Filters
               PROVE  Elsewhere(id, f)' = Elsewhere(id, f)
    OBVIOUS
  <2>1. Waiting(ns, id, f) = Waiting(Tail(ns), id, f)
    BY <1>9, <1>10
  <2> QED
    BY <1>19, <2>1
<1>21. \A f \in Filters : Asked(d.reqs, f) + Elsewhere(i, f)' = Needed(d.subs, f)
  <2> SUFFICES ASSUME NEW f \in Filters PROVE Asked(d.reqs, f) + Elsewhere(i, f)' = Needed(d.subs, f)
    OBVIOUS
  <2>1. Waiting(ns, i, f) = (IF v.req.f = f THEN 1 ELSE 0) + Waiting(Tail(ns), i, f)
        /\ Waiting(Tail(ns), i, f) \in Nat
    BY <1>9, <1>10
  <2>2. Asked(c.reqs, f) + Elsewhere(i, f) = Needed(c.subs, f)
    BY <1>7 DEF CountOK
  <2>3. Asked(d.reqs, f) = Asked(c.reqs, f) + (IF v.req.f = f THEN 1 ELSE 0)
    BY <1>15, <1>18
  <2>4. /\ Elsewhere(i, f) = Waiting(data[f].waiters, i, f) + Waiting(ns, i, f)
        /\ Elsewhere(i, f)' = Waiting(data[f].waiters, i, f) + Waiting(Tail(ns), i, f)
        /\ Waiting(data[f].waiters, i, f) \in Nat
    BY <1>7, <1>19
  <2>5. Asked(c.reqs, f) \in Nat
    BY <1>16
  <2> HIDE DEF c
  <2> QED
    BY <1>18, <2>1, <2>2, <2>3, <2>4, <2>5
<1>24. PICK g : g = d
  OBVIOUS
<1>25. conn' = [conn EXCEPT ![slab[i]] = g] /\ slab' = slab /\ Used(i)
  BY <1>1, <1>7, <1>8, <1>24
<1>26. \A f \in Filters : Asked(g.reqs, f) + Elsewhere(i, f)' = Needed(g.subs, f)
  BY <1>21, <1>24
<1> HIDE DEF l, c
<1> QED
  BY <1>20, <1>25, <1>26, CountPut

\* A step that moves requests outside the trackers only.
LEMMA CountMoved ==
    ASSUME BrokerType, CountOK, slab' = slab,
           \A l \in Links : conn'[l].reqs = conn[l].reqs /\ conn'[l].subs = conn[l].subs,
           \A id \in Ids : \A f \in Filters : Elsewhere(id, f)' = Elsewhere(id, f)
    PROVE  CountOK'
<1> SUFFICES ASSUME NEW id \in Ids, Used(id), NEW f \in Filters
             PROVE  Asked(conn'[slab[id]].reqs, f) + Elsewhere(id, f)' = Needed(conn'[slab[id]].subs, f)
  BY DEF CountOK, Used
<1>1. slab[id] \in Links
  BY DEF BrokerType, SlabOK, Used
<1>2. Elsewhere(id, f)' = Elsewhere(id, f)
  OBVIOUS
<1> QED
  BY <1>1, <1>2 DEF CountOK

\* append_to_commitlog takes out what is parked and has it notified.
LEMMA AppendCounts ==
    ASSUME BrokerType, NEW m, NEW t \in Topics, NEW next, Onward(next), task.step = "packets",
           AppendToLog(m, t, next), NEW id \in Ids, NEW f \in Filters
    PROVE  Elsewhere(id, f)' = Elsewhere(id, f)
<1> DEFINE ws == WaitersOf(SetToSeq(Routed(t)))
           old == task.notes
           parked == data[f].waiters
<1>1. next \in TasksIn(data) /\ next.step = "packets" /\ next.notes = old
  BY DEF Onward
<1>2. task'.notes = old \o ws /\ task'.step = "packets"
  <2>1. task' = [next EXCEPT !.new = TRUE, !.notes = @ \o ws]
    BY DEF AppendToLog
  <2>2. DOMAIN next = {"step", "id", "link", "cache", "force", "new", "bad", "notes", "reqs", "left"}
    BY <1>1, TaskFields
  <2> HIDE DEF ws, old
  <2> QED
    BY <1>1, <2>1, <2>2
<1>3. parked \in Seq(AnyWaiter) /\ old \in Seq(AnyWaiter)
      /\ Waiting(parked, id, f) \in Nat /\ Waiting(old, id, f) \in Nat
  BY CountTypes
<1>4. ws \in Seq(AnyWaiter)
  <2>1. SetToSeq(Routed(t)) \in Seq(Filters)
    BY RoutedFacts DEF BrokerType
  <2>2. ws \in Seq(WaitersIn(data))
    BY <2>1, WaitersOfType DEF BrokerType
  <2> QED
    BY <2>2, AnyType
<1>5. Waiting(ws, id, f) = IF f \in Routed(t) THEN Waiting(parked, id, f) ELSE 0
  BY RoutedWaiting DEF BrokerType
<1>6. data'[f].waiters = IF f \in Routed(t) THEN <<>> ELSE parked
  <2>1. data'[f] = IF f \in Routed(t) THEN [data[f] EXCEPT !.log = LogAppend(@, m), !.waiters = <<>>]
                   ELSE data[f]
    BY DEF AppendToLog
  <2>2. data[f] \in FilterData(data)
    BY DEF BrokerType, DataOK
  <2>3. DOMAIN data[f] = {"known", "log", "waiters"}
    BY <2>2 DEF FilterData
  <2> QED
    BY <2>1, <2>3
<1> HIDE DEF ws, old, parked
<1>7. Waiting(old \o ws, id, f) = Waiting(old, id, f) + Waiting(ws, id, f)
  BY <1>3, <1>4, WaitingFacts
<1>8. Waiting(<<>>, id, f) = 0
  BY NobodyWaits
<1>9. Elsewhere(id, f) = Waiting(parked, id, f) + Waiting(old, id, f) + 0
  BY DEF Elsewhere, parked, old
<1>10. Elsewhere(id, f)' = Waiting(data'[f].waiters, id, f) + Waiting(old \o ws, id, f) + 0
  BY <1>2 DEF Elsewhere
<1>11. CASE f \in Routed(t)
  BY <1>3, <1>5, <1>6, <1>7, <1>8, <1>9, <1>10, <1>11
<1>12. CASE f \notin Routed(t)
  BY <1>3, <1>5, <1>6, <1>7, <1>9, <1>10, <1>12
<1> QED
  BY <1>11, <1>12

\* What a packet other than a subscription does to the logs.
LEMMA PacketMoves ==
    ASSUME BrokerType, NEW p, HandlePacket(p), p.k \notin {"Subscribe", "Unsubscribe"},
           NEW id \in Ids, NEW f \in Filters
    PROVE  Elsewhere(id, f)' = Elsewhere(id, f)
<1>1. ASSUME task.step = "packets", NEW next, Onward(next), task' = next, data' = data
      PROVE  Elsewhere(id, f)' = Elsewhere(id, f)
  <2>1. task'.notes = task.notes /\ task'.step = "packets"
    BY <1>1 DEF Onward
  <2> QED
    BY <1>1, <2>1 DEF Elsewhere
<1>2. CASE PublishPacket(p)
  <2>1. Packet(p, {"Publish"})
    BY <1>2 DEF PublishPacket
  <2>2. /\ p \in Packets /\ p.k \in {"Publish"} /\ task.step = "packets"
        /\ Onward(Taken) /\ Onward(TakenForced)
    BY <2>1, PacketOn
  <2>3. p.topic \in Topics
    BY <2>2 DEF Packets, Replies, ControlPackets, Publishes
  <2>4. AppendToLog(p.m, p.topic, IF p.qos = 1 THEN TakenForced ELSE Taken)
    BY <1>2 DEF PublishPacket
  <2>5. CASE p.qos = 1
    BY <2>2, <2>3, <2>4, <2>5, AppendCounts
  <2>6. CASE p.qos # 1
    BY <2>2, <2>3, <2>4, <2>6, AppendCounts
  <2> QED
    BY <2>5, <2>6
<1>3. CASE RecordPacket(p)
  <2>1. Packet(p, {"Publish"}) /\ task' = TakenForced /\ data' = data
    BY <1>3 DEF RecordPacket
  <2> QED
    BY <1>1, <2>1, PacketOn
<1>4. CASE PubRelPacket(p)
  <2> DEFINE c == conn[task.link]
             h == Head(c.recorded)
  <2>1. Packet(p, {"PubRel"})
    BY <1>4 DEF PubRelPacket
  <2>2. task.step = "packets" /\ Onward(Taken) /\ Onward(TakenBad) /\ c \in ConnectionsIn(data)
    BY <2>1, PacketOn
  <2>3. CASE c.recorded = <<>>
    <3>1. task' = TakenBad /\ data' = data
      BY <1>4, <2>3 DEF PubRelPacket
    <3> QED
      BY <1>1, <2>2, <3>1
  <2>4. CASE c.recorded # <<>>
    <3>1. AppendToLog(h.m, h.topic, Taken)
      BY <1>4, <2>4 DEF PubRelPacket
    <3>2. h \in Publishes
      <4> DEFINE r == c.recorded
                 P == Publishes
      <4>1. r \in Seq(P) /\ r # <<>>
        BY <2>2, <2>4, ConnFields
      <4> HIDE DEF r, P
      <4>2. Head(r) \in P
        BY <4>1
      <4> QED
        BY <4>2 DEF r, P
    <3>3. h.topic \in Topics
      BY <3>2 DEF Publishes
    <3> HIDE DEF h
    <3> QED
      BY <2>2, <3>1, <3>3, AppendCounts
  <2> QED
    BY <2>3, <2>4
<1>5. CASE AckPacket(p)
  <2>1. Packet(p, {"PubAck", "PubRec"}) /\ data' = data /\ (task' = Taken \/ task' = TakenBad)
    BY <1>5 DEF AckPacket
  <2>2. task.step = "packets" /\ Onward(Taken) /\ Onward(TakenBad)
    BY <2>1, PacketOn
  <2> QED
    BY <1>1, <2>1, <2>2
<1>6. CASE PubCompPacket(p)
  <2>1. Packet(p, {"PubComp"}) /\ data' = data /\ (task' = Taken \/ task' = TakenBad)
    BY <1>6 DEF PubCompPacket
  <2>2. task.step = "packets" /\ Onward(Taken) /\ Onward(TakenBad)
    BY <2>1, PacketOn
  <2> QED
    BY <1>1, <2>1, <2>2
<1>7. CASE PingPacket(p)
  <2>1. Packet(p, {"PingReq"}) /\ data' = data /\ task' = TakenForced
    BY <1>7 DEF PingPacket
  <2> QED
    BY <1>1, <2>1, PacketOn
<1>8. CASE DisconnectPacket(p)
  <2>1. Packet(p, {"Disconnect"}) /\ data' = data /\ task' = TakenBad
    BY <1>8 DEF DisconnectPacket
  <2> QED
    BY <1>1, <2>1, PacketOn
<1>9. ~SubscribePacket(p) /\ ~UnsubscribePacket(p)
  BY DEF SubscribePacket, UnsubscribePacket, Packet
<1> QED
  BY <1>2, <1>3, <1>4, <1>5, <1>6, <1>7, <1>8, <1>9 DEF HandlePacket

\* Such a packet leaves every subscription its request.
LEMMA PacketCounts ==
    ASSUME BrokerType, CountOK, NEW p, HandlePacket(p), p.k \notin {"Subscribe", "Unsubscribe"}
    PROVE  CountOK'
<1>1. PICK d \in ConnectionsIn(data) : Effect(p, d)
  BY PacketEffect
<1>2. PICK kinds : Packet(p, kinds)
  BY DEF HandlePacket, PublishPacket, RecordPacket, PubRelPacket, SubscribePacket,
         UnsubscribePacket, AckPacket, PubCompPacket, PingPacket, DisconnectPacket
<1>3. task.link \in Links
  BY <1>2, PacketOn
<1>4. slab' = slab
  BY DEF HandlePacket, PublishPacket, RecordPacket, PubRelPacket, SubscribePacket,
         UnsubscribePacket, AckPacket, PubCompPacket, PingPacket, DisconnectPacket, InPayload
<1>5. conn' = [conn EXCEPT ![task.link] = d] /\ d.reqs = conn[task.link].reqs
      /\ d.subs = conn[task.link].subs
  BY <1>1 DEF Effect
<1>6. \A l \in Links : conn'[l].reqs = conn[l].reqs /\ conn'[l].subs = conn[l].subs
  BY <1>3, <1>5 DEF BrokerType, ConnOK
<1>7. \A id \in Ids : \A f \in Filters : Elsewhere(id, f)' = Elsewhere(id, f)
  BY PacketMoves
<1> QED
  BY <1>4, <1>6, <1>7, CountMoved

\* A new subscription gets its request, one that is there keeps the one it has.
LEMMA SubscribeCounts ==
    ASSUME BrokerType, CountOK, NEW p, SubscribePacket(p)
    PROVE  CountOK'
<1> DEFINE l == task.link
           f == p.filter
           fresh == f \notin conn[l].subs
           req == Request(f, p.qos, NextOffset(data[f].log))
           c0 == conn[l]
           acks == Append(c0.acks, Ack("SubAck", 0))
           subs == c0.subs \cup {f}
           old == c0.reqs
           reqs == IF fresh THEN Append(old, req) ELSE old
           c == [c0 EXCEPT !.acks = acks, !.subs = subs, !.reqs = reqs]
           d == IF fresh THEN Woken(c, "NewFilter") ELSE c
<1>1. Packet(p, {"Subscribe"}) /\ task' = TakenForced /\ data' = [data EXCEPT ![f].known = TRUE]
      /\ slab' = slab
  BY DEF SubscribePacket, InPayload
<1>2. /\ p \in Packets /\ p.k \in {"Subscribe"} /\ l \in Links /\ task.step = "packets"
      /\ c0 \in ConnectionsIn(data) /\ task.id \in Ids /\ Used(task.id) /\ slab[task.id] = l
      /\ Onward(TakenForced)
  BY <1>1, PacketOn
<1>3. PICK i \in Ids : i = task.id
  BY <1>2
<1>4. f \in Filters /\ p.qos \in 0 .. 2
  <2>1. p \in [k : {"Subscribe"}, filter : Filters, qos : SubscribeQos]
    BY <1>2 DEF Packets, Publishes, Replies, ControlPackets
  <2> QED
    BY <2>1, BrokerAssumption
<1>5. req \in AnyRequest /\ req.f = f
  <2>1. req \in RequestsIn(data)
    BY <1>4, FreshRequest DEF BrokerType
  <2> QED
    BY <2>1, AnyType DEF Request
<1>6. old \in Seq(AnyRequest) /\ c0.subs \subseteq Filters
  BY <1>2, CountTypes, <1>4
<1>7. conn' = [conn EXCEPT ![l] = d]
  <2>1. [c0 EXCEPT !.acks = Append(@, Ack("SubAck", 0)), !.subs = @ \cup {f},
                   !.reqs = IF fresh THEN Append(@, req) ELSE @] = c
    <3> HIDE DEF req, fresh
    <3> QED
      BY <1>2, ConnFields
  <2> HIDE DEF c
  <2> QED
    BY <2>1 DEF SubscribePacket
<1>8. d.reqs = reqs /\ d.subs = subs
  <2>1. c.reqs = reqs /\ c.subs = subs
    <3> HIDE DEF reqs, subs, acks
    <3> QED
      BY <1>2, ConnFields
  <2>2. d.reqs = c.reqs /\ d.subs = c.subs
    <3> HIDE DEF fresh
    <3>1. DOMAIN c = DOMAIN c0
      BY <1>2
    <3> HIDE DEF reqs, subs, acks
    <3>2. "status" # "reqs" /\ "status" # "subs"
      OBVIOUS
    <3>3. "reqs" \in DOMAIN c /\ "subs" \in DOMAIN c
      BY <1>2, <3>1, ConnFields
    <3> HIDE DEF c
    <3> QED
      BY <3>2, <3>3 DEF Woken
  <2> QED
    BY <2>1, <2>2
<1> HIDE DEF d, c, acks
<1>9. ASSUME NEW g \in Filters PROVE data'[g].waiters = data[g].waiters
  <2>1. data[f] \in FilterData(data)
    BY <1>4 DEF BrokerType, DataOK
  <2>2. DOMAIN data[f] = {"known", "log", "waiters"}
    BY <2>1 DEF FilterData
  <2>3. g = f => data'[g] = [data[f] EXCEPT !.known = TRUE]
    BY <1>1, <1>4 DEF BrokerType, DataOK
  <2>4. g # f => data'[g] = data[g]
    BY <1>1, <1>4 DEF BrokerType, DataOK
  <2> QED
    BY <2>2, <2>3, <2>4
<1>10. task'.notes = task.notes /\ task'.step = "packets"
  BY <1>1, <1>2 DEF Onward
<1>11. ASSUME NEW id \in Ids, NEW g \in Filters PROVE Elsewhere(id, g)' = Elsewhere(id, g)
  BY <1>2, <1>9, <1>10 DEF Elsewhere
<1>12. ASSUME NEW g \in Filters PROVE Asked(reqs, g) + Elsewhere(i, g)' = Needed(subs, g)
  <2>1. Asked(old, g) + Elsewhere(i, g) = Needed(c0.subs, g)
    BY <1>2, <1>3 DEF CountOK
  <2>2. Elsewhere(i, g)' = Elsewhere(i, g)
    BY <1>11
  <2>3. Elsewhere(i, g) \in Nat
    BY CountTypes
  <2>4. Asked(old, g) \in Nat /\ Asked(Append(old, req), g) = Asked(old, g) + (IF req.f = g THEN 1 ELSE 0)
    <3> HIDE DEF old, req
    <3> QED
      BY <1>5, <1>6, AskedFacts
  <2>5. CASE f \in c0.subs
    <3>1. reqs = old /\ (g \in subs <=> g \in c0.subs)
      BY <2>5
    <3> HIDE DEF reqs, old, subs, c0
    <3> QED
      BY <2>1, <2>2, <3>1 DEF Needed
  <2>6. CASE f \notin c0.subs
    <3>1. reqs = Append(old, req) /\ (g \in subs <=> g \in c0.subs \/ g = f)
      BY <2>6
    <3> HIDE DEF reqs, old, subs, c0, req, f
    <3>2. CASE g = f
      <4>1. Needed(c0.subs, g) = 0 /\ Needed(subs, g) = 1
        BY <2>6, <3>1, <3>2 DEF Needed
      <4> QED
        BY <1>5, <2>1, <2>2, <2>3, <2>4, <3>1, <3>2, <4>1
    <3>3. CASE g # f
      <4>1. Needed(c0.subs, g) = Needed(subs, g)
        BY <3>1, <3>3 DEF Needed
      <4> QED
        BY <1>5, <2>1, <2>2, <2>3, <2>4, <3>1, <3>3, <4>1
    <3> QED
      BY <3>2, <3>3
  <2> QED
    BY <2>5, <2>6
<1>13. PICK g : g = d
  OBVIOUS
<1>14. conn' = [conn EXCEPT ![slab[i]] = g] /\ slab' = slab /\ Used(i)
  BY <1>1, <1>2, <1>3, <1>7, <1>13
<1>15. \A h \in Filters : Asked(g.reqs, h) + Elsewhere(i, h)' = Needed(g.subs, h)
  BY <1>8, <1>12, <1>13
<1>16. \A id \in Ids : id # i /\ Used(id) => \A h \in Filters : Elsewhere(id, h)' = Elsewhere(id, h)
  BY <1>11
<1> HIDE DEF l, c0, reqs, subs, f, old
<1> QED
  BY <1>14, <1>15, <1>16, CountPut

\* A subscription that ends takes its request with it, unless the packet
\* follows a publication that has just taken the request out of the log.
LEMMA UnsubscribeCounts ==
    ASSUME BrokerType, CountOK, NEW p, UnsubscribePacket(p), task.notes = <<>>
    PROVE  CountOK'
<1> DEFINE l == task.link
           f == p.filter
           c0 == conn[l]
           subs == c0.subs \ {f}
           old == c0.reqs
           reqs == NotOnFilter(old, f)
           acks == Append(c0.acks, Ack("UnsubAck", 0))
           c == [c0 EXCEPT !.subs = subs, !.reqs = reqs, !.acks = acks]
<1>1. Packet(p, {"Unsubscribe"}) /\ slab' = slab
  BY DEF UnsubscribePacket, InPayload
<1>2. /\ p \in Packets /\ p.k \in {"Unsubscribe"} /\ l \in Links /\ task.step = "packets"
      /\ c0 \in ConnectionsIn(data) /\ task.id \in Ids /\ Used(task.id) /\ slab[task.id] = l
      /\ Onward(TakenForced) /\ Onward(Taken)
  BY <1>1, PacketOn
<1>3. PICK i \in Ids : i = task.id
  BY <1>2
<1>4. f \in Filters
  <2>1. p \in [k : {"Unsubscribe"}, filter : Filters]
    BY <1>2 DEF Packets, Publishes, Replies, ControlPackets
  <2> QED
    BY <2>1
<1>5. CASE task.id \notin submap[f]
  <2>1. task' = Taken /\ conn' = conn /\ data' = data
    BY <1>5 DEF UnsubscribePacket
  <2>2. task'.notes = task.notes /\ task'.step = "packets"
    BY <1>2, <2>1 DEF Onward
  <2> QED
    BY <1>1, <1>2, <2>1, <2>2, CountSame
<1>6. CASE task.id \in submap[f]
  <2>1. /\ conn' = [conn EXCEPT ![l].subs = @ \ {f}, ![l].reqs = NotOnFilter(@, f),
                                ![l].acks = Append(@, Ack("UnsubAck", 0))]
        /\ data' = [data EXCEPT ![f].waiters = WithoutId(@, task.id)]
        /\ task' = TakenForced
    BY <1>6 DEF UnsubscribePacket
  <2>2. conn' = [conn EXCEPT ![l] = c]
    <3>0. conn \in [Links -> ConnectionsIn(data)]
      BY DEF BrokerType, ConnOK
    <3>1. conn' = [conn EXCEPT ![l] = [c0 EXCEPT !.subs = @ \ {f}, !.reqs = NotOnFilter(@, f),
                                                 !.acks = Append(@, Ack("UnsubAck", 0))]]
      BY <1>2, <2>1, <3>0, ConnFields
    <3>2. [c0 EXCEPT !.subs = @ \ {f}, !.reqs = NotOnFilter(@, f),
                     !.acks = Append(@, Ack("UnsubAck", 0))] = c
      <4> HIDE DEF c0
      <4> QED
        BY <1>2, ConnFields
    <3> HIDE DEF c
    <3> QED
      BY <3>1, <3>2
  <2>3. c.reqs = reqs /\ c.subs = subs
    <3> HIDE DEF reqs, subs, acks
    <3> QED
      BY <1>2, ConnFields
  <2> HIDE DEF c, acks
  <2>4. old \in Seq(AnyRequest) /\ c0.subs \subseteq Filters
    BY <1>2, CountTypes, <1>4
  <2>5. task'.notes = <<>> /\ task'.step = "packets"
    BY <1>2, <2>1 DEF Onward
  <2>6. ASSUME NEW g \in Filters
        PROVE  data'[g].waiters = IF g = f THEN WithoutId(data[f].waiters, i) ELSE data[g].waiters
    <3>1. data[f] \in FilterData(data)
      BY <1>4 DEF BrokerType, DataOK
    <3>2. DOMAIN data[f] = {"known", "log", "waiters"}
      BY <3>1 DEF FilterData
    <3>3. g = f => data'[g] = [data[f] EXCEPT !.waiters = WithoutId(@, task.id)]
      BY <2>1, <1>4 DEF BrokerType, DataOK
    <3>4. g # f => data'[g] = data[g]
      BY <2>1, <1>4 DEF BrokerType, DataOK
    <3> QED
      BY <1>3, <3>2, <3>3, <3>4
  <2>7. ASSUME NEW id \in Ids, NEW g \in Filters
        PROVE  /\ Elsewhere(id, g) = Waiting(data[g].waiters, id, g)
               /\ Elsewhere(id, g)' = Waiting(data'[g].waiters, id, g)
               /\ Waiting(data[g].waiters, id, g) \in Nat
               /\ Waiting(data'[g].waiters, id, g) =
                    IF g = f /\ id = i THEN 0 ELSE Waiting(data[g].waiters, id, g)
    <3>1. Waiting(<<>>, id, g) = 0
      BY NobodyWaits
    <3>2. data[g].waiters \in Seq(AnyWaiter) /\ Waiting(data[g].waiters, id, g) \in Nat
      BY CountTypes
    <3>3. Waiting(WithoutId(data[g].waiters, i), id, g) =
            IF id = i THEN 0 ELSE Waiting(data[g].waiters, id, g)
      BY <3>2, WaitingWithout
    <3>4. Waiting(data'[g].waiters, id, g) =
            IF g = f /\ id = i THEN 0 ELSE Waiting(data[g].waiters, id, g)
      BY <2>6, <3>3
    <3>5. Elsewhere(id, g) = Waiting(data[g].waiters, id, g) + 0 + 0
      BY <1>2, <3>1 DEF Elsewhere
    <3>6. Elsewhere(id, g)' = Waiting(data'[g].waiters, id, g) + 0 + 0
      BY <2>5, <3>1 DEF Elsewhere
    <3> QED
      BY <3>2, <3>4, <3>5, <3>6
  <2>8. ASSUME NEW g \in Filters PROVE Asked(reqs, g) + Elsewhere(i, g)' = Needed(subs, g)
    <3>1. Asked(old, g) + Elsewhere(i, g) = Needed(c0.subs, g)
      BY <1>2, <1>3 DEF CountOK
    <3>2. Asked(reqs, g) = IF g = f THEN 0 ELSE Asked(old, g)
      <4> HIDE DEF old, f
      <4> QED
        BY <2>4, AskedWithout
    <3>3. CASE g = f
      <4>1. Needed(subs, g) = 0
        BY <3>3 DEF Needed
      <4>2. Elsewhere(i, g)' = 0
        BY <2>7, <3>3
      <4> HIDE DEF reqs, subs
      <4> QED
        BY <3>2, <3>3, <4>1, <4>2
    <3>4. CASE g # f
      <4>1. Needed(subs, g) = Needed(c0.subs, g)
        BY <3>4 DEF Needed
      <4>2. Elsewhere(i, g)' = Elsewhere(i, g)
        BY <2>7, <3>4
      <4> HIDE DEF reqs, subs, old, c0
      <4> QED
        BY <3>1, <3>2, <3>4, <4>1, <4>2
    <3> QED
      BY <3>3, <3>4
  <2>9. PICK g : g = c
    OBVIOUS
  <2>10. conn' = [conn EXCEPT ![slab[i]] = g] /\ slab' = slab /\ Used(i)
    BY <1>1, <1>2, <1>3, <2>2, <2>9
  <2>11. \A h \in Filters : Asked(g.reqs, h) + Elsewhere(i, h)' = Needed(g.subs, h)
    BY <2>3, <2>8, <2>9
  <2>12. \A id \in Ids : id # i /\ Used(id) => \A h \in Filters : Elsewhere(id, h)' = Elsewhere(id, h)
    <3> SUFFICES ASSUME NEW id \in Ids, id # i, NEW h \in Filters PROVE Elsewhere(id, h)' = Elsewhere(id, h)
      OBVIOUS
    <3> QED
      BY <2>7
  <2> HIDE DEF l, c0, reqs, subs, f, old
  <2> QED
    BY <2>10, <2>11, <2>12, CountPut
<1> QED
  BY <1>5, <1>6

\* After the packets nothing has moved.
LEMMA ForceAcksCounts ==
    ASSUME BrokerType, CountOK, ForceAcks
    PROVE  CountOK'
<1> DEFINE c == conn[task.link]
<1>1. /\ task.step = "packets" /\ data' = data /\ slab' = slab
      /\ conn' = IF task.force THEN [conn EXCEPT ![task.link] = Woken(@, "FreshData")] ELSE conn
      /\ task' = [task EXCEPT !.step = "notify"]
  BY DEF ForceAcks, InPayload
<1>2. task \in TasksIn(data) /\ task.link \in Links
  BY <1>1 DEF BrokerType, TaskOK, TaskHolds
<1>3. task'.notes = task.notes /\ task'.step # "requests"
  BY <1>1, <1>2, TaskFields
<1>4. c \in ConnectionsIn(data) /\ conn \in [Links -> ConnectionsIn(data)]
  BY <1>2 DEF BrokerType, ConnOK
<1>5. Woken(c, "FreshData").reqs = c.reqs /\ Woken(c, "FreshData").subs = c.subs
  BY <1>4, WokenFacts
<1>6. \A l \in Links : conn'[l].reqs = conn[l].reqs /\ conn'[l].subs = conn[l].subs
  BY <1>1, <1>2, <1>4, <1>5
<1> QED
  BY <1>1, <1>3, <1>6, CountSame

\* A batch ends, with its connection or without.
LEMMA EndPayloadCounts ==
    ASSUME BrokerType, CountOK, SavedOK, EndPayload
    PROVE  CountOK' /\ SavedOK'
<1>1. /\ task.step = "notify" /\ task.notes = <<>> /\ task' = NoTask
      /\ IF task.bad THEN Disconnection(task.id) ELSE UNCHANGED <<slab, conn, data, grave>>
  BY DEF EndPayload
<1>2. task'.step # "requests" /\ task'.notes = <<>> /\ task'.notes = task.notes
  BY <1>1 DEF NoTask
<1>3. task.id \in Ids /\ Used(task.id)
  BY <1>1, BrokerAssumption DEF BrokerType, TaskOK, TasksIn, TaskHolds, Used
<1>4. PICK i \in Ids : i = task.id
  BY <1>3
<1>5. CASE task.bad
  <2>1. Used(i) /\ Disconnection(i)
    BY <1>1, <1>3, <1>4, <1>5
  <2> QED
    BY <1>1, <1>2, <2>1, DisconnectionCounts
<1>6. CASE ~task.bad
  <2>1. slab' = slab /\ conn' = conn /\ data' = data /\ grave' = grave
    BY <1>1, <1>6
  <2>2. CountOK'
    BY <1>1, <1>2, <2>1, CountSame
  <2> QED
    BY <2>1, <2>2 DEF SavedOK
<1> QED
  BY <1>5, <1>6

\* A client that dials again gives up the connection it has.
LEMMA DropDuplicateCounts ==
    ASSUME BrokerType, CountOK, SavedOK, NEW id \in Ids, DropDuplicate(id)
    PROVE  CountOK' /\ SavedOK'
<1>1. task.step = "connect" /\ Used(id) /\ Disconnection(id) /\ task' = task
  BY DEF DropDuplicate, Rivals, ConnectionOf
<1>2. task.step # "requests" /\ task.notes = <<>> /\ task'.step # "requests" /\ task'.notes = <<>>
  BY <1>1 DEF BrokerType, TaskHolds
<1> QED
  BY <1>1, <1>2, DisconnectionCounts

\* Events move requests only where they end a connection.
LEMMA EventCounts ==
    ASSUME BrokerType, CountOK, SavedOK, NEW e, HandleEvent(e)
    PROVE  CountOK' /\ SavedOK'
<1>1. Begin(e)
  BY DEF HandleEvent, HandleConnect, HandleDeviceData, HandleDisconnect, HandleReady
<1>2. e \in Events /\ Idle
  BY <1>1, BeginFacts
<1>3. e.id \in Ids
  BY <1>2 DEF Events
<1>4. task.step = "none" /\ task.notes = <<>>
  BY <1>2 DEF Idle, BrokerType, TaskHolds
<1>5. PICK i \in Ids : i = e.id
  BY <1>3
<1>6. ASSUME slab' = slab, conn' = conn, data' = data, grave' = grave, task'.notes = <<>>,
             task'.step # "requests"
      PROVE  CountOK' /\ SavedOK'
  <2>1. CountOK'
    BY <1>4, <1>6, CountSame
  <2> QED
    BY <1>6, <2>1 DEF SavedOK
<1>7. CASE HandleConnect(e)
  <2>1. task'.notes = <<>> /\ task'.step # "requests"
    BY <1>7 DEF HandleConnect, NoTask
  <2>2. slab' = slab /\ conn' = conn /\ data' = data /\ grave' = grave
    BY <1>7 DEF HandleConnect
  <2> QED
    BY <1>6, <2>1, <2>2
<1>8. CASE HandleDeviceData(e)
  <2>1. slab' = slab /\ conn' = conn /\ data' = data /\ grave' = grave
    BY <1>8 DEF HandleDeviceData
  <2>2. CASE Used(e.id)
    <3>1. task' = [NoTask EXCEPT !.step = "packets", !.id = e.id, !.link = slab[e.id],
                                 !.cache = inbuf[slab[e.id]]]
      BY <1>8, <2>2 DEF HandleDeviceData
    <3>2. task'.notes = <<>> /\ task'.step # "requests"
      BY <3>1 DEF NoTask
    <3> QED
      BY <1>6, <2>1, <3>2
  <2>3. CASE ~Used(e.id)
    <3>1. task' = task
      BY <1>8, <2>3 DEF HandleDeviceData
    <3> QED
      BY <1>4, <1>6, <2>1, <3>1
  <2> QED
    BY <2>2, <2>3
<1>9. CASE HandleDisconnect(e)
  <2>1. task' = task
    BY <1>9 DEF HandleDisconnect
  <2>2. CASE Used(i)
    <3>1. Disconnection(i)
      BY <1>5, <1>9, <2>2 DEF HandleDisconnect
    <3>2. task.step # "requests" /\ task.notes = <<>> /\ task'.step # "requests" /\ task'.notes = <<>>
      BY <1>4, <2>1
    <3> QED
      BY <2>2, <3>1, <3>2, DisconnectionCounts
  <2>3. CASE ~Used(i)
    <3>1. slab' = slab /\ conn' = conn /\ data' = data /\ grave' = grave
      BY <1>5, <1>9, <2>3 DEF HandleDisconnect
    <3> QED
      BY <1>4, <1>6, <2>1, <3>1
  <2> QED
    BY <2>2, <2>3
<1>10. CASE HandleReady(e)
  <2>1. slab' = slab /\ data' = data /\ grave' = grave
    BY <1>10 DEF HandleReady
  <2>2. CASE Used(e.id)
    <3> DEFINE l == slab[e.id]
               c == conn[l]
    <3>1. conn' = [conn EXCEPT ![l] = Woken(@, "Ready")] /\ task' = task
      BY <1>10, <2>2 DEF HandleReady
    <3>2. l \in Links /\ c \in ConnectionsIn(data) /\ conn \in [Links -> ConnectionsIn(data)]
      BY <1>3, <2>2 DEF BrokerType, SlabOK, ConnOK, Used
    <3>3. Woken(c, "Ready").reqs = c.reqs /\ Woken(c, "Ready").subs = c.subs
      BY <3>2, WokenFacts
    <3>4. \A m \in Links : conn'[m].reqs = conn[m].reqs /\ conn'[m].subs = conn[m].subs
      BY <3>1, <3>2, <3>3
    <3>5. CountOK'
      BY <1>4, <2>1, <3>1, <3>4, CountSame
    <3> QED
      BY <2>1, <3>5 DEF SavedOK
  <2>3. CASE ~Used(e.id)
    <3>1. conn' = conn /\ task' = [NoTask EXCEPT !.step = "panicked"]
      BY <1>10, <2>3 DEF HandleReady
    <3>2. task'.notes = <<>> /\ task'.step # "requests"
      BY <3>1 DEF NoTask
    <3> QED
      BY <1>6, <2>1, <3>1, <3>2
  <2> QED
    BY <2>2, <2>3
<1> QED
  BY <1>7, <1>8, <1>9, <1>10 DEF HandleEvent

\* A connection begins with the requests of the session it takes over; its
\* id waits nowhere.
LEMMA AdmitCounts ==
    ASSUME BrokerType, CountOK, SavedOK, Admit
    PROVE  CountOK' /\ SavedOK'
<1> DEFINE l == task.link
           c == ClientOf[l]
           saved == IF grave[c] = None \/ l \in Clean THEN NoSession ELSE grave[c]
           id == Head(free)
           acks == <<Ack("ConnAck", id)>> \o [j \in 1 .. Len(saved.pubrels) |-> Ack("PubRel", saved.pubrels[j])]
           d == [Fresh EXCEPT !.status = "Ready", !.reqs = saved.reqs, !.subs = saved.subs,
                              !.pubrels = saved.pubrels, !.acks = acks]
<1>1. /\ task.step = "connect" /\ Rivals = {} /\ free # <<>>
      /\ slab' = [slab EXCEPT ![id] = l]
      /\ conn' = [conn EXCEPT ![l] = d]
      /\ grave' = [grave EXCEPT ![c] = None]
      /\ task' = NoTask /\ data' = data
  BY DEF Admit
<1>2. l \in Links /\ c \in Clients /\ l # None
  BY <1>1, BrokerAssumption DEF BrokerType, TaskHolds
<1>3. id \in Ids /\ ~Used(id)
  <2>1. free \in Seq(Ids) /\ Range(free) = {j \in Ids : ~Used(j)}
    BY DEF BrokerType, SlabOK
  <2>2. Head(free) \in Range(free)
    BY <1>1, <2>1, TailFacts
  <2> QED
    BY <2>1, <2>2
<1>4. PICK i \in Ids : i = id
  BY <1>3
<1>5. slab' = [slab EXCEPT ![i] = l] /\ ~Used(i)
  BY <1>1, <1>3, <1>4
<1>6. ~Live(l)
  <2>1. ASSUME NEW j \in Ids, slab[j] = l PROVE FALSE
    <3>1. j \in Rivals
      BY <1>2, <2>1 DEF Rivals, ConnectionOf, Used
    <3> QED
      BY <1>1, <3>1
  <2> QED
    BY <2>1 DEF Live
<1>7. \A f \in Filters : Asked(saved.reqs, f) = Needed(saved.subs, f)
  <2>1. CASE grave[c] = None \/ l \in Clean
    <3>1. saved = NoSession
      BY <2>1
    <3>2. \A f \in Filters : Asked(<<>>, f) = 0
      <4>1. <<>> \in Seq(AnyRequest)
        OBVIOUS
      <4> QED
        BY <4>1, AskedFacts
    <3> QED
      BY <3>1, <3>2 DEF NoSession, Needed
  <2>2. CASE ~(grave[c] = None \/ l \in Clean)
    BY <1>2, <2>2 DEF SavedOK
  <2> QED
    BY <2>1, <2>2
<1>8. d.reqs = saved.reqs /\ d.subs = saved.subs
  <2> HIDE DEF saved, acks
  <2> QED
    BY DEF Fresh
<1>9. PICK g : g = d
  OBVIOUS
<1>10. conn' = [conn EXCEPT ![l] = g] /\ \A f \in Filters : Asked(g.reqs, f) = Needed(g.subs, f)
  BY <1>1, <1>7, <1>8, <1>9
<1>11. task.step # "requests" /\ task.notes = <<>> /\ task'.step # "requests" /\ task'.notes = <<>>
  BY <1>1 DEF NoTask, BrokerType, TaskHolds
<1> HIDE DEF d, saved, acks, id
<1>12. ASSUME NEW j \in Ids, NEW f \in Filters PROVE Elsewhere(j, f)' = Elsewhere(j, f)
  BY <1>1, <1>11 DEF Elsewhere
<1>13. ASSUME NEW f \in Filters PROVE Elsewhere(i, f) = 0
  <2> DEFINE ws == data[f].waiters
  <2>1. Waiting(<<>>, i, f) = 0
    BY NobodyWaits
  <2>2. ws \in Seq(AnyWaiter)
    BY CountTypes
  <2>3. \A w \in Range(ws) : w.id # i
    BY <1>5 DEF BrokerType, ParkedOK
  <2>4. Waiting(ws, i, f) = 0
    <3>1. \A w \in Range(ws) : w \notin WaitOn(i, f)
      BY <2>3 DEF WaitOn
    <3> HIDE DEF ws
    <3> QED
      BY <2>2, <3>1, CountNone DEF Waiting
  <2>5. Elsewhere(i, f) = Waiting(ws, i, f) + 0 + 0
    BY <1>11, <2>1 DEF Elsewhere
  <2> QED
    BY <2>4, <2>5
<1>14. ASSUME NEW j \in Ids, Used(j)', NEW f \in Filters
       PROVE  Asked(conn'[slab'[j]].reqs, f) + Elsewhere(j, f)' = Needed(conn'[slab'[j]].subs, f)
  <2>1. conn'[l] = g /\ \A m \in Links : m # l => conn'[m] = conn[m]
    BY <1>2, <1>10 DEF BrokerType, ConnOK
  <2>2. CASE j = i
    <3>1. slab'[j] = l
      BY <1>5, <2>2 DEF BrokerType, SlabOK
    <3>2. Elsewhere(j, f)' = 0
      BY <1>12, <1>13, <2>2
    <3>3. Needed(g.subs, f) \in Nat
      BY DEF Needed
    <3> QED
      BY <1>10, <2>1, <3>1, <3>2, <3>3
  <2>3. CASE j # i
    <3>1. slab'[j] = slab[j] /\ Used(j)
      BY <1>5, <1>14, <2>3 DEF BrokerType, SlabOK, Used
    <3>2. slab[j] \in Links /\ slab[j] # l
      BY <1>6, <3>1 DEF BrokerType, SlabOK, Used, Live
    <3> QED
      BY <1>12, <2>1, <3>1, <3>2 DEF CountOK
  <2> QED
    BY <2>2, <2>3
<1>15. CountOK'
  BY <1>14 DEF CountOK
<1>16. SavedOK'
  BY <1>1, <1>2 DEF SavedOK, BrokerType, GraveOK
<1> QED
  BY <1>15, <1>16

\* What the router does without a connection.
LEMMA NothingCounts ==
    ASSUME BrokerType, CountOK, SavedOK, Refuse \/ PollNothing \/ PollStale \/ Drained
    PROVE  CountOK' /\ SavedOK'
<1>1. slab' = slab /\ conn' = conn /\ data' = data /\ grave' = grave
  BY DEF Refuse, PollNothing, PollStale, Drained
<1>2. task.step # "requests" /\ task.notes = <<>>
  BY DEF Refuse, PollNothing, PollStale, Drained, Idle, BrokerType, TaskHolds
<1>3. task' = task \/ task' = NoTask
  BY DEF Refuse, PollNothing, PollStale, Drained
<1>4. task'.step # "requests" /\ task'.notes = task.notes
  BY <1>2, <1>3 DEF NoTask
<1>5. CountOK'
  BY <1>1, <1>2, <1>4, CountSame
<1> QED
  BY <1>1, <1>5 DEF SavedOK

-----------------------------------------------------------------------------
(* Who publishes *)

\* Packets a client sends of its own accord are those it may send.
Allowed(c, p) ==
    /\ p.k = "Publish" => c \in Publishers
    /\ p.k = "Unsubscribe" => c \in Subscribers /\ "Unsubscribe" \in Controls
AllAllowed(c, s) == \A p \in Range(s) : Allowed(c, p)

\* What a connection has sent, what is recorded of it and what is notified
\* because of it is the work of a client that may send it.
SendersOK ==
    /\ \A l \in Links :
        /\ AllAllowed(ClientOf[l], inbuf[l])
        /\ conn[l].recorded # <<>> => ClientOf[l] \in Publishers
    /\ task.step = "packets" => AllAllowed(ClientOf[task.link], task.cache)
    /\ task.notes # <<>> => ClientOf[task.link] \in Publishers

\* Nothing more is recorded.
RecordedLess == \A l \in Links : conn'[l].recorded # <<>> => conn[l].recorded # <<>>

\* One connection is replaced.
LEMMA RecordedPut ==
    ASSUME BrokerType, NEW l, NEW d, conn' = [conn EXCEPT ![l] = d],
           l \in Links => d.recorded = conn[l].recorded \/ d.recorded = <<>>
    PROVE  RecordedLess
<1>1. \A m \in Links : m # l => conn'[m] = conn[m]
  BY DEF BrokerType, ConnOK
<1>2. l \in Links => conn'[l] = d
  BY DEF BrokerType, ConnOK
<1> QED
  BY <1>1, <1>2 DEF RecordedLess

\* Only a publication of quality of service 2 is recorded.
LEMMA RecordedStays ==
    ASSUME BrokerType,
           \/ \E e : HandleEvent(e)
           \/ \E id \in Ids : DropDuplicate(id)
           \/ Refuse \/ Admit \/ PollNothing \/ PollStale \/ Drained
           \/ \E p : PublishPacket(p) \/ PubRelPacket(p) \/ SubscribePacket(p) \/ UnsubscribePacket(p)
                     \/ AckPacket(p) \/ PubCompPacket(p) \/ PingPacket(p) \/ DisconnectPacket(p)
           \/ ForceAcks \/ NotifyWaiter \/ EndPayload
           \/ Poll \/ RequestInflightFull \/ ServeRequest \/ CaughtUp \/ TurnEnds
    PROVE  RecordedLess
<1>1. \A l \in Links : DOMAIN conn[l] = {"status", "reqs", "subs", "acks", "recorded", "inflight",
                                         "pubrels", "pkid"}
  BY ConnFields DEF BrokerType, ConnOK
<1>2. DOMAIN conn = Links /\ conn = [l \in Links |-> conn[l]]
  BY DEF BrokerType, ConnOK
<1>3. ASSUME conn' = conn PROVE RecordedLess
  BY <1>3 DEF RecordedLess
<1>4. ASSUME NEW id, Disconnection(id) PROVE RecordedLess
  <2>1. conn' = [conn EXCEPT ![slab[id]] = Fresh] /\ Fresh.recorded = <<>>
    BY <1>4 DEF Disconnection, Fresh
  <2> DEFINE l == slab[id]
             d == Fresh
  <2> HIDE DEF l, d
  <2> QED
    BY <2>1, RecordedPut DEF l, d
<1>5. ASSUME NEW e, HandleEvent(e) PROVE RecordedLess
  <2>1. CASE HandleConnect(e) \/ HandleDeviceData(e)
    BY <1>3, <2>1 DEF HandleConnect, HandleDeviceData
  <2>2. CASE HandleReady(e)
    <3>1. conn' = conn \/ \E l : conn' = [conn EXCEPT ![l] = Woken(@, "Ready")]
      BY <2>2 DEF HandleReady
    <3> QED
      BY <1>1, <1>2, <1>3, <3>1, SMTT(40) DEF Woken, RecordedLess
  <2>3. CASE HandleDisconnect(e)
    <3>1. Disconnection(e.id) \/ conn' = conn
      BY <2>3 DEF HandleDisconnect
    <3> QED
      BY <1>3, <1>4, <3>1
  <2> QED
    BY <1>5, <2>1, <2>2, <2>3 DEF HandleEvent
<1>6. ASSUME NEW id \in Ids, DropDuplicate(id) PROVE RecordedLess
  BY <1>4, <1>6 DEF DropDuplicate
<1>7. CASE Refuse \/ PollNothing \/ PollStale \/ Drained
  BY <1>3, <1>7 DEF Refuse, PollNothing, PollStale, Drained
<1>8. CASE Admit
  <2> DEFINE l == task.link
             saved == IF grave[ClientOf[l]] = None \/ l \in Clean THEN NoSession ELSE grave[ClientOf[l]]
             acks == <<Ack("ConnAck", Head(free))>> \o
                        [i \in 1 .. Len(saved.pubrels) |-> Ack("PubRel", saved.pubrels[i])]
             d == [Fresh EXCEPT !.status = "Ready", !.reqs = saved.reqs, !.subs = saved.subs,
                                !.pubrels = saved.pubrels, !.acks = acks]
  <2>1. conn' = [conn EXCEPT ![l] = d]
    BY <1>8 DEF Admit
  <2> HIDE DEF saved, acks
  <2>2. d.recorded = <<>>
    BY DEF Fresh
  <2> HIDE DEF l, d
  <2> QED
    BY <2>1, <2>2, RecordedPut
<1>9. ASSUME NEW p, PublishPacket(p) \/ PingPacket(p) PROVE RecordedLess
  <2> DEFINE l == task.link
  <2>1. conn' = conn \/ \E a : conn' = [conn EXCEPT ![l].acks = Append(@, a)]
    BY <1>9, Zenon DEF PublishPacket, PingPacket
  <2>2. CASE conn' # conn
    <3>1. PICK a : conn' = [conn EXCEPT ![l].acks = Append(@, a)]
      BY <2>1, <2>2
    <3> DEFINE as == Append(conn[l].acks, a)
    <3>2. conn' = [conn EXCEPT ![l] = [conn[l] EXCEPT !.acks = as]]
      BY <3>1
    <3> HIDE DEF as, l
    <3> QED
      BY <1>1, <1>2, <3>2 DEF RecordedLess
  <2> QED
    BY <1>3, <2>1, <2>2
<1>10. ASSUME NEW p, PubRelPacket(p) PROVE RecordedLess
  <2> DEFINE l == task.link
             c == conn[l]
             a == Append(c.acks, Ack("PubComp", p.pkid))
             r == Tail(c.recorded)
             d == [c EXCEPT !.acks = a, !.recorded = r]
             w == Woken(d, "IncomingAck")
  <2>1. \/ conn' = [conn EXCEPT ![l].acks = a]
        \/ c.recorded # <<>> /\ conn' = [conn EXCEPT ![l] = w]
    BY <1>10 DEF PubRelPacket
  <2> HIDE DEF a, r, l, w
  <2>2. CASE conn' = [conn EXCEPT ![l].acks = a]
    BY <1>1, <1>2, <2>2 DEF RecordedLess
  <2>3. CASE c.recorded # <<>> /\ conn' = [conn EXCEPT ![l] = w]
    BY <1>2, <2>3 DEF RecordedLess
  <2> QED
    BY <2>1, <2>2, <2>3
<1>11. ASSUME NEW p, SubscribePacket(p) PROVE RecordedLess
  <2> DEFINE l == task.link
             c0 == conn[l]
             fresh == p.filter \notin c0.subs
             a == Append(c0.acks, Ack("SubAck", 0))
             s == c0.subs \cup {p.filter}
             r == IF fresh THEN Append(c0.reqs, Request(p.filter, p.qos, NextOffset(data[p.filter].log)))
                  ELSE c0.reqs
             c == [c0 EXCEPT !.acks = a, !.subs = s, !.reqs = r]
             d == IF fresh THEN Woken(c, "NewFilter") ELSE c
  <2>1. conn' = [conn EXCEPT ![l] = d]
    BY <1>11 DEF SubscribePacket
  <2> HIDE DEF a, s, r, fresh, l
  <2>2. ASSUME l \in Links PROVE d.recorded = c0.recorded
    BY <1>1, <2>2 DEF Woken
  <2> HIDE DEF d
  <2> QED
    BY <2>1, <2>2, RecordedPut
<1>12. ASSUME NEW p, UnsubscribePacket(p) PROVE RecordedLess
  <2> DEFINE l == task.link
             a == Ack("UnsubAck", 0)
             f == p.filter
  <2>1. conn' = conn \/ conn' = [conn EXCEPT ![l].subs = @ \ {f}, ![l].reqs = NotOnFilter(@, f),
                                             ![l].acks = Append(@, a)]
    BY <1>12 DEF UnsubscribePacket
  <2> HIDE DEF l, a, f
  <2> DEFINE d == [conn[l] EXCEPT !.subs = @ \ {f}, !.reqs = NotOnFilter(@, f),
                                  !.acks = Append(@, a)]
  <2>2. ASSUME l \in Links PROVE d.recorded = conn[l].recorded
    BY <1>1, <2>2
  <2>3. CASE l \in Links /\ conn' # conn
    <3>1. conn' = [conn EXCEPT ![l] = d]
      BY <1>1, <1>2, <2>1, <2>3
    <3> HIDE DEF d
    <3> QED
      BY <2>2, <2>3, <3>1, RecordedPut
  <2>4. CASE l \notin Links /\ conn' # conn
    <3>1. \A m \in Links : conn'[m] = conn[m]
      BY <1>2, <2>1, <2>4
    <3> QED
      BY <3>1 DEF RecordedLess
  <2> QED
    BY <1>3, <2>3, <2>4
<1>13. ASSUME NEW p, AckPacket(p) PROVE RecordedLess
  <2> DEFINE l == task.link
             c == conn[l]
             tl == Tail(c.inflight)
             rest == [c EXCEPT !.inflight = tl]
             pr == Append(c.pubrels, p.pkid)
             as == Append(c.acks, Ack("PubRel", p.pkid))
             acked == IF p.k = "PubAck" THEN rest ELSE [rest EXCEPT !.pubrels = Append(@, p.pkid),
                                                          !.acks = Append(@, Ack("PubRel", p.pkid))]
             w == Woken(acked, "IncomingAck")
  <2>1. conn' = conn \/ conn' = [conn EXCEPT ![l] = rest] \/ conn' = [conn EXCEPT ![l] = w]
    BY <1>13 DEF AckPacket
  <2> HIDE DEF tl, l, pr, as
  <2>2. ASSUME l \in Links PROVE rest.recorded = c.recorded /\ acked.recorded = c.recorded
    BY <1>1, <2>2
  <2>3. ASSUME l \in Links PROVE DOMAIN acked = DOMAIN c
    BY <1>1, <2>3
  <2> HIDE DEF rest, acked
  <2>4. ASSUME l \in Links PROVE w.recorded = c.recorded
    BY <1>1, <2>2, <2>3, <2>4 DEF Woken
  <2> HIDE DEF w
  <2>5. CASE conn' = [conn EXCEPT ![l] = rest]
    BY <2>2, <2>5, RecordedPut
  <2>6. CASE conn' = [conn EXCEPT ![l] = w]
    BY <2>4, <2>6, RecordedPut
  <2> QED
    BY <1>3, <2>1, <2>5, <2>6
<1>14. ASSUME NEW p, PubCompPacket(p) \/ DisconnectPacket(p) PROVE RecordedLess
  <2>1. conn' = conn \/ \E l, a : conn' = [conn EXCEPT ![l].pubrels = a]
    BY <1>14, Zenon DEF PubCompPacket, DisconnectPacket
  <2> QED
    BY <1>1, <1>2, <2>1 DEF RecordedLess
<1>15. CASE ForceAcks
  <2>1. conn' = conn \/ \E l : conn' = [conn EXCEPT ![l] = Woken(@, "FreshData")]
    BY <1>15 DEF ForceAcks
  <2> QED
    BY <1>1, <1>2, <2>1, SMTT(40) DEF Woken, RecordedLess
<1>16. CASE NotifyWaiter
  <2> DEFINE l == slab[Head(task.notes).id]
             a == Append(conn[l].reqs, Head(task.notes).req)
             d == Woken([conn[l] EXCEPT !.reqs = a], "FreshData")
  <2>1. conn' = [conn EXCEPT ![l] = d]
    BY <1>16 DEF NotifyWaiter
  <2> HIDE DEF a, l
  <2>2. ASSUME l \in Links PROVE d.recorded = conn[l].recorded
    BY <1>1, <2>2 DEF Woken
  <2> HIDE DEF d
  <2> QED
    BY <2>1, <2>2, RecordedPut
<1>17. CASE EndPayload
  <2>1. Disconnection(task.id) \/ conn' = conn
    BY <1>17 DEF EndPayload
  <2> QED
    BY <1>3, <1>4, <2>1
<1>18. CASE Poll
  <2>1. \E l : conn' = [conn EXCEPT ![l].acks = <<>>, ![l].reqs = <<>>]
    BY <1>18 DEF Poll
  <2> QED
    BY <1>1, <1>2, <2>1 DEF RecordedLess
<1>19. CASE RequestInflightFull \/ CaughtUp
  <2> DEFINE l == task.link
             r == conn[l].reqs \o Tail(task.reqs) \o <<Head(task.reqs)>>
             d == [[conn[l] EXCEPT !.reqs = r] EXCEPT !.status = "InflightFull"]
             e == [conn[l] EXCEPT !.status = "Caughtup"]
  <2>1. conn' = [conn EXCEPT ![l] = d] \/ conn' = [conn EXCEPT ![l] = e]
    BY <1>19 DEF RequestInflightFull, CaughtUp, Paused
  <2> HIDE DEF r, l
  <2>2. ASSUME l \in Links PROVE d.recorded = conn[l].recorded /\ e.recorded = conn[l].recorded
    BY <1>1, <2>2
  <2> HIDE DEF d, e
  <2>3. CASE conn' = [conn EXCEPT ![l] = d]
    BY <2>2, <2>3, RecordedPut
  <2>4. CASE conn' = [conn EXCEPT ![l] = e]
    BY <2>2, <2>4, RecordedPut
  <2> QED
    BY <2>1, <2>3, <2>4
<1>20. CASE TurnEnds
  <2>1. \E l, a : conn' = [conn EXCEPT ![l].reqs = a]
    BY <1>20, Zenon DEF TurnEnds
  <2> QED
    BY <1>1, <1>2, <2>1 DEF RecordedLess
<1>21. CASE ServeRequest
  <2>1. PICK order, read : ServeOK(order, read) /\ Serve(order, read)
    BY <1>21, ServeRequestOK
  <2>2. task.link \in Links
    BY <1>21, ServingFacts DEF ServeRequest
  <2> DEFINE l == task.link
             c == conn[l]
             req == Head(task.reqs)
             fs == TurnOut(order, read)
             in == c.inflight \o [i \in 1 .. Len(fs) |-> [pkid |-> fs[i].pkid, f |-> req.f, at |-> fs[i].at]]
             k == (c.pkid + Len(fs)) % MaxInflight
             d == TurnLeaves(order, read)
  <2>3. d = c \/ d = [c EXCEPT !.inflight = in, !.pkid = k]
    <3>1. Inflight(c, req, fs) = IF req.qos = 0 THEN c ELSE [c EXCEPT !.inflight = in, !.pkid = k]
      <4> HIDE DEF c, fs
      <4> QED
        BY DEF Inflight
    <3> QED
      BY <3>1 DEF TurnLeaves
  <2> HIDE DEF in, k, fs, req
  <2>4. d.recorded = c.recorded /\ DOMAIN d = DOMAIN c
    <3> HIDE DEF d
    <3> QED
      BY <1>1, <2>2, <2>3
  <2>5. \/ conn' = [conn EXCEPT ![l] = d]
        \/ \E x : conn' = [conn EXCEPT ![l] = [[d EXCEPT !.reqs = x] EXCEPT !.status = "Busy"]]
    <3>1. TurnBusy(order, read) \/ TurnParks(order, read) \/ TurnAgain(order, read)
      BY <2>1, ServeParts
    <3> QED
      BY <3>1, Zenon DEF TurnBusy, TurnParks, TurnAgain, Paused
  <2> HIDE DEF d
  <2>6. CASE conn' = [conn EXCEPT ![l] = d]
    <3> HIDE DEF l
    <3> QED
      BY <2>4, <2>6, RecordedPut
  <2>7. ASSUME NEW x, conn' = [conn EXCEPT ![l] = [[d EXCEPT !.reqs = x] EXCEPT !.status = "Busy"]]
        PROVE  RecordedLess
    <3> DEFINE e == [[d EXCEPT !.reqs = x] EXCEPT !.status = "Busy"]
    <3>1. e.recorded = d.recorded
      BY <1>1, <2>2, <2>4
    <3>2. conn' = [conn EXCEPT ![l] = e]
      BY <2>7
    <3> HIDE DEF e, l
    <3> QED
      BY <2>4, <3>1, <3>2, RecordedPut
  <2> QED
    BY <2>5, <2>6, <2>7
<1> QED
  BY <1>5, <1>6, <1>7, <1>8, <1>9, <1>10, <1>11, <1>12, <1>13, <1>14, <1>15, <1>16, <1>17, <1>18,
     <1>19, <1>20, <1>21

\* A step that reads nothing, records nothing and notifies no more.
LEMMA SendersSame ==
    ASSUME SendersOK, RecordedLess,
           \A l \in Links : Range(inbuf'[l]) \subseteq Range(inbuf[l]),
           task'.step = "packets" => /\ task.step = "packets" /\ task'.link = task.link
                                     /\ Range(task'.cache) \subseteq Range(task.cache),
           task'.notes # <<>> => task.notes # <<>> /\ task'.link = task.link
    PROVE  SendersOK'
<1>1. ASSUME NEW l \in Links
      PROVE  /\ AllAllowed(ClientOf[l], inbuf'[l])
             /\ conn'[l].recorded # <<>> => ClientOf[l] \in Publishers
  BY DEF SendersOK, RecordedLess, AllAllowed
<1>2. ASSUME task'.step = "packets" PROVE AllAllowed(ClientOf[task'.link], task'.cache)
  BY <1>2 DEF SendersOK, AllAllowed
<1>3. ASSUME task'.notes # <<>> PROVE ClientOf[task'.link] \in Publishers
  BY <1>3 DEF SendersOK
<1> QED
  BY <1>1, <1>2, <1>3 DEF SendersOK, AllAllowed

\* A packet that is handled is taken out of the batch.
LEMMA PacketTakes ==
    ASSUME BrokerType, NEW p, HandlePacket(p)
    PROVE  /\ Range(task'.cache) \subseteq Range(task.cache) /\ p \in Range(task.cache)
           /\ task.step = "packets" /\ task'.step = "packets" /\ task'.link = task.link
           /\ task.link \in Links
           /\ p.k # "Publish" /\ conn[task.link].recorded = <<>> => task'.notes = task.notes
           /\ inbuf' = inbuf
<1>1. PICK kinds : Packet(p, kinds)
  BY DEF HandlePacket, PublishPacket, RecordPacket, PubRelPacket, SubscribePacket,
         UnsubscribePacket, AckPacket, PubCompPacket, PingPacket, DisconnectPacket
<1>2. /\ task.step = "packets" /\ task.link \in Links /\ p = Head(task.cache)
      /\ Onward(Taken) /\ Onward(TakenForced) /\ Onward(TakenBad)
  BY <1>1, PacketOn
<1>3. task \in TasksIn(data)
  BY DEF BrokerType, TaskOK
<1> DEFINE s == task.cache
<1>4. s \in Seq(Packets) /\ s # <<>>
  BY <1>1, <1>3, TaskFields DEF Packet
<1>5. Range(Tail(s)) \subseteq Range(s) /\ Head(s) \in Range(s)
  <2> DEFINE P == Packets
  <2>1. s \in Seq(P) /\ s # <<>>
    BY <1>4
  <2> HIDE DEF s, P
  <2> QED
    BY <2>1, TailFacts
<1>6. DOMAIN task = {"step", "id", "link", "cache", "force", "new", "bad", "notes", "reqs", "left"}
  BY <1>3, TaskFields
<1>7. /\ Taken.cache = Tail(s) /\ TakenForced.cache = Tail(s) /\ TakenBad.cache = <<>>
  <2> HIDE DEF s
  <2> QED
    BY <1>6 DEF Taken, TakenForced, TakenBad, s
<1>8. PICK d \in ConnectionsIn(data) : Effect(p, d)
  BY PacketEffect
<1>9. task'.step = "packets" /\ task'.link = task.link
  BY <1>8 DEF Effect
<1>10. inbuf' = inbuf
  BY DEF HandlePacket, PublishPacket, RecordPacket, PubRelPacket, SubscribePacket,
         UnsubscribePacket, AckPacket, PubCompPacket, PingPacket, DisconnectPacket, InPayload
<1>11. \/ task' \in {Taken, TakenForced, TakenBad}
       \/ /\ p.k = "Publish" \/ conn[task.link].recorded # <<>>
          /\ \E m, t : AppendToLog(m, t, Taken) \/ AppendToLog(m, t, TakenForced)
  <2>1. CASE PublishPacket(p)
    <3>1. Packet(p, {"Publish"}) /\ AppendToLog(p.m, p.topic, IF p.qos = 1 THEN TakenForced ELSE Taken)
      BY <2>1 DEF PublishPacket
    <3>2. p.k = "Publish"
      BY <3>1 DEF Packet
    <3>3. AppendToLog(p.m, p.topic, Taken) \/ AppendToLog(p.m, p.topic, TakenForced)
      BY <3>1
    <3> QED
      BY <3>2, <3>3
  <2>2. CASE PubRelPacket(p)
    <3> DEFINE h == Head(conn[task.link].recorded)
    <3>1. \/ task' = TakenBad
          \/ conn[task.link].recorded # <<>> /\ AppendToLog(h.m, h.topic, Taken)
      BY <2>2 DEF PubRelPacket
    <3> QED
      BY <3>1
  <2>3. CASE RecordPacket(p) \/ SubscribePacket(p) \/ UnsubscribePacket(p) \/ AckPacket(p)
             \/ PubCompPacket(p) \/ PingPacket(p) \/ DisconnectPacket(p)
    BY <2>3 DEF RecordPacket, SubscribePacket, UnsubscribePacket, AckPacket, PubCompPacket,
                PingPacket, DisconnectPacket
  <2> QED
    BY <2>1, <2>2, <2>3 DEF HandlePacket
<1>12. CASE task' \in {Taken, TakenForced, TakenBad}
  <2>1. task'.cache = Tail(s) \/ task'.cache = <<>>
    BY <1>7, <1>12
  <2>2. Range(task'.cache) \subseteq Range(s)
    BY <1>5, <2>1, NilRange
  <2>3. task'.notes = task.notes
    BY <1>2, <1>12 DEF Onward
  <2> QED
    BY <1>2, <1>5, <1>9, <1>10, <2>2, <2>3
<1>13. ASSUME NEW m, NEW t, NEW next \in {Taken, TakenForced}, AppendToLog(m, t, next)
       PROVE  task'.cache = Tail(s)
  <2> DEFINE ns == next.notes \o WaitersOf(SetToSeq(Routed(t)))
  <2>1. task' = [next EXCEPT !.new = TRUE, !.notes = ns]
    BY <1>13 DEF AppendToLog
  <2>2. next \in TasksIn(data)
    BY <1>2 DEF Onward
  <2>3. DOMAIN next = {"step", "id", "link", "cache", "force", "new", "bad", "notes", "reqs", "left"}
    BY <2>2, TaskFields
  <2>4. next.cache = Tail(s)
    BY <1>7
  <2> HIDE DEF ns, s
  <2> QED
    BY <2>1, <2>3, <2>4
<1> QED
  BY <1>2, <1>5, <1>9, <1>10, <1>11, <1>12, <1>13

\* Whatever a packet records or has notified is the work of its sender.
LEMMA PacketSenders ==
    ASSUME BrokerType, SendersOK, NEW p, HandlePacket(p)
    PROVE  SendersOK'
<1> DEFINE c == ClientOf[task.link]
<1>1. /\ Range(task'.cache) \subseteq Range(task.cache) /\ p \in Range(task.cache)
      /\ task.step = "packets" /\ task'.step = "packets" /\ task'.link = task.link
      /\ task.link \in Links
      /\ p.k # "Publish" /\ conn[task.link].recorded = <<>> => task'.notes = task.notes
      /\ inbuf' = inbuf
  BY PacketTakes
<1>2. p.k = "Publish" => c \in Publishers
  BY <1>1 DEF SendersOK, AllAllowed, Allowed
<1>3. conn[task.link].recorded # <<>> => c \in Publishers
  BY <1>1 DEF SendersOK
<1>4. CASE c \in Publishers
  <2>1. PICK d \in ConnectionsIn(data) : Effect(p, d)
    BY PacketEffect
  <2>2. \A m \in Links : m # task.link => conn'[m] = conn[m]
    BY <2>1 DEF Effect, BrokerType, ConnOK
  <2>3. ASSUME NEW l \in Links
        PROVE  /\ AllAllowed(ClientOf[l], inbuf'[l])
               /\ conn'[l].recorded # <<>> => ClientOf[l] \in Publishers
    BY <1>1, <1>4, <2>2 DEF SendersOK
  <2>4. AllAllowed(ClientOf[task'.link], task'.cache)
    BY <1>1 DEF SendersOK, AllAllowed
  <2>5. ClientOf[task'.link] \in Publishers
    BY <1>1, <1>4
  <2> QED
    BY <2>3, <2>4, <2>5 DEF SendersOK, AllAllowed
<1>5. CASE c \notin Publishers
  <2>1. task'.notes = task.notes
    BY <1>1, <1>2, <1>3, <1>5
  <2>2. ~RecordPacket(p)
    BY <1>2, <1>5 DEF RecordPacket, Packet
  <2>3. RecordedLess
    BY <2>2, RecordedStays DEF HandlePacket
  <2>4. \A l \in Links : Range(inbuf'[l]) \subseteq Range(inbuf[l])
    BY <1>1
  <2> QED
    BY <1>1, <2>1, <2>3, <2>4, SendersSame
<1> QED
  BY <1>4, <1>5

\* The batch that is handled is what the link has read.
LEMMA EventSenders ==
    ASSUME BrokerType, SendersOK, NEW e, HandleEvent(e)
    PROVE  SendersOK'
<1>1. RecordedLess
  BY RecordedStays
<1>2. Begin(e)
  BY DEF HandleEvent, HandleConnect, HandleDeviceData, HandleDisconnect, HandleReady
<1>3. e \in Events /\ Idle
  BY <1>2, BeginFacts
<1>4. task.step = "none" /\ task.notes = <<>> /\ e.id \in Ids
  BY <1>3 DEF Idle, BrokerType, TaskHolds, Events
<1>5. ASSUME inbuf' = inbuf, task'.step # "packets", task'.notes = <<>> PROVE SendersOK'
  <2>1. \A l \in Links : Range(inbuf'[l]) \subseteq Range(inbuf[l])
    BY <1>5
  <2> QED
    BY <1>1, <1>5, <2>1, SendersSame
<1>6. CASE HandleConnect(e)
  <2>1. task' = [NoTask EXCEPT !.step = "connect", !.link = e.link] /\ inbuf' = inbuf
    BY <1>6 DEF HandleConnect
  <2>2. task'.step # "packets" /\ task'.notes = <<>>
    BY <2>1 DEF NoTask
  <2> QED
    BY <1>5, <2>1, <2>2
<1>7. CASE HandleReady(e)
  <2>1. (task' = task \/ task' = [NoTask EXCEPT !.step = "panicked"]) /\ inbuf' = inbuf
    BY <1>7 DEF HandleReady
  <2>2. task'.step # "packets" /\ task'.notes = <<>>
    BY <1>4, <2>1 DEF NoTask
  <2> QED
    BY <1>5, <2>1, <2>2
<1>8. CASE HandleDisconnect(e)
  BY <1>4, <1>5, <1>8 DEF HandleDisconnect
<1>9. CASE HandleDeviceData(e) /\ ~Used(e.id)
  BY <1>4, <1>5, <1>9 DEF HandleDeviceData
<1>10. CASE HandleDeviceData(e) /\ Used(e.id)
  <2> DEFINE l == slab[e.id]
  <2>1. /\ task' = [NoTask EXCEPT !.step = "packets", !.id = e.id, !.link = l, !.cache = inbuf[l]]
        /\ inbuf' = [inbuf EXCEPT ![l] = <<>>] /\ conn' = conn
    BY <1>10 DEF HandleDeviceData
  <2>2. l \in Links
    BY <1>4, <1>10 DEF BrokerType, SlabOK, Used
  <2> HIDE DEF l
  <2>3. task'.link = l /\ task'.cache = inbuf[l] /\ task'.notes = <<>>
    BY <2>1 DEF NoTask
  <2>4. ASSUME NEW m \in Links
        PROVE  /\ AllAllowed(ClientOf[m], inbuf'[m])
               /\ conn'[m].recorded # <<>> => ClientOf[m] \in Publishers
    <3>1. inbuf'[m] = inbuf[m] \/ inbuf'[m] = <<>>
      BY <2>1 DEF BrokerType, BuffersOK
    <3>2. AllAllowed(ClientOf[m], <<>>)
      BY NilRange DEF AllAllowed
    <3> QED
      BY <2>1, <3>1, <3>2 DEF SendersOK
  <2>5. AllAllowed(ClientOf[task'.link], task'.cache)
    BY <2>2, <2>3 DEF SendersOK
  <2> QED
    BY <2>3, <2>4, <2>5 DEF SendersOK, AllAllowed
<1> QED
  BY <1>6, <1>7, <1>8, <1>9, <1>10 DEF HandleEvent

\* The rest of the router hands nothing to anyone else.
LEMMA RestSenders ==
    ASSUME BrokerType, SendersOK,
           \/ \E id \in Ids : DropDuplicate(id)
           \/ Refuse \/ Admit \/ PollNothing \/ PollStale \/ Drained
           \/ ForceAcks \/ NotifyWaiter \/ EndPayload
           \/ Poll \/ RequestInflightFull \/ ServeRequest \/ CaughtUp \/ TurnEnds
    PROVE  SendersOK'
<1>1. RecordedLess
  BY RecordedStays
<1>2. inbuf' = inbuf
  BY ZenonT(40) DEF DropDuplicate, Refuse, Admit, PollNothing, PollStale, Drained, ForceAcks,
            NotifyWaiter, InPayload, EndPayload, Poll, RequestInflightFull, ServeRequest, Serve,
            CaughtUp, TurnEnds, InConsume
<1>3. task \in TasksIn(data)
  BY DEF BrokerType, TaskOK
<1>4. DOMAIN task = {"step", "id", "link", "cache", "force", "new", "bad", "notes", "reqs", "left"}
  BY <1>3, TaskFields
<1>5. ASSUME \/ task'.step # "packets" /\ task'.notes = <<>>
             \/ task'.step # "packets" /\ task.notes # <<>> /\ task'.link = task.link
             \/ task' = task
      PROVE  SendersOK'
  <2>1. \A l \in Links : Range(inbuf'[l]) \subseteq Range(inbuf[l])
    BY <1>2
  <2> QED
    BY <1>1, <1>5, <2>1, SendersSame
<1>6. ASSUME task' = NoTask PROVE SendersOK'
  <2>1. task'.step # "packets" /\ task'.notes = <<>>
    BY <1>6 DEF NoTask
  <2> QED
    BY <1>5, <2>1
<1>7. CASE \E id \in Ids : DropDuplicate(id)
  BY <1>5, <1>7 DEF DropDuplicate
<1>8. CASE Refuse \/ Admit \/ PollNothing \/ PollStale \/ Drained \/ EndPayload
           \/ RequestInflightFull \/ CaughtUp \/ TurnEnds
  <2>1. task' = NoTask \/ task' = task
    BY <1>8 DEF Refuse, Admit, PollNothing, PollStale, Drained, EndPayload, RequestInflightFull,
                CaughtUp, TurnEnds
  <2> QED
    BY <1>5, <1>6, <2>1
<1>9. CASE ForceAcks
  <2>1. task' = [task EXCEPT !.step = "notify"]
    BY <1>9 DEF ForceAcks
  <2>2. task'.step = "notify" /\ task'.notes = task.notes /\ task'.link = task.link
    BY <1>4, <2>1
  <2> QED
    BY <1>5, <2>2
<1>10. CASE NotifyWaiter
  <2>1. task.step = "notify" /\ task.notes # <<>> /\ task' = [task EXCEPT !.notes = Tail(@)]
    BY <1>10 DEF NotifyWaiter
  <2>2. task'.step = "notify" /\ task'.link = task.link
    BY <1>4, <2>1
  <2> QED
    BY <1>5, <2>1, <2>2
<1>11. CASE Poll
  <2>1. \E id, l, rs : task' = [NoTask EXCEPT !.step = "requests", !.id = id, !.link = l,
                                  !.reqs = rs, !.left = MaxIterations]
    BY <1>11 DEF Poll
  <2>2. task'.step # "packets" /\ task'.notes = <<>>
    BY <2>1 DEF NoTask
  <2> QED
    BY <1>5, <2>2
<1>12. CASE ServeRequest
  <2>1. PICK order, read : ServeOK(order, read) /\ Serve(order, read)
    BY <1>12, ServeRequestOK
  <2>2. task.step = "requests" /\ task.notes = <<>>
    BY <1>12 DEF ServeRequest, BrokerType, TaskHolds
  <2>3. task' = NoTask \/ \E rs, n : task' = [task EXCEPT !.reqs = rs, !.left = n]
    <3>1. TurnBusy(order, read) \/ TurnParks(order, read) \/ TurnAgain(order, read)
      BY <2>1, ServeParts
    <3> QED
      BY <3>1, Zenon DEF TurnBusy, TurnParks, TurnAgain
  <2>4. CASE \E rs, n : task' = [task EXCEPT !.reqs = rs, !.left = n]
    <3>1. task'.step = "requests" /\ task'.notes = <<>>
      BY <1>4, <2>2, <2>4
    <3> QED
      BY <1>5, <3>1
  <2> QED
    BY <1>6, <2>3, <2>4
<1> QED
  BY <1>7, <1>8, <1>9, <1>10, <1>11, <1>12

\* Links read what their clients may send.
LEMMA LinksSenders ==
    ASSUME BrokerType, SendersOK, NEW l \in Links, LinkStep(l) \/ ClientStep(l) \/ ClientAnswer(l)
    PROVE  SendersOK'
<1>1. conn' = conn /\ task' = task
  BY LinksLeaveRouter DEF routerVars
<1>2. RecordedLess
  BY <1>1 DEF RecordedLess
<1>3. ASSUME inbuf' = inbuf PROVE SendersOK'
  <2>1. \A m \in Links : Range(inbuf'[m]) \subseteq Range(inbuf[m])
    BY <1>3
  <2> QED
    BY <1>1, <1>2, <2>1, SendersSame
<1>4. ASSUME NEW p \in Packets, Read(l, p), Allowed(ClientOf[l], p) PROVE SendersOK'
  <2> DEFINE s == inbuf[l]
  <2>1. s \in Seq(Packets) /\ inbuf \in [Links -> Seq(Packets)]
    BY DEF BrokerType, BuffersOK
  <2>2. inbuf' = [inbuf EXCEPT ![l] = Append(s, p)]
    BY <1>4 DEF Read
  <2>3. Range(Append(s, p)) \subseteq Range(s) \cup {p}
    <3> DEFINE P == Packets
    <3>1. s \in Seq(P) /\ p \in P
      BY <2>1
    <3> HIDE DEF s, P
    <3>2. Len(s) \in Nat /\ DOMAIN Append(s, p) = 1 .. Len(s) + 1 /\ DOMAIN s = 1 .. Len(s)
          /\ \A i \in 1 .. Len(s) : Append(s, p)[i] = s[i]
          /\ Append(s, p)[Len(s) + 1] = p
      BY <3>1
    <3> QED
      BY <3>2 DEF Range
  <2>4. AllAllowed(ClientOf[l], Append(s, p))
    BY <1>4, <2>3 DEF SendersOK, AllAllowed
  <2>5. ASSUME NEW m \in Links
        PROVE  /\ AllAllowed(ClientOf[m], inbuf'[m])
               /\ conn'[m].recorded # <<>> => ClientOf[m] \in Publishers
    <3> HIDE DEF s
    <3>1. m = l => inbuf'[m] = Append(s, p)
      BY <2>1, <2>2
    <3>2. m # l => inbuf'[m] = inbuf[m]
      BY <2>1, <2>2
    <3> QED
      BY <1>1, <2>4, <3>1, <3>2 DEF SendersOK
  <2>6. task'.step = "packets" => AllAllowed(ClientOf[task'.link], task'.cache)
    BY <1>1 DEF SendersOK
  <2>7. task'.notes # <<>> => ClientOf[task'.link] \in Publishers
    BY <1>1 DEF SendersOK
  <2> QED
    BY <2>5, <2>6, <2>7 DEF SendersOK, AllAllowed
<1>5. CASE LinkStep(l) \/ Dial(l) \/ Fail(l) \/ GreetFails(l)
  BY <1>3, <1>5 DEF LinkStep, Established, Refused, Exchange, Wake, Dropped, Dial, Fail, GreetFails
<1>6. CASE ClientAnswer(l)
  <2> DEFINE p == Head(owes[l])
  <2>1. owes[l] \in Seq(Replies) /\ owes[l] # <<>> /\ Read(l, p)
    BY <1>6 DEF ClientAnswer, BrokerType, BuffersOK
  <2>2. p \in Replies
    BY <2>1
  <2> HIDE DEF p
  <2>3. p \in Packets /\ Allowed(ClientOf[l], p)
    BY <2>2 DEF Packets, Replies, Allowed
  <2> QED
    BY <1>4, <2>1, <2>3
<1>7. ASSUME NEW t \in Topics, NEW q \in PublishQos, ClientPublish(l, t, q) PROVE SendersOK'
  <2> DEFINE p == [k |-> "Publish", topic |-> t, qos |-> q, m |-> npub + 1]
  <2>1. Read(l, p) /\ npub < MaxPublish /\ ClientOf[l] \in Publishers
    BY <1>7 DEF ClientPublish
  <2>2. npub + 1 \in Messages
    BY <2>1, BrokerAssumption DEF BrokerType, BuffersOK, Messages
  <2>3. p \in Packets /\ p.k = "Publish"
    BY <2>2 DEF Packets, Publishes
  <2> HIDE DEF p
  <2>4. Allowed(ClientOf[l], p)
    BY <2>1, <2>3 DEF Allowed
  <2> QED
    BY <1>4, <2>1, <2>3, <2>4
<1>8. ASSUME NEW p \in ControlPackets, ClientControl(l, p) PROVE SendersOK'
  <2>1. Read(l, p) /\ p.k \in Controls /\ ClientOf[l] \in Subscribers /\ p \in Packets
    BY <1>8 DEF ClientControl, Packets
  <2>2. p.k # "Publish"
    BY DEF ControlPackets
  <2>3. Allowed(ClientOf[l], p)
    BY <2>1, <2>2 DEF Allowed
  <2> QED
    BY <1>4, <2>1, <2>3
<1> QED
  BY <1>5, <1>6, <1>7, <1>8 DEF ClientStep

\* Clients that unsubscribe do not publish: no batch then takes a parked request
\* of the connection out of the log and gives its filter up.
Apart == "Unsubscribe" \in Controls => Publishers \cap Subscribers = {}

\* The invariant: the counts, and what they rest on.
RequestsOK == CountOK /\ SavedOK /\ SendersOK

\* Every step keeps it.
LEMMA RequestsKeep ==
    ASSUME Apart, BrokerType, RequestsOK, [Next]_vars
    PROVE  RequestsOK'
<1> USE DEF RequestsOK
<1>1. ASSUME CountOK', grave' = grave PROVE CountOK' /\ SavedOK'
  BY <1>1 DEF SavedOK
<1>2. ASSUME NEW e, HandleEvent(e) PROVE RequestsOK'
  BY <1>2, EventCounts, EventSenders
<1>3. ASSUME NEW p, HandlePacket(p) PROVE RequestsOK'
  <2>1. grave' = grave
    BY <1>3 DEF HandlePacket, PublishPacket, RecordPacket, PubRelPacket, SubscribePacket,
         UnsubscribePacket, AckPacket, PubCompPacket, PingPacket, DisconnectPacket, InPayload
  <2>2. SendersOK'
    BY <1>3, PacketSenders
  <2>3. CASE p.k \notin {"Subscribe", "Unsubscribe"}
    <3>1. CountOK'
      BY <1>3, <2>3, PacketCounts
    <3> QED
      BY <1>1, <2>1, <2>2, <3>1
  <2>4. CASE p.k = "Subscribe"
    <3>1. SubscribePacket(p)
      BY <1>3, <2>4 DEF HandlePacket, PublishPacket, RecordPacket, PubRelPacket,
         UnsubscribePacket, AckPacket, PubCompPacket, PingPacket, DisconnectPacket, Packet
    <3>2. CountOK'
      BY <3>1, SubscribeCounts
    <3> QED
      BY <1>1, <2>1, <2>2, <3>2
  <2>5. CASE p.k = "Unsubscribe"
    <3>1. UnsubscribePacket(p)
      BY <1>3, <2>5 DEF HandlePacket, PublishPacket, RecordPacket, PubRelPacket,
         SubscribePacket, AckPacket, PubCompPacket, PingPacket, DisconnectPacket, Packet
    <3>2. p \in Range(task.cache) /\ task.step = "packets"
      BY <1>3, PacketTakes
    <3>3. ClientOf[task.link] \in Subscribers /\ "Unsubscribe" \in Controls
      BY <2>5, <3>2 DEF SendersOK, AllAllowed, Allowed
    <3>4. ClientOf[task.link] \notin Publishers
      BY <3>3 DEF Apart
    <3>5. task.notes = <<>>
      BY <3>4 DEF SendersOK
    <3>6. CountOK'
      BY <3>1, <3>5, UnsubscribeCounts
    <3> QED
      BY <1>1, <2>1, <2>2, <3>6
  <2> QED
    BY <2>3, <2>4, <2>5
<1>4. ASSUME NEW id \in Ids, DropDuplicate(id) PROVE RequestsOK'
  <2>1. SendersOK'
    BY <1>4, RestSenders
  <2> QED
    BY <1>4, <2>1, DropDuplicateCounts
<1>5. CASE Refuse \/ PollNothing \/ PollStale \/ Drained
  BY <1>5, NothingCounts, RestSenders
<1>6. CASE Admit
  BY <1>6, AdmitCounts, RestSenders
<1>7. CASE EndPayload
  BY <1>7, EndPayloadCounts, RestSenders
<1>8. CASE ForceAcks \/ NotifyWaiter \/ Poll \/ RequestInflightFull \/ ServeRequest \/ CaughtUp
           \/ TurnEnds
  <2>1. grave' = grave
    BY <1>8, ZenonT(40) DEF ForceAcks, NotifyWaiter, InPayload, Poll, RequestInflightFull,
              ServeRequest, Serve, CaughtUp, TurnEnds, InConsume
  <2>2. CountOK'
    BY <1>8, ForceAcksCounts, NotifyCounts, PollCounts, ServeCounts, TurnEndCounts
  <2>3. SendersOK'
    BY <1>8, RestSenders
  <2> QED
    BY <1>1, <2>1, <2>2, <2>3
<1>9. ASSUME NEW l \in Links, LinkStep(l) \/ ClientStep(l) \/ ClientAnswer(l) PROVE RequestsOK'
  <2>1. slab' = slab /\ conn' = conn /\ data' = data /\ grave' = grave /\ task' = task
    BY <1>9, LinksLeaveRouter DEF routerVars
  <2>2. CountOK'
    BY <2>1, CountSame
  <2>3. SendersOK'
    BY <1>9, LinksSenders
  <2> QED
    BY <1>1, <2>1, <2>2, <2>3
<1>10. CASE UNCHANGED vars
  <2>1. /\ slab' = slab /\ conn' = conn /\ data' = data /\ grave' = grave /\ task' = task
        /\ inbuf' = inbuf
    BY <1>10 DEF vars, routerVars
  <2>2. CountOK'
    BY <2>1, CountSame
  <2>3. RecordedLess
    BY <2>1 DEF RecordedLess
  <2>4. \A l \in Links : Range(inbuf'[l]) \subseteq Range(inbuf[l])
    BY <2>1
  <2>5. SendersOK'
    BY <2>1, <2>3, <2>4, SendersSame
  <2> QED
    BY <1>1, <2>1, <2>2, <2>5
<1> QED
  BY <1>2, <1>3, <1>4, <1>5, <1>6, <1>7, <1>8, <1>9, <1>10 DEF Next, RouterStep

\* Nothing is subscribed to, and nothing sent, at the start.
LEMMA RequestsInit == Init => RequestsOK
<1> SUFFICES ASSUME Init PROVE RequestsOK
  OBVIOUS
<1>1. \A id \in Ids : ~Used(id)
  BY DEF Init, Used
<1>2. CountOK
  BY <1>1 DEF CountOK
<1>3. SavedOK
  BY DEF Init, SavedOK
<1>4. ASSUME NEW l \in Links
      PROVE  AllAllowed(ClientOf[l], inbuf[l]) /\ conn[l].recorded = <<>>
  <2>1. inbuf[l] = <<>> /\ conn[l] = Fresh
    BY DEF Init
  <2> QED
    BY <2>1, NilRange DEF AllAllowed, Fresh
<1>5. task.step # "packets" /\ task.notes = <<>>
  BY DEF Init, NoTask
<1> QED
  BY <1>2, <1>3, <1>4, <1>5 DEF RequestsOK, SendersOK

\* A subscription has one request, wherever the router has it (pause, park,
\* waiters, trackers, graveyard), as long as no client both publishes and
\* unsubscribes: a batch that did would have its own parked request come back
\* (handle_device_payload notifies after all its packets).
THEOREM RequestsCorrect ==
    ASSUME Apart
    PROVE  Spec => []OneRequest
<1>1. Init => RequestsOK
  BY RequestsInit
<1>2. BrokerType /\ RequestsOK /\ [Next]_vars => RequestsOK'
  BY RequestsKeep
<1>3. BrokerType /\ RequestsOK => OneRequest
  BY CountFollows DEF RequestsOK
<1>4. Spec => []BrokerType
  BY BrokerTypeInvariant
<1> QED
  BY <1>1, <1>2, <1>3, <1>4, PTL DEF Spec

=============================================================================

-------------------------- MODULE MqttTypes_proofs --------------------------
(***************************************************************************)
(* The commit log, for every size and number of segments: appending keeps  *)
(* it in order, a position handed out earlier stays one that reading can   *)
(* start from, and what is read from it are the messages of the log, none  *)
(* left out and none twice.                                                *)
(*                                                                         *)
(* Then the types of the MQTT broker, for every value of its constants:    *)
(* one lemma per action, and the theorem they add up to. The types are     *)
(* those of the Rust values, with what they rest on: every cursor is a     *)
(* position of its log, every id that is used names a connection, and the  *)
(* first thing a link is sent is the id it is to use.                      *)
(***************************************************************************)
EXTENDS MqttBroker, TLAPS, WellFoundedInduction, FiniteSetTheorems

-----------------------------------------------------------------------------
(* Numbers and sequences                                                   *)

\* A set of numbers that is not empty has a least member.
LEMMA LeastNat ==
    ASSUME NEW T \in SUBSET Nat, T # {}
    PROVE  \E n \in T : \A m \in T : n <= m
<1> DEFINE R == OpToRel(<, Nat)
<1>1. IsWellFoundedOn(R, Nat)
  BY NatLessThanWellFounded
<1>2. \A m, n \in Nat : m < n => <<m, n>> \in R
  BY DEF OpToRel
<1> HIDE DEF R
<1>3. PICK n \in T : \A m \in T : ~ (<<m, n>> \in R)
  BY <1>1, WFMin
<1>4. ASSUME NEW m \in T PROVE n <= m
  <2>1. ~(m < n)
    BY <1>2, <1>3
  <2> QED
    BY <2>1
<1> QED
  BY <1>4

\* Induction over the numbers, for sets.
LEMMA NatInduct ==
    ASSUME NEW S, 0 \in S, \A n \in Nat : n \in S => n + 1 \in S
    PROVE  Nat \subseteq S
<1>1. ASSUME ~ (Nat \subseteq S) PROVE FALSE
  <2>1. PICK n \in Nat \ S : \A m \in Nat \ S : n <= m
    BY <1>1, LeastNat
  <2>2. n - 1 \in S
    BY <2>1
  <2> QED
    BY <2>1, <2>2
<1> QED
  BY <1>1

\* Induction over the numbers up to n.
LEMMA UptoInduct ==
    ASSUME NEW n \in Nat, NEW S, 0 \in S, \A i \in 1 .. n : i - 1 \in S => i \in S
    PROVE  0 .. n \subseteq S
<1> DEFINE Q == {i \in Nat : i <= n => i \in S}
<1>1. \A i \in Nat : i \in Q => i + 1 \in Q
  <2> SUFFICES ASSUME NEW i \in Nat, i <= n => i \in S, i + 1 <= n
               PROVE  i + 1 \in S
    OBVIOUS
  <2>1. i + 1 \in 1 .. n /\ (i + 1) - 1 = i
    OBVIOUS
  <2> QED
    BY <2>1
<1>2. Nat \subseteq Q
  <2>1. 0 \in Q
    OBVIOUS
  <2> HIDE DEF Q
  <2> QED
    BY <1>1, <2>1, NatInduct
<1> QED
  BY <1>2

\* A function defined by recursion on the numbers up to n exists.
StepFcn(F, V) == F \in [V \X Nat -> V]

Unfolds(g, V, a, F, n) ==
    g \in [0 .. n -> V] /\ g[0] = a /\ \A i \in 1 .. n : g[i] = F[<<g[i - 1], i>>]

\* A function defined by recursion on the numbers up to n exists.
LEMMA Recursion ==
    ASSUME NEW V, NEW a \in V, NEW F, StepFcn(F, V), NEW n \in Nat
    PROVE  \E g : Unfolds(g, V, a, F, n)
<1> USE DEF StepFcn
<1> DEFINE Upto(k) == \E g \in [0 .. k -> V] : /\ g[0] = a
                                               /\ \A i \in 1 .. k : g[i] = F[<<g[i - 1], i>>]
           Good == {k \in Nat : Upto(k)}
<1>1. Upto(0)
  <2> DEFINE g == [i \in 0 .. 0 |-> a]
  <2>1. g \in [0 .. 0 -> V] /\ g[0] = a /\ \A i \in 1 .. 0 : g[i] = F[<<g[i - 1], i>>]
    OBVIOUS
  <2> HIDE DEF g
  <2> QED
    BY <2>1
<1>2. ASSUME NEW k \in Nat, Upto(k) PROVE Upto(k + 1)
  <2>1. PICK g \in [0 .. k -> V] : g[0] = a /\ \A i \in 1 .. k : g[i] = F[<<g[i - 1], i>>]
    BY <1>2
  <2> DEFINE h == [i \in 0 .. k + 1 |-> IF i = k + 1 THEN F[<<g[k], k + 1>>] ELSE g[i]]
  <2>2. h \in [0 .. k + 1 -> V] /\ h[0] = a
    BY <2>1
  <2>3. ASSUME NEW i \in 1 .. k + 1 PROVE h[i] = F[<<h[i - 1], i>>]
    <3>1. h[i - 1] = g[i - 1]
      OBVIOUS
    <3>2. CASE i = k + 1
      BY <3>1, <3>2, SMTT(40)
    <3>3. CASE i # k + 1
      BY <2>1, <3>1, <3>3
    <3> QED
      BY <3>2, <3>3
  <2> HIDE DEF h
  <2> QED
    BY <2>2, <2>3
<1>3. n \in Good
  <2> HIDE DEF Upto
  <2>1. 0 \in Good /\ \A k \in Nat : k \in Good => k + 1 \in Good
    BY <1>1, <1>2
  <2> HIDE DEF Good
  <2>2. Nat \subseteq Good
    BY <2>1, NatInduct
  <2> QED
    BY <2>2
<1> QED
  BY <1>3 DEF Unfolds

\* Induction over sequences: from a sequence to one with a member more.
LEMMA SeqInduct ==
    ASSUME NEW S, NEW P, <<>> \in P,
           \A s \in Seq(S), x \in S : s \in P => Append(s, x) \in P
    PROVE  Seq(S) \subseteq P
<1> DEFINE Q == {n \in Nat : \A s \in Seq(S) : Len(s) = n => s \in P}
<1>1. 0 \in Q
  OBVIOUS
<1>2. ASSUME NEW n \in Nat, n \in Q PROVE n + 1 \in Q
  <2> SUFFICES ASSUME NEW s \in Seq(S), Len(s) = n + 1 PROVE s \in P
    OBVIOUS
  <2> DEFINE t == SubSeq(s, 1, n)
  <2>1. t \in Seq(S) /\ Len(t) = n
    OBVIOUS
  <2>2. s[n + 1] \in S /\ s = Append(t, s[n + 1])
    OBVIOUS
  <2>3. t \in P
    BY <1>2, <2>1
  <2> HIDE DEF t
  <2> QED
    BY <2>1, <2>2, <2>3
<1>3. Nat \subseteq Q
  <2> HIDE DEF Q
  <2> QED
    BY <1>1, <1>2, NatInduct
<1> QED
  BY <1>3

\* Appending: what it does to length, members and range.
LEMMA AppendFacts ==
    ASSUME NEW S, NEW s \in Seq(S), NEW x \in S
    PROVE  /\ Append(s, x) \in Seq(S) /\ Len(s) \in Nat /\ Len(Append(s, x)) = Len(s) + 1
           /\ Append(s, x)[Len(s) + 1] = x
           /\ \A i \in 1 .. Len(s) : Append(s, x)[i] = s[i]
           /\ Range(Append(s, x)) = Range(s) \cup {x}
<1>1. /\ Append(s, x) \in Seq(S) /\ DOMAIN Append(s, x) = 1 .. Len(s) + 1
      /\ DOMAIN s = 1 .. Len(s) /\ Len(s) \in Nat /\ Len(Append(s, x)) = Len(s) + 1
      /\ \A i \in 1 .. Len(s) : Append(s, x)[i] = s[i]
      /\ Append(s, x)[Len(s) + 1] = x
  OBVIOUS
<1> QED
  BY <1>1 DEF Range

\* The empty sequence has no members.
LEMMA NilRange == Range(<<>>) = {}
  BY DEF Range

\* Appending to the second of two sequences put together.
LEMMA ConcatAppend ==
    ASSUME NEW S, NEW s \in Seq(S), NEW t \in Seq(S), NEW x \in S
    PROVE  s \o Append(t, x) = Append(s \o t, x)
OBVIOUS

\* flat is the function by which FlattenSeq(ss) is computed.
Flattens(flat, ss) ==
    flat = [i \in 1 .. Len(ss) |-> IF i = 1 THEN ss[i] ELSE flat[i - 1] \o ss[i]]

\* FlattenSeq is computed by such a function.
LEMMA FlattenUses ==
    ASSUME NEW S, NEW ss \in Seq(Seq(S)), Len(ss) > 0
    PROVE  \E flat \in [1 .. Len(ss) -> Seq(S)] : Flattens(flat, ss) /\ FlattenSeq(ss) = flat[Len(ss)]
<1> DEFINE V == Seq(S)
           n == Len(ss)
           F == [p \in V \X Nat |-> IF p[2] \in 1 .. n THEN p[1] \o ss[p[2]] ELSE p[1]]
           a == <<>>
           g == CHOOSE k : k = [i \in 1 .. Len(ss) |-> IF i = 1 THEN ss[i] ELSE k[i - 1] \o ss[i]]
<1>1. n \in Nat /\ n > 0 /\ a \in V /\ \A i \in 1 .. n : ss[i] \in V
  OBVIOUS
<1>2. StepFcn(F, V)
  <2>1. ASSUME NEW p \in V \X Nat PROVE (IF p[2] \in 1 .. n THEN p[1] \o ss[p[2]] ELSE p[1]) \in V
    <3>1. CASE p[2] \in 1 .. n
      BY <1>1, <3>1
    <3>2. CASE p[2] \notin 1 .. n
      BY <3>2
    <3> QED
      BY <3>1, <3>2
  <2> QED
    BY <2>1 DEF StepFcn
<1>3. PICK h : Unfolds(h, V, a, F, n)
  <2> HIDE DEF V, n, F, a
  <2> QED
    BY <1>1, <1>2, Recursion
<1>4. \A i \in 1 .. n : h[i - 1] \in V /\ h[i] = h[i - 1] \o ss[i]
  <2> TAKE i \in 1 .. n
  <2>1. h[i - 1] \in V /\ i \in Nat /\ h[i] = F[<<h[i - 1], i>>]
    <3>1. i - 1 \in 0 .. n /\ i \in Nat
      BY <1>1
    <3> HIDE DEF V, F, a, n
    <3>2. h \in [0 .. n -> V] /\ \A j \in 1 .. n : h[j] = F[<<h[j - 1], j>>]
      BY <1>3 DEF Unfolds
    <3> QED
      BY <3>1, <3>2
  <2>2. <<h[i - 1], i>> \in V \X Nat
    BY <2>1
  <2>3. F[<<h[i - 1], i>>] = h[i - 1] \o ss[i]
    <3> HIDE DEF V
    <3> QED
      BY <2>2
  <2> QED
    BY <2>1, <2>3, Zenon
<1> DEFINE k == [i \in 1 .. n |-> h[i]]
<1>5. k \in [1 .. n -> V] /\ Flattens(k, ss)
  <2>1. k \in [1 .. n -> V]
    BY <1>3 DEF Unfolds
  <2>2. ASSUME NEW i \in 1 .. n PROVE k[i] = IF i = 1 THEN ss[i] ELSE k[i - 1] \o ss[i]
    <3>1. CASE i = 1
      <4>1. h[0] = <<>> /\ ss[1] \in V /\ 1 \in 1 .. n /\ k[1] = h[1]
        BY <1>1, <1>3, <3>1 DEF Unfolds
      <4>2. h[1 - 1] = <<>> /\ h[1] = h[1 - 1] \o ss[1]
        <5>1. h[1] = h[1 - 1] \o ss[1]
          BY <1>4, <4>1, Zenon
        <5>2. h[1 - 1] = <<>>
          BY <4>1
        <5> QED
          BY <5>1, <5>2
      <4>3. <<>> \o ss[1] = ss[1]
        BY <4>1
      <4>4. k[1] = ss[1]
        BY <4>1, <4>2, <4>3, Zenon
      <4> QED
        BY <3>1, <4>4
    <3>2. CASE i # 1
      <4>1. i - 1 \in 1 .. n
        BY <1>1, <3>2
      <4> HIDE DEF V
      <4> QED
        BY <1>4, <3>2, <4>1
    <3> QED
      BY <3>1, <3>2
  <2>3. k = [i \in 1 .. n |-> k[i]]
    OBVIOUS
  <2> HIDE DEF k
  <2> QED
    BY <2>1, <2>2, <2>3 DEF Flattens
<1> HIDE DEF k
<1>6. Flattens(g, ss)
  BY <1>5 DEF Flattens
<1>7. FlattenSeq(ss) = g[n]
  BY <1>1 DEF FlattenSeq
<1> HIDE DEF g
<1>8. g = k
  <2> DEFINE Q == {i \in 0 .. n : i > 0 => g[i] = k[i]}
  <2>1. 0 .. n \subseteq Q
    <3>1. 0 \in Q
      BY <1>1
    <3>2. ASSUME NEW i \in 1 .. n, i - 1 \in Q PROVE i \in Q
      <4>1. g[i] = IF i = 1 THEN ss[i] ELSE g[i - 1] \o ss[i]
        BY <1>6 DEF Flattens
      <4>2. k[i] = IF i = 1 THEN ss[i] ELSE k[i - 1] \o ss[i]
        BY <1>5 DEF Flattens
      <4>3. i # 1 => g[i - 1] = k[i - 1]
        BY <3>2
      <4>4. g[i] = k[i]
        BY <4>1, <4>2, <4>3, Zenon
      <4> QED
        BY <4>4
    <3> HIDE DEF Q, n
    <3> QED
      BY <1>1, <3>1, <3>2, UptoInduct
  <2>2. \A i \in 1 .. n : g[i] = k[i]
    BY <2>1, SMTT(40)
  <2>3. g = [i \in 1 .. n |-> g[i]] /\ k = [i \in 1 .. n |-> k[i]]
    BY <1>5, <1>6 DEF Flattens
  <2> QED
    BY <2>2, <2>3
<1> QED
  BY <1>5, <1>7, <1>8

\* FlattenSeq of nothing.
LEMMA FlattenNil == FlattenSeq(<<>>) = <<>>
  BY DEF FlattenSeq

\* FlattenSeq in steps.
LEMMA FlattenAppend ==
    ASSUME NEW S, NEW ss \in Seq(Seq(S)), NEW t \in Seq(S), FlattenSeq(ss) \in Seq(S)
    PROVE  FlattenSeq(Append(ss, t)) = FlattenSeq(ss) \o t
<1> DEFINE st == Append(ss, t)
           n == Len(ss)
<1>1. /\ st \in Seq(Seq(S)) /\ n \in Nat /\ Len(st) = n + 1 /\ st[n + 1] = t
      /\ \A i \in 1 .. n : st[i] = ss[i]
  OBVIOUS
<1> HIDE DEF st
<1>2. PICK h \in [1 .. n + 1 -> Seq(S)] : Flattens(h, st) /\ FlattenSeq(st) = h[n + 1]
  <2>1. Len(st) > 0
    BY <1>1
  <2>2. \E h \in [1 .. Len(st) -> Seq(S)] : Flattens(h, st) /\ FlattenSeq(st) = h[Len(st)]
    BY <1>1, <2>1, FlattenUses
  <2> QED
    BY <1>1, <2>2
<1>3. CASE n = 0
  <2>1. FlattenSeq(ss) = <<>>
    BY <1>3, FlattenNil
  <2>2. h[1] = t
    BY <1>1, <1>2, <1>3 DEF Flattens
  <2> QED
    BY <1>2, <1>3, <2>1, <2>2 DEF st
<1>4. CASE n > 0
  <2>1. PICK k \in [1 .. n -> Seq(S)] : Flattens(k, ss) /\ FlattenSeq(ss) = k[n]
    BY <1>4, FlattenUses
  <2> DEFINE Q == {i \in 0 .. n : i > 0 => h[i] = k[i]}
  <2>2. 0 .. n \subseteq Q
    <3>1. 0 \in Q
      BY <1>1
    <3>2. ASSUME NEW i \in 1 .. n, i - 1 \in Q PROVE i \in Q
      <4>0. i \in 1 .. Len(st) /\ i \in 1 .. Len(ss) /\ st[i] = ss[i]
        BY <1>1
      <4>1. h[i] = IF i = 1 THEN ss[i] ELSE h[i - 1] \o ss[i]
        BY <1>2, <4>0 DEF Flattens
      <4>2. k[i] = IF i = 1 THEN ss[i] ELSE k[i - 1] \o ss[i]
        BY <2>1, <4>0 DEF Flattens
      <4>3. i # 1 => h[i - 1] = k[i - 1]
        BY <3>2
      <4>4. h[i] = k[i]
        BY <4>1, <4>2, <4>3, Zenon
      <4> QED
        BY <4>4
    <3> HIDE DEF Q, n
    <3> QED
      BY <1>1, <3>1, <3>2, UptoInduct
  <2>3. h[n] = k[n]
    <3>1. n \in 0 .. n
      BY <1>1
    <3>2. n \in Q
      BY <2>2, <3>1
    <3> QED
      BY <1>4, <3>2
  <2>4. h[n + 1] = h[n] \o t
    <3>1. n + 1 \in 1 .. Len(st) /\ n + 1 # 1 /\ (n + 1) - 1 = n
      BY <1>1, <1>4
    <3>2. h[n + 1] = h[(n + 1) - 1] \o st[n + 1]
      BY <1>2, <3>1 DEF Flattens
    <3> QED
      BY <1>1, <3>1, <3>2
  <2> QED
    BY <1>2, <2>1, <2>3, <2>4 DEF st
<1> QED
  BY <1>1, <1>3, <1>4

\* FlattenSeq puts sequences of one kind together.
LEMMA FlattenType ==
    ASSUME NEW S, NEW ss \in Seq(Seq(S))
    PROVE  FlattenSeq(ss) \in Seq(S)
<1> DEFINE V == Seq(S)
           P == {t \in Seq(V) : FlattenSeq(t) \in V}
<1>1. <<>> \in P
  <2>1. <<>> \in Seq(V) /\ <<>> \in V
    OBVIOUS
  <2>2. FlattenSeq(<<>>) \in V
    BY <2>1, FlattenNil, Zenon
  <2> QED
    BY <2>1, <2>2
<1>2. ASSUME NEW t \in Seq(V), NEW x \in V, t \in P PROVE Append(t, x) \in P
  <2>1. FlattenSeq(t) \in V
    BY <1>2
  <2>2. FlattenSeq(Append(t, x)) = FlattenSeq(t) \o x
    BY <2>1, FlattenAppend
  <2>3. FlattenSeq(t) \o x \in V
    BY <2>1
  <2>4. Append(t, x) \in Seq(V)
    BY AppendFacts
  <2> QED
    BY <2>2, <2>3, <2>4
<1>3. Seq(V) \subseteq P
  <2> HIDE DEF P, V
  <2> QED
    BY <1>1, <1>2, SeqInduct
<1> QED
  BY <1>3

\* SetToSeq lists a finite set without repetition.
LEMMA SetToSeqLists ==
    ASSUME NEW S, IsFiniteSet(S)
    PROVE  /\ SetToSeq(S) \in Seq(S) /\ Len(SetToSeq(S)) = Cardinality(S)
           /\ Cardinality(S) \in Nat
           /\ Range(SetToSeq(S)) = S
           /\ \A i, j \in 1 .. Len(SetToSeq(S)) : SetToSeq(S)[i] = SetToSeq(S)[j] => i = j
<1> DEFINE n == Cardinality(S)
           s == SetToSeq(S)
<1>1. n \in Nat /\ ExistsBijection(1 .. n, S)
  BY FS_CardinalityType
<1>2. \E f \in [1 .. n -> S] : IsInjective(f)
  BY <1>1 DEF ExistsBijection, Bijection, Injection
<1>3. s \in [1 .. n -> S] /\ IsInjective(s)
  BY <1>2 DEF SetToSeq
<1> HIDE DEF n, s
<1>4. s \in Seq(S) /\ Len(s) = n
  BY <1>1, <1>3
<1>5. \A i, j \in 1 .. n : s[i] = s[j] => i = j
  BY <1>3 DEF IsInjective
<1>6. Range(s) = S
  <2>1. Range(s) \subseteq S /\ s \in Injection(1 .. n, Range(s)) /\ s \in Surjection(1 .. n, Range(s))
    BY <1>3 DEF Range, Injection, Surjection
  <2>2. ExistsBijection(1 .. n, Range(s))
    BY <2>1 DEF ExistsBijection, Bijection
  <2>3. Cardinality(Range(s)) = n /\ IsFiniteSet(Range(s))
    <3>1. IsFiniteSet(1 .. n) /\ Cardinality(1 .. n) = n
      BY <1>1, FS_Interval
    <3> QED
      BY <2>2, <3>1, FS_Bijection
  <2> QED
    BY <2>1, <2>3, FS_Subset DEF n
<1> QED
  BY <1>1, <1>4, <1>5, <1>6 DEF n, s

\* Taking the first member off.
LEMMA TailFacts ==
    ASSUME NEW S, NEW s \in Seq(S), s # <<>>
    PROVE  /\ Head(s) \in S /\ Tail(s) \in Seq(S) /\ Len(s) \in Nat /\ Len(s) > 0
           /\ Len(Tail(s)) = Len(s) - 1 /\ Head(s) = s[1]
           /\ \A i \in 1 .. Len(s) - 1 : Tail(s)[i] = s[i + 1]
           /\ Range(s) = {Head(s)} \cup Range(Tail(s)) /\ Head(s) \in Range(s)
           /\ s = <<Head(s)>> \o Tail(s)
<1>1. /\ Head(s) \in S /\ Tail(s) \in Seq(S) /\ Len(s) \in Nat /\ Len(s) > 0
      /\ Len(Tail(s)) = Len(s) - 1 /\ Head(s) = s[1]
      /\ \A i \in 1 .. Len(s) - 1 : Tail(s)[i] = s[i + 1]
      /\ DOMAIN s = 1 .. Len(s) /\ DOMAIN Tail(s) = 1 .. Len(s) - 1
  OBVIOUS
<1>2. s = <<Head(s)>> \o Tail(s)
  OBVIOUS
<1>3. Range(s) = {Head(s)} \cup Range(Tail(s))
  <2> DEFINE t == Tail(s)
             h == Head(s)
  <2> HIDE DEF t, h
  <2>1. /\ h = s[1] /\ DOMAIN s = 1 .. Len(s) /\ DOMAIN t = 1 .. Len(s) - 1
        /\ Len(s) \in Nat /\ Len(s) > 0
        /\ \A i \in 1 .. Len(s) - 1 : t[i] = s[i + 1]
    BY <1>1 DEF h, t
  <2>2. ASSUME NEW i \in 1 .. Len(s) PROVE s[i] \in {h} \cup Range(t)
    <3>1. CASE i = 1
      BY <2>1, <3>1
    <3>2. CASE i # 1
      <4>1. i - 1 \in DOMAIN t /\ t[i - 1] = s[i]
        BY <2>1, <3>2
      <4> QED
        BY <4>1 DEF Range
    <3> QED
      BY <3>1, <3>2
  <2>3. ASSUME NEW i \in 1 .. Len(s) - 1 PROVE t[i] \in Range(s)
    <3>1. i + 1 \in DOMAIN s /\ t[i] = s[i + 1]
      BY <2>1
    <3> QED
      BY <3>1 DEF Range
  <2>4. h \in Range(s)
    BY <2>1 DEF Range
  <2>5. Range(s) = {h} \cup Range(t)
    BY <2>1, <2>2, <2>3, <2>4, SMTT(40) DEF Range
  <2> QED
    BY <2>5 DEF h, t
<1> QED
  BY <1>1, <1>2, <1>3

-----------------------------------------------------------------------------
(* The log                                                                 *)

Segments(M) == [abs : Nat, data : Seq(M)]

\* A log of messages of M: its segments follow each other without a gap, all
\* but the last are full, and there are no more than SegmentCount of them.
LogOK(log, M) ==
    /\ log \in [head : Nat, tail : Nat, segs : Seq(Segments(M))]
    /\ Len(log.segs) \in 1 .. SegmentCount
    /\ log.tail = log.head + Len(log.segs) - 1
    /\ \A i \in 1 .. Len(log.segs) : Len(log.segs[i].data) <= SegmentSize
    /\ \A i \in 1 .. Len(log.segs) - 1 : log.segs[i + 1].abs = SegNext(log.segs[i])

\* A position a subscription may hold: at or before the end of its segment,
\* if that segment is left, and before everything that is left otherwise.
Position(log, pos) ==
    /\ pos \in Nat \X Nat
    /\ pos[1] <= log.tail
    /\ pos[1] < log.head => pos[2] <= LogBase(log)
    /\ pos[1] >= log.head =>
        LET s == log.segs[pos[1] - log.head + 1]
        IN  s.abs <= pos[2] /\ pos[2] <= SegNext(s)

\* A new log is one, and a subscription to it starts at its end.
THEOREM EmptyLogOK ==
    ASSUME NEW M
    PROVE  LogOK(EmptyLog, M) /\ Position(EmptyLog, NextOffset(EmptyLog))
<1>1. EmptyLog.segs = <<WithOffset(0)>> /\ WithOffset(0) \in Segments(M)
      /\ Len(WithOffset(0).data) = 0 /\ WithOffset(0).abs = 0
  BY DEF EmptyLog, WithOffset, Segments
<1>2. Len(EmptyLog.segs) = 1 /\ EmptyLog.segs[1] = WithOffset(0)
      /\ EmptyLog.segs \in Seq(Segments(M)) /\ EmptyLog.head = 0 /\ EmptyLog.tail = 0
  BY <1>1 DEF EmptyLog
<1>3. LogOK(EmptyLog, M)
  <2>1. EmptyLog \in [head : Nat, tail : Nat, segs : Seq(Segments(M))]
    BY <1>2 DEF EmptyLog
  <2> QED
    BY <1>1, <1>2, <2>1, CommitLogAssumption DEF LogOK
<1>4. NextOffset(EmptyLog) = <<0, 0>>
  BY <1>1, <1>2 DEF NextOffset, ActiveSegment, SegNext, Last
<1> QED
  BY <1>1, <1>2, <1>3, <1>4 DEF Position, SegNext

\* The end of the active segment is a position.
LEMMA NextIsPosition ==
    ASSUME NEW M, NEW log, LogOK(log, M)
    PROVE  /\ NextOffset(log) = <<log.tail, SegNext(log.segs[Len(log.segs)])>>
           /\ Position(log, NextOffset(log))
<1>1. /\ log.segs \in Seq(Segments(M)) /\ Len(log.segs) \in Nat \ {0}
      /\ log.head \in Nat /\ log.tail = log.head + Len(log.segs) - 1
  BY CommitLogAssumption DEF LogOK
<1>2. log.segs[Len(log.segs)] \in Segments(M)
  BY <1>1
<1>3. /\ log.segs[Len(log.segs)].abs \in Nat /\ Len(log.segs[Len(log.segs)].data) \in Nat
      /\ SegNext(log.segs[Len(log.segs)]) =
            log.segs[Len(log.segs)].abs + Len(log.segs[Len(log.segs)].data)
  BY <1>2 DEF Segments, SegNext
<1>4. NextOffset(log) = <<log.tail, SegNext(log.segs[Len(log.segs)])>>
  BY <1>1 DEF NextOffset, ActiveSegment, Last
<1>5. /\ NextOffset(log) \in Nat \X Nat /\ NextOffset(log)[1] = log.tail
      /\ NextOffset(log)[2] = SegNext(log.segs[Len(log.segs)])
  <2> DEFINE end == SegNext(log.segs[Len(log.segs)])
  <2>1. end \in Nat
    BY <1>3
  <2>2. log.tail \in Nat
    BY <1>1
  <2> HIDE DEF end
  <2>3. NextOffset(log) = <<log.tail, end>>
    BY <1>4 DEF end
  <2>4. NextOffset(log) \in Nat \X Nat /\ NextOffset(log)[1] = log.tail /\ NextOffset(log)[2] = end
    BY <2>1, <2>2, <2>3
  <2> QED
    BY <2>4 DEF end
<1>6. /\ NextOffset(log)[1] - log.head + 1 = Len(log.segs)
      /\ NextOffset(log)[1] <= log.tail /\ ~(NextOffset(log)[1] < log.head)
  BY <1>1, <1>5
<1>7. /\ log.segs[Len(log.segs)].abs <= NextOffset(log)[2]
      /\ NextOffset(log)[2] <= SegNext(log.segs[Len(log.segs)])
  BY <1>3, <1>5
<1> QED
  BY <1>4, <1>5, <1>6, <1>7 DEF Position

\* apply_retention: a segment is closed when it is full, the oldest goes when
\* there are too many, and what the log is for stays.
LEMMA RetentionKeeps ==
    ASSUME NEW M, NEW log, LogOK(log, M)
    PROVE  /\ LogOK(ApplyRetention(log), M)
           /\ Len(ActiveSegment(ApplyRetention(log)).data) < SegmentSize
           /\ NextOffset(ApplyRetention(log))[2] = NextOffset(log)[2]
           /\ \A pos : Position(log, pos) => Position(ApplyRetention(log), pos)
<1> DEFINE n == Len(log.segs)
           last == log.segs[n]
           new == WithOffset(SegNext(last))
           kept == ApplyRetention(log)
<1>1. /\ log.segs \in Seq(Segments(M)) /\ n \in Nat \ {0} /\ n <= SegmentCount
      /\ log.head \in Nat /\ log.tail \in Nat /\ log.tail = log.head + n - 1
      /\ \A i \in 1 .. n : Len(log.segs[i].data) <= SegmentSize
      /\ \A i \in 1 .. n - 1 : log.segs[i + 1].abs = SegNext(log.segs[i])
      /\ log = [head |-> log.head, tail |-> log.tail, segs |-> log.segs]
  BY CommitLogAssumption DEF LogOK
<1>2. \A i \in 1 .. n : /\ log.segs[i] \in Segments(M)
                        /\ log.segs[i].abs \in Nat /\ Len(log.segs[i].data) \in Nat
                        /\ SegNext(log.segs[i]) = log.segs[i].abs + Len(log.segs[i].data)
  <2> SUFFICES ASSUME NEW i \in 1 .. n
               PROVE  /\ log.segs[i] \in Segments(M)
                      /\ log.segs[i].abs \in Nat /\ Len(log.segs[i].data) \in Nat
                      /\ SegNext(log.segs[i]) = log.segs[i].abs + Len(log.segs[i].data)
    OBVIOUS
  <2>1. log.segs[i] \in Segments(M)
    BY <1>1
  <2> QED
    BY <2>1 DEF Segments, SegNext
<1>3. ActiveSegment(log) = last
  BY <1>1 DEF ActiveSegment, Last
<1>4. new \in Segments(M) /\ new.abs = SegNext(last) /\ Len(new.data) = 0
      /\ SegNext(new) = SegNext(last)
  <2>1. SegNext(last) \in Nat
    <3>1. n \in 1 .. n
      BY <1>1
    <3>2. SegNext(log.segs[n]) = log.segs[n].abs + Len(log.segs[n].data)
          /\ log.segs[n].abs \in Nat /\ Len(log.segs[n].data) \in Nat
      BY <1>2, <3>1
    <3> QED
      BY <3>2
  <2>2. new = [abs |-> SegNext(last), data |-> <<>>]
    BY DEF WithOffset
  <2> HIDE DEF last
  <2>3. new.abs = SegNext(last) /\ new.data = <<>> /\ SegNext(new) = new.abs + Len(new.data)
    BY <2>2 DEF SegNext
  <2> QED
    BY <2>1, <2>2, <2>3 DEF Segments
<1>5. CASE Len(last.data) < SegmentSize
  BY <1>3, <1>5 DEF ApplyRetention
<1>6. CASE ~(Len(last.data) < SegmentSize) /\ ~(n >= SegmentCount)
  <2>1. kept = [head |-> log.head + 0, tail |-> log.tail + 1, segs |-> Append(log.segs, new)]
    BY <1>3, <1>6 DEF ApplyRetention
  <2>2. /\ kept.head = log.head /\ kept.tail = log.tail + 1
        /\ kept.segs \in Seq(Segments(M)) /\ Len(kept.segs) = n + 1
        /\ kept.segs[n + 1] = new
        /\ \A i \in 1 .. n : kept.segs[i] = log.segs[i]
        /\ kept \in [head : Nat, tail : Nat, segs : Seq(Segments(M))]
    BY <1>1, <1>4, <2>1
  <2> HIDE DEF new, kept
  <2>3. LogOK(kept, M)
    <3>1. ASSUME NEW i \in 1 .. n + 1 PROVE Len(kept.segs[i].data) <= SegmentSize
      BY <1>1, <1>4, <2>2, <3>1, CommitLogAssumption, SMTT(40)
    <3>2. ASSUME NEW i \in 1 .. n PROVE kept.segs[i + 1].abs = SegNext(kept.segs[i])
      <4>1. CASE i = n
        BY <1>1, <1>4, <2>2, <4>1
      <4>2. CASE i # n
        <5>1. i \in 1 .. n - 1 /\ i + 1 \in 1 .. n
          BY <1>1, <4>2
        <5> QED
          BY <1>1, <2>2, <5>1
      <4> QED
        BY <4>1, <4>2
    <3>3. n + 1 \in 1 .. SegmentCount
      BY <1>1, <1>6, CommitLogAssumption
    <3> QED
      BY <1>1, <2>2, <3>1, <3>2, <3>3 DEF LogOK
  <2>4. NextOffset(kept)[2] = NextOffset(log)[2]
    BY <1>4, <2>2, <2>3, NextIsPosition
  <2>5. ASSUME NEW pos, Position(log, pos) PROVE Position(kept, pos)
    <3>1. kept.segs[1] = log.segs[1]
      <4>1. 1 \in 1 .. n
        BY <1>1
      <4> QED
        BY <2>2, <4>1
    <3>2. LogBase(kept) = LogBase(log)
      BY <3>1 DEF LogBase
    <3>3. pos[1] >= log.head => pos[1] - log.head + 1 \in 1 .. n
      BY <1>1, <2>5 DEF Position
    <3> QED
      BY <1>1, <2>2, <2>5, <3>2, <3>3 DEF Position
  <2>6. ActiveSegment(kept) = new
    BY <1>1, <2>2 DEF ActiveSegment, Last
  <2> QED
    BY <1>4, <2>3, <2>4, <2>5, <2>6, CommitLogAssumption DEF kept
<1>7. CASE ~(Len(last.data) < SegmentSize) /\ n >= SegmentCount
  <2>1. kept = [head |-> log.head + 1, tail |-> log.tail + 1, segs |-> Append(Tail(log.segs), new)]
    BY <1>3, <1>7 DEF ApplyRetention
  <2>2. /\ kept.head = log.head + 1 /\ kept.tail = log.tail + 1
        /\ kept.segs \in Seq(Segments(M)) /\ Len(kept.segs) = n
        /\ kept.segs[n] = new
        /\ \A i \in 1 .. n - 1 : kept.segs[i] = log.segs[i + 1]
        /\ kept \in [head : Nat, tail : Nat, segs : Seq(Segments(M))]
    <3>1. /\ Tail(log.segs) \in Seq(Segments(M)) /\ Len(Tail(log.segs)) = n - 1
          /\ \A i \in 1 .. n - 1 : Tail(log.segs)[i] = log.segs[i + 1]
      BY <1>1
    <3> HIDE DEF new
    <3> QED
      BY <1>1, <1>4, <2>1, <3>1
  <2> HIDE DEF new, kept
  <2>3. LogOK(kept, M)
    <3>1. ASSUME NEW i \in 1 .. n PROVE Len(kept.segs[i].data) <= SegmentSize
      <4>1. CASE i = n
        BY <1>1, <1>4, <2>2, <4>1, CommitLogAssumption
      <4>2. CASE i # n
        <5>1. i \in 1 .. n - 1 /\ i + 1 \in 1 .. n
          BY <1>1, <4>2
        <5> QED
          BY <1>1, <2>2, <5>1
      <4> QED
        BY <4>1, <4>2
    <3>2. ASSUME NEW i \in 1 .. n - 1 PROVE kept.segs[i + 1].abs = SegNext(kept.segs[i])
      <4>1. kept.segs[i] = log.segs[i + 1]
        BY <2>2
      <4>2. CASE i = n - 1
        BY <1>1, <1>4, <2>2, <4>1, <4>2
      <4>3. CASE i # n - 1
        <5>1. i + 1 \in 1 .. n - 1
          BY <1>1, <4>3
        <5> QED
          BY <1>1, <2>2, <4>1, <5>1
      <4> QED
        BY <4>2, <4>3
    <3>3. n \in 1 .. SegmentCount /\ kept.tail = kept.head + n - 1
      BY <1>1, <2>2, CommitLogAssumption
    <3> QED
      BY <1>1, <2>2, <3>1, <3>2, <3>3 DEF LogOK
  <2>4. NextOffset(kept)[2] = NextOffset(log)[2]
    BY <1>4, <2>2, <2>3, NextIsPosition
  <2>5. ASSUME NEW pos, Position(log, pos) PROVE Position(kept, pos)
    <3>1. LogBase(log) = log.segs[1].abs /\ LogBase(kept) = kept.segs[1].abs
      BY <1>1, <2>2 DEF LogBase
    <3>2. kept.segs[1].abs = SegNext(log.segs[1])
      BY <1>1, <1>4, <2>2
    <3>3. pos[1] >= log.head => pos[1] - log.head + 1 \in 1 .. n
      BY <1>1, <2>5 DEF Position
    <3>4. CASE pos[1] < log.head
      <4>1. pos[2] <= log.segs[1].abs /\ SegNext(log.segs[1]) >= log.segs[1].abs
            /\ SegNext(log.segs[1]) \in Nat /\ log.segs[1].abs \in Nat /\ pos \in Nat \X Nat
        BY <1>1, <1>2, <2>5, <3>1, <3>4, SMTT(40) DEF Position
      <4>2. pos[1] < kept.head /\ pos[1] <= kept.tail /\ pos[2] <= LogBase(kept)
        BY <1>1, <2>2, <2>5, <3>1, <3>2, <3>4, <4>1, SMTT(40) DEF Position
      <4> QED
        BY <1>1, <2>2, <4>1, <4>2 DEF Position
    <3>5. CASE pos[1] = log.head
      BY <1>1, <1>2, <2>2, <2>5, <3>1, <3>2, <3>5 DEF Position
    <3>6. CASE pos[1] > log.head
      <4>1. pos[1] - kept.head + 1 \in 1 .. n - 1
            /\ kept.segs[pos[1] - kept.head + 1] = log.segs[pos[1] - log.head + 1]
        BY <1>1, <2>2, <2>5, <3>3, <3>6, SMTT(40) DEF Position
      <4>2. ~(pos[1] < kept.head) /\ pos[1] <= kept.tail
        BY <1>1, <2>2, <2>5, <3>6 DEF Position
      <4> QED
        BY <1>1, <2>5, <3>6, <4>1, <4>2 DEF Position
    <3> QED
      BY <1>1, <2>5, <3>4, <3>5, <3>6 DEF Position
  <2>6. ActiveSegment(kept) = new
    BY <1>1, <2>2 DEF ActiveSegment, Last
  <2> QED
    BY <1>4, <2>3, <2>4, <2>5, <2>6, CommitLogAssumption DEF kept
<1> QED
  BY <1>5, <1>6, <1>7

\* CommitLog::append: the log stays in order, its end moves on by one, and
\* every position a subscription holds stays one, whatever was dropped.
THEOREM AppendKeepsLog ==
    ASSUME NEW M, NEW log, LogOK(log, M), NEW m \in M
    PROVE  /\ LogOK(LogAppend(log, m), M)
           /\ NextOffset(LogAppend(log, m))[2] = NextOffset(log)[2] + 1
           /\ \A pos : Position(log, pos) => Position(LogAppend(log, m), pos)
<1> DEFINE kept == ApplyRetention(log)
           n == Len(kept.segs)
           res == LogAppend(log, m)
           seg == kept.segs[n]
<1>1. /\ LogOK(kept, M) /\ Len(seg.data) < SegmentSize
      /\ NextOffset(kept)[2] = NextOffset(log)[2]
      /\ \A pos : Position(log, pos) => Position(kept, pos)
  <2>1. kept.segs \in Seq(Segments(M)) /\ ActiveSegment(kept) = seg
    BY RetentionKeeps DEF LogOK, ActiveSegment, Last
  <2> QED
    BY <2>1, RetentionKeeps
<1> HIDE DEF kept
<1>2. /\ kept.segs \in Seq(Segments(M)) /\ n \in Nat \ {0} /\ n <= SegmentCount
      /\ kept.head \in Nat /\ kept.tail \in Nat /\ kept.tail = kept.head + n - 1
      /\ \A i \in 1 .. n : Len(kept.segs[i].data) <= SegmentSize
      /\ \A i \in 1 .. n - 1 : kept.segs[i + 1].abs = SegNext(kept.segs[i])
      /\ kept \in [head : Nat, tail : Nat, segs : Seq(Segments(M))]
  BY <1>1, CommitLogAssumption DEF LogOK
<1>3. n \in 1 .. n /\ seg \in Segments(M)
  BY <1>2
<1>4. /\ seg.abs \in Nat /\ seg.data \in Seq(M) /\ Len(seg.data) \in Nat
      /\ SegNext(seg) = seg.abs + Len(seg.data)
  BY <1>3 DEF Segments, SegNext
<1> DEFINE grown == [seg EXCEPT !.data = Append(@, m)]
<1>5. /\ grown \in Segments(M) /\ grown.abs = seg.abs
      /\ Len(grown.data) = Len(seg.data) + 1 /\ SegNext(grown) = SegNext(seg) + 1
  <2> HIDE DEF seg
  <2>1. Append(seg.data, m) \in Seq(M) /\ Len(Append(seg.data, m)) = Len(seg.data) + 1
    BY <1>4
  <2>2. grown \in Segments(M) /\ grown.abs = seg.abs /\ grown.data = Append(seg.data, m)
    BY <1>3, <2>1 DEF Segments
  <2>3. SegNext(grown) = grown.abs + Len(grown.data)
    BY DEF SegNext
  <2> HIDE DEF grown
  <2> QED
    BY <1>4, <2>1, <2>2, <2>3
<1>6. /\ res.head = kept.head /\ res.tail = kept.tail
      /\ res.segs = [kept.segs EXCEPT ![n] = grown]
      /\ res \in [head : Nat, tail : Nat, segs : Seq(Segments(M))]
  <2>1. res = [kept EXCEPT !.segs = [kept.segs EXCEPT ![n] = grown]]
    BY <1>2 DEF LogAppend, kept
  <2>2. [kept.segs EXCEPT ![n] = grown] \in Seq(Segments(M))
    BY <1>2, <1>3, <1>5
  <2> HIDE DEF res, grown
  <2> QED
    BY <1>2, <2>1, <2>2
<1> HIDE DEF res, grown
<1>7. /\ Len(res.segs) = n /\ res.segs[n] = grown
      /\ \A i \in 1 .. n - 1 : res.segs[i] = kept.segs[i]
  BY <1>2, <1>3, <1>6
<1>8. LogOK(res, M)
  <2>1. ASSUME NEW i \in 1 .. n PROVE Len(res.segs[i].data) <= SegmentSize
    <3>1. CASE i = n
      BY <1>1, <1>4, <1>5, <1>7, <3>1, CommitLogAssumption
    <3>2. CASE i # n
      <4>1. i \in 1 .. n - 1
        BY <1>2, <3>2
      <4> QED
        BY <1>2, <1>7, <4>1
    <3> QED
      BY <3>1, <3>2
  <2>2. ASSUME NEW i \in 1 .. n - 1 PROVE res.segs[i + 1].abs = SegNext(res.segs[i])
    <3>1. res.segs[i] = kept.segs[i] /\ kept.segs[i + 1].abs = SegNext(kept.segs[i])
      BY <1>2, <1>7
    <3>2. CASE i = n - 1
      BY <1>2, <1>5, <1>7, <3>1, <3>2
    <3>3. CASE i # n - 1
      <4>1. i + 1 \in 1 .. n - 1
        BY <1>2, <3>3
      <4> QED
        BY <1>7, <3>1, <4>1
    <3> QED
      BY <3>2, <3>3
  <2>3. n \in 1 .. SegmentCount
    BY <1>2, CommitLogAssumption
  <2> QED
    BY <1>2, <1>6, <1>7, <2>1, <2>2, <2>3 DEF LogOK
<1>9. NextOffset(res)[2] = NextOffset(log)[2] + 1
  <2>1. NextOffset(res)[2] = SegNext(grown) /\ NextOffset(kept)[2] = SegNext(seg)
    BY <1>1, <1>7, <1>8, NextIsPosition
  <2> QED
    BY <1>1, <1>5, <2>1
<1>10. ASSUME NEW pos, Position(kept, pos) PROVE Position(res, pos)
  <2>1. LogBase(res) = LogBase(kept)
    <3>1. res.segs # <<>> /\ kept.segs # <<>>
      BY <1>2, <1>6, <1>7
    <3>2. Head(res.segs) = res.segs[1] /\ Head(kept.segs) = kept.segs[1]
      BY <1>2, <1>6
    <3>3. res.segs[1].abs = kept.segs[1].abs
      <4>1. CASE n = 1
        BY <1>5, <1>7, <4>1
      <4>2. CASE n # 1
        <5>1. 1 \in 1 .. n - 1
          <6> HIDE DEF n
          <6> QED
            BY <1>2, <4>2
        <5> QED
          BY <1>7, <5>1
      <4> QED
        BY <4>1, <4>2
    <3> QED
      BY <3>2, <3>3 DEF LogBase
  <2>2. /\ pos \in Nat \X Nat /\ pos[1] <= res.tail
        /\ pos[1] < res.head => pos[2] <= LogBase(res)
    BY <1>6, <1>10, <2>1 DEF Position
  <2>3. ASSUME pos[1] >= res.head
        PROVE  LET s == res.segs[pos[1] - res.head + 1]
               IN  s.abs <= pos[2] /\ pos[2] <= SegNext(s)
    <3>1. pos[1] - res.head + 1 \in 1 .. n /\ pos[2] \in Nat
      BY <1>2, <1>6, <1>10, <2>2, <2>3 DEF Position
    <3>2. LET s == kept.segs[pos[1] - res.head + 1]
          IN  s.abs <= pos[2] /\ pos[2] <= SegNext(s)
      BY <1>6, <1>10, <2>3 DEF Position
    <3>3. CASE pos[1] - res.head + 1 = n
      BY <1>4, <1>5, <1>7, <3>1, <3>2, <3>3
    <3>4. CASE pos[1] - res.head + 1 # n
      <4>1. pos[1] - res.head + 1 \in 1 .. n - 1
        BY <1>2, <3>1, <3>4
      <4> QED
        BY <1>7, <3>2, <4>1
    <3> QED
      BY <3>3, <3>4
  <2> QED
    BY <2>2, <2>3 DEF Position
<1> QED
  BY <1>1, <1>8, <1>9, <1>10 DEF res

\* readv: reading from a position starts at it, in a segment that is left, or
\* at the oldest message left if those before it were dropped.
THEOREM ReachedIsLeft ==
    ASSUME NEW M, NEW log, LogOK(log, M), NEW pos, Position(log, pos)
    PROVE  LET start == Reached(log, pos)
           IN  /\ Position(log, start)
               /\ start[1] \in log.head .. log.tail
               /\ IF pos[1] < log.head THEN start = <<log.head, LogBase(log)>> ELSE start = pos
               /\ pos[2] <= start[2]
<1>1. /\ log.segs \in Seq(Segments(M)) /\ Len(log.segs) \in Nat \ {0}
      /\ log.head \in Nat /\ log.tail \in Nat /\ log.tail = log.head + Len(log.segs) - 1
  BY CommitLogAssumption DEF LogOK
<1>2. LogBase(log) = log.segs[1].abs /\ log.segs[1] \in Segments(M)
  BY <1>1 DEF LogBase
<1>3. /\ LogBase(log) \in Nat /\ SegNext(log.segs[1]) >= LogBase(log)
  BY <1>2 DEF Segments, SegNext
<1>4. pos \in Nat \X Nat /\ pos = <<pos[1], pos[2]>> /\ pos[1] <= log.tail
  BY DEF Position
<1>5. CASE pos[1] < log.head
  <2>1. Reached(log, pos) = <<log.head, LogBase(log)>>
    BY <1>1, <1>2, <1>3, <1>5 DEF Reached, LogBase
  <2>2. pos[2] <= LogBase(log)
    BY <1>5 DEF Position
  <2>3. Position(log, <<log.head, LogBase(log)>>)
    BY <1>1, <1>2, <1>3 DEF Position
  <2> QED
    BY <1>1, <1>5, <2>1, <2>2, <2>3
<1>6. CASE ~(pos[1] < log.head)
  <2>1. log.segs[pos[1] - log.head + 1] \in Segments(M)
    BY <1>1, <1>4, <1>6
  <2>2. log.segs[pos[1] - log.head + 1].abs \in Nat
    BY <2>1 DEF Segments
  <2>3. ~(log.segs[pos[1] - log.head + 1].abs > pos[2])
    BY <1>1, <1>4, <1>6, <2>2, SMTT(40) DEF Position
  <2>4. Reached(log, pos) = pos
    BY <1>4, <1>6, <2>3 DEF Reached
  <2> QED
    BY <1>1, <1>4, <1>6, <2>4
<1> QED
  BY <1>5, <1>6

-----------------------------------------------------------------------------
(* Reading                                                                 *)

Entries(M) == [m : M, at : Nat \X Nat]

\* What is read from offset o on: the messages the log has there, one after
\* the other.
Reads(log, out, o) ==
    \A j \in 1 .. Len(out) :
        LET e == out[j]
            s == log.segs[e.at[1] - log.head + 1]
        IN  /\ e.at[1] \in log.head .. log.tail /\ e.at[2] = o + j - 1
            /\ s.abs <= e.at[2] /\ e.at[2] < SegNext(s)
            /\ e.m = s.data[e.at[2] - s.abs + 1]

\* One segment of the log.
LEMMA SegmentFacts ==
    ASSUME NEW M, NEW log, LogOK(log, M), NEW q \in log.head .. log.tail
    PROVE  LET s == log.segs[q - log.head + 1]
           IN  /\ log.head \in Nat /\ log.tail \in Nat /\ log.tail = log.head + Len(log.segs) - 1
               /\ q \in Nat /\ q - log.head + 1 \in 1 .. Len(log.segs)
               /\ s.abs \in Nat /\ s.data \in Seq(M) /\ Len(s.data) \in Nat
               /\ SegNext(s) = s.abs + Len(s.data) /\ SegNext(s) \in Nat
               /\ q < log.tail => log.segs[q + 1 - log.head + 1].abs = SegNext(s)
<1>1. /\ log.head \in Nat /\ log.tail \in Nat /\ Len(log.segs) \in Nat
      /\ log.tail = log.head + Len(log.segs) - 1 /\ log.segs \in Seq(Segments(M))
  BY CommitLogAssumption DEF LogOK
<1>2. q \in Nat /\ q - log.head + 1 \in 1 .. Len(log.segs)
  BY <1>1
<1> DEFINE s == log.segs[q - log.head + 1]
<1>3. s \in Segments(M)
  BY <1>1, <1>2
<1>4. q < log.tail => log.segs[q + 1 - log.head + 1].abs = SegNext(s)
  <2> SUFFICES ASSUME q < log.tail PROVE log.segs[q + 1 - log.head + 1].abs = SegNext(s)
    OBVIOUS
  <2>1. q - log.head + 1 \in 1 .. Len(log.segs) - 1
        /\ (q - log.head + 1) + 1 = q + 1 - log.head + 1
    BY <1>1, <1>2
  <2> QED
    BY <2>1 DEF LogOK
<1> HIDE DEF s
<1>5. /\ s.abs \in Nat /\ s.data \in Seq(M) /\ Len(s.data) \in Nat
      /\ SegNext(s) = s.abs + Len(s.data) /\ SegNext(s) \in Nat
  BY <1>3 DEF Segments, SegNext
<1> QED
  BY <1>1, <1>2, <1>4, <1>5 DEF s

\* Segment::readv, within a segment of the log.
LEMMA SegReadFacts ==
    ASSUME NEW M, NEW log, LogOK(log, M), NEW q \in log.head .. log.tail,
           NEW o \in Nat, NEW n \in Nat,
           log.segs[q - log.head + 1].abs <= o,
           o <= SegNext(log.segs[q - log.head + 1])
    PROVE  LET s == log.segs[q - log.head + 1]
               r == SegRead(s, q, o, n)
           IN  /\ r.out \in Seq(Entries(M)) /\ Len(r.out) \in Nat /\ Len(r.out) <= n
               /\ r.done \in BOOLEAN /\ r.next = o + Len(r.out)
               /\ r.next <= SegNext(s)
               /\ r.done => r.next = SegNext(s)
               /\ ~r.done => Len(r.out) = n
               /\ Reads(log, r.out, o)
<1> DEFINE s == log.segs[q - log.head + 1]
           r == SegRead(s, q, o, n)
           from == o - s.abs
           done == from + n >= Len(s.data)
           to == IF done THEN Len(s.data) ELSE from + n
<1>1. /\ log.head \in Nat /\ log.tail \in Nat /\ q \in Nat
      /\ s.abs \in Nat /\ s.data \in Seq(M) /\ Len(s.data) \in Nat
      /\ SegNext(s) = s.abs + Len(s.data)
  BY SegmentFacts
<1>2. s.abs <= o /\ o <= SegNext(s)
  OBVIOUS
<1>3. /\ r.done = done /\ r.next = s.abs + to
      /\ r.out = [j \in 1 .. (to - from) |-> [m |-> s.data[from + j], at |-> <<q, o + j - 1>>]]
  BY DEF SegRead
<1> HIDE DEF s, r
<1>4. /\ from \in Nat /\ from <= Len(s.data) /\ to \in Nat /\ from <= to /\ to <= Len(s.data)
      /\ to - from <= n /\ to - from \in Nat /\ (done => to = Len(s.data)) /\ (~done => to - from = n)
      /\ done \in BOOLEAN
  <2> DEFINE len == Len(s.data)
             a == s.abs
  <2>1. a \in Nat /\ len \in Nat /\ a <= o /\ o <= a + len
    BY <1>1, <1>2
  <2> HIDE DEF len, a
  <2>2. from \in Nat /\ from <= len /\ from = o - a
    BY <2>1 DEF a
  <2> HIDE DEF from
  <2>3. CASE from + n >= len
    <3>1. to = len /\ done = TRUE
      BY <2>3 DEF len
    <3> QED
      BY <2>2, <2>3, <2>1, <3>1 DEF len
  <2>4. CASE ~(from + n >= len)
    <3>1. to = from + n /\ done = FALSE
      BY <2>4 DEF len
    <3> QED
      BY <2>2, <2>4, <2>1, <3>1 DEF len
  <2> QED
    BY <2>3, <2>4
<1> HIDE DEF to, done
<1>5. ASSUME NEW j \in 1 .. (to - from)
      PROVE  /\ s.data[from + j] \in M /\ o + j - 1 \in Nat
             /\ s.abs <= o + j - 1 /\ o + j - 1 < SegNext(s)
             /\ (o + j - 1) - s.abs + 1 = from + j
  <2>1. from + j \in 1 .. Len(s.data)
    <3> DEFINE len == Len(s.data)
    <3>1. from \in Nat /\ to \in Nat /\ len \in Nat /\ to <= len
      BY <1>1, <1>4
    <3>2. j \in Int /\ 1 <= j /\ j <= to - from
      BY <1>4
    <3> HIDE DEF len
    <3>3. from + j \in 1 .. len
      BY <3>1, <3>2
    <3> QED
      BY <3>3 DEF len
  <2>2. s.data[from + j] \in M
    BY <1>1, <2>1
  <2>3. /\ o + j - 1 \in Nat /\ s.abs <= o + j - 1 /\ o + j - 1 < SegNext(s)
        /\ (o + j - 1) - s.abs + 1 = from + j
    <3> DEFINE len == Len(s.data)
               a == s.abs
    <3>1. a \in Nat /\ len \in Nat /\ a <= o /\ from = o - a /\ from + j \in 1 .. len
          /\ SegNext(s) = a + len /\ j \in Nat /\ j >= 1
      BY <1>1, <1>2, <1>4, <2>1
    <3> HIDE DEF len, a, from
    <3>2. /\ o + j - 1 \in Nat /\ a <= o + j - 1 /\ o + j - 1 < a + len
          /\ (o + j - 1) - a + 1 = from + j
      BY <3>1
    <3> QED
      BY <3>1, <3>2 DEF a
  <2> QED
    BY <2>2, <2>3
<1>6. r.out \in Seq(Entries(M)) /\ Len(r.out) = to - from
  <2>1. \A j \in 1 .. (to - from) :
           [m |-> s.data[from + j], at |-> <<q, o + j - 1>>] \in Entries(M)
    BY <1>1, <1>5 DEF Entries
  <2> QED
    BY <1>3, <1>4, <2>1, SMTT(40)
<1>7. Reads(log, r.out, o)
  <2> SUFFICES ASSUME NEW j \in 1 .. (to - from)
               PROVE  LET e == r.out[j]
                          t == log.segs[e.at[1] - log.head + 1]
                      IN  /\ e.at[1] \in log.head .. log.tail /\ e.at[2] = o + j - 1
                          /\ t.abs <= e.at[2] /\ e.at[2] < SegNext(t)
                          /\ e.m = t.data[e.at[2] - t.abs + 1]
    BY <1>6 DEF Reads
  <2>1. r.out[j] = [m |-> s.data[from + j], at |-> <<q, o + j - 1>>]
    BY <1>3
  <2>2. r.out[j].at[1] = q /\ r.out[j].at[2] = o + j - 1 /\ r.out[j].m = s.data[from + j]
    BY <2>1
  <2>3. log.segs[r.out[j].at[1] - log.head + 1] = s
    BY <2>2 DEF s
  <2> QED
    BY <1>5, <2>2, <2>3
<1>8. s.abs + to = o + (to - from) /\ s.abs + to <= SegNext(s)
  BY <1>1, <1>2, <1>4, SMTT(40)
<1> QED
  BY <1>1, <1>3, <1>4, <1>6, <1>7, <1>8 DEF s, r

\* Reading on where reading has stopped.
LEMMA ReadsConcat ==
    ASSUME NEW M, NEW log, NEW s \in Seq(Entries(M)), NEW t \in Seq(Entries(M)), NEW o \in Nat,
           Reads(log, s, o), Reads(log, t, o + Len(s))
    PROVE  s \o t \in Seq(Entries(M)) /\ Len(s \o t) = Len(s) + Len(t) /\ Reads(log, s \o t, o)
<1> DEFINE u == s \o t
<1>1. /\ u \in Seq(Entries(M)) /\ Len(u) = Len(s) + Len(t) /\ Len(s) \in Nat /\ Len(t) \in Nat
      /\ \A j \in 1 .. Len(s) : u[j] = s[j]
      /\ \A j \in 1 .. Len(t) : u[Len(s) + j] = t[j]
  OBVIOUS
<1> HIDE DEF u
<1>2. ASSUME NEW j \in 1 .. Len(u)
      PROVE  LET e == u[j]
                 g == log.segs[e.at[1] - log.head + 1]
             IN  /\ e.at[1] \in log.head .. log.tail /\ e.at[2] = o + j - 1
                 /\ g.abs <= e.at[2] /\ e.at[2] < SegNext(g)
                 /\ e.m = g.data[e.at[2] - g.abs + 1]
  <2>1. CASE j <= Len(s)
    <3>1. j \in 1 .. Len(s) /\ u[j] = s[j]
      BY <1>1, <2>1
    <3> QED
      BY <3>1 DEF Reads
  <2>2. CASE j > Len(s)
    <3> DEFINE i == j - Len(s)
    <3>1. i \in 1 .. Len(t) /\ j = Len(s) + i /\ o + Len(s) + i - 1 = o + j - 1
      BY <1>1, <2>2
    <3> HIDE DEF i
    <3>2. u[j] = t[i]
      BY <1>1, <3>1
    <3> QED
      BY <3>1, <3>2 DEF Reads
  <2>3. j <= Len(s) \/ j > Len(s)
    <3>1. j \in Nat /\ Len(s) \in Nat
      BY <1>1
    <3> QED
      BY <3>1
  <2> QED
    BY <2>1, <2>2, <2>3, ZenonT(40)
<1>3. Reads(log, u, o)
  BY <1>2 DEF Reads
<1> QED
  BY <1>1, <1>3 DEF u

\* Where the loop of readv stands: messages out have been read from start on,
\* as many of the n as are not left; if the loop goes on it has come to the
\* segment i after the one it has started in.
ReadStates(M) == [pos : Nat \X Nat, left : Nat, out : Seq(Entries(M)), full : BOOLEAN]

Within(log, pos) ==
    /\ pos[1] \in log.head .. log.tail
    /\ log.segs[pos[1] - log.head + 1].abs <= pos[2]
    /\ pos[2] <= SegNext(log.segs[pos[1] - log.head + 1])

Reading(log, M, start, n, i, st) ==
    /\ st \in ReadStates(M)
    /\ st.left + Len(st.out) = n
    /\ Reads(log, st.out, start[2])
    /\ Within(log, st.pos)
    /\ st.pos[2] = start[2] + Len(st.out)
    /\ ~st.full => st.pos[1] = start[1] + i /\ (n > 0 => st.left > 0)
    /\ st.full /\ n > 0 => Len(st.out) > 0

\* One turn of the loop of readv keeps what Reading says of it.
LEMMA ReadClosedKeeps ==
    ASSUME NEW M, NEW log, LogOK(log, M), NEW start \in Nat \X Nat, Within(log, start),
           NEW n \in Nat, NEW i \in 1 .. log.tail - start[1], NEW st,
           Reading(log, M, start, n, i - 1, st)
    PROVE  Reading(log, M, start, n, i, ReadClosed(st, log.segs[start[1] - log.head + i]))
<1>1. st \in ReadStates(M) /\ start[1] \in Nat /\ start[2] \in Nat /\ log.head \in Nat
      /\ log.tail \in Nat /\ i \in Nat
  BY CommitLogAssumption DEF Reading, LogOK
<1>2. CASE st.full
  <2>1. ReadClosed(st, log.segs[start[1] - log.head + i]) = st
    BY <1>2 DEF ReadClosed
  <2> QED
    BY <1>2, <2>1 DEF Reading
<1>3. CASE ~st.full
  <2> DEFINE q == start[1] + (i - 1)
             seg == log.segs[q - log.head + 1]
             r == IF st.pos[2] - seg.abs >= Len(seg.data)
                  THEN [done |-> TRUE, next |-> SegNext(seg), out |-> <<>>]
                  ELSE SegRead(seg, st.pos[1], st.pos[2], st.left)
             left == st.left - Len(r.out)
             new == [pos  |-> IF r.done THEN <<st.pos[1] + 1, r.next>> ELSE <<st.pos[1], r.next>>,
                     left |-> left, out |-> st.out \o r.out, full |-> ~r.done \/ left = 0]
  <2>0. \A a, h \in Nat : (a + 1) - h + 1 = a + 1 - h + 1
    OBVIOUS
  <2>1. /\ st.pos[1] = q /\ (n > 0 => st.left > 0) /\ q \in log.head .. log.tail
        /\ seg.abs <= st.pos[2] /\ st.pos[2] <= SegNext(seg) /\ q < log.tail /\ q \in Nat
        /\ st.left + Len(st.out) = n /\ Reads(log, st.out, start[2])
        /\ st.pos[2] = start[2] + Len(st.out)
    BY <1>1, <1>3, SMTT(40) DEF Reading, Within
  <2>2. log.segs[start[1] - log.head + i] = seg
    BY <1>1
  <2>3. /\ st.pos \in Nat \X Nat /\ st.left \in Nat /\ st.out \in Seq(Entries(M))
        /\ Len(st.out) \in Nat /\ st.pos[2] \in Nat
    BY <1>1 DEF ReadStates
  <2>4. /\ seg.abs \in Nat /\ Len(seg.data) \in Nat /\ SegNext(seg) = seg.abs + Len(seg.data)
        /\ SegNext(seg) \in Nat /\ log.segs[q + 1 - log.head + 1].abs = SegNext(seg)
        /\ SegNext(log.segs[q + 1 - log.head + 1]) >= SegNext(seg)
    <3>1. /\ seg.abs \in Nat /\ Len(seg.data) \in Nat /\ SegNext(seg) = seg.abs + Len(seg.data)
          /\ SegNext(seg) \in Nat /\ log.segs[q + 1 - log.head + 1].abs = SegNext(seg)
      BY <2>1, SegmentFacts
    <3> DEFINE p == q + 1
    <3>2. p \in log.head .. log.tail
      BY <1>1, <2>1, SMTT(40)
    <3> HIDE DEF p, q, seg
    <3>3. /\ log.segs[p - log.head + 1].abs \in Nat /\ Len(log.segs[p - log.head + 1].data) \in Nat
          /\ SegNext(log.segs[p - log.head + 1]) =
                log.segs[p - log.head + 1].abs + Len(log.segs[p - log.head + 1].data)
      BY <3>2, SegmentFacts
    <3>4. SegNext(log.segs[p - log.head + 1]) >= log.segs[p - log.head + 1].abs
      <4> DEFINE t == log.segs[p - log.head + 1]
                 a == t.abs
                 len == Len(t.data)
                 e == SegNext(t)
      <4>1. a \in Nat /\ len \in Nat /\ e = a + len
        BY <3>3
      <4> HIDE DEF a, len, e
      <4>2. e >= a
        BY <4>1
      <4> QED
        BY <4>2 DEF a, e
    <3>5. p - log.head + 1 = q + 1 - log.head + 1
      BY <1>1, <2>0, <2>1, Zenon DEF p
    <3>6. SegNext(log.segs[p - log.head + 1]) >= SegNext(seg)
      BY <3>1, <3>4, <3>5, Zenon
    <3>7. SegNext(log.segs[q + 1 - log.head + 1]) >= SegNext(seg)
      BY <3>5, <3>6, Zenon
    <3> QED
      BY <3>1, <3>7, Zenon
  <2> HIDE DEF q, seg
  <2>5. /\ r.out \in Seq(Entries(M)) /\ Len(r.out) \in Nat /\ Len(r.out) <= st.left
        /\ r.done \in BOOLEAN /\ r.next = st.pos[2] + Len(r.out) /\ r.next <= SegNext(seg)
        /\ r.done => r.next = SegNext(seg)
        /\ ~r.done => Len(r.out) = st.left
        /\ Reads(log, r.out, st.pos[2])
    <3>1. CASE st.pos[2] - seg.abs >= Len(seg.data)
      <4>1. r = [done |-> TRUE, next |-> SegNext(seg), out |-> <<>>]
        BY <3>1
      <4>2. SegNext(seg) = st.pos[2]
        <5> DEFINE o == st.pos[2]
                   a == seg.abs
                   len == Len(seg.data)
                   e == SegNext(seg)
        <5>1. o \in Nat /\ a \in Nat /\ len \in Nat /\ e = a + len /\ o - a >= len /\ o <= e
          BY <2>1, <2>3, <2>4, <3>1
        <5> HIDE DEF o, a, len, e
        <5>2. e = o
          BY <5>1
        <5> QED
          BY <5>2 DEF o, e
      <4>3. r.done = TRUE /\ r.next = st.pos[2] /\ r.out = <<>>
        BY <4>1, <4>2
      <4> HIDE DEF r
      <4>4. r.out \in Seq(Entries(M)) /\ Len(r.out) = 0
        BY <4>3
      <4>5. Reads(log, r.out, st.pos[2])
        <5>1. 1 .. Len(r.out) = {}
          BY <4>4
        <5> QED
          BY <5>1, ZenonT(40) DEF Reads
      <4> DEFINE o == st.pos[2]
                 e == SegNext(seg)
                 k == st.left
                 len == Len(r.out)
                 d == r.done
      <4>6. o \in Nat /\ e = o /\ k \in Nat /\ len = 0 /\ r.next = o /\ d = TRUE
        BY <2>3, <4>2, <4>3, <4>4
      <4> HIDE DEF o, e, k, len, d
      <4>7. /\ len \in Nat /\ len <= k /\ d \in BOOLEAN /\ r.next = o + len /\ r.next <= e
            /\ (d => r.next = e) /\ (~d => len = k)
        BY <4>6
      <4> QED
        BY <4>4, <4>5, <4>7 DEF o, e, k, len, d
    <3>2. CASE ~(st.pos[2] - seg.abs >= Len(seg.data))
      <4>1. r = SegRead(seg, q, st.pos[2], st.left)
        BY <2>1, <3>2
      <4> DEFINE o == st.pos[2]
                 k == st.left
      <4>2. /\ q \in log.head .. log.tail /\ o \in Nat /\ k \in Nat
            /\ log.segs[q - log.head + 1].abs <= o
            /\ o <= SegNext(log.segs[q - log.head + 1])
        BY <2>1, <2>3 DEF seg
      <4> HIDE DEF r, o, k
      <4>3. r = SegRead(log.segs[q - log.head + 1], q, o, k)
        BY <4>1 DEF seg, o, k
      <4> DEFINE t == SegRead(log.segs[q - log.head + 1], q, o, k)
      <4>4. /\ t.out \in Seq(Entries(M)) /\ Len(t.out) \in Nat /\ Len(t.out) <= k
            /\ t.done \in BOOLEAN /\ t.next = o + Len(t.out)
            /\ t.next <= SegNext(log.segs[q - log.head + 1])
            /\ t.done => t.next = SegNext(log.segs[q - log.head + 1])
            /\ ~t.done => Len(t.out) = k
            /\ Reads(log, t.out, o)
        BY <4>2, SegReadFacts
      <4>5. r = t /\ seg = log.segs[q - log.head + 1]
        BY <4>3 DEF seg
      <4> HIDE DEF t
      <4>6. /\ r.out \in Seq(Entries(M)) /\ Len(r.out) \in Nat /\ Len(r.out) <= k
            /\ r.done \in BOOLEAN /\ r.next = o + Len(r.out) /\ r.next <= SegNext(seg)
            /\ r.done => r.next = SegNext(seg)
            /\ ~r.done => Len(r.out) = k
            /\ Reads(log, r.out, o)
        BY <4>4, <4>5
      <4> QED
        BY <4>6 DEF o, k
    <3> QED
      BY <3>1, <3>2
  <2>6. ReadClosed(st, seg) = new
    BY <1>3 DEF ReadClosed
  <2> HIDE DEF r
  <2>7. left \in Nat /\ left + Len(r.out) = st.left
    BY <2>3, <2>5
  <2> HIDE DEF left
  <2>8. /\ st.out \o r.out \in Seq(Entries(M))
        /\ Len(st.out \o r.out) = Len(st.out) + Len(r.out)
        /\ Reads(log, st.out \o r.out, start[2])
    <3>1. Reads(log, r.out, start[2] + Len(st.out))
      BY <2>1, <2>5
    <3> DEFINE a == st.out
               b == r.out
               o == start[2]
    <3>2. /\ a \in Seq(Entries(M)) /\ b \in Seq(Entries(M)) /\ o \in Nat
          /\ Reads(log, a, o) /\ Reads(log, b, o + Len(a))
      BY <1>1, <2>1, <2>3, <2>5, <3>1
    <3> HIDE DEF a, b, o
    <3>3. a \o b \in Seq(Entries(M)) /\ Len(a \o b) = Len(a) + Len(b) /\ Reads(log, a \o b, o)
      BY <3>2, ReadsConcat
    <3> QED
      BY <3>3 DEF a, b, o
  <2> DEFINE out == st.out \o r.out
             pos == IF r.done THEN <<st.pos[1] + 1, r.next>> ELSE <<st.pos[1], r.next>>
             full == ~r.done \/ left = 0
  <2>9. /\ pos \in Nat \X Nat /\ pos[2] = r.next
        /\ pos[1] = IF r.done THEN q + 1 ELSE q
    <3>1. r.next \in Nat /\ q \in Nat /\ st.pos[1] = q
      BY <2>1, <2>3, <2>5, SMTT(40)
    <3> DEFINE x == r.next
    <3> HIDE DEF x
    <3>2. x \in Nat /\ pos = IF r.done THEN <<q + 1, x>> ELSE <<q, x>>
      BY <3>1 DEF x
    <3> HIDE DEF pos
    <3>3. pos \in Nat \X Nat /\ pos[2] = x /\ pos[1] = IF r.done THEN q + 1 ELSE q
      BY <3>1, <3>2
    <3> QED
      BY <3>3 DEF x
  <2>10. Within(log, pos)
    <3>1. CASE r.done
      <4>1. pos[1] = q + 1 /\ pos[2] = SegNext(seg)
        BY <2>5, <2>9, <3>1
      <4>2. q + 1 \in log.head .. log.tail
        BY <1>1, <2>1
      <4> HIDE DEF pos
      <4>3. q + 1 - log.head + 1 = pos[1] - log.head + 1
        <5>1. (q + 1) - log.head + 1 = q + 1 - log.head + 1
          BY <1>1, <2>0, <2>1, Zenon
        <5>2. pos[1] = q + 1
          BY <4>1
        <5> QED
          BY <5>1, <5>2, Zenon
      <4>4. log.segs[pos[1] - log.head + 1].abs = pos[2]
            /\ SegNext(log.segs[pos[1] - log.head + 1]) >= pos[2] /\ pos[2] \in Nat
        BY <2>4, <4>1, <4>3, Zenon
      <4>5. pos[2] <= SegNext(log.segs[pos[1] - log.head + 1])
        <5> DEFINE x == pos[2]
                   y == SegNext(log.segs[pos[1] - log.head + 1])
        <5> HIDE DEF x, y
        <5>1. y >= x
          BY <4>4 DEF x, y
        <5>2. x <= y
          BY <5>1
        <5> QED
          BY <5>2 DEF x, y
      <4> DEFINE t == log.segs[pos[1] - log.head + 1]
      <4> HIDE DEF t
      <4>6. t.abs = pos[2] /\ pos[2] \in Nat /\ pos[2] <= SegNext(t) /\ pos[1] \in log.head .. log.tail
        BY <4>1, <4>2, <4>4, <4>5 DEF t
      <4>7. t.abs <= pos[2]
        BY <4>6
      <4> QED
        BY <4>6, <4>7 DEF Within, t
    <3>2. CASE ~r.done
      <4>1. pos[1] = q /\ pos[2] = st.pos[2] + Len(r.out) /\ pos[2] <= SegNext(seg)
        BY <2>5, <2>9, <3>2
      <4>2. seg.abs <= pos[2]
        BY <2>1, <2>3, <2>4, <2>5, <4>1, SMTT(40)
      <4> HIDE DEF pos
      <4>3. log.segs[pos[1] - log.head + 1] = seg
        BY <4>1 DEF seg
      <4> QED
        BY <2>1, <4>1, <4>2, <4>3 DEF Within
    <3> QED
      BY <3>1, <3>2, <2>5
  <2> HIDE DEF pos, out
  <2>11. new = [pos |-> pos, left |-> left, out |-> out, full |-> full]
    BY DEF pos, out
  <2>12. full \in BOOLEAN
    OBVIOUS
  <2>13. new.pos = pos /\ new.left = left /\ new.out = out /\ new.full = full
         /\ new \in ReadStates(M)
    BY <2>7, <2>8, <2>9, <2>11, <2>12 DEF ReadStates, out
  <2>14. Len(out) = Len(st.out) + Len(r.out) /\ left + Len(out) = n /\ Len(out) \in Nat
         /\ pos[2] = start[2] + Len(out)
    <3>1. Len(out) = Len(st.out) + Len(r.out)
      BY <2>8 DEF out
    <3>2. pos[2] = st.pos[2] + Len(r.out)
      BY <2>5, <2>9
    <3> DEFINE a == Len(st.out)
               b == Len(r.out)
               c == Len(out)
               o == st.pos[2]
               k == st.left
               e == pos[2]
               s == start[2]
    <3>3. /\ a \in Nat /\ b \in Nat /\ c = a + b /\ k \in Nat /\ k + a = n /\ o = s + a /\ s \in Nat
          /\ left + b = k /\ e = o + b /\ left \in Nat
      BY <1>1, <2>1, <2>3, <2>5, <2>7, <3>1, <3>2
    <3> HIDE DEF a, b, c, o, k, e, s
    <3>4. c = a + b /\ left + c = n /\ c \in Nat /\ e = s + c
      BY <3>3
    <3> QED
      BY <3>4 DEF a, b, c, e, s
  <2>15. ~full => pos[1] = start[1] + i /\ (n > 0 => left > 0)
    <3> SUFFICES ASSUME ~full PROVE pos[1] = start[1] + i /\ left > 0
      OBVIOUS
    <3>1. r.done /\ left # 0
      BY <2>5
    <3> QED
      BY <1>1, <2>7, <2>9, <3>1 DEF q
  <2>16. full /\ n > 0 => Len(out) > 0
    <3> SUFFICES ASSUME full, n > 0 PROVE Len(out) > 0
      OBVIOUS
    <3> DEFINE a == Len(st.out)
               b == Len(r.out)
               c == Len(out)
               k == st.left
    <3>1. /\ a \in Nat /\ b \in Nat /\ c = a + b /\ left + c = n /\ k > 0 /\ k \in Nat
          /\ (~r.done => b = k)
      BY <2>1, <2>3, <2>5, <2>14
    <3>2. full => ~r.done \/ left = 0
      OBVIOUS
    <3> HIDE DEF a, b, c, k, full, new
    <3>3. c > 0
      BY <2>7, <3>1, <3>2
    <3> QED
      BY <3>3 DEF c
  <2> HIDE DEF new, full
  <2>17. Reading(log, M, start, n, i, new)
    BY <2>8, <2>10, <2>13, <2>14, <2>15, <2>16 DEF Reading, out
  <2> QED
    BY <2>2, <2>6, <2>17
<1> QED
  BY <1>2, <1>3

\* g is the function by which ReadV runs through the closed segments.
StartState(start, n) == [pos |-> start, left |-> n, out |-> <<>>, full |-> FALSE]

Loops(g, closed, start, n) ==
    g = [i \in 0 .. Len(closed) |->
           IF i = 0 THEN [pos |-> start, left |-> n, out |-> <<>>, full |-> FALSE]
           ELSE ReadClosed(g[i - 1], closed[i])]

\* What Reading says holds when the loop begins.
LEMMA StartReading ==
    ASSUME NEW M, NEW log, LogOK(log, M), NEW start \in Nat \X Nat, Within(log, start),
           NEW n \in Nat
    PROVE  Reading(log, M, start, n, 0, StartState(start, n))
<1> DEFINE e == <<>>
           st == StartState(start, n)
<1>1. e \in Seq(Entries(M)) /\ Len(e) = 0
  OBVIOUS
<1>2. st = [pos |-> start, left |-> n, out |-> e, full |-> FALSE]
  BY DEF StartState
<1> HIDE DEF e, st
<1>3. st.pos = start /\ st.left = n /\ st.out = e /\ st.full = FALSE /\ st \in ReadStates(M)
  BY <1>1, <1>2 DEF ReadStates
<1>4. Reads(log, e, start[2])
  BY <1>1, ZenonT(40), SMTT(40) DEF Reads
<1>5. start[2] \in Nat /\ start[1] \in Nat
  OBVIOUS
<1> QED
  BY <1>1, <1>3, <1>4, <1>5 DEF Reading, st

\* The closed segments from a segment on, and how many there are.
LEMMA ClosedSegments ==
    ASSUME NEW M, NEW log, LogOK(log, M), NEW p \in log.head .. log.tail
    PROVE  LET closed == SubSeq(log.segs, p - log.head + 1, Len(log.segs) - 1)
           IN  /\ Len(closed) = log.tail - p /\ Len(closed) \in Nat
               /\ \A i \in 1 .. log.tail - p : closed[i] = log.segs[p - log.head + i]
<1>1. /\ log.head \in Nat /\ log.tail \in Nat /\ Len(log.segs) \in Nat
      /\ log.tail = log.head + Len(log.segs) - 1 /\ log.segs \in Seq(Segments(M))
  BY CommitLogAssumption DEF LogOK
<1> DEFINE a == p - log.head + 1
           b == Len(log.segs) - 1
           closed == SubSeq(log.segs, a, b)
<1>2. /\ a \in Nat /\ b \in Nat /\ a \in 1 .. Len(log.segs) /\ b <= Len(log.segs) /\ a <= b + 1
      /\ b - a + 1 = log.tail - p /\ log.tail - p \in Nat
      /\ \A i \in 1 .. log.tail - p : a + i - 1 = p - log.head + i
  <2> DEFINE len == Len(log.segs)
             h == log.head
             t == log.tail
  <2>1. h \in Nat /\ t \in Nat /\ len \in Nat /\ t = h + len - 1 /\ p \in h .. t
        /\ a = p - h + 1 /\ b = len - 1
    BY <1>1
  <2> HIDE DEF len, h, t, a, b
  <2>2. /\ a \in Nat /\ b \in Nat /\ a \in 1 .. len /\ b <= len /\ a <= b + 1
        /\ b - a + 1 = t - p /\ t - p \in Nat
    BY <2>1
  <2>3. \A i \in 1 .. t - p : a + i - 1 = p - h + i
    BY <2>1
  <2> QED
    BY <2>2, <2>3 DEF len, h, t
<1> HIDE DEF a, b
<1>3. Len(closed) = b - a + 1 /\ \A i \in 1 .. b - a + 1 : closed[i] = log.segs[a + i - 1]
  BY <1>1, <1>2
<1> HIDE DEF closed
<1>4. /\ Len(closed) = log.tail - p /\ Len(closed) \in Nat
      /\ \A i \in 1 .. log.tail - p : closed[i] = log.segs[p - log.head + i]
  BY <1>2, <1>3
<1> QED
  BY <1>4 DEF closed, a, b

\* What Reading says holds after every turn of the loop.
LEMMA LoopReads ==
    ASSUME NEW M, NEW log, LogOK(log, M), NEW start \in Nat \X Nat, Within(log, start),
           NEW n \in Nat, NEW g, NEW closed,
           Len(closed) = log.tail - start[1],
           \A i \in 1 .. log.tail - start[1] : closed[i] = log.segs[start[1] - log.head + i],
           Loops(g, closed, start, n)
    PROVE  \A i \in 0 .. log.tail - start[1] : Reading(log, M, start, n, i, g[i])
<1> DEFINE m == log.tail - start[1]
           Q == {i \in 0 .. m : Reading(log, M, start, n, i, g[i])}
<1>1. m \in Nat /\ Len(closed) = m
  BY CommitLogAssumption DEF LogOK, Within
<1>2. 0 \in Q
  <2>1. 0 \in 0 .. m /\ g[0] = StartState(start, n)
    <3> DEFINE st == [pos |-> start, left |-> n, out |-> <<>>, full |-> FALSE]
    <3>1. StartState(start, n) = st
      BY DEF StartState
    <3>2. g = [i \in 0 .. Len(closed) |-> IF i = 0 THEN st ELSE ReadClosed(g[i - 1], closed[i])]
      BY DEF Loops
    <3> HIDE DEF st, m
    <3>3. 0 \in 0 .. m /\ 0 \in 0 .. Len(closed)
      BY <1>1
    <3>4. g[0] = st
      BY <3>2, <3>3
    <3> QED
      BY <3>1, <3>3, <3>4
  <2>2. Reading(log, M, start, n, 0, StartState(start, n))
    BY StartReading
  <2> HIDE DEF m
  <2> QED
    BY <2>1, <2>2
<1>3. ASSUME NEW i \in 1 .. m, i - 1 \in Q PROVE i \in Q
  <2>1. Reading(log, M, start, n, i - 1, g[i - 1])
    BY <1>3
  <2>2. g[i] = ReadClosed(g[i - 1], closed[i]) /\ i \in 0 .. m
    BY <1>1 DEF Loops
  <2>3. closed[i] = log.segs[start[1] - log.head + i]
    OBVIOUS
  <2> DEFINE st == g[i - 1]
  <2>4. Reading(log, M, start, n, i - 1, st)
    BY <2>1
  <2>5. i \in 1 .. log.tail - start[1]
    OBVIOUS
  <2> HIDE DEF st, m
  <2>6. Reading(log, M, start, n, i, ReadClosed(st, log.segs[start[1] - log.head + i]))
    BY <2>4, <2>5, ReadClosedKeeps
  <2>7. Reading(log, M, start, n, i, g[i])
    BY <2>2, <2>3, <2>6, Zenon DEF st
  <2> QED
    BY <2>2, <2>7
<1>4. 0 .. m \subseteq Q
  <2> HIDE DEF Q, m
  <2> QED
    BY <1>1, <1>2, <1>3, UptoInduct
<1> QED
  BY <1>4

\* The recursion by which ReadV is defined has a solution.
LEMMA LoopExists ==
    ASSUME NEW M, NEW log, LogOK(log, M), NEW start \in Nat \X Nat, Within(log, start),
           NEW n \in Nat, NEW closed,
           Len(closed) = log.tail - start[1],
           \A i \in 1 .. log.tail - start[1] : closed[i] = log.segs[start[1] - log.head + i]
    PROVE  \E g : Loops(g, closed, start, n)
<1> DEFINE m == log.tail - start[1]
           V == ReadStates(M)
           a == StartState(start, n)
           Next1(v, i) == ReadClosed(v, log.segs[start[1] - log.head + i])
           F == [p \in V \X Nat |-> IF Next1(p[1], p[2]) \in V THEN Next1(p[1], p[2]) ELSE p[1]]
<1>1. m \in Nat /\ Len(closed) = m
  BY CommitLogAssumption DEF LogOK, Within
<1>2. Reading(log, M, start, n, 0, a) /\ a \in V
  <2>1. Reading(log, M, start, n, 0, a)
    BY StartReading
  <2> HIDE DEF a
  <2> QED
    BY <2>1 DEF Reading
<1>3. StepFcn(F, V)
  <2> HIDE DEF Next1, V
  <2> QED
    BY DEF StepFcn
<1>4. PICK h : Unfolds(h, V, a, F, m)
  <2> HIDE DEF V, a, F, m
  <2> QED
    BY <1>1, <1>2, <1>3, Recursion
<1> DEFINE Q == {i \in 0 .. m : Reading(log, M, start, n, i, h[i])}
<1> HIDE DEF a
<1>5. ASSUME NEW i \in 1 .. m, i - 1 \in Q PROVE i \in Q /\ h[i] = Next1(h[i - 1], i)
  <2> DEFINE st == h[i - 1]
  <2>1. Reading(log, M, start, n, i - 1, st) /\ i \in 0 .. m /\ i \in Nat
    BY <1>1, <1>5
  <2>2. st \in V
    <3> HIDE DEF st
    <3> QED
      BY <2>1 DEF Reading
  <2>3. i \in 1 .. log.tail - start[1]
    OBVIOUS
  <2> HIDE DEF st, m
  <2>4. Reading(log, M, start, n, i, ReadClosed(st, log.segs[start[1] - log.head + i]))
    BY <2>1, <2>3, ReadClosedKeeps
  <2> DEFINE new == Next1(st, i)
  <2>5. Reading(log, M, start, n, i, new)
    BY <2>4
  <2> HIDE DEF new
  <2>6. new \in V
    BY <2>5 DEF Reading
  <2>7. h[i] = F[<<st, i>>]
    BY <1>4 DEF Unfolds, st
  <2>8. F[<<st, i>>] = new
    <3>1. <<st, i>> \in V \X Nat /\ <<st, i>>[1] = st /\ <<st, i>>[2] = i
      BY <2>1, <2>2
    <3> HIDE DEF V, Next1
    <3>2. F[<<st, i>>] = IF Next1(st, i) \in V THEN Next1(st, i) ELSE st
      BY <3>1
    <3> QED
      BY <2>6, <3>2, Zenon DEF new
  <2>9. h[i] = new
    BY <2>7, <2>8, Zenon
  <2> QED
    BY <2>1, <2>5, <2>9 DEF new, st
<1>6. 0 .. m \subseteq Q
  <2>1. 0 \in Q
    <3>1. h[0] = a /\ 0 \in 0 .. m
      BY <1>1, <1>4 DEF Unfolds
    <3> HIDE DEF m
    <3> QED
      BY <1>2, <3>1
  <2> HIDE DEF Q, m
  <2> QED
    BY <1>1, <1>5, <2>1, UptoInduct
<1> HIDE DEF V, F, Q
<1>7. ASSUME NEW i \in 0 .. m
      PROVE  h[i] = IF i = 0 THEN [pos |-> start, left |-> n, out |-> <<>>, full |-> FALSE]
                    ELSE ReadClosed(h[i - 1], closed[i])
  <2>1. CASE i = 0
    <3>1. h[0] = a
      BY <1>4 DEF Unfolds
    <3> QED
      BY <2>1, <3>1 DEF a, StartState
  <2>2. CASE i # 0
    <3>1. i \in 1 .. m /\ i - 1 \in 0 .. m
      BY <1>1, <2>2
    <3>2. i - 1 \in Q
      BY <1>6, <3>1
    <3>3. h[i] = ReadClosed(h[i - 1], log.segs[start[1] - log.head + i])
      BY <1>5, <3>1, <3>2
    <3>4. closed[i] = log.segs[start[1] - log.head + i]
      BY <3>1
    <3> QED
      BY <2>2, <3>3, <3>4
  <2> QED
    BY <2>1, <2>2
<1>8. h = [i \in 0 .. m |-> h[i]]
  BY <1>4 DEF Unfolds
<1>9. h = [i \in 0 .. m |-> IF i = 0 THEN [pos |-> start, left |-> n, out |-> <<>>, full |-> FALSE]
                            ELSE ReadClosed(h[i - 1], closed[i])]
  <2> HIDE DEF m
  <2> QED
    BY <1>7, <1>8
<1>10. Loops(h, closed, start, n)
  <2> HIDE DEF m
  <2> QED
    BY <1>1, <1>9, Zenon DEF Loops
<1> QED
  BY <1>10

\* What readv promises of a reading r that has been asked for n messages.
ReadingOK(log, M, pos, n, r) ==
    /\ r.start = Reached(log, pos)
    /\ r.out \in Seq(Entries(M)) /\ Len(r.out) <= n
    /\ Reads(log, r.out, r.start[2])
    /\ Position(log, r.end) /\ r.end[2] = r.start[2] + Len(r.out)
    /\ r.done \in BOOLEAN
    /\ r.done => r.end[2] = NextOffset(log)[2]
    /\ ~r.done /\ n > 0 => Len(r.out) > 0

\* A position within a segment is a position in a segment that is left.
LEMMA WithinIsPosition ==
    ASSUME NEW M, NEW log, LogOK(log, M), NEW pos \in Nat \X Nat
    PROVE  Within(log, pos) <=> Position(log, pos) /\ pos[1] >= log.head
BY CommitLogAssumption DEF Within, Position, LogOK

\* readv: reading from a position a subscription holds gives messages of the log,
\* one after the other from the first that is left, no more than asked for; it
\* goes on at a position again, and says that it is done only at the end.
THEOREM ReadVReads ==
    ASSUME NEW M, NEW log, LogOK(log, M), NEW pos, Position(log, pos), NEW n \in Nat
    PROVE  ReadingOK(log, M, pos, n, ReadV(log, pos, n))
<1> DEFINE start == Reached(log, pos)
           closed == SubSeq(log.segs, start[1] - log.head + 1, Len(log.segs) - 1)
           m == log.tail - start[1]
           g == CHOOSE k : k = [i \in 0 .. Len(closed) |->
                   IF i = 0 THEN [pos |-> start, left |-> n, out |-> <<>>, full |-> FALSE]
                   ELSE ReadClosed(k[i - 1], closed[i])]
           st == g[Len(closed)]
           active == ActiveSegment(log)
           r == SegRead(active, st.pos[1], st.pos[2], st.left)
<1>1. ~(pos[1] > log.tail)
  BY CommitLogAssumption DEF Position, LogOK
<1>2. ReadV(log, pos, n) =
        IF st.full
        THEN [start |-> start, end |-> st.pos, done |-> FALSE, out |-> st.out]
        ELSE IF SegNext(active) <= st.pos[2]
        THEN [start |-> start, end |-> st.pos, done |-> TRUE, out |-> st.out]
        ELSE [start |-> start, end |-> <<st.pos[1], r.next>>, done |-> r.done,
              out |-> st.out \o r.out]
  BY <1>1 DEF ReadV
<1>3. /\ start \in Nat \X Nat /\ Position(log, start) /\ start[1] \in log.head .. log.tail
      /\ Within(log, start)
  <2>1. Position(log, start) /\ start[1] \in log.head .. log.tail
    BY ReachedIsLeft
  <2>2. start \in Nat \X Nat
    BY <2>1 DEF Position
  <2> HIDE DEF start
  <2>3. log.head \in Nat /\ log.tail \in Nat /\ start[1] >= log.head
    BY <2>1, <2>2, CommitLogAssumption DEF LogOK
  <2> QED
    BY <2>1, <2>2, <2>3, WithinIsPosition
<1> HIDE DEF start
<1>4. /\ Len(closed) = m /\ m \in Nat
      /\ \A i \in 1 .. log.tail - start[1] : closed[i] = log.segs[start[1] - log.head + i]
  <2> DEFINE p == start[1]
             cs == SubSeq(log.segs, p - log.head + 1, Len(log.segs) - 1)
  <2>1. p \in log.head .. log.tail
    BY <1>3
  <2> HIDE DEF p
  <2>2. /\ Len(cs) = log.tail - p /\ Len(cs) \in Nat
        /\ \A i \in 1 .. log.tail - p : cs[i] = log.segs[p - log.head + i]
    BY <2>1, ClosedSegments
  <2>3. closed = cs
    BY DEF p
  <2> HIDE DEF closed, cs
  <2> QED
    BY <2>2, <2>3 DEF p
<1> HIDE DEF closed
<1>5. Loops(g, closed, start, n)
  <2>1. PICK h : Loops(h, closed, start, n)
    BY <1>3, <1>4, LoopExists
  <2> QED
    BY <2>1 DEF Loops
<1> HIDE DEF g
<1>6. \A i \in 0 .. log.tail - start[1] : Reading(log, M, start, n, i, g[i])
  BY <1>3, <1>4, <1>5, LoopReads
<1>7. Reading(log, M, start, n, m, st)
  BY <1>4, <1>6
<1> HIDE DEF st
<1>8. /\ log.head \in Nat /\ log.tail \in Nat /\ log.tail = log.head + Len(log.segs) - 1
      /\ log.segs \in Seq(Segments(M)) /\ Len(log.segs) \in Nat \ {0}
      /\ start[1] \in Nat /\ start[2] \in Nat
  BY <1>3, CommitLogAssumption DEF LogOK
<1> DEFINE q == log.tail
<1>9. /\ q \in log.head .. log.tail /\ active = log.segs[q - log.head + 1]
      /\ NextOffset(log)[2] = SegNext(active)
  <2>1. q - log.head + 1 = Len(log.segs)
    BY <1>8
  <2>2. active = log.segs[Len(log.segs)]
    BY <1>8 DEF ActiveSegment, Last
  <2>3. NextOffset(log)[2] = SegNext(log.segs[Len(log.segs)])
    BY NextIsPosition
  <2>4. q \in log.head .. log.tail
    BY <1>8
  <2> QED
    BY <2>1, <2>2, <2>3, <2>4, Zenon
<1> HIDE DEF active, m
<1>10. /\ st \in ReadStates(M) /\ st.pos \in Nat \X Nat /\ st.left \in Nat
       /\ st.out \in Seq(Entries(M)) /\ st.full \in BOOLEAN /\ Len(st.out) \in Nat
       /\ st.left + Len(st.out) = n /\ Reads(log, st.out, start[2])
       /\ Within(log, st.pos) /\ st.pos[2] = start[2] + Len(st.out)
       /\ ~st.full => st.pos[1] = start[1] + m /\ (n > 0 => st.left > 0)
       /\ st.full /\ n > 0 => Len(st.out) > 0
  BY <1>7 DEF Reading, ReadStates
<1>11. Position(log, st.pos) /\ st.pos[2] \in Nat /\ st.pos[1] \in Nat
  <2>1. st.pos \in Nat \X Nat /\ Within(log, st.pos)
    BY <1>10
  <2> DEFINE p == st.pos
  <2> HIDE DEF p
  <2>2. p \in Nat \X Nat /\ Within(log, p)
    BY <2>1 DEF p
  <2>3. Position(log, p) /\ p[1] \in Nat /\ p[2] \in Nat
    BY <2>2, WithinIsPosition
  <2> QED
    BY <2>3 DEF p
<1>12. Len(st.out) <= n
  <2> DEFINE a == Len(st.out)
             b == st.left
  <2>1. a \in Nat /\ b \in Nat /\ b + a = n
    BY <1>10
  <2> HIDE DEF a, b
  <2>2. a <= n
    BY <2>1
  <2> QED
    BY <2>2 DEF a
<1> DEFINE res == ReadV(log, pos, n)
<1>13. CASE st.full
  <2>1. res = [start |-> start, end |-> st.pos, done |-> FALSE, out |-> st.out]
    BY <1>2, <1>13
  <2> HIDE DEF res
  <2>2. res.start = start /\ res.end = st.pos /\ res.done = FALSE /\ res.out = st.out
    BY <2>1
  <2>3. ReadingOK(log, M, pos, n, res)
    BY <1>10, <1>11, <1>12, <1>13, <2>2 DEF ReadingOK, start
  <2> QED
    BY <2>3 DEF res
<1>14. CASE ~st.full
  <2>1. st.pos[1] = q /\ (n > 0 => st.left > 0)
    <3>1. st.pos[1] = start[1] + m
      BY <1>10, <1>14
    <3>2. start[1] + m = q
      BY <1>8 DEF m
    <3> QED
      BY <1>10, <1>14, <3>1, <3>2
  <2>2. active.abs <= st.pos[2] /\ st.pos[2] <= SegNext(active) /\ SegNext(active) \in Nat
        /\ active.abs \in Nat
    <3>1. active.abs <= st.pos[2] /\ st.pos[2] <= SegNext(active)
      BY <1>9, <1>10, <2>1 DEF Within
    <3>2. active.abs \in Nat /\ SegNext(active) \in Nat
      BY <1>9, SegmentFacts
    <3> QED
      BY <3>1, <3>2
  <2>3. CASE SegNext(active) <= st.pos[2]
    <3>1. res = [start |-> start, end |-> st.pos, done |-> TRUE, out |-> st.out]
      BY <1>2, <1>14, <2>3
    <3>2. st.pos[2] = SegNext(active)
      <4> DEFINE x == st.pos[2]
                 y == SegNext(active)
      <4>1. x \in Nat /\ y \in Nat /\ x <= y /\ y <= x
        BY <1>11, <2>2, <2>3
      <4> HIDE DEF x, y
      <4>2. x = y
        BY <4>1
      <4> QED
        BY <4>2 DEF x, y
    <3> HIDE DEF res
    <3>3. res.start = start /\ res.end = st.pos /\ res.done = TRUE /\ res.out = st.out
      BY <3>1
    <3>4. ReadingOK(log, M, pos, n, res)
      BY <1>9, <1>10, <1>11, <1>12, <3>2, <3>3 DEF ReadingOK, start
    <3> QED
      BY <3>4 DEF res
  <2>4. CASE ~(SegNext(active) <= st.pos[2])
    <3>1. res = [start |-> start, end |-> <<st.pos[1], r.next>>, done |-> r.done,
                 out |-> st.out \o r.out]
      BY <1>2, <1>14, <2>4
    <3> DEFINE o == st.pos[2]
               k == st.left
               s == log.segs[q - log.head + 1]
               t == SegRead(s, q, o, k)
    <3>2. o \in Nat /\ k \in Nat /\ s.abs <= o /\ o <= SegNext(s) /\ r = t
      BY <1>9, <1>10, <1>11, <2>1, <2>2
    <3> HIDE DEF o, k, q
    <3>3. /\ t.out \in Seq(Entries(M)) /\ Len(t.out) \in Nat /\ Len(t.out) <= k
          /\ t.done \in BOOLEAN /\ t.next = o + Len(t.out) /\ t.next <= SegNext(s)
          /\ t.done => t.next = SegNext(s)
          /\ ~t.done => Len(t.out) = k
          /\ Reads(log, t.out, o)
      BY <1>9, <3>2, SegReadFacts
    <3>4. SegNext(s) = NextOffset(log)[2] /\ active = s
      BY <1>9
    <3> HIDE DEF t, r, s
    <3> DEFINE e == start[2]
               a == st.out
               b == t.out
    <3>5. /\ a \in Seq(Entries(M)) /\ b \in Seq(Entries(M)) /\ e \in Nat
          /\ Reads(log, a, e) /\ Reads(log, b, e + Len(a)) /\ o = e + Len(a) /\ Len(a) \in Nat
          /\ k + Len(a) = n
      BY <1>8, <1>10, <3>3 DEF o, k
    <3> HIDE DEF e, a, b
    <3>6. a \o b \in Seq(Entries(M)) /\ Len(a \o b) = Len(a) + Len(b) /\ Reads(log, a \o b, e)
      BY <3>5, ReadsConcat
    <3> DEFINE c == a \o b
               x == t.next
               d == t.done
               end == <<q, x>>
               la == Len(a)
               lb == Len(b)
               lc == Len(c)
               z == SegNext(s)
    <3>7. /\ la \in Nat /\ lb \in Nat /\ lc = la + lb /\ k \in Nat /\ k + la = n /\ o = e + la
          /\ e \in Nat /\ x = o + lb /\ lb <= k /\ d \in BOOLEAN /\ x <= z /\ (d => x = z)
          /\ (~d => lb = k) /\ (n > 0 => k > 0)
      BY <2>1, <3>2, <3>3, <3>5, <3>6 DEF k, b
    <3>8. s.abs \in Nat /\ s.abs <= o
      BY <2>2, <3>2, <3>4
    <3> DEFINE sa == s.abs
    <3> HIDE DEF la, lb, lc, x, d, z, sa
    <3>9. /\ lc <= n /\ lc \in Nat /\ x = e + lc /\ x \in Nat /\ (~d /\ n > 0 => lc > 0)
      BY <3>7
    <3>10. sa <= x
      BY <3>7, <3>8 DEF sa
    <3>11. end \in Nat \X Nat /\ end[1] = q /\ end[2] = x
      BY <1>8, <3>9 DEF q
    <3> HIDE DEF end
    <3>12. Within(log, end)
      <4>1. log.segs[end[1] - log.head + 1] = s
        BY <3>11 DEF s
      <4> QED
        BY <1>9, <3>7, <3>10, <3>11, <4>1 DEF Within, z, sa
    <3>13. Position(log, end)
      BY <3>11, <3>12, WithinIsPosition
    <3> HIDE DEF c
    <3>14. res = [start |-> start, end |-> end, done |-> d, out |-> c]
      BY <2>1, <3>1, <3>2 DEF end, d, c, x, a, b
    <3> HIDE DEF res
    <3>15. res.start = start /\ res.end = end /\ res.done = d /\ res.out = c
      BY <3>14
    <3>16. c \in Seq(Entries(M)) /\ Reads(log, c, e)
      BY <3>6 DEF c
    <3>17. ReadingOK(log, M, pos, n, res)
      BY <3>4, <3>7, <3>9, <3>11, <3>13, <3>15, <3>16 DEF ReadingOK, start, lc, e, z
    <3> QED
      BY <3>17 DEF res
  <2> QED
    BY <2>3, <2>4
<1> QED
  BY <1>10, <1>13, <1>14

-----------------------------------------------------------------------------
(* Where keeps the members of a set, in their order *)

\* kept is the function by which Where(s, T) is computed.
Keeps(kept, s, T) ==
    kept = [i \in 0 .. Len(s) |->
              IF i = 0 THEN <<>>
              ELSE IF s[i] \in T THEN Append(kept[i - 1], s[i])
              ELSE kept[i - 1]]

\* Where is computed by such a function.
LEMMA WhereKeeps ==
    ASSUME NEW S, NEW s \in Seq(S), NEW T
    PROVE  \E kept \in [0 .. Len(s) -> Seq(S)] : Keeps(kept, s, T) /\ Where(s, T) = kept[Len(s)]
<1> DEFINE F == [p \in Seq(S) \X Nat |->
                   IF p[2] \in 1 .. Len(s) /\ s[p[2]] \in T THEN Append(p[1], s[p[2]]) ELSE p[1]]
           g == CHOOSE k : k = [i \in 0 .. Len(s) |->
                                  IF i = 0 THEN <<>>
                                  ELSE IF s[i] \in T THEN Append(k[i - 1], s[i])
                                  ELSE k[i - 1]]
<1>1. F \in [Seq(S) \X Nat -> Seq(S)]
  OBVIOUS
<1>2. PICK k \in [0 .. Len(s) -> Seq(S)] : /\ k[0] = <<>>
                                           /\ \A i \in 1 .. Len(s) : k[i] = F[<<k[i - 1], i>>]
  <2> DEFINE V == Seq(S)
             n == Len(s)
             a == <<>>
  <2>1. a \in V /\ n \in Nat /\ StepFcn(F, V)
    BY <1>1 DEF StepFcn
  <2> HIDE DEF F, V, g, n, a
  <2>2. \E h : Unfolds(h, V, a, F, n)
    BY <2>1, Recursion
  <2> QED
    BY <2>2 DEF V, n, a, Unfolds
<1>3. Keeps(k, s, T)
  <2>1. ASSUME NEW i \in 0 .. Len(s)
        PROVE  k[i] = IF i = 0 THEN <<>>
                      ELSE IF s[i] \in T THEN Append(k[i - 1], s[i]) ELSE k[i - 1]
    <3>1. CASE i = 0
      BY <1>2, <3>1
    <3>2. CASE i # 0
      <4>1. k[i - 1] \in Seq(S) /\ i \in 1 .. Len(s) /\ i \in Nat
        BY <1>2, <3>2
      <4>2. k[i] = F[<<k[i - 1], i>>]
        BY <1>2, <4>1
      <4> QED
        BY <3>2, <4>1, <4>2
    <3> QED
      BY <3>1, <3>2
  <2>2. k = [i \in 0 .. Len(s) |-> k[i]]
    OBVIOUS
  <2> QED
    BY <2>1, <2>2 DEF Keeps
<1>4. Keeps(g, s, T)
  BY <1>3 DEF Keeps
<1>5. Where(s, T) = g[Len(s)]
  BY DEF Where
<1> HIDE DEF g
<1>6. g = k
  <2> DEFINE Q == {i \in 0 .. Len(s) : g[i] = k[i]}
  <2>1. 0 .. Len(s) \subseteq Q
    <3>1. 0 \in Q
      BY <1>3, <1>4 DEF Keeps
    <3>2. ASSUME NEW i \in 1 .. Len(s), i - 1 \in Q PROVE i \in Q
      <4>1. i \in 0 .. Len(s) /\ i # 0 /\ g[i - 1] = k[i - 1]
        BY <3>2
      <4>2. g[i] = IF s[i] \in T THEN Append(g[i - 1], s[i]) ELSE g[i - 1]
        BY <1>4, <4>1 DEF Keeps
      <4>3. k[i] = IF s[i] \in T THEN Append(k[i - 1], s[i]) ELSE k[i - 1]
        BY <1>3, <4>1 DEF Keeps
      <4> QED
        BY <4>1, <4>2, <4>3
    <3>3. Len(s) \in Nat
      OBVIOUS
    <3> HIDE DEF Q
    <3> QED
      BY <3>1, <3>2, <3>3, UptoInduct
  <2>2. DOMAIN g = 0 .. Len(s) /\ DOMAIN k = 0 .. Len(s) 
        /\ g = [i \in 0 .. Len(s) |-> g[i]] /\ k = [i \in 0 .. Len(s) |-> k[i]]
    BY <1>3, <1>4 DEF Keeps
  <2> QED
    BY <2>1, <2>2
<1> QED
  BY <1>3, <1>5, <1>6

\* Where of the empty sequence.
LEMMA WhereNil == ASSUME NEW T PROVE Where(<<>>, T) = <<>>
<1> DEFINE s == <<>>
<1>1. s \in Seq({}) /\ Len(s) = 0
  OBVIOUS
<1> HIDE DEF s
<1>2. PICK k \in [0 .. Len(s) -> Seq({})] : Keeps(k, s, T) /\ Where(s, T) = k[Len(s)]
  BY <1>1, WhereKeeps
<1>3. k[0] = <<>>
  BY <1>1, <1>2 DEF Keeps
<1>4. Where(s, T) = <<>>
  BY <1>1, <1>2, <1>3
<1> QED
  BY <1>4 DEF s

\* Where in steps.
LEMMA WhereAppend ==
    ASSUME NEW S, NEW s \in Seq(S), NEW x \in S, NEW T
    PROVE  Where(Append(s, x), T) = IF x \in T THEN Append(Where(s, T), x) ELSE Where(s, T)
<1> DEFINE sx == Append(s, x)
           n == Len(s)
<1>1. sx \in Seq(S) /\ n \in Nat /\ Len(sx) = n + 1 /\ sx[n + 1] = x
      /\ \A i \in 1 .. n : sx[i] = s[i]
  OBVIOUS
<1> HIDE DEF sx
<1>2. PICK k \in [0 .. n -> Seq(S)] : Keeps(k, s, T) /\ Where(s, T) = k[n]
  BY WhereKeeps
<1>3. PICK h \in [0 .. n + 1 -> Seq(S)] : Keeps(h, sx, T) /\ Where(sx, T) = h[n + 1]
  BY <1>1, WhereKeeps, SMTT(40)
<1> DEFINE Q == {i \in 0 .. n : h[i] = k[i]}
<1>4. 0 .. n \subseteq Q
  <2>1. 0 \in Q
    BY <1>1, <1>2, <1>3 DEF Keeps
  <2>2. ASSUME NEW i \in 1 .. n, i - 1 \in Q PROVE i \in Q
    <3>1. h[i - 1] = k[i - 1]
      BY <2>2
    <3>2. i \in 0 .. n /\ i \in 0 .. Len(sx) /\ i # 0 /\ sx[i] = s[i]
      BY <1>1
    <3>3. h[i] = IF sx[i] \in T THEN Append(h[i - 1], sx[i]) ELSE h[i - 1]
      BY <1>3, <3>2 DEF Keeps
    <3>4. k[i] = IF s[i] \in T THEN Append(k[i - 1], s[i]) ELSE k[i - 1]
      BY <1>2, <3>2 DEF Keeps
    <3>5. h[i] = k[i]
      BY <3>1, <3>2, <3>3, <3>4
    <3> QED
      BY <3>2, <3>5
  <2> HIDE DEF Q
  <2> QED
    BY <1>1, <2>1, <2>2, UptoInduct
<1>5. h[n] = k[n]
  BY <1>1, <1>4
<1>6. h[n + 1] = IF sx[n + 1] \in T THEN Append(h[n], sx[n + 1]) ELSE h[n]
  <2>1. n + 1 \in 0 .. Len(sx) /\ n + 1 # 0 /\ (n + 1) - 1 = n
    BY <1>1
  <2> QED
    BY <1>3, <2>1 DEF Keeps
<1> QED
  BY <1>1, <1>2, <1>3, <1>5, <1>6 DEF sx

\* What Where returns: the members of s in T, no more and no fewer.
LEMMA WhereRange ==
    ASSUME NEW S, NEW s \in Seq(S), NEW T
    PROVE  /\ Where(s, T) \in Seq(S) /\ Len(Where(s, T)) <= Len(s)
           /\ Range(Where(s, T)) = Range(s) \cap T
<1> DEFINE Good(t) == /\ Where(t, T) \in Seq(S) /\ Len(Where(t, T)) <= Len(t)
                      /\ Range(Where(t, T)) = Range(t) \cap T
           P == {t \in Seq(S) : Good(t)}
<1>1. <<>> \in P
  <2>1. Good(<<>>)
    <3> DEFINE e == <<>>
    <3>1. Where(e, T) = e
      BY WhereNil
    <3>2. e \in Seq(S) /\ Len(e) = 0 /\ Range(e) = {}
      BY NilRange
    <3> HIDE DEF e
    <3>3. Good(e)
      BY <3>1, <3>2
    <3> QED
      BY <3>3 DEF e
  <2> QED
    BY <2>1
<1>2. ASSUME NEW t \in Seq(S), NEW x \in S, t \in P PROVE Append(t, x) \in P
  <2> DEFINE tx == Append(t, x)
             w == Where(t, T)
             wx == Where(tx, T)
  <2>1. tx \in Seq(S) /\ Range(tx) = Range(t) \cup {x} /\ Len(tx) = Len(t) + 1 /\ Len(t) \in Nat
    BY AppendFacts
  <2>2. wx = IF x \in T THEN Append(w, x) ELSE w
    BY WhereAppend
  <2>3. w \in Seq(S) /\ Len(w) <= Len(t) /\ Range(w) = Range(t) \cap T
    BY <1>2
  <2>4. Append(w, x) \in Seq(S) /\ Range(Append(w, x)) = Range(w) \cup {x}
        /\ Len(Append(w, x)) = Len(w) + 1 /\ Len(w) \in Nat
    BY <2>3, AppendFacts
  <2> HIDE DEF tx, w, wx
  <2>5. wx \in Seq(S) /\ Len(wx) <= Len(tx) /\ Range(wx) = Range(tx) \cap T
    BY <2>1, <2>2, <2>3, <2>4
  <2>6. Good(tx)
    BY <2>5 DEF wx
  <2> QED
    BY <2>1, <2>6 DEF tx
<1>3. Seq(S) \subseteq P
  <2> HIDE DEF P
  <2> QED
    BY <1>1, <1>2, SeqInduct
<1> QED
  BY <1>3

\* Only which members are in T matters.
LEMMA WhereSame ==
    ASSUME NEW S, NEW s \in Seq(S), NEW T, NEW U, \A x \in Range(s) : x \in T <=> x \in U
    PROVE  Where(s, T) = Where(s, U)
<1> DEFINE Alike(t) == \A x \in Range(t) : x \in T <=> x \in U
           P == {t \in Seq(S) : Alike(t) => Where(t, T) = Where(t, U)}
<1>1. <<>> \in P
  <2>1. Where(<<>>, T) = <<>> /\ Where(<<>>, U) = <<>>
    BY WhereNil
  <2> QED
    BY <2>1
<1>2. ASSUME NEW t \in Seq(S), NEW x \in S, t \in P PROVE Append(t, x) \in P
  <2>1. Append(t, x) \in Seq(S) /\ Range(Append(t, x)) = Range(t) \cup {x}
    BY AppendFacts
  <2>2. ASSUME Alike(Append(t, x)) PROVE Where(Append(t, x), T) = Where(Append(t, x), U)
    <3>1. Alike(t) /\ (x \in T <=> x \in U)
      BY <2>1, <2>2
    <3>2. Where(t, T) = Where(t, U)
      BY <1>2, <3>1
    <3>3. Where(Append(t, x), T) = IF x \in T THEN Append(Where(t, T), x) ELSE Where(t, T)
      BY WhereAppend
    <3>4. Where(Append(t, x), U) = IF x \in U THEN Append(Where(t, U), x) ELSE Where(t, U)
      BY WhereAppend
    <3> QED
      BY <3>1, <3>2, <3>3, <3>4
  <2> QED
    BY <2>1, <2>2
<1>3. Seq(S) \subseteq P
  <2> HIDE DEF P
  <2> QED
    BY <1>1, <1>2, SeqInduct
<1>4. s \in P
  BY <1>3
<1> QED
  BY <1>4

\* A sequence has all of its members.
LEMMA WhereAll ==
    ASSUME NEW S, NEW s \in Seq(S)
    PROVE  Where(s, Range(s)) = s
<1> DEFINE P == {u \in Seq(S) : Where(u, S) = u}
<1>1. <<>> \in P
  <2>1. Where(<<>>, S) = <<>>
    BY WhereNil
  <2> DEFINE e == <<>>
  <2>2. e \in Seq(S) /\ Where(e, S) = e
    BY <2>1
  <2> HIDE DEF e
  <2>3. e \in P
    BY <2>2
  <2> QED
    BY <2>3 DEF e
<1>2. ASSUME NEW u \in Seq(S), NEW x \in S, u \in P PROVE Append(u, x) \in P
  <2>1. Where(Append(u, x), S) = Append(Where(u, S), x)
    BY WhereAppend
  <2>2. Append(u, x) \in Seq(S)
    OBVIOUS
  <2> QED
    BY <1>2, <2>1, <2>2
<1> HIDE DEF P
<1>3. Seq(S) \subseteq P
  BY <1>1, <1>2, SeqInduct
<1>4. Where(s, S) = s
  BY <1>3 DEF P
<1>5. Range(s) \subseteq S
  <2>1. Len(s) \in Nat /\ DOMAIN s = 1 .. Len(s) /\ \A i \in 1 .. Len(s) : s[i] \in S
    OBVIOUS
  <2> QED
    BY <2>1 DEF Range
<1> DEFINE R == Range(s)
<1>6. \A x \in Range(s) : x \in R <=> x \in S
  BY <1>5
<1> HIDE DEF R
<1>7. Where(s, R) = Where(s, S)
  BY <1>6, WhereSame
<1> QED
  BY <1>4, <1>7 DEF R

\* Where of two sequences put together.
LEMMA WhereConcat ==
    ASSUME NEW S, NEW s \in Seq(S), NEW u \in Seq(S), NEW T
    PROVE  Where(s \o u, T) = Where(s, T) \o Where(u, T)
<1> DEFINE Good(t) == Where(s \o t, T) = Where(s, T) \o Where(t, T)
           P == {t \in Seq(S) : Good(t)}
<1>0. Where(s, T) \in Seq(S)
  BY WhereRange
<1>1. <<>> \in P
  <2>1. Where(<<>>, T) = <<>> /\ <<>> \in Seq(S) /\ s \o <<>> = s
    BY WhereNil
  <2>2. Where(s, T) \o <<>> = Where(s, T)
    BY <1>0
  <2>3. Good(<<>>)
    BY <2>1, <2>2
  <2> QED
    BY <2>1, <2>3
<1>2. ASSUME NEW t \in Seq(S), NEW x \in S, t \in P PROVE Append(t, x) \in P
  <2>1. s \o Append(t, x) = Append(s \o t, x) /\ s \o t \in Seq(S) /\ Append(t, x) \in Seq(S)
    BY ConcatAppend
  <2>2. Where(t, T) \in Seq(S)
    BY WhereRange
  <2>3. Where(Append(s \o t, x), T) = IF x \in T THEN Append(Where(s \o t, T), x) ELSE Where(s \o t, T)
    BY <2>1, WhereAppend
  <2>4. Where(Append(t, x), T) = IF x \in T THEN Append(Where(t, T), x) ELSE Where(t, T)
    BY WhereAppend
  <2>5. Where(s, T) \o Append(Where(t, T), x) = Append(Where(s, T) \o Where(t, T), x)
    <3>1. \A v, w \in Seq(S) : v \o Append(w, x) = Append(v \o w, x)
      OBVIOUS
    <3> QED
      BY <1>0, <2>2, <3>1, Zenon
  <2>6. Where(s \o t, T) = Where(s, T) \o Where(t, T)
    BY <1>2
  <2>7. Good(Append(t, x))
    BY <2>1, <2>3, <2>4, <2>5, <2>6
  <2> HIDE DEF Good
  <2> QED
    BY <2>1, <2>7
<1>3. Seq(S) \subseteq P
  <2> HIDE DEF P
  <2> QED
    BY <1>1, <1>2, SeqInduct
<1>4. u \in P
  BY <1>3
<1> QED
  BY <1>4

\* Counting: as many as there are indices of members in T.
LEMMA WhereCount ==
    ASSUME NEW S, NEW s \in Seq(S), NEW T
    PROVE  LET is == {i \in 1 .. Len(s) : s[i] \in T}
           IN  IsFiniteSet(is) /\ Len(Where(s, T)) = Cardinality(is)
<1> DEFINE Is(t) == {i \in 1 .. Len(t) : t[i] \in T}
           Good(t) == IsFiniteSet(Is(t)) /\ Len(Where(t, T)) = Cardinality(Is(t))
           P == {t \in Seq(S) : Good(t)}
<1>1. <<>> \in P
  <2> DEFINE e == <<>>
  <2>1. Where(e, T) = e
    BY WhereNil
  <2>2. e \in Seq(S) /\ Len(e) = 0 /\ Is(e) = {}
    OBVIOUS
  <2> HIDE DEF e, Is
  <2>3. Good(e)
    BY <2>1, <2>2, FS_EmptySet
  <2> QED
    BY <2>2, <2>3 DEF e
<1>2. ASSUME NEW t \in Seq(S), NEW x \in S, t \in P PROVE Append(t, x) \in P
  <2> DEFINE tx == Append(t, x)
             n == Len(t)
             w == Where(t, T)
             wx == Where(tx, T)
  <2>1. /\ tx \in Seq(S) /\ n \in Nat /\ Len(tx) = n + 1 /\ tx[n + 1] = x
        /\ \A i \in 1 .. n : tx[i] = t[i]
    BY AppendFacts
  <2>2. wx = IF x \in T THEN Append(w, x) ELSE w
    BY WhereAppend
  <2>3. w \in Seq(S) /\ Len(w) \in Nat /\ Len(Append(w, x)) = Len(w) + 1
    BY WhereRange, AppendFacts
  <2>4. Is(tx) = IF x \in T THEN Is(t) \cup {n + 1} ELSE Is(t)
    <3> HIDE DEF tx, n
    <3>1. Is(tx) = {i \in 1 .. n + 1 : tx[i] \in T} /\ Is(t) = {i \in 1 .. n : t[i] \in T}
      BY <2>1 DEF n
    <3> HIDE DEF Is
    <3> QED
      BY <2>1, <3>1
  <2>5. n + 1 \notin Is(t)
    BY <2>1
  <2>6. IsFiniteSet(Is(t)) /\ Len(w) = Cardinality(Is(t))
    BY <1>2
  <2> HIDE DEF tx, n, w, wx, Is
  <2>7. /\ IsFiniteSet(Is(t) \cup {n + 1})
        /\ Cardinality(Is(t) \cup {n + 1}) = Cardinality(Is(t)) + 1
    BY <2>5, <2>6, FS_AddElement
  <2>8. IsFiniteSet(Is(tx)) /\ Len(wx) = Cardinality(Is(tx))
    BY <2>2, <2>3, <2>4, <2>6, <2>7
  <2> QED
    BY <2>1, <2>8 DEF wx, tx
<1>3. Seq(S) \subseteq P
  <2> HIDE DEF P
  <2> QED
    BY <1>1, <1>2, SeqInduct
<1>4. Good(s)
  BY <1>3
<1> QED
  BY <1>4

\* The members in T of the members in U are those in both.
LEMMA WhereTwice ==
    ASSUME NEW S, NEW s \in Seq(S), NEW T, NEW U
    PROVE  Where(Where(s, U), T) = Where(s, T \cap U)
<1> DEFINE Good(t) == Where(Where(t, U), T) = Where(t, T \cap U)
           P == {t \in Seq(S) : Good(t)}
<1>1. <<>> \in P
  <2>1. Good(<<>>)
    BY WhereNil
  <2> QED
    BY <2>1
<1>2. ASSUME NEW t \in Seq(S), NEW x \in S, t \in P PROVE Append(t, x) \in P
  <2> DEFINE w == Where(t, U)
  <2>1. w \in Seq(S) /\ Append(t, x) \in Seq(S)
    BY WhereRange, AppendFacts
  <2>2. Where(Append(t, x), U) = IF x \in U THEN Append(w, x) ELSE w
    BY WhereAppend
  <2>3. Where(Append(t, x), T \cap U) =
          IF x \in T \cap U THEN Append(Where(t, T \cap U), x) ELSE Where(t, T \cap U)
    BY WhereAppend
  <2> HIDE DEF w
  <2>4. Where(Append(w, x), T) = IF x \in T THEN Append(Where(w, T), x) ELSE Where(w, T)
    BY <2>1, WhereAppend
  <2>5. Where(w, T) = Where(t, T \cap U)
    BY <1>2 DEF w
  <2>6. Good(Append(t, x))
    <3>1. CASE x \in U
      <4>1. Where(Append(t, x), U) = Append(w, x)
        BY <2>2, <3>1, Zenon
      <4>2. CASE x \in T
        <5>1. Where(Append(w, x), T) = Append(Where(w, T), x)
          BY <2>4, <4>2, Zenon
        <5>2. Where(Append(t, x), T \cap U) = Append(Where(t, T \cap U), x)
          BY <2>3, <3>1, <4>2, Zenon
        <5> QED
          BY <2>5, <4>1, <5>1, <5>2, Zenon
      <4>3. CASE x \notin T
        <5>1. Where(Append(w, x), T) = Where(w, T)
          BY <2>4, <4>3, Zenon
        <5>2. Where(Append(t, x), T \cap U) = Where(t, T \cap U)
          BY <2>3, <4>3, Zenon
        <5> QED
          BY <2>5, <4>1, <5>1, <5>2, Zenon
      <4> QED
        BY <4>2, <4>3
    <3>2. CASE x \notin U
      BY <2>2, <2>3, <2>5, <3>2
    <3> QED
      BY <3>1, <3>2
  <2> QED
    BY <2>1, <2>6
<1>3. Seq(S) \subseteq P
  <2> HIDE DEF P
  <2> QED
    BY <1>1, <1>2, SeqInduct
<1>4. Good(s)
  BY <1>3
<1> QED
  BY <1>4

\* Where of a single member.
LEMMA WhereOne ==
    ASSUME NEW T, NEW x
    PROVE  Where(<<x>>, T) = IF x \in T THEN <<x>> ELSE <<>>
<1> DEFINE e == <<>>
<1>1. e \in Seq({x}) /\ <<x>> = Append(e, x)
  OBVIOUS
<1>2. Where(e, T) = e
  BY WhereNil
<1> HIDE DEF e
<1>3. Where(Append(e, x), T) = IF x \in T THEN Append(Where(e, T), x) ELSE Where(e, T)
  BY <1>1, WhereAppend
<1>4. Where(<<x>>, T) = IF x \in T THEN <<x>> ELSE e
  BY <1>1, <1>2, <1>3, Zenon
<1> QED
  BY <1>4 DEF e

-----------------------------------------------------------------------------
(* The types *)

Positions == Nat \X Nat
Logs == {log \in [head : Nat, tail : Nat, segs : Seq(Segments(Messages))] : LogOK(log, Messages)}

\* Requests, what waits on the logs and what is in flight, if d is data: the
\* position each of them holds is one of the log of its filter.
RequestsIn(d) ==
    {q \in [f : Filters, qos : 0 .. 2, cur : Positions, ret : BOOLEAN] : Position(d[q.f].log, q.cur)}
WaitersIn(d) == [id : Ids, req : RequestsIn(d)]
InflightsIn(d) ==
    {e \in [pkid : Nat, f : Filters, at : Positions \cup {None}] :
        e.at # None => Position(d[e.f].log, e.at)}

Acks == [k : {"ConnAck", "PubAck", "PubRec", "PubRel", "PubComp", "SubAck", "UnsubAck", "PingResp"},
         pkid : Nat]
ForwardsOut == [k : {"Forward"}, f : Filters, qos : 0 .. 2, pkid : Nat, m : Messages \cup {None},
                at : Positions \cup {None}]
Notifications == Acks \cup ForwardsOut \cup {Unschedule}

Publishes == [k : {"Publish"}, topic : Topics, qos : PublishQos, m : Messages]
Replies == [k : {"PubAck", "PubRec", "PubRel", "PubComp"}, pkid : Nat]
Packets == Publishes \cup Replies \cup ControlPackets

ConnectionsIn(d) ==
    [status : Statuses, reqs : Seq(RequestsIn(d)), subs : SUBSET Filters, acks : Seq(Acks),
     recorded : Seq(Publishes), inflight : Seq(InflightsIn(d)), pubrels : Seq(Nat),
     pkid : 0 .. MaxInflight - 1]
SessionsIn(d) == [reqs : Seq(RequestsIn(d)), subs : SUBSET Filters, pubrels : Seq(Nat)]
TasksIn(d) ==
    [step : {"none", "connect", "packets", "notify", "requests", "panicked"}, id : Ids,
     link : Links \cup {None}, cache : Seq(Packets), force : BOOLEAN, new : BOOLEAN, bad : BOOLEAN,
     notes : Seq(WaitersIn(d)), reqs : Seq(RequestsIn(d)), left : Nat]
FilterData(d) == [known : BOOLEAN, log : Logs, waiters : Seq(WaitersIn(d))]
Events == [k : {"Connect", "DeviceData", "Disconnect", "Ready"}, id : Ids, link : Links]
LinkStates == [pc : {"idle", "connecting", "up", "wake", "closed"}, id : Ids]

\* The slab: a slot is vacant and in the list, or holds a link, the only one
\* of its client.
SlabOK ==
    /\ slab \in [Ids -> Links \cup {None}]
    /\ free \in Seq(Ids) /\ IsInjective(free) /\ Range(free) = {id \in Ids : ~Used(id)}
    /\ \A i, j \in Ids : Used(i) /\ Used(j) /\ ClientOf[slab[i]] = ClientOf[slab[j]] => i = j

DataOK == data \in [Filters -> FilterData(data)]
\* What is parked on a filter is a request of it, of a connection that is there.
ParkedOK == \A f \in Filters : \A w \in Range(data[f].waiters) : Used(w.id) /\ w.req.f = f

ConnOK == conn \in [Links -> ConnectionsIn(data)]
TablesOK ==
    /\ submap \in [Filters -> SUBSET Ids]
    /\ routes \in [Topics -> SUBSET Filters]
    /\ retain \in [Topics -> Messages \cup {None}]
    /\ ready \in Seq(Ids)
GraveOK == grave \in [Clients -> SessionsIn(data) \cup {None}]
TaskOK == task \in TasksIn(data)
\* The connection a task is about is there, and so are those it has still
\* to notify.
TaskHolds ==
    /\ task.step = "connect" => task.link \in Links
    /\ task.step \in {"packets", "notify", "requests"} => task.link \in Links /\ slab[task.id] = task.link
    /\ task.step \notin {"packets", "notify"} => task.notes = <<>>
    /\ \A w \in Range(task.notes) : Used(w.id)
ChanOK == chan \in Seq(Events) /\ Len(chan) <= ChannelSize
BuffersOK ==
    /\ link \in [Links -> LinkStates]
    /\ inbuf \in [Links -> Seq(Packets)]
    /\ outbuf \in [Links -> Seq(Notifications)]
    /\ owes \in [Links -> Seq(Replies)]
    /\ npub \in 0 .. MaxPublish

\* A link that has not begun is not known to anyone.
Known(l) ==
    \/ outbuf[l] # <<>> \/ Live(l)
    \/ task.step = "connect" /\ task.link = l
    \/ \E i \in 1 .. Len(chan) : chan[i].k = "Connect" /\ chan[i].link = l
IdleOK == \A l \in Links : Known(l) => link[l].pc # "idle"

\* The first a link is sent is the ConnAck with its id.
Greets(ns) == ns # <<>> => Head(ns).k = "ConnAck" /\ Head(ns).pkid \in Ids
Greeted(l) ==
    link[l].pc = "connecting" =>
        /\ Greets(outbuf[l])
        /\ outbuf[l] = <<>> /\ Live(l) =>
            /\ conn[l].acks # <<>> /\ Greets(conn[l].acks)
            /\ ~(task.step = "requests" /\ task.link = l)
GreetingOK == \A l \in Links : Greeted(l)

BrokerType ==
    /\ SlabOK /\ DataOK /\ ParkedOK /\ ConnOK /\ TablesOK /\ GraveOK /\ TaskOK /\ TaskHolds
    /\ ChanOK /\ BuffersOK /\ IdleOK /\ GreetingOK

-----------------------------------------------------------------------------
(* What steps have in common; the start *)

\* Sequences over a larger set.
LEMMA SeqMono ==
    ASSUME NEW S, NEW T, S \subseteq T
    PROVE  Seq(S) \subseteq Seq(T)
<1> SUFFICES ASSUME NEW s \in Seq(S) PROVE s \in Seq(T)
  OBVIOUS
<1>1. Len(s) \in Nat /\ s \in [1 .. Len(s) -> S]
  OBVIOUS
<1> QED
  BY <1>1

\* Every position of the logs of d is one of the logs of e.
Grow(d, e) == \A f \in Filters : \A pos : Position(d[f].log, pos) => Position(e[f].log, pos)

\* What holds a position keeps it when logs grow.
LEMMA GrowKeeps ==
    ASSUME NEW d, NEW e, Grow(d, e)
    PROVE  /\ RequestsIn(d) \subseteq RequestsIn(e) /\ WaitersIn(d) \subseteq WaitersIn(e)
           /\ InflightsIn(d) \subseteq InflightsIn(e)
           /\ ConnectionsIn(d) \subseteq ConnectionsIn(e)
           /\ SessionsIn(d) \subseteq SessionsIn(e) /\ TasksIn(d) \subseteq TasksIn(e)
<1>1. RequestsIn(d) \subseteq RequestsIn(e)
  BY DEF Grow, RequestsIn
<1>2. InflightsIn(d) \subseteq InflightsIn(e)
  BY DEF Grow, InflightsIn
<1>3. WaitersIn(d) \subseteq WaitersIn(e)
  BY <1>1 DEF WaitersIn
<1>4. /\ Seq(RequestsIn(d)) \subseteq Seq(RequestsIn(e)) /\ Seq(WaitersIn(d)) \subseteq Seq(WaitersIn(e))
      /\ Seq(InflightsIn(d)) \subseteq Seq(InflightsIn(e))
  BY <1>1, <1>2, <1>3, SeqMono
<1> DEFINE r == Seq(RequestsIn(d))
           w == Seq(WaitersIn(d))
           i == Seq(InflightsIn(d))
           rr == Seq(RequestsIn(e))
           ww == Seq(WaitersIn(e))
           ii == Seq(InflightsIn(e))
<1>5. r \subseteq rr /\ w \subseteq ww /\ i \subseteq ii
  BY <1>4
<1>6. /\ ConnectionsIn(d) = [status : Statuses, reqs : r, subs : SUBSET Filters, acks : Seq(Acks),
                            recorded : Seq(Publishes), inflight : i, pubrels : Seq(Nat),
                            pkid : 0 .. MaxInflight - 1]
      /\ ConnectionsIn(e) = [status : Statuses, reqs : rr, subs : SUBSET Filters, acks : Seq(Acks),
                            recorded : Seq(Publishes), inflight : ii, pubrels : Seq(Nat),
                            pkid : 0 .. MaxInflight - 1]
      /\ SessionsIn(d) = [reqs : r, subs : SUBSET Filters, pubrels : Seq(Nat)]
      /\ SessionsIn(e) = [reqs : rr, subs : SUBSET Filters, pubrels : Seq(Nat)]
  BY DEF ConnectionsIn, SessionsIn
<1>7. TasksIn(d) \subseteq TasksIn(e)
  <2> DEFINE st == {"none", "connect", "packets", "notify", "requests", "panicked"}
             ca == Seq(Packets)
             li == Links \cup {None}
  <2>1. /\ TasksIn(d) = [step : st, id : Ids, link : li, cache : ca, force : BOOLEAN, new : BOOLEAN,
                         bad : BOOLEAN, notes : w, reqs : r, left : Nat]
        /\ TasksIn(e) = [step : st, id : Ids, link : li, cache : ca, force : BOOLEAN, new : BOOLEAN,
                         bad : BOOLEAN, notes : ww, reqs : rr, left : Nat]
    BY DEF TasksIn
  <2> HIDE DEF r, w, i, rr, ww, ii, st, ca, li
  <2> QED
    BY <1>5, <2>1
<1> HIDE DEF r, w, i, rr, ww, ii
<1>8. ConnectionsIn(d) \subseteq ConnectionsIn(e) /\ SessionsIn(d) \subseteq SessionsIn(e)
  <2> DEFINE a == Seq(Acks)
             p == Seq(Publishes)
             n == Seq(Nat)
             u == SUBSET Filters
             k == 0 .. MaxInflight - 1
  <2>1. /\ ConnectionsIn(d) = [status : Statuses, reqs : r, subs : u, acks : a,
                              recorded : p, inflight : i, pubrels : n, pkid : k]
        /\ ConnectionsIn(e) = [status : Statuses, reqs : rr, subs : u, acks : a,
                              recorded : p, inflight : ii, pubrels : n, pkid : k]
        /\ SessionsIn(d) = [reqs : r, subs : u, pubrels : n]
        /\ SessionsIn(e) = [reqs : rr, subs : u, pubrels : n]
    BY <1>6
  <2> HIDE DEF a, p, n, u, k
  <2> QED
    BY <1>5, <2>1
<1> QED
  BY <1>1, <1>2, <1>3, <1>7, <1>8

\* What a step that leaves the variables of a conjunct alone does to it.
LEMMA Frames ==
    /\ SlabOK /\ UNCHANGED <<slab, free>> => SlabOK'
    /\ DataOK /\ UNCHANGED data => DataOK'
    /\ ParkedOK /\ UNCHANGED <<slab, data>> => ParkedOK'
    /\ ConnOK /\ UNCHANGED <<conn, data>> => ConnOK'
    /\ TablesOK /\ UNCHANGED <<submap, routes, retain, ready>> => TablesOK'
    /\ GraveOK /\ UNCHANGED <<grave, data>> => GraveOK'
    /\ TaskOK /\ UNCHANGED <<task, data>> => TaskOK'
    /\ TaskHolds /\ UNCHANGED <<task, slab>> => TaskHolds'
    /\ ChanOK /\ UNCHANGED chan => ChanOK'
    /\ BuffersOK /\ UNCHANGED <<link, inbuf, outbuf, owes, npub>> => BuffersOK'
<1>1. SlabOK /\ UNCHANGED <<slab, free>> => SlabOK'
  BY DEF SlabOK, Used
<1>2. DataOK /\ UNCHANGED data => DataOK'
  BY DEF DataOK
<1>3. ParkedOK /\ UNCHANGED <<slab, data>> => ParkedOK'
  BY DEF ParkedOK, Used
<1>4. ConnOK /\ UNCHANGED <<conn, data>> => ConnOK'
  BY DEF ConnOK
<1>5. TablesOK /\ UNCHANGED <<submap, routes, retain, ready>> => TablesOK'
  BY DEF TablesOK
<1>6. GraveOK /\ UNCHANGED <<grave, data>> => GraveOK'
  BY DEF GraveOK
<1>7. TaskOK /\ UNCHANGED <<task, data>> => TaskOK'
  BY DEF TaskOK
<1>8. TaskHolds /\ UNCHANGED <<task, slab>> => TaskHolds'
  BY DEF TaskHolds, Used
<1>9. ChanOK /\ UNCHANGED chan => ChanOK'
  BY DEF ChanOK
<1>10. BuffersOK /\ UNCHANGED <<link, inbuf, outbuf, owes, npub>> => BuffersOK'
  BY DEF BuffersOK
<1> QED
  BY <1>1, <1>2, <1>3, <1>4, <1>5, <1>6, <1>7, <1>8, <1>9, <1>10

\* What is known of a task, a connection and a link.
LEMMA NoTaskOK ==
    ASSUME NEW d
    PROVE  NoTask \in TasksIn(d) /\ 0 \in Ids
<1> DEFINE e == <<>>
<1>1. 0 \in Ids
  BY BrokerAssumption DEF Ids
<1>2. e \in Seq(Packets) /\ e \in Seq(WaitersIn(d)) /\ e \in Seq(RequestsIn(d))
  OBVIOUS
<1>3. NoTask = [step |-> "none", id |-> 0, link |-> None, cache |-> e, force |-> FALSE,
                new |-> FALSE, bad |-> FALSE, notes |-> e, reqs |-> e, left |-> 0]
  BY DEF NoTask
<1> HIDE DEF e
<1> QED
  BY <1>1, <1>2, <1>3 DEF TasksIn

\* A connection and a session with nothing in them.
LEMMA FreshOK ==
    ASSUME NEW d
    PROVE  Fresh \in ConnectionsIn(d) /\ NoSession \in SessionsIn(d)
<1> DEFINE e == <<>>
<1>1. /\ e \in Seq(RequestsIn(d)) /\ e \in Seq(Acks) /\ e \in Seq(Publishes)
      /\ e \in Seq(InflightsIn(d)) /\ e \in Seq(Nat)
  OBVIOUS
<1>2. Fresh = [status |-> "Busy", reqs |-> e, subs |-> {}, acks |-> e, recorded |-> e,
               inflight |-> e, pubrels |-> e, pkid |-> 0]
      /\ NoSession = [reqs |-> e, subs |-> {}, pubrels |-> e]
  BY DEF Fresh, NoSession
<1>3. 0 \in 0 .. MaxInflight - 1
  BY BrokerAssumption
<1> HIDE DEF e
<1> QED
  BY <1>1, <1>2, <1>3 DEF ConnectionsIn, SessionsIn, Statuses

\* The broker starts well typed.
LEMMA InitType == Init => BrokerType
<1> SUFFICES ASSUME Init PROVE BrokerType
  OBVIOUS
<1> DEFINE e == <<>>
           fd == [known |-> FALSE, log |-> EmptyLog, waiters |-> e]
<1>1. e \in Seq(Ids) /\ e \in Seq(Packets) /\ e \in Seq(Notifications) /\ e \in Seq(Replies)
      /\ e \in Seq(Events) /\ Len(e) = 0 /\ Range(e) = {} /\ \A d : e \in Seq(WaitersIn(d))
  BY NilRange
<1>2. /\ data = [f \in Filters |-> fd] /\ ready = e /\ chan = e
      /\ inbuf = [l \in Links |-> e] /\ outbuf = [l \in Links |-> e] /\ owes = [l \in Links |-> e]
  BY DEF Init
<1>3. EmptyLog \in Logs
  <2>1. LogOK(EmptyLog, Messages)
    BY EmptyLogOK
  <2> QED
    BY <2>1 DEF LogOK, Logs
<1>4. SlabOK
  <2>1. slab \in [Ids -> Links \cup {None}] /\ \A id \in Ids : ~Used(id)
    BY DEF Init, Used
  <2>2. MaxConnections \in Nat /\ free = [i \in 1 .. MaxConnections |-> i - 1]
    BY BrokerAssumption DEF Init
  <2>3. free \in Seq(Ids) /\ DOMAIN free = 1 .. MaxConnections
    BY <2>2 DEF Ids
  <2>4. IsInjective(free)
    BY <2>2 DEF IsInjective
  <2>5. Range(free) = Ids
    <3>1. \A id \in Ids : id + 1 \in 1 .. MaxConnections /\ free[id + 1] = id
      BY <2>2 DEF Ids
    <3>2. \A i \in 1 .. MaxConnections : free[i] \in Ids
      BY <2>2 DEF Ids
    <3> QED
      BY <2>3, <3>1, <3>2 DEF Range
  <2> QED
    BY <2>1, <2>3, <2>4, <2>5 DEF SlabOK
<1> HIDE DEF e
<1>5. fd.waiters = e /\ fd.known = FALSE /\ fd.log = EmptyLog
      /\ fd = [known |-> FALSE, log |-> EmptyLog, waiters |-> e]
  OBVIOUS
<1>6. fd \in FilterData(data)
  BY <1>1, <1>3, <1>5 DEF FilterData
<1> HIDE DEF fd
<1>7. DataOK
  BY <1>2, <1>6 DEF DataOK
<1>8. ParkedOK
  BY <1>1, <1>2, <1>5 DEF ParkedOK
<1>9. ConnOK
  BY FreshOK DEF Init, ConnOK
<1>10. TablesOK
  BY <1>1, <1>2 DEF Init, TablesOK
<1>11. GraveOK
  BY DEF Init, GraveOK
<1>12. TaskOK /\ TaskHolds /\ task.step = "none"
  <2>1. task = NoTask
    BY DEF Init
  <2>2. NoTask.step = "none" /\ NoTask.notes = <<>>
    BY DEF NoTask
  <2>3. Range(task.notes) = {}
    BY <2>1, <2>2, NilRange
  <2> QED
    BY <2>1, <2>2, <2>3, NoTaskOK DEF TaskOK, TaskHolds
<1>13. ChanOK
  <2>1. 0 <= ChannelSize
    BY BrokerAssumption
  <2> QED
    BY <1>1, <1>2, <2>1 DEF ChanOK
<1>14. BuffersOK
  <2>1. link \in [Links -> LinkStates] /\ npub \in 0 .. MaxPublish
    <3>1. 0 \in Ids /\ MaxPublish \in Nat
      BY BrokerAssumption DEF Ids
    <3>2. [pc |-> "idle", id |-> 0] \in LinkStates
      BY <3>1 DEF LinkStates
    <3>3. link = [l \in Links |-> [pc |-> "idle", id |-> 0]] /\ npub = 0
      BY DEF Init
    <3> QED
      BY <3>1, <3>2, <3>3
  <2> QED
    BY <1>1, <1>2, <2>1 DEF BuffersOK
<1>15. GreetingOK
  <2>1. \A l \in Links : link[l].pc = "idle"
    BY DEF Init
  <2> QED
    BY <2>1 DEF GreetingOK, Greeted
<1>16. IdleOK
  <2>1. \A l \in Links : outbuf[l] = e /\ ~Live(l)
    <3>1. \A id \in Ids : slab[id] = None
      BY DEF Init
    <3> QED
      BY <1>2, <3>1, BrokerAssumption DEF Live
  <2> QED
    BY <1>1, <1>2, <1>12, <2>1 DEF IdleOK, Known, e
<1> QED
  BY <1>4, <1>7, <1>8, <1>9, <1>10, <1>11, <1>12, <1>13, <1>14, <1>15, <1>16 DEF BrokerType

-----------------------------------------------------------------------------
(* Links and clients *)

\* What the router keeps to itself, while it does nothing.
LEMMA RouterIdles ==
    ASSUME BrokerType, UNCHANGED routerVars
    PROVE  /\ SlabOK' /\ DataOK' /\ ParkedOK' /\ ConnOK' /\ TablesOK' /\ GraveOK' /\ TaskOK'
           /\ TaskHolds'
           /\ slab' = slab /\ conn' = conn /\ task' = task /\ data' = data
<1>1. UNCHANGED <<slab, free, conn, submap, data, routes, retain, ready, grave, task>>
  BY DEF routerVars
<1> QED
  BY <1>1, Frames DEF BrokerType

\* A link posts an event.
LEMMA PostKeeps ==
    ASSUME BrokerType, NEW l \in Links, NEW k \in {"Connect", "DeviceData", "Disconnect", "Ready"},
           Post(k, l)
    PROVE  /\ ChanOK' /\ Len(chan') = Len(chan) + 1 /\ Len(chan) \in Nat
           /\ chan' = Append(chan, Event(k, link[l].id, l))
           /\ \A i \in 1 .. Len(chan) : chan'[i] = chan[i]
           /\ chan'[Len(chan) + 1] = Event(k, link[l].id, l)
           /\ Event(k, link[l].id, l) = [k |-> k, id |-> link[l].id, link |-> l]
           /\ Event(k, link[l].id, l) \in Events
<1> DEFINE e == Event(k, link[l].id, l)
<1>1. chan \in Seq(Events) /\ ChannelSize \in Nat /\ Len(chan) < ChannelSize
      /\ chan' = Append(chan, e) /\ e = [k |-> k, id |-> link[l].id, link |-> l]
  BY BrokerAssumption DEF BrokerType, ChanOK, Post, Room, Event
<1>2. link[l].id \in Ids
  BY DEF BrokerType, BuffersOK, LinkStates
<1>3. e \in Events
  BY <1>1, <1>2 DEF Events
<1> HIDE DEF e
<1> QED
  BY <1>1, <1>3 DEF ChanOK, e

\* What is said of a link the step does not touch.
LEMMA OtherLink ==
    ASSUME NEW l \in Links, Greeted(l), Known(l) => link[l].pc # "idle",
           link'[l] = link[l], outbuf'[l] = outbuf[l], conn'[l] = conn[l], slab' = slab,
           task' = task,
           \A i \in 1 .. Len(chan') : chan'[i].k = "Connect" /\ chan'[i].link = l =>
              i \in 1 .. Len(chan) /\ chan[i] = chan'[i]
    PROVE  Greeted(l)' /\ (Known(l) => link[l].pc # "idle")'
<1>1. Live(l)' <=> Live(l)
  BY DEF Live
<1>2. Known(l)' => Known(l)
  BY <1>1 DEF Known
<1> QED
  BY <1>1, <1>2 DEF Greeted

\* LinkBuilder::build posts a Connect for a link nobody knows yet.
LEMMA DialKeeps ==
    ASSUME BrokerType, NEW l \in Links, Dial(l)
    PROVE  BrokerType'
<1> USE DEF BrokerType
<1>1. /\ SlabOK' /\ DataOK' /\ ParkedOK' /\ ConnOK' /\ TablesOK' /\ GraveOK' /\ TaskOK'
      /\ TaskHolds' /\ slab' = slab /\ conn' = conn /\ task' = task
  BY RouterIdles DEF Dial, NoRouter
<1>2. /\ ChanOK' /\ Len(chan') = Len(chan) + 1 /\ Len(chan) \in Nat
      /\ \A i \in 1 .. Len(chan) : chan'[i] = chan[i]
      /\ chan'[Len(chan) + 1].link = l
  <2>1. Post("Connect", l)
    BY DEF Dial
  <2>2. /\ ChanOK' /\ Len(chan') = Len(chan) + 1 /\ Len(chan) \in Nat
        /\ \A i \in 1 .. Len(chan) : chan'[i] = chan[i]
        /\ chan'[Len(chan) + 1] = Event("Connect", link[l].id, l)
    BY <2>1, PostKeeps
  <2> QED
    BY <2>2 DEF Event
<1>3. /\ link' = [link EXCEPT ![l].pc = "connecting"] /\ link[l].pc = "idle"
      /\ UNCHANGED <<inbuf, outbuf, owes, npub>>
  BY DEF Dial
<1>4. BuffersOK'
  BY <1>3 DEF BuffersOK, LinkStates
<1>5. link' \in [Links -> LinkStates] /\ link'[l].pc = "connecting"
      /\ \A m \in Links : m # l => link'[m] = link[m]
  BY <1>3 DEF BuffersOK, LinkStates
<1>6. ASSUME NEW m \in Links PROVE Greeted(m)' /\ (Known(m) => link[m].pc # "idle")'
  <2>1. CASE m = l
    <3>1. ~Known(l)
      BY <1>3 DEF IdleOK
    <3>2. outbuf'[l] = <<>> /\ ~Live(l)'
      BY <1>1, <1>3, <3>1 DEF Known, Live
    <3> QED
      BY <1>5, <2>1, <3>2 DEF Greeted, Greets
  <2>2. CASE m # l
    <3>1. \A i \in 1 .. Len(chan') : chan'[i].link = m => i \in 1 .. Len(chan) /\ chan[i] = chan'[i]
      BY <1>2, <2>2
    <3>2. Greeted(m) /\ (Known(m) => link[m].pc # "idle")
      BY DEF GreetingOK, IdleOK
    <3> QED
      BY <1>1, <1>3, <1>5, <2>2, <3>1, <3>2, OtherLink
  <2> QED
    BY <2>1, <2>2
<1>7. GreetingOK' /\ IdleOK'
  BY <1>6 DEF GreetingOK, IdleOK
<1> QED
  BY <1>1, <1>2, <1>4, <1>7

\* The id a link takes over is the one its ConnAck holds.
LEMMA EstablishedKeeps ==
    ASSUME BrokerType, NEW l \in Links, Established(l)
    PROVE  BrokerType'
<1> USE DEF BrokerType
<1>1. /\ SlabOK' /\ DataOK' /\ ParkedOK' /\ ConnOK' /\ TablesOK' /\ GraveOK' /\ TaskOK'
      /\ TaskHolds' /\ slab' = slab /\ conn' = conn /\ task' = task
  BY RouterIdles DEF Established, NoRouter
<1>2. /\ link[l].pc = "connecting" /\ outbuf[l] # <<>>
      /\ link' = [link EXCEPT ![l] = [pc |-> "up", id |-> Head(outbuf[l]).pkid]]
      /\ outbuf' = [outbuf EXCEPT ![l] = Tail(@)]
      /\ UNCHANGED <<chan, inbuf, owes, npub>>
  BY DEF Established
<1>3. Head(outbuf[l]).pkid \in Ids
  BY <1>2 DEF GreetingOK, Greeted, Greets
<1>4. Tail(outbuf[l]) \in Seq(Notifications)
  BY <1>2 DEF BuffersOK
<1>5. BuffersOK'
  BY <1>2, <1>3, <1>4 DEF BuffersOK, LinkStates
<1>6. link'[l].pc = "up" /\ \A m \in Links : m # l => link'[m] = link[m] /\ outbuf'[m] = outbuf[m]
  BY <1>2 DEF BuffersOK
<1>7. ASSUME NEW m \in Links PROVE Greeted(m)' /\ (Known(m) => link[m].pc # "idle")'
  <2>1. CASE m = l
    BY <1>6, <2>1 DEF Greeted
  <2>2. CASE m # l
    <3>1. Greeted(m) /\ (Known(m) => link[m].pc # "idle")
      BY DEF GreetingOK, IdleOK
    <3> QED
      BY <1>1, <1>2, <1>6, <2>2, <3>1, OtherLink
  <2> QED
    BY <2>1, <2>2
<1>8. ChanOK'
  BY <1>2, Frames
<1>9. GreetingOK' /\ IdleOK'
  BY <1>7 DEF GreetingOK, IdleOK
<1> QED
  BY <1>1, <1>5, <1>8, <1>9

\* A link that is up, or has been, stays one that has begun.
LEMMA UpLink ==
    ASSUME BrokerType, NEW l \in Links, NEW s \in LinkStates,
           s.pc \in {"up", "wake", "closed"},
           link' = [link EXCEPT ![l] = s],
           \A m \in Links : m # l => outbuf'[m] = outbuf[m],
           UNCHANGED routerVars,
           \A i \in 1 .. Len(chan') : chan'[i].k = "Connect" => i \in 1 .. Len(chan) /\ chan[i] = chan'[i]
    PROVE  GreetingOK' /\ IdleOK' /\ link' \in [Links -> LinkStates]
<1> USE DEF BrokerType
<1>1. slab' = slab /\ conn' = conn /\ task' = task
  BY DEF routerVars
<1>2. link' \in [Links -> LinkStates] /\ link'[l] = s /\ \A m \in Links : m # l => link'[m] = link[m]
  BY DEF BuffersOK
<1>3. ASSUME NEW m \in Links PROVE Greeted(m)' /\ (Known(m) => link[m].pc # "idle")'
  <2>1. CASE m = l
    BY <1>2, <2>1 DEF Greeted
  <2>2. CASE m # l
    <3>1. Greeted(m) /\ (Known(m) => link[m].pc # "idle")
      BY DEF GreetingOK, IdleOK
    <3> QED
      BY <1>1, <1>2, <2>2, <3>1, OtherLink
  <2> QED
    BY <2>1, <2>2
<1> QED
  BY <1>2, <1>3 DEF GreetingOK, IdleOK

\* Link::start: a packet goes into the shared buffer.
LEMMA ReadKeeps ==
    ASSUME BrokerType, NEW l \in Links, NEW p \in Packets, Read(l, p),
           owes' \in [Links -> Seq(Replies)], npub' \in 0 .. MaxPublish
    PROVE  BrokerType'
<1> USE DEF BrokerType
<1>1. UNCHANGED routerVars /\ UNCHANGED <<link, outbuf>> /\ link[l].pc = "up"
      /\ inbuf' = [inbuf EXCEPT ![l] = Append(@, p)] /\ Post("DeviceData", l)
  BY DEF Read, NoRouter
<1>2. /\ SlabOK' /\ DataOK' /\ ParkedOK' /\ ConnOK' /\ TablesOK' /\ GraveOK' /\ TaskOK'
      /\ TaskHolds'
  BY <1>1, RouterIdles
<1>3. /\ ChanOK' /\ Len(chan') = Len(chan) + 1 /\ Len(chan) \in Nat
      /\ \A i \in 1 .. Len(chan) : chan'[i] = chan[i]
      /\ chan'[Len(chan) + 1].k = "DeviceData"
  <2>1. /\ ChanOK' /\ Len(chan') = Len(chan) + 1 /\ Len(chan) \in Nat
        /\ \A i \in 1 .. Len(chan) : chan'[i] = chan[i]
        /\ chan'[Len(chan) + 1] = Event("DeviceData", link[l].id, l)
    BY <1>1, PostKeeps
  <2> QED
    BY <2>1 DEF Event
<1>4. link[l] \in LinkStates /\ link' = [link EXCEPT ![l] = link[l]]
  BY <1>1 DEF BuffersOK
<1>5. \A i \in 1 .. Len(chan') : chan'[i].k = "Connect" => i \in 1 .. Len(chan) /\ chan[i] = chan'[i]
  BY <1>3
<1> DEFINE s == link[l]
<1>6. s \in LinkStates /\ s.pc \in {"up", "wake", "closed"} /\ link' = [link EXCEPT ![l] = s]
      /\ link[l].pc \in {"up", "wake"} /\ \A m \in Links : m # l => outbuf'[m] = outbuf[m]
  BY <1>1, <1>4
<1> HIDE DEF s
<1>7. GreetingOK' /\ IdleOK'
  BY <1>1, <1>5, <1>6, UpLink
<1>8. inbuf' \in [Links -> Seq(Packets)]
  BY <1>1 DEF BuffersOK
<1>9. BuffersOK'
  BY <1>1, <1>8 DEF BuffersOK
<1> QED
  BY <1>2, <1>3, <1>7, <1>9

\* What a client answers are acknowledgements.
LEMMA AnswersType ==
    ASSUME NEW ns \in Seq(Notifications)
    PROVE  Answers(ns) \in Seq(Replies)
<1> DEFINE rs == Seq(Replies)
           as == [i \in 1 .. Len(ns) |-> Answer(ns[i])]
<1>1. ASSUME NEW n \in Notifications PROVE Answer(n) \in rs
  <2>1. CASE n \in Acks
    <3>1. n.pkid \in Nat /\ n.k # "Forward"
      BY <2>1 DEF Acks
    <3>2. \A k \in {"PubAck", "PubRec", "PubRel", "PubComp"} : <<[k |-> k, pkid |-> n.pkid]>> \in rs
      BY <3>1 DEF Replies
    <3>3. <<>> \in rs
      OBVIOUS
    <3>4. CASE n.k = "PubRec"
      BY <3>1, <3>2, <3>4 DEF Answer
    <3>5. CASE n.k = "PubRel"
      BY <3>1, <3>2, <3>5 DEF Answer
    <3>6. CASE n.k \notin {"PubRec", "PubRel"}
      <4>1. Answer(n) = <<>>
        BY <3>1, <3>6 DEF Answer
      <4> QED
        BY <3>3, <4>1
    <3> QED
      BY <3>4, <3>5, <3>6
  <2>2. CASE n \in ForwardsOut
    <3>1. n.pkid \in Nat /\ n.k = "Forward"
      BY <2>2 DEF ForwardsOut
    <3>2. \A k \in {"PubAck", "PubRec", "PubRel", "PubComp"} : <<[k |-> k, pkid |-> n.pkid]>> \in rs
      BY <3>1 DEF Replies
    <3>3. <<>> \in rs
      OBVIOUS
    <3>4. CASE n.qos = 1
      BY <3>1, <3>2, <3>4 DEF Answer
    <3>5. CASE n.qos = 2
      BY <3>1, <3>2, <3>5 DEF Answer
    <3>6. CASE n.qos \notin {1, 2}
      <4>1. Answer(n) = <<>>
        BY <3>1, <3>6 DEF Answer
      <4> QED
        BY <3>3, <4>1
    <3> QED
      BY <3>4, <3>5, <3>6
  <2>3. CASE n = Unschedule
    <3>1. n.k = "Unschedule"
      BY <2>3 DEF Unschedule
    <3>2. Answer(n) = <<>> /\ <<>> \in rs
      BY <3>1 DEF Answer
    <3> QED
      BY <3>2
  <2> QED
    BY <2>1, <2>2, <2>3 DEF Notifications
<1>2. as \in Seq(rs)
  <2>1. Len(ns) \in Nat /\ \A i \in 1 .. Len(ns) : ns[i] \in Notifications
    OBVIOUS
  <2>2. \A i \in 1 .. Len(ns) : Answer(ns[i]) \in rs
    BY <1>1, <2>1
  <2> HIDE DEF rs
  <2> QED
    BY <2>1, <2>2
<1> HIDE DEF as
<1>3. FlattenSeq(as) \in Seq(Replies)
  BY <1>2, FlattenType
<1> QED
  BY <1>3 DEF Answers, as

\* The other steps of a link.
LEMMA LinkStepKeeps ==
    ASSUME BrokerType, NEW l \in Links,
           Refused(l) \/ Exchange(l) \/ Wake(l) \/ Dropped(l) \/ Fail(l) \/ GreetFails(l)
    PROVE  BrokerType'
<1> USE DEF BrokerType
<1>1. UNCHANGED routerVars /\ UNCHANGED <<inbuf, npub>>
  BY DEF Refused, Exchange, Wake, Dropped, Fail, GreetFails, NoRouter
<1>2. /\ SlabOK' /\ DataOK' /\ ParkedOK' /\ ConnOK' /\ TablesOK' /\ GraveOK' /\ TaskOK'
      /\ TaskHolds'
  BY <1>1, RouterIdles
<1>3. link[l].id \in Ids /\ link \in [Links -> LinkStates] /\ link[l] \in LinkStates
  BY DEF BuffersOK, LinkStates
<1>4. \A m \in Links : m # l => outbuf'[m] = outbuf[m]
  BY DEF Refused, Exchange, Wake, Dropped, Fail, GreetFails, BuffersOK
<1>5. PICK pc \in {"up", "wake", "closed"} : link' = [link EXCEPT ![l].pc = pc]
  <2>1. CASE Refused(l) \/ Dropped(l) \/ Fail(l) \/ GreetFails(l)
    BY <2>1 DEF Refused, Dropped, Fail, GreetFails
  <2>2. CASE Wake(l)
    BY <2>2 DEF Wake
  <2>3. CASE Exchange(l)
    BY <2>3 DEF Exchange
  <2> QED
    BY <2>1, <2>2, <2>3
<1> DEFINE s == [pc |-> pc, id |-> link[l].id]
<1>6. s \in LinkStates /\ s.pc \in {"up", "wake", "closed"} /\ link' = [link EXCEPT ![l] = s]
  <2>1. s \in LinkStates /\ s.pc = pc
    BY <1>3 DEF LinkStates
  <2>2. [link[l] EXCEPT !.pc = pc] = s
    BY <1>3 DEF LinkStates
  <2>3. link' = [link EXCEPT ![l] = [link[l] EXCEPT !.pc = pc]]
    BY <1>3, <1>5
  <2> HIDE DEF s
  <2> QED
    BY <2>1, <2>2, <2>3
<1> HIDE DEF s
<1>7. ChanOK' /\ \A i \in 1 .. Len(chan') : chan'[i].k = "Connect" => i \in 1 .. Len(chan) /\ chan[i] = chan'[i]
  <2>1. CASE Refused(l) \/ Exchange(l) \/ Dropped(l) \/ GreetFails(l)
    <3>1. chan' = chan
      BY <2>1 DEF Refused, Exchange, Dropped, GreetFails
    <3> QED
      BY <3>1, Frames
  <2>2. ASSUME NEW k \in {"Disconnect", "Ready"}, Post(k, l)
        PROVE  ChanOK' /\ \A i \in 1 .. Len(chan') :
                  chan'[i].k = "Connect" => i \in 1 .. Len(chan) /\ chan[i] = chan'[i]
    <3>1. /\ ChanOK' /\ Len(chan') = Len(chan) + 1 /\ Len(chan) \in Nat
          /\ \A i \in 1 .. Len(chan) : chan'[i] = chan[i]
          /\ chan'[Len(chan) + 1] = Event(k, link[l].id, l)
      BY <2>2, PostKeeps
    <3>2. chan'[Len(chan) + 1].k = k
      BY <3>1 DEF Event
    <3> QED
      BY <3>1, <3>2
  <2>3. CASE Wake(l)
    <3>1. Post("Ready", l)
      BY <2>3 DEF Wake
    <3> QED
      BY <2>2, <3>1
  <2>4. CASE Fail(l)
    <3>1. Post("Disconnect", l)
      BY <2>4 DEF Fail
    <3> QED
      BY <2>2, <3>1
  <2> QED
    BY <2>1, <2>3, <2>4
<1>8. GreetingOK' /\ IdleOK' /\ link' \in [Links -> LinkStates]
  BY <1>1, <1>4, <1>6, <1>7, UpLink
<1>9. BuffersOK'
  <2>1. CASE Refused(l) \/ Wake(l) \/ Dropped(l) \/ Fail(l)
    <3>1. UNCHANGED <<outbuf, owes>>
      BY <2>1 DEF Refused, Wake, Dropped, Fail
    <3> QED
      BY <1>1, <1>8, <3>1 DEF BuffersOK
  <2>2. CASE Exchange(l)
    <3>1. outbuf[l] \in Seq(Notifications) /\ owes \in [Links -> Seq(Replies)] /\ owes[l] \in Seq(Replies)
          /\ outbuf \in [Links -> Seq(Notifications)]
      BY DEF BuffersOK
    <3>2. Answers(outbuf[l]) \in Seq(Replies)
      BY <3>1, AnswersType
    <3>3. owes[l] \o Answers(outbuf[l]) \in Seq(Replies)
      BY <3>1, <3>2
    <3>4. outbuf' = [outbuf EXCEPT ![l] = <<>>]
          /\ owes' = IF l \in Local THEN owes ELSE [owes EXCEPT ![l] = owes[l] \o Answers(outbuf[l])]
      BY <2>2, <3>1 DEF Exchange
    <3>5. outbuf' \in [Links -> Seq(Notifications)]
      BY <3>1, <3>4
    <3>6. owes' \in [Links -> Seq(Replies)]
      BY <3>1, <3>3, <3>4
    <3> QED
      BY <1>1, <1>8, <3>5, <3>6 DEF BuffersOK
  <2>3. CASE GreetFails(l)
    <3> DEFINE N == Notifications
    <3> DEFINE o == outbuf[l]
    <3>1. o \in Seq(N) /\ outbuf \in [Links -> Seq(N)]
      BY DEF BuffersOK
    <3>2. o # <<>> /\ outbuf' = [outbuf EXCEPT ![l] = Tail(o)] /\ owes' = owes
      BY <2>3, <3>1 DEF GreetFails
    <3> HIDE DEF N, o
    <3>3. Tail(o) \in Seq(N)
      BY <3>1, <3>2
    <3>4. outbuf' \in [Links -> Seq(N)]
      BY <3>1, <3>2, <3>3
    <3> QED
      BY <1>1, <1>8, <3>2, <3>4 DEF BuffersOK, N
  <2> QED
    BY <2>1, <2>2, <2>3
<1> QED
  BY <1>2, <1>7, <1>8, <1>9

\* What clients send are packets.
LEMMA ClientKeeps ==
    ASSUME BrokerType, NEW l \in Links,
           \/ ClientAnswer(l)
           \/ \E t \in Topics, q \in PublishQos : ClientPublish(l, t, q)
           \/ \E p \in ControlPackets : ClientControl(l, p)
    PROVE  BrokerType'
<1>1. owes \in [Links -> Seq(Replies)] /\ npub \in 0 .. MaxPublish /\ MaxPublish \in Nat
      /\ owes[l] \in Seq(Replies)
  BY BrokerAssumption DEF BrokerType, BuffersOK
<1>2. CASE ClientAnswer(l)
  <2> DEFINE p == Head(owes[l])
  <2>1. p \in Packets /\ Tail(owes[l]) \in Seq(Replies)
    BY <1>1, <1>2 DEF ClientAnswer, Packets
  <2>2. Read(l, p) /\ owes' = [owes EXCEPT ![l] = Tail(owes[l])] /\ npub' = npub
    BY <1>1, <1>2 DEF ClientAnswer
  <2>3. owes' \in [Links -> Seq(Replies)]
    BY <1>1, <2>1, <2>2
  <2> HIDE DEF p
  <2> QED
    BY <1>1, <2>1, <2>2, <2>3, ReadKeeps
<1>3. ASSUME NEW t \in Topics, NEW q \in PublishQos, ClientPublish(l, t, q) PROVE BrokerType'
  <2> DEFINE p == [k |-> "Publish", topic |-> t, qos |-> q, m |-> npub + 1]
  <2>1. Read(l, p) /\ npub' = npub + 1 /\ npub < MaxPublish /\ owes' = owes
    BY <1>3 DEF ClientPublish
  <2>2. npub + 1 \in Messages /\ npub' \in 0 .. MaxPublish
    BY <1>1, <2>1 DEF Messages
  <2>3. p \in Packets
    BY <2>2 DEF Packets, Publishes
  <2> HIDE DEF p
  <2> QED
    BY <1>1, <2>1, <2>2, <2>3, ReadKeeps
<1>4. ASSUME NEW p \in ControlPackets, ClientControl(l, p) PROVE BrokerType'
  <2>1. Read(l, p) /\ npub' = npub /\ owes' = owes /\ p \in Packets
    BY <1>4 DEF ClientControl, Packets
  <2> QED
    BY <1>1, <2>1, ReadKeeps
<1> QED
  BY <1>2, <1>3, <1>4

-----------------------------------------------------------------------------
(* Connections that end, sessions that are kept *)

\* The values of a function on a finite set are finitely many.
LEMMA ImageFinite ==
    ASSUME NEW S, IsFiniteSet(S), NEW f
    PROVE  IsFiniteSet({f[x] : x \in S})
<1> DEFINE T == {f[x] : x \in S}
           g == [x \in S |-> f[x]]
<1>1. g \in Surjection(S, T)
  BY DEF Surjection
<1> HIDE DEF T, g
<1>2. IsFiniteSet(T)
  BY <1>1, FS_Surjection
<1> QED
  BY <1>2 DEF T

\* A sequence has finitely many members.
LEMMA RangeFinite ==
    ASSUME NEW S, NEW s \in Seq(S)
    PROVE  IsFiniteSet(Range(s)) /\ Range(s) \subseteq S
<1>1. Len(s) \in Nat /\ DOMAIN s = 1 .. Len(s) /\ \A i \in 1 .. Len(s) : s[i] \in S
  OBVIOUS
<1>2. IsFiniteSet(1 .. Len(s))
  BY <1>1, FS_Interval
<1>3. IsFiniteSet({s[i] : i \in 1 .. Len(s)})
  BY <1>2, ImageFinite
<1> QED
  BY <1>1, <1>3 DEF Range

\* Putting a member in front.
LEMMA ConsFacts ==
    ASSUME NEW S, NEW s \in Seq(S), NEW x \in S
    PROVE  /\ <<x>> \o s \in Seq(S) /\ Len(s) \in Nat /\ Len(<<x>> \o s) = Len(s) + 1
           /\ (<<x>> \o s)[1] = x
           /\ \A i \in 1 .. Len(s) : (<<x>> \o s)[i + 1] = s[i]
           /\ Range(<<x>> \o s) = {x} \cup Range(s)
<1> DEFINE t == <<x>> \o s
<1>1. /\ t \in Seq(S) /\ Len(s) \in Nat /\ Len(t) = Len(s) + 1 /\ t[1] = x
      /\ DOMAIN t = 1 .. Len(s) + 1 /\ DOMAIN s = 1 .. Len(s)
      /\ \A i \in 1 .. Len(s) : t[i + 1] = s[i]
  OBVIOUS
<1> HIDE DEF t
<1>2. ASSUME NEW i \in 1 .. Len(s) + 1 PROVE t[i] \in {x} \cup Range(s)
  <2>1. CASE i = 1
    BY <1>1, <2>1
  <2>2. CASE i # 1
    <3>1. i - 1 \in 1 .. Len(s) /\ (i - 1) + 1 = i
      BY <1>1, <2>2
    <3>2. t[i] = s[i - 1]
      BY <1>1, <3>1
    <3> QED
      BY <1>1, <3>1, <3>2 DEF Range
  <2> QED
    BY <2>1, <2>2
<1>3. ASSUME NEW i \in 1 .. Len(s) PROVE s[i] \in Range(t)
  <2>1. i + 1 \in DOMAIN t /\ t[i + 1] = s[i]
    BY <1>1
  <2> QED
    BY <2>1 DEF Range
<1>4. x \in Range(t)
  <2>1. 1 \in DOMAIN t
    BY <1>1
  <2> QED
    BY <1>1, <2>1 DEF Range
<1>5. Range(t) \subseteq {x} \cup Range(s)
  BY <1>1, <1>2 DEF Range
<1>6. {x} \cup Range(s) \subseteq Range(t)
  BY <1>1, <1>3, <1>4 DEF Range
<1> QED
  BY <1>1, <1>5, <1>6 DEF t

\* The parked requests of a connection.
LEMMA ParkedFacts ==
    ASSUME DataOK, NEW id
    PROVE  IsFiniteSet(ParkedOf(id)) /\ ParkedOf(id) \subseteq RequestsIn(data)
<1> DEFINE Ws(f) == {w \in Range(data[f].waiters) : w.id = id}
           Rs(f) == {w.req : w \in Ws(f)}
           g == [f \in Filters |-> Rs(f)]
<1>1. ASSUME NEW f \in Filters PROVE IsFiniteSet(Rs(f)) /\ Rs(f) \subseteq RequestsIn(data)
  <2>1. data[f].waiters \in Seq(WaitersIn(data))
    BY DEF DataOK, FilterData
  <2>2. IsFiniteSet(Ws(f)) /\ Ws(f) \subseteq WaitersIn(data)
    <3>1. IsFiniteSet(Range(data[f].waiters)) /\ Range(data[f].waiters) \subseteq WaitersIn(data)
      BY <2>1, RangeFinite
    <3>2. Ws(f) \in SUBSET Range(data[f].waiters)
      OBVIOUS
    <3> QED
      BY <3>1, <3>2, FS_Subset
  <2> DEFINE h == [w \in Ws(f) |-> w.req]
  <2>3. Rs(f) = {h[w] : w \in Ws(f)}
    OBVIOUS
  <2>4. IsFiniteSet({h[w] : w \in Ws(f)})
    BY <2>2, ImageFinite
  <2>5. Rs(f) \subseteq RequestsIn(data)
    BY <2>2 DEF WaitersIn
  <2> QED
    BY <2>3, <2>4, <2>5
<1>2. IsFiniteSet({g[f] : f \in Filters})
  <2> HIDE DEF Rs, g
  <2>1. IsFiniteSet(Filters)
    BY BrokerAssumption
  <2> QED
    BY <2>1, ImageFinite
<1>3. ParkedOf(id) = UNION {g[f] : f \in Filters}
  BY DEF ParkedOf
<1>4. \A f \in Filters : g[f] = Rs(f)
  OBVIOUS
<1> HIDE DEF Rs, g
<1>5. \A T \in {g[f] : f \in Filters} : IsFiniteSet(T) /\ T \subseteq RequestsIn(data)
  BY <1>1, <1>4
<1> QED
  BY <1>2, <1>3, <1>5, FS_UNION

\* Retransmit changes where a request reads on, to a position of its log.
LEMMA RetransmitKeeps ==
    ASSUME NEW inflight \in Seq(InflightsIn(data)), NEW req \in RequestsIn(data)
    PROVE  Retransmit(inflight, req) \in RequestsIn(data) /\ Retransmit(inflight, req).f = req.f
<1> DEFINE u == Unacked(inflight, req.f)
           T == {e \in Range(inflight) : e.f = req.f /\ e.at # None}
<1>1. CASE u = <<>>
  BY <1>1 DEF Retransmit
<1>2. CASE u # <<>>
  <2>1. u = Where(inflight, T) /\ T \subseteq Range(inflight)
    BY DEF Unacked
  <2>2. u \in Seq(InflightsIn(data)) /\ Range(u) = Range(inflight) \cap T
    BY <2>1, WhereRange
  <2> DEFINE e == Head(u)
  <2> HIDE DEF u
  <2>3. e \in InflightsIn(data) /\ e \in Range(u)
    BY <1>2, <2>2, TailFacts
  <2>4. e.f = req.f /\ e.at # None
    BY <2>2, <2>3
  <2> HIDE DEF e
  <2>5. e.at \in Positions /\ Position(data[req.f].log, e.at)
    BY <2>3, <2>4 DEF InflightsIn
  <2>6. Retransmit(inflight, req) = [req EXCEPT !.cur = e.at]
    BY <1>2 DEF Retransmit, u, e
  <2> QED
    BY <2>5, <2>6 DEF RequestsIn
<1> QED
  BY <1>1, <1>2

\* What is kept of a connection is a session.
LEMMA SessionType ==
    ASSUME DataOK, ConnOK, NEW id \in Ids, slab[id] \in Links
    PROVE  Session(id) \in SessionsIn(data)
<1> DEFINE c == conn[slab[id]]
           R == RequestsIn(data)
           all == c.reqs \o SetToSeq(ParkedOf(id))
           rs == [i \in 1 .. Len(all) |-> Retransmit(c.inflight, all[i])]
<1>1. /\ c.reqs \in Seq(R) /\ c.inflight \in Seq(InflightsIn(data)) /\ c.subs \subseteq Filters
      /\ c.pubrels \in Seq(Nat)
  BY DEF ConnOK, ConnectionsIn
<1>2. SetToSeq(ParkedOf(id)) \in Seq(R)
  <2>1. IsFiniteSet(ParkedOf(id)) /\ ParkedOf(id) \subseteq R
    BY ParkedFacts
  <2>2. SetToSeq(ParkedOf(id)) \in Seq(ParkedOf(id))
    BY <2>1, SetToSeqLists
  <2>3. Seq(ParkedOf(id)) \subseteq Seq(R)
    BY <2>1, SeqMono
  <2> QED
    BY <2>2, <2>3
<1>3. Session(id) = [reqs |-> rs, subs |-> c.subs, pubrels |-> c.pubrels]
  BY DEF Session
<1>4. all \in Seq(R)
  BY <1>1, <1>2
<1> HIDE DEF all, c
<1>5. \A i \in 1 .. Len(all) : Retransmit(c.inflight, all[i]) \in R
  <2>1. \A i \in 1 .. Len(all) : all[i] \in R
    BY <1>4
  <2> QED
    BY <1>1, <2>1, RetransmitKeeps
<1>6. rs \in Seq(R)
  <2>1. Len(all) \in Nat
    BY <1>4
  <2> HIDE DEF R
  <2> QED
    BY <1>5, <2>1
<1> HIDE DEF rs
<1> QED
  BY <1>1, <1>3, <1>6 DEF SessionsIn

\* handle_disconnection
LEMMA DisconnectionKeeps ==
    ASSUME SlabOK, DataOK, ParkedOK, ConnOK, TablesOK, GraveOK, NEW id \in Ids, Used(id),
           Disconnection(id), UNCHANGED <<routes, retain, ready>>
    PROVE  /\ SlabOK' /\ DataOK' /\ ParkedOK' /\ ConnOK' /\ TablesOK' /\ GraveOK'
           /\ Grow(data, data') /\ Grow(data', data)
           /\ slab[id] \in Links
           /\ slab' = [slab EXCEPT ![id] = None]
           /\ \A l \in Links : l # slab[id] => conn'[l] = conn[l]
<1> DEFINE l == slab[id]
           c == ClientOf[l]
<1>1. /\ slab' = [slab EXCEPT ![id] = None]
      /\ free' = <<id>> \o free
      /\ conn' = [conn EXCEPT ![l] = Fresh]
      /\ data' = [f \in Filters |-> [data[f] EXCEPT !.waiters = WithoutId(@, id)]]
      /\ submap' = [f \in Filters |-> IF f \in conn[l].subs THEN submap[f] \ {id} ELSE submap[f]]
      /\ grave' = [grave EXCEPT ![c] = IF l \in Clean THEN None ELSE Session(id)]
  BY DEF Disconnection
<1>2. l \in Links /\ c \in Clients
  <2>1. l \in Links
    BY DEF SlabOK, Used
  <2> QED
    BY <2>1, BrokerAssumption
<1>3. SlabOK'
  <2>1. slab' \in [Ids -> Links \cup {None}] /\ \A i \in Ids : Used(i)' <=> Used(i) /\ i # id
    BY <1>1 DEF SlabOK, Used
  <2>2. \A i \in Ids : i # id => slab'[i] = slab[i]
    BY <1>1 DEF SlabOK
  <2>3. \A i, j \in Ids : Used(i)' /\ Used(j)' /\ ClientOf[slab'[i]] = ClientOf[slab'[j]] => i = j
    BY <2>1, <2>2 DEF SlabOK
  <2>4. free \in Seq(Ids) /\ IsInjective(free) /\ id \notin Range(free)
        /\ Range(free) = {i \in Ids : ~Used(i)}
    BY DEF SlabOK
  <2>5. /\ free' \in Seq(Ids) /\ Len(free) \in Nat /\ Len(free') = Len(free) + 1 /\ free'[1] = id
        /\ \A i \in 1 .. Len(free) : free'[i + 1] = free[i]
        /\ Range(free') = {id} \cup Range(free)
    BY <1>1, <2>4, ConsFacts
  <2>6. Range(free') = {i \in Ids : ~Used(i)'}
    BY <2>1, <2>4, <2>5
  <2>7. IsInjective(free')
    <3>1. DOMAIN free' = 1 .. Len(free) + 1 /\ DOMAIN free = 1 .. Len(free)
      BY <2>4, <2>5
    <3>2. \A i \in 1 .. Len(free) : free[i] # id
      BY <2>4, <3>1 DEF Range
    <3> SUFFICES ASSUME NEW a \in 1 .. Len(free) + 1, NEW b \in 1 .. Len(free) + 1,
                        free'[a] = free'[b]
                 PROVE  a = b
      BY <3>1 DEF IsInjective
    <3>3. \A i \in 1 .. Len(free) + 1 : i # 1 =>
             i - 1 \in 1 .. Len(free) /\ free'[i] = free[i - 1]
      <4> SUFFICES ASSUME NEW i \in 1 .. Len(free) + 1, i # 1
                   PROVE  i - 1 \in 1 .. Len(free) /\ free'[i] = free[i - 1]
        OBVIOUS
      <4>1. i - 1 \in 1 .. Len(free) /\ (i - 1) + 1 = i
        BY <2>5
      <4> QED
        BY <2>5, <4>1
    <3>4. CASE a = 1 \/ b = 1
      BY <2>5, <3>2, <3>3, <3>4
    <3>5. CASE a # 1 /\ b # 1
      <4>1. free[a - 1] = free[b - 1] /\ a - 1 \in DOMAIN free /\ b - 1 \in DOMAIN free
        BY <3>1, <3>3, <3>5
      <4>2. a - 1 = b - 1
        BY <2>4, <4>1 DEF IsInjective
      <4> QED
        BY <2>5, <4>2
    <3> QED
      BY <3>4, <3>5
  <2> QED
    BY <2>1, <2>3, <2>5, <2>6, <2>7 DEF SlabOK
<1>4. ASSUME NEW f \in Filters
      PROVE  /\ data'[f].log = data[f].log /\ data'[f].known = data[f].known
             /\ data'[f] = [data[f] EXCEPT !.waiters = WithoutId(data[f].waiters, id)]
             /\ data[f] \in FilterData(data)
             /\ WithoutId(data[f].waiters, id) \in Seq(WaitersIn(data))
             /\ data'[f].waiters = WithoutId(data[f].waiters, id)
             /\ \A w \in Range(data'[f].waiters) : w \in Range(data[f].waiters) /\ w.id # id
  <2>1. data[f] \in FilterData(data) /\ data[f].waiters \in Seq(WaitersIn(data))
    BY DEF DataOK, FilterData
  <2> DEFINE ws == data[f].waiters
             T == {w \in Range(ws) : w.id # id}
             new == Where(ws, T)
  <2>2. data'[f] = [data[f] EXCEPT !.waiters = new] /\ new = WithoutId(ws, id)
    BY <1>1 DEF WithoutId
  <2>3. new \in Seq(WaitersIn(data)) /\ Range(new) = Range(ws) \cap T
    BY <2>1, WhereRange
  <2> HIDE DEF new
  <2>4. data'[f].waiters = new /\ data'[f].log = data[f].log /\ data'[f].known = data[f].known
    BY <2>1, <2>2 DEF FilterData
  <2> QED
    BY <2>1, <2>2, <2>3, <2>4
<1>5. Grow(data, data') /\ Grow(data', data)
  BY <1>4 DEF Grow
<1>6. /\ RequestsIn(data) \subseteq RequestsIn(data') /\ WaitersIn(data) \subseteq WaitersIn(data')
      /\ ConnectionsIn(data) \subseteq ConnectionsIn(data') /\ SessionsIn(data) \subseteq SessionsIn(data')
  BY <1>5, GrowKeeps
<1>7. DataOK'
  <2>1. Seq(WaitersIn(data)) \subseteq Seq(WaitersIn(data'))
    BY <1>6, SeqMono
  <2>2. ASSUME NEW f \in Filters PROVE data'[f] \in FilterData(data')
    <3>1. WithoutId(data[f].waiters, id) \in Seq(WaitersIn(data')) /\ data[f] \in FilterData(data)
          /\ data'[f] = [data[f] EXCEPT !.waiters = WithoutId(data[f].waiters, id)]
      BY <1>4, <2>1
    <3> QED
      BY <3>1 DEF FilterData
  <2>3. data' = [f \in Filters |-> data'[f]]
    BY <1>1
  <2> QED
    BY <2>2, <2>3 DEF DataOK
<1>8. ParkedOK'
  <2> SUFFICES ASSUME NEW f \in Filters, NEW w \in Range(data'[f].waiters)
               PROVE  Used(w.id)' /\ w.req.f = f
    BY DEF ParkedOK
  <2>1. w \in Range(data[f].waiters) /\ w.id # id
    BY <1>4
  <2>2. Used(w.id) /\ w.req.f = f /\ w.id \in Ids
    <3>1. data[f].waiters \in Seq(WaitersIn(data))
      BY DEF DataOK, FilterData
    <3>2. Range(data[f].waiters) \subseteq WaitersIn(data)
      BY <3>1, RangeFinite
    <3>3. w.id \in Ids
      BY <2>1, <3>2 DEF WaitersIn
    <3> QED
      BY <2>1, <3>3 DEF ParkedOK
  <2> QED
    BY <1>1, <2>1, <2>2 DEF Used, SlabOK
<1>9. ConnOK'
  BY <1>1, <1>2, <1>6, FreshOK DEF ConnOK
<1>10. TablesOK'
  BY <1>1 DEF TablesOK
<1>11. GraveOK'
  <2>1. Session(id) \in SessionsIn(data)
    BY <1>2, SessionType
  <2> QED
    BY <1>1, <1>2, <1>6, <2>1 DEF GraveOK
<1>12. \A m \in Links : m # l => conn'[m] = conn[m]
  BY <1>1 DEF ConnOK
<1> QED
  BY <1>1, <1>2, <1>3, <1>5, <1>7, <1>8, <1>9, <1>10, <1>11, <1>12

-----------------------------------------------------------------------------
(* Packets *)

\* Acknowledgements that are there stay the first to be sent.
AcksKeep(c, d) == c.acks # <<>> => d.acks # <<>> /\ Head(d.acks) = Head(c.acks)

\* A step of the router does not touch what a link is told first.
LEMMA RouterLink ==
    ASSUME NEW l \in Links, Greeted(l), Known(l) => link[l].pc # "idle",
           link'[l] = link[l],
           \/ outbuf'[l] = outbuf[l]
           \/ outbuf[l] # <<>> /\ outbuf'[l] # <<>> /\ Head(outbuf'[l]) = Head(outbuf[l])
           \/ link[l].pc \notin {"idle", "connecting"},
           Live(l)' => Live(l) /\ AcksKeep(conn[l], conn'[l]),
           task'.step = "requests" /\ task'.link = l => task.step = "requests" /\ task.link = l,
           task'.step = "connect" /\ task'.link = l => Known(l),
           \A i \in 1 .. Len(chan') : chan'[i].k = "Connect" /\ chan'[i].link = l =>
              \E j \in 1 .. Len(chan) : chan[j] = chan'[i]
    PROVE  Greeted(l)' /\ (Known(l) => link[l].pc # "idle")'
<1>1. CASE link[l].pc \notin {"idle", "connecting"}
  BY <1>1 DEF Greeted
<1>2. CASE link[l].pc \in {"idle", "connecting"}
  <2>1. /\ outbuf'[l] = <<>> <=> outbuf[l] = <<>>
        /\ Greets(outbuf[l]) => Greets(outbuf'[l])
    BY <1>2 DEF Greets
  <2>2. Known(l)' => Known(l)
    BY <2>1 DEF Known
  <2>3. ASSUME conn[l].acks # <<>>, Greets(conn[l].acks), Live(l)'
        PROVE  conn'[l].acks # <<>> /\ Greets(conn'[l].acks)
    BY <2>3 DEF AcksKeep, Greets
  <2>4. Greeted(l)'
    BY <2>1, <2>3 DEF Greeted
  <2> QED
    BY <2>2, <2>4
<1> QED
  BY <1>1, <1>2

\* A connection stays one when a field of it is replaced.
LEMMA ConnEdits ==
    ASSUME NEW d, NEW c \in ConnectionsIn(d)
    PROVE  /\ \A v \in Statuses : [c EXCEPT !.status = v] \in ConnectionsIn(d)
           /\ \A v \in Seq(RequestsIn(d)) : [c EXCEPT !.reqs = v] \in ConnectionsIn(d)
           /\ \A v \in SUBSET Filters : [c EXCEPT !.subs = v] \in ConnectionsIn(d)
           /\ \A v \in Seq(Acks) : [c EXCEPT !.acks = v] \in ConnectionsIn(d)
           /\ \A v \in Seq(Publishes) : [c EXCEPT !.recorded = v] \in ConnectionsIn(d)
           /\ \A v \in Seq(InflightsIn(d)) : [c EXCEPT !.inflight = v] \in ConnectionsIn(d)
           /\ \A v \in Seq(Nat) : [c EXCEPT !.pubrels = v] \in ConnectionsIn(d)
           /\ \A v \in 0 .. MaxInflight - 1 : [c EXCEPT !.pkid = v] \in ConnectionsIn(d)
<1> DEFINE R == Seq(RequestsIn(d))
           A == Seq(Acks)
           P == Seq(Publishes)
           I == Seq(InflightsIn(d))
           N == Seq(Nat)
           K == 0 .. MaxInflight - 1
           F == SUBSET Filters
           S == Statuses
           C == ConnectionsIn(d)
<1>1. C = [status : S, reqs : R, subs : F, acks : A, recorded : P, inflight : I, pubrels : N, pkid : K]
  BY DEF ConnectionsIn
<1> HIDE DEF R, A, P, I, N, K, F, S, C
<1>2. c \in C
  BY DEF C
<1>3. /\ \A v \in S : [c EXCEPT !.status = v] \in C
      /\ \A v \in R : [c EXCEPT !.reqs = v] \in C
      /\ \A v \in F : [c EXCEPT !.subs = v] \in C
      /\ \A v \in A : [c EXCEPT !.acks = v] \in C
      /\ \A v \in P : [c EXCEPT !.recorded = v] \in C
      /\ \A v \in I : [c EXCEPT !.inflight = v] \in C
      /\ \A v \in N : [c EXCEPT !.pubrels = v] \in C
      /\ \A v \in K : [c EXCEPT !.pkid = v] \in C
  BY <1>1, <1>2
<1> QED
  BY <1>3 DEF R, A, P, I, N, K, F, S, C

\* The fields of a connection.
LEMMA ConnFields ==
    ASSUME NEW d, NEW c \in ConnectionsIn(d)
    PROVE  /\ c.status \in Statuses /\ c.reqs \in Seq(RequestsIn(d)) /\ c.subs \in SUBSET Filters
           /\ c.acks \in Seq(Acks) /\ c.recorded \in Seq(Publishes) /\ c.inflight \in Seq(InflightsIn(d))
           /\ c.pubrels \in Seq(Nat) /\ c.pkid \in 0 .. MaxInflight - 1
           /\ DOMAIN c = {"status", "reqs", "subs", "acks", "recorded", "inflight", "pubrels", "pkid"}
           /\ c = [status |-> c.status, reqs |-> c.reqs, subs |-> c.subs, acks |-> c.acks,
                   recorded |-> c.recorded, inflight |-> c.inflight, pubrels |-> c.pubrels,
                   pkid |-> c.pkid]
BY DEF ConnectionsIn

\* An acknowledgement is added behind those that are there.
LEMMA Acknowledges ==
    ASSUME NEW d, NEW c \in ConnectionsIn(d), NEW a \in Acks
    PROVE  LET e == [c EXCEPT !.acks = Append(@, a)]
           IN  e \in ConnectionsIn(d) /\ AcksKeep(c, e) /\ e.acks = Append(c.acks, a)
<1> DEFINE v == Append(c.acks, a)
           e == [c EXCEPT !.acks = v]
<1>1. c.acks \in Seq(Acks)
  BY ConnFields
<1>2. v \in Seq(Acks) /\ (c.acks # <<>> => v # <<>> /\ Head(v) = Head(c.acks))
  BY <1>1
<1> HIDE DEF v
<1>3. e \in ConnectionsIn(d)
  BY <1>2, ConnEdits
<1>4. e.acks = v
  BY ConnFields
<1> HIDE DEF e
<1>5. AcksKeep(c, e)
  BY <1>2, <1>4 DEF AcksKeep
<1> QED
  BY <1>3, <1>4, <1>5 DEF e, v

\* try_ready changes the reason a connection waits for, and nothing else.
LEMMA WokenFacts ==
    ASSUME NEW d, NEW c \in ConnectionsIn(d), NEW reason
    PROVE  /\ Woken(c, reason) \in ConnectionsIn(d)
           /\ Woken(c, reason).reqs = c.reqs /\ Woken(c, reason).subs = c.subs
           /\ Woken(c, reason).acks = c.acks /\ Woken(c, reason).recorded = c.recorded
           /\ Woken(c, reason).inflight = c.inflight /\ Woken(c, reason).pubrels = c.pubrels
           /\ Woken(c, reason).pkid = c.pkid
           /\ Woken(c, reason).status = IF Wakes(c.status, reason) THEN "Ready" ELSE c.status
           /\ AcksKeep(c, Woken(c, reason))
<1>1. [c EXCEPT !.status = "Ready"] \in ConnectionsIn(d)
  BY ConnEdits DEF Statuses
<1>2. CASE Wakes(c.status, reason)
  <2>1. Woken(c, reason) = [c EXCEPT !.status = "Ready"]
    BY <1>2 DEF Woken
  <2> QED
    BY <1>1, <1>2, <2>1, ConnFields DEF AcksKeep
<1>3. CASE ~Wakes(c.status, reason)
  <2>1. Woken(c, reason) = c
    BY <1>3 DEF Woken
  <2> QED
    BY <1>3, <2>1 DEF AcksKeep
<1> QED
  BY <1>2, <1>3

\* The ready queue holds ids.
LEMMA QueuedType ==
    ASSUME NEW q \in Seq(Ids), NEW id \in Ids, NEW c, NEW reason
    PROVE  Queued(q, id, c, reason) \in Seq(Ids)
BY DEF Queued

\* One connection is replaced.
LEMMA ConnPut ==
    ASSUME ConnOK, Grow(data, data'), NEW l \in Links, NEW c \in ConnectionsIn(data),
           AcksKeep(conn[l], c), conn' = [conn EXCEPT ![l] = c]
    PROVE  /\ ConnOK' /\ \A m \in Links : AcksKeep(conn[m], conn'[m])
           /\ conn'[l] = c /\ \A m \in Links : m # l => conn'[m] = conn[m]
<1>1. ConnectionsIn(data) \subseteq ConnectionsIn(data')
  BY GrowKeeps
<1>2. conn \in [Links -> ConnectionsIn(data)]
  BY DEF ConnOK
<1>3. conn' \in [Links -> ConnectionsIn(data')] /\ conn'[l] = c
      /\ \A m \in Links : m # l => conn'[m] = conn[m]
  BY <1>1, <1>2
<1> QED
  BY <1>3 DEF ConnOK, AcksKeep

\* A step of handle_device_payload: what it may change, and what of it has to
\* be shown.
LEMMA PayloadKeeps ==
    ASSUME BrokerType, InPayload, task.step \in {"packets", "notify"},
           DataOK', ParkedOK', TablesOK', ConnOK', Grow(data, data'),
           task' \in TasksIn(data'), task'.step \in {"packets", "notify"},
           task'.link = task.link, task'.id = task.id,
           \A w \in Range(task'.notes) : Used(w.id),
           \A l \in Links : AcksKeep(conn[l], conn'[l])
    PROVE  BrokerType'
<1> USE DEF BrokerType
<1>1. UNCHANGED <<slab, free, grave, chan, link, inbuf, outbuf, owes, npub>>
  BY DEF InPayload, linkVars
<1>2. SlabOK' /\ ChanOK' /\ BuffersOK'
  BY <1>1, Frames
<1>3. GraveOK'
  <2>1. SessionsIn(data) \subseteq SessionsIn(data')
    BY GrowKeeps
  <2> QED
    BY <1>1, <2>1 DEF GraveOK
<1>4. TaskOK' /\ TaskHolds'
  BY <1>1 DEF TaskOK, TaskHolds, Used
<1>5. ASSUME NEW l \in Links PROVE Greeted(l)' /\ (Known(l) => link[l].pc # "idle")'
  <2>1. Greeted(l) /\ (Known(l) => link[l].pc # "idle")
    BY DEF GreetingOK, IdleOK
  <2>2. Live(l)' => Live(l)
    BY <1>1 DEF Live
  <2> QED
    BY <1>1, <2>1, <2>2, RouterLink
<1> QED
  BY <1>2, <1>3, <1>4, <1>5 DEF GreetingOK, IdleOK

\* The task, one packet on.
LEMMA TaskFields ==
    ASSUME NEW d, NEW t \in TasksIn(d)
    PROVE  /\ t.step \in {"none", "connect", "packets", "notify", "requests", "panicked"}
           /\ t.id \in Ids /\ t.link \in Links \cup {None} /\ t.cache \in Seq(Packets)
           /\ t.force \in BOOLEAN /\ t.new \in BOOLEAN /\ t.bad \in BOOLEAN
           /\ t.notes \in Seq(WaitersIn(d)) /\ t.reqs \in Seq(RequestsIn(d)) /\ t.left \in Nat
           /\ DOMAIN t = {"step", "id", "link", "cache", "force", "new", "bad", "notes", "reqs", "left"}
BY DEF TasksIn

\* A field of a task may be replaced by a value of its type.
LEMMA TaskEdits ==
    ASSUME NEW d, NEW t \in TasksIn(d)
    PROVE  /\ \A v \in {"none", "connect", "packets", "notify", "requests", "panicked"} :
                 [t EXCEPT !.step = v] \in TasksIn(d)
           /\ \A v \in Ids : [t EXCEPT !.id = v] \in TasksIn(d)
           /\ \A v \in Links : [t EXCEPT !.link = v] \in TasksIn(d)
           /\ \A v \in Seq(Packets) : [t EXCEPT !.cache = v] \in TasksIn(d)
           /\ \A v \in BOOLEAN : [t EXCEPT !.force = v] \in TasksIn(d)
           /\ \A v \in BOOLEAN : [t EXCEPT !.new = v] \in TasksIn(d)
           /\ \A v \in BOOLEAN : [t EXCEPT !.bad = v] \in TasksIn(d)
           /\ \A v \in Seq(WaitersIn(d)) : [t EXCEPT !.notes = v] \in TasksIn(d)
           /\ \A v \in Seq(RequestsIn(d)) : [t EXCEPT !.reqs = v] \in TasksIn(d)
           /\ \A v \in Nat : [t EXCEPT !.left = v] \in TasksIn(d)
<1> DEFINE ST == {"none", "connect", "packets", "notify", "requests", "panicked"}
           CA == Seq(Packets)
           WA == Seq(WaitersIn(d))
           RE == Seq(RequestsIn(d))
           LI == Links \cup {None}
           ID == Ids
           TA == TasksIn(d)
<1>1. /\ TA = [step : ST, id : ID, link : LI, cache : CA, force : BOOLEAN, new : BOOLEAN,
               bad : BOOLEAN, notes : WA, reqs : RE, left : Nat]
      /\ Links \subseteq LI
  BY DEF TasksIn
<1> HIDE DEF ST, CA, WA, RE, LI, ID, TA
<1>2. t \in TA
  BY DEF TA
<1>3. /\ \A v \in ST : [t EXCEPT !.step = v] \in TA
      /\ \A v \in ID : [t EXCEPT !.id = v] \in TA
      /\ \A v \in Links : [t EXCEPT !.link = v] \in TA
      /\ \A v \in CA : [t EXCEPT !.cache = v] \in TA
      /\ \A v \in BOOLEAN : [t EXCEPT !.force = v] \in TA
      /\ \A v \in BOOLEAN : [t EXCEPT !.new = v] \in TA
      /\ \A v \in BOOLEAN : [t EXCEPT !.bad = v] \in TA
      /\ \A v \in WA : [t EXCEPT !.notes = v] \in TA
      /\ \A v \in RE : [t EXCEPT !.reqs = v] \in TA
      /\ \A v \in Nat : [t EXCEPT !.left = v] \in TA
  BY <1>1, <1>2
<1> QED
  BY <1>3 DEF ST, CA, WA, RE, LI, ID, TA

\* The members of two sequences, one behind the other.
LEMMA ConcatRange ==
    ASSUME NEW S, NEW s \in Seq(S), NEW u \in Seq(S)
    PROVE  s \o u \in Seq(S) /\ Range(s \o u) = Range(s) \cup Range(u)
<1> DEFINE t == s \o u
<1>1. /\ t \in Seq(S) /\ Len(s) \in Nat /\ Len(u) \in Nat /\ Len(t) = Len(s) + Len(u)
      /\ DOMAIN t = 1 .. Len(s) + Len(u) /\ DOMAIN s = 1 .. Len(s) /\ DOMAIN u = 1 .. Len(u)
      /\ \A i \in 1 .. Len(s) : t[i] = s[i]
      /\ \A i \in 1 .. Len(u) : t[Len(s) + i] = u[i]
  OBVIOUS
<1> HIDE DEF t
<1>2. ASSUME NEW i \in 1 .. Len(s) + Len(u) PROVE t[i] \in Range(s) \cup Range(u)
  <2>1. CASE i <= Len(s)
    <3>1. i \in 1 .. Len(s)
      BY <1>1, <2>1
    <3> QED
      BY <1>1, <3>1 DEF Range
  <2>2. CASE i > Len(s)
    <3>1. i - Len(s) \in 1 .. Len(u) /\ Len(s) + (i - Len(s)) = i
      BY <1>1, <2>2
    <3>2. t[i] = u[i - Len(s)]
      BY <1>1, <3>1
    <3> QED
      BY <1>1, <3>1, <3>2 DEF Range
  <2> QED
    BY <1>1, <2>1, <2>2
<1>3. ASSUME NEW i \in 1 .. Len(s) PROVE s[i] \in Range(t)
  <2>1. i \in DOMAIN t
    BY <1>1
  <2> QED
    BY <1>1, <2>1 DEF Range
<1>4. ASSUME NEW i \in 1 .. Len(u) PROVE u[i] \in Range(t)
  <2>1. Len(s) + i \in DOMAIN t
    BY <1>1
  <2> QED
    BY <1>1, <2>1 DEF Range
<1>5. Range(t) \subseteq Range(s) \cup Range(u)
  BY <1>1, <1>2 DEF Range
<1>6. Range(s) \subseteq Range(t) /\ Range(u) \subseteq Range(t)
  BY <1>1, <1>3, <1>4 DEF Range
<1> QED
  BY <1>1, <1>5, <1>6 DEF t

\* What the handling of a packet leaves of the task.
Onward(t) ==
    /\ t \in TasksIn(data) /\ t.step = "packets" /\ t.link = task.link /\ t.id = task.id
    /\ t.notes = task.notes

\* What holds while a packet of a connection is handled.
LEMMA PacketOn ==
    ASSUME BrokerType, NEW p, NEW kinds, Packet(p, kinds)
    PROVE  /\ Onward(Taken) /\ Onward(TakenForced) /\ Onward(TakenBad)
           /\ p \in Packets /\ p.k \in kinds /\ p = Head(task.cache)
           /\ task.step = "packets" /\ task.link \in Links /\ task.id \in Ids
           /\ slab[task.id] = task.link /\ Used(task.id) /\ conn[task.link] \in ConnectionsIn(data)
           /\ ~task.bad
<1> USE DEF BrokerType
<1>1. task \in TasksIn(data) /\ task.step = "packets" /\ task.cache # <<>> /\ p = Head(task.cache)
      /\ p.k \in kinds /\ ~task.bad
  BY DEF TaskOK, Packet
<1>2. task.cache \in Seq(Packets) /\ task.id \in Ids
  BY <1>1, TaskFields
<1>3. p \in Packets /\ Tail(task.cache) \in Seq(Packets)
  BY <1>1, <1>2
<1>4. task.link \in Links /\ slab[task.id] = task.link
  BY <1>1 DEF TaskHolds
<1>5. Used(task.id)
  BY <1>4, BrokerAssumption DEF Used
<1> DEFINE e == <<>>
           tl == Tail(task.cache)
           t1 == [task EXCEPT !.cache = tl]
           t2 == [task EXCEPT !.cache = e]
<1>6. e \in Seq(Packets)
  OBVIOUS
<1> HIDE DEF e, tl
<1>7. t1 \in TasksIn(data) /\ t2 \in TasksIn(data)
  BY <1>1, <1>3, <1>6, TaskEdits DEF tl
<1>8. [t1 EXCEPT !.force = TRUE] \in TasksIn(data) /\ [t2 EXCEPT !.bad = TRUE] \in TasksIn(data)
  BY <1>7, TaskEdits
<1>9. /\ Taken = t1 /\ TakenForced = [t1 EXCEPT !.force = TRUE] /\ TakenBad = [t2 EXCEPT !.bad = TRUE]
  BY DEF Taken, TakenForced, TakenBad, tl, e
<1>10. Onward(Taken) /\ Onward(TakenForced) /\ Onward(TakenBad)
  <2>1. DOMAIN task = {"step", "id", "link", "cache", "force", "new", "bad", "notes", "reqs", "left"}
    BY <1>1, TaskFields
  <2> QED
    BY <1>1, <1>7, <1>8, <1>9, <2>1 DEF Onward
<1> QED
  BY <1>1, <1>2, <1>3, <1>4, <1>5, <1>10 DEF ConnOK

\* A step that replaces the connection it is about, and nothing of the logs.
LEMMA PacketKeeps ==
    ASSUME BrokerType, InPayload, NEW p, NEW kinds, Packet(p, kinds),
           NEW c \in ConnectionsIn(data), AcksKeep(conn[task.link], c),
           conn' = [conn EXCEPT ![task.link] = c], data' = data, Onward(task'), TablesOK'
    PROVE  BrokerType'
<1>1. task.step = "packets" /\ task.link \in Links
  BY PacketOn
<1>2. Grow(data, data') /\ data' = data
  BY DEF Grow
<1>3. SlabOK /\ DataOK /\ ParkedOK /\ ConnOK /\ TaskHolds /\ slab' = slab
  BY DEF BrokerType, InPayload
<1>4. DataOK' /\ ParkedOK'
  BY <1>2, <1>3, Frames
<1>5. ConnOK' /\ \A m \in Links : AcksKeep(conn[m], conn'[m])
  BY <1>1, <1>2, <1>3, ConnPut
<1>6. task' \in TasksIn(data') /\ task'.step = "packets" /\ task'.link = task.link
      /\ task'.id = task.id /\ task'.notes = task.notes
  BY <1>2 DEF Onward
<1>7. \A w \in Range(task'.notes) : Used(w.id)
  BY <1>3, <1>6 DEF TaskHolds
<1> QED
  BY <1>1, <1>2, <1>4, <1>5, <1>6, <1>7, PayloadKeeps

\* The filters a message goes to.
LEMMA RoutedFacts ==
    ASSUME TablesOK, NEW t \in Topics
    PROVE  /\ Routed(t) \subseteq Filters /\ IsFiniteSet(Routed(t))
           /\ SetToSeq(Routed(t)) \in Seq(Filters) /\ Range(SetToSeq(Routed(t))) = Routed(t)
<1>1. Routed(t) \subseteq Filters
  BY BrokerAssumption DEF Routed, TablesOK
<1>2. IsFiniteSet(Routed(t))
  BY <1>1, BrokerAssumption, FS_Subset
<1>3. SetToSeq(Routed(t)) \in Seq(Routed(t)) /\ Range(SetToSeq(Routed(t))) = Routed(t)
  BY <1>2, SetToSeqLists
<1> DEFINE fs == SetToSeq(Routed(t))
           R == Routed(t)
<1> HIDE DEF fs, R
<1>4. fs \in Seq(R) => fs \in Seq(Filters)
  BY <1>1, SeqMono DEF R
<1> QED
  BY <1>1, <1>2, <1>3, <1>4 DEF fs, R

\* What is taken out of the logs of some filters.
LEMMA WaitersOfType ==
    ASSUME DataOK, ParkedOK, NEW fs \in Seq(Filters)
    PROVE  /\ WaitersOf(fs) \in Seq(WaitersIn(data))
           /\ \A w \in Range(WaitersOf(fs)) : Used(w.id)
<1> DEFINE W == {w \in WaitersIn(data) : Used(w.id)}
           ss == [i \in 1 .. Len(fs) |-> data[fs[i]].waiters]
<1>1. ASSUME NEW f \in Filters PROVE data[f].waiters \in Seq(W)
  <2> DEFINE ws == data[f].waiters
  <2>1. ws \in Seq(WaitersIn(data))
    BY DEF DataOK, FilterData
  <2>2. \A w \in Range(ws) : Used(w.id)
    BY DEF ParkedOK
  <2> HIDE DEF ws
  <2>3. Len(ws) \in Nat /\ ws \in [1 .. Len(ws) -> WaitersIn(data)] /\ DOMAIN ws = 1 .. Len(ws)
    BY <2>1
  <2>4. \A i \in 1 .. Len(ws) : ws[i] \in W
    BY <2>2, <2>3 DEF Range
  <2> HIDE DEF W
  <2>5. ws \in Seq(W)
    BY <2>1, <2>3, <2>4
  <2> QED
    BY <2>5 DEF ws
<1>2. ss \in Seq(Seq(W))
  <2>1. Len(fs) \in Nat /\ \A i \in 1 .. Len(fs) : fs[i] \in Filters
    OBVIOUS
  <2> DEFINE SW == Seq(W)
  <2>2. \A i \in 1 .. Len(fs) : data[fs[i]].waiters \in SW
    BY <1>1, <2>1
  <2> HIDE DEF SW
  <2>3. ss \in Seq(SW)
    BY <2>1, <2>2
  <2> QED
    BY <2>3 DEF SW
<1> HIDE DEF W, ss
<1>3. FlattenSeq(ss) \in Seq(W)
  BY <1>2, FlattenType
<1>4. WaitersOf(fs) = FlattenSeq(ss)
  BY DEF WaitersOf, ss
<1>5. W \subseteq WaitersIn(data)
  BY DEF W
<1>6. Range(FlattenSeq(ss)) \subseteq W /\ Seq(W) \subseteq Seq(WaitersIn(data))
  BY <1>3, <1>5, RangeFinite, SeqMono
<1> QED
  BY <1>3, <1>4, <1>6 DEF W

\* append_to_commitlog keeps what waits on the logs and what is taken out.
LEMMA AppendToLogKeeps ==
    ASSUME BrokerType, NEW m \in Messages, NEW t \in Topics, NEW next, Onward(next),
           AppendToLog(m, t, next), UNCHANGED slab
    PROVE  /\ DataOK' /\ ParkedOK' /\ Grow(data, data')
           /\ routes' \in [Topics -> SUBSET Filters] /\ retain' \in [Topics -> Messages \cup {None}]
           /\ task' \in TasksIn(data') /\ task'.step = "packets" /\ task'.link = task.link
           /\ task'.id = task.id /\ \A w \in Range(task'.notes) : Used(w.id)
           /\ task'.notes = task.notes \o WaitersOf(SetToSeq(Routed(t)))
<1> USE DEF BrokerType
<1> DEFINE R == Routed(t)
           ws == WaitersOf(SetToSeq(Routed(t)))
<1>1. /\ routes' = [routes EXCEPT ![t] = R]
      /\ data' = [f \in Filters |-> IF f \in R
                    THEN [data[f] EXCEPT !.log = LogAppend(@, m), !.waiters = <<>>] ELSE data[f]]
      /\ retain' = [retain EXCEPT ![t] = IF m \in Empty THEN None ELSE IF m \in Retained THEN m ELSE @]
      /\ task' = [next EXCEPT !.new = TRUE, !.notes = @ \o ws]
  BY DEF AppendToLog
<1>2. R \subseteq Filters /\ SetToSeq(R) \in Seq(Filters)
  BY RoutedFacts
<1>3. ws \in Seq(WaitersIn(data)) /\ \A w \in Range(ws) : Used(w.id)
  BY <1>2, WaitersOfType
<1>4. routes' \in [Topics -> SUBSET Filters] /\ retain' \in [Topics -> Messages \cup {None}]
  <2>1. routes \in [Topics -> SUBSET Filters] /\ retain \in [Topics -> Messages \cup {None}]
    BY DEF TablesOK
  <2> HIDE DEF R
  <2> QED
    BY <1>1, <1>2, <2>1
<1> HIDE DEF R, ws
<1>5. ASSUME NEW f \in Filters
      PROVE  /\ data[f] \in FilterData(data) /\ LogOK(data[f].log, Messages)
             /\ data[f].waiters \in Seq(WaitersIn(data))
  BY DEF DataOK, FilterData, Logs
<1>6. ASSUME NEW f \in R
      PROVE  /\ LogAppend(data[f].log, m) \in Logs /\ data'[f].log = LogAppend(data[f].log, m)
             /\ data'[f].waiters = <<>> /\ data'[f].known = data[f].known
             /\ data'[f] = [known |-> data[f].known, log |-> LogAppend(data[f].log, m), waiters |-> <<>>]
             /\ \A pos : Position(data[f].log, pos) => Position(LogAppend(data[f].log, m), pos)
  <2> DEFINE new == LogAppend(data[f].log, m)
  <2>1. f \in Filters /\ data[f] \in FilterData(data) /\ LogOK(data[f].log, Messages)
    BY <1>2, <1>5
  <2>2. LogOK(new, Messages) /\ \A pos : Position(data[f].log, pos) => Position(new, pos)
    BY <2>1, AppendKeepsLog
  <2> HIDE DEF new
  <2>3. new \in Logs
    BY <2>2 DEF LogOK, Logs
  <2>4. data'[f] = [data[f] EXCEPT !.log = LogAppend(data[f].log, m), !.waiters = <<>>]
    BY <1>1, <2>1
  <2>5. data'[f] = [data[f] EXCEPT !.log = new, !.waiters = <<>>]
    BY <2>4 DEF new
  <2>6. data'[f] = [known |-> data[f].known, log |-> new, waiters |-> <<>>]
    BY <2>1, <2>5 DEF FilterData
  <2>7. data'[f].log = new /\ data'[f].waiters = <<>> /\ data'[f].known = data[f].known
    BY <2>6
  <2> QED
    BY <2>2, <2>3, <2>6, <2>7 DEF new
<1>7. ASSUME NEW f \in Filters, f \notin R PROVE data'[f] = data[f]
  BY <1>1, <1>7
<1>8. Grow(data, data')
  BY <1>6, <1>7 DEF Grow
<1>9. WaitersIn(data) \subseteq WaitersIn(data') /\ TasksIn(data) \subseteq TasksIn(data')
      /\ Seq(WaitersIn(data)) \subseteq Seq(WaitersIn(data'))
  <2>1. WaitersIn(data) \subseteq WaitersIn(data') /\ TasksIn(data) \subseteq TasksIn(data')
    BY <1>8, GrowKeeps
  <2> QED
    BY <2>1, SeqMono
<1>10. DataOK'
  <2>1. ASSUME NEW f \in Filters PROVE data'[f] \in FilterData(data')
    <3>1. CASE f \in R
      <4> DEFINE e == <<>>
      <4>1. e \in Seq(WaitersIn(data'))
        OBVIOUS
      <4>2. data[f].known \in BOOLEAN /\ LogAppend(data[f].log, m) \in Logs
            /\ data'[f] = [known |-> data[f].known, log |-> LogAppend(data[f].log, m), waiters |-> e]
        BY <1>5, <1>6, <3>1 DEF FilterData
      <4> HIDE DEF e
      <4> QED
        BY <4>1, <4>2 DEF FilterData
    <3>2. CASE f \notin R
      <4>1. data'[f] = data[f] /\ data[f] \in FilterData(data)
        BY <1>5, <1>7, <3>2
      <4> QED
        BY <1>9, <4>1 DEF FilterData
    <3> QED
      BY <3>1, <3>2
  <2>2. data' = [f \in Filters |-> data'[f]]
    BY <1>1
  <2> QED
    BY <2>1, <2>2 DEF DataOK
<1>11. ParkedOK'
  <2>1. \A f \in R : Range(data'[f].waiters) = {}
    BY <1>6, NilRange
  <2>2. \A id : Used(id)' <=> Used(id)
    BY DEF Used
  <2>3. \A f \in Filters : f \notin R => \A w \in Range(data'[f].waiters) : Used(w.id) /\ w.req.f = f
    BY <1>7 DEF ParkedOK
  <2> QED
    BY <2>1, <2>2, <2>3 DEF ParkedOK
<1>12. next \in TasksIn(data) /\ next.step = "packets" /\ next.link = task.link /\ next.id = task.id
       /\ next.notes = task.notes
  BY DEF Onward
<1>13. task.notes \in Seq(WaitersIn(data)) /\ \A w \in Range(task.notes) : Used(w.id)
  <2>1. task \in TasksIn(data)
    BY DEF TaskOK
  <2> QED
    BY <2>1, TaskFields DEF TaskHolds
<1> DEFINE ns == task.notes \o ws
<1>14. ns \in Seq(WaitersIn(data)) /\ Range(ns) = Range(task.notes) \cup Range(ws)
  BY <1>3, <1>13, ConcatRange
<1>15. task' = [[next EXCEPT !.new = TRUE] EXCEPT !.notes = ns]
  BY <1>1, <1>12, TaskFields
<1> HIDE DEF ns
<1>16. task' \in TasksIn(data)
  BY <1>12, <1>14, <1>15, TaskEdits
<1>17. task'.step = "packets" /\ task'.link = task.link /\ task'.id = task.id /\ task'.notes = ns
  BY <1>12, <1>15, TaskFields
<1> QED
  BY <1>3, <1>4, <1>8, <1>9, <1>10, <1>11, <1>13, <1>14, <1>16, <1>17 DEF ns, ws

\* Packet::Publish with quality of service 0 or 1.
LEMMA PublishPacketKeeps ==
    ASSUME BrokerType, NEW p, PublishPacket(p)
    PROVE  BrokerType'
<1> USE DEF BrokerType
<1>1. /\ Packet(p, {"Publish"}) /\ InPayload /\ UNCHANGED <<submap, ready>>
      /\ conn' = IF p.qos = 1 THEN [conn EXCEPT ![task.link].acks = Append(@, Ack("PubAck", p.m))]
                 ELSE conn
      /\ AppendToLog(p.m, p.topic, IF p.qos = 1 THEN TakenForced ELSE Taken)
  BY DEF PublishPacket
<1> DEFINE next == IF p.qos = 1 THEN TakenForced ELSE Taken
           c == conn[task.link]
           d == [c EXCEPT !.acks = Append(@, Ack("PubAck", p.m))]
<1>2. /\ p \in Packets /\ p.k \in {"Publish"} /\ task.link \in Links /\ task.step = "packets"
      /\ Onward(Taken) /\ Onward(TakenForced) /\ c \in ConnectionsIn(data)
  BY <1>1, PacketOn
<1>3. p \in Publishes
  BY <1>2 DEF Packets, Replies, ControlPackets
<1>4. p.m \in Messages /\ p.topic \in Topics /\ p.m \in Nat
  BY <1>3, BrokerAssumption DEF Publishes, Messages
<1>5. UNCHANGED slab /\ Onward(next) /\ AppendToLog(p.m, p.topic, next)
  BY <1>1, <1>2 DEF InPayload
<1> HIDE DEF next
<1>6. /\ DataOK' /\ ParkedOK' /\ Grow(data, data')
      /\ routes' \in [Topics -> SUBSET Filters] /\ retain' \in [Topics -> Messages \cup {None}]
      /\ task' \in TasksIn(data') /\ task'.step = "packets" /\ task'.link = task.link
      /\ task'.id = task.id /\ \A w \in Range(task'.notes) : Used(w.id)
  BY <1>4, <1>5, AppendToLogKeeps
<1>7. TablesOK'
  BY <1>1, <1>6 DEF TablesOK
<1>8. Ack("PubAck", p.m) \in Acks
  BY <1>4 DEF Ack, Acks
<1>9. d \in ConnectionsIn(data) /\ AcksKeep(c, d) /\ AcksKeep(c, c)
  BY <1>2, <1>8, Acknowledges DEF AcksKeep
<1>10. conn \in [Links -> ConnectionsIn(data)]
  BY DEF ConnOK
<1>11. \E e \in ConnectionsIn(data) : AcksKeep(c, e) /\ conn' = [conn EXCEPT ![task.link] = e]
  <2>1. CASE p.qos = 1
    BY <1>1, <1>9, <2>1
  <2>2. CASE p.qos # 1
    <3>1. conn' = [conn EXCEPT ![task.link] = c]
      BY <1>1, <1>2, <1>10, <2>2
    <3> QED
      BY <1>2, <1>9, <3>1
  <2> QED
    BY <2>1, <2>2
<1> HIDE DEF c, d
<1>12. ConnOK' /\ \A m \in Links : AcksKeep(conn[m], conn'[m])
  BY <1>2, <1>6, <1>11, ConnPut DEF c
<1> QED
  BY <1>1, <1>2, <1>6, <1>7, <1>12, PayloadKeeps

\* Packet::Publish with quality of service 2.
LEMMA RecordPacketKeeps ==
    ASSUME BrokerType, NEW p, RecordPacket(p)
    PROVE  BrokerType'
<1> USE DEF BrokerType
<1> DEFINE c == conn[task.link]
           d == [c EXCEPT !.acks = Append(@, Ack("PubRec", p.m))]
           rec == Append(d.recorded, p)
           e == [d EXCEPT !.recorded = rec]
<1>1. /\ Packet(p, {"Publish"}) /\ InPayload /\ UNCHANGED <<submap, ready, data, routes, retain>>
      /\ conn' = [conn EXCEPT ![task.link].acks = Append(@, Ack("PubRec", p.m)),
                              ![task.link].recorded = Append(@, p)]
      /\ task' = TakenForced
  BY DEF RecordPacket
<1>2. /\ p \in Packets /\ p.k \in {"Publish"} /\ task.link \in Links /\ task.step = "packets"
      /\ Onward(task') /\ c \in ConnectionsIn(data)
  BY <1>1, PacketOn
<1>3. p \in Publishes
  BY <1>2 DEF Packets, Replies, ControlPackets
<1>4. Ack("PubRec", p.m) \in Acks
  BY <1>3, BrokerAssumption DEF Ack, Acks, Publishes, Messages
<1>5. d \in ConnectionsIn(data) /\ AcksKeep(c, d)
  BY <1>2, <1>4, Acknowledges
<1>6. conn' = [conn EXCEPT ![task.link] = e]
  BY <1>1, <1>2, ConnFields, ZenonT(40) DEF ConnOK
<1>7. d.acks # <<>> => Head(d.acks) = Head(d.acks)
  OBVIOUS
<1> HIDE DEF c, d
<1>8. rec \in Seq(Publishes)
  <2>1. d.recorded \in Seq(Publishes)
    BY <1>5, ConnFields
  <2> QED
    BY <1>3, <2>1
<1> HIDE DEF rec
<1>9. e \in ConnectionsIn(data) /\ e.acks = d.acks
  BY <1>5, <1>8, ConnEdits, ConnFields
<1> HIDE DEF e
<1>10. AcksKeep(c, e)
  BY <1>5, <1>9 DEF AcksKeep
<1>11. TablesOK'
  BY <1>1, Frames
<1>12. data' = data
  BY <1>1
<1> QED
  BY <1>1, <1>2, <1>6, <1>9, <1>10, <1>11, <1>12, PacketKeeps DEF c

\* Packet::PubRel: the oldest recorded message is appended.
LEMMA PubRelPacketKeeps ==
    ASSUME BrokerType, NEW p, PubRelPacket(p)
    PROVE  BrokerType'
<1> USE DEF BrokerType
<1> DEFINE c == conn[task.link]
           a == Ack("PubComp", p.pkid)
           d == [c EXCEPT !.acks = Append(@, a)]
<1>1. /\ Packet(p, {"PubRel"}) /\ InPayload /\ UNCHANGED <<submap>>
  BY DEF PubRelPacket
<1>2. /\ p \in Packets /\ p.k \in {"PubRel"} /\ task.link \in Links /\ task.step = "packets"
      /\ Onward(Taken) /\ Onward(TakenBad) /\ c \in ConnectionsIn(data) /\ task.id \in Ids
  BY <1>1, PacketOn
<1>3. p \in Replies
  BY <1>2 DEF Packets, Publishes, ControlPackets
<1>4. a \in Acks
  BY <1>3 DEF Ack, Acks, Replies
<1> HIDE DEF a
<1>5. d \in ConnectionsIn(data) /\ AcksKeep(c, d) /\ d.recorded = c.recorded
  <2>1. d \in ConnectionsIn(data) /\ AcksKeep(c, d)
    BY <1>2, <1>4, Acknowledges
  <2> QED
    BY <1>2, <2>1, ConnFields
<1>6. CASE c.recorded = <<>>
  <2>1. /\ conn' = [conn EXCEPT ![task.link].acks = Append(@, a)]
        /\ task' = TakenBad /\ UNCHANGED <<data, routes, retain, ready>>
    BY <1>6 DEF PubRelPacket, a
  <2>2. conn' = [conn EXCEPT ![task.link] = d]
    BY <1>2, <2>1
  <2>3. TablesOK'
    BY <1>1, <2>1, Frames
  <2> HIDE DEF d, c
  <2> QED
    BY <1>1, <1>2, <1>5, <2>1, <2>2, <2>3, PacketKeeps DEF c
<1>7. CASE c.recorded # <<>>
  <2> DEFINE rec == Tail(c.recorded)
             e == [d EXCEPT !.recorded = rec]
             g == Woken(e, "IncomingAck")
             h == Head(c.recorded)
  <2>1. /\ conn' = [conn EXCEPT ![task.link] =
                              Woken([c EXCEPT !.acks = Append(@, Ack("PubComp", p.pkid)),
                                              !.recorded = Tail(@)], "IncomingAck")]
        /\ ready' = Queued(ready, task.id, c, "IncomingAck")
        /\ AppendToLog(Head(c.recorded).m, Head(c.recorded).topic, Taken)
    BY <1>7 DEF PubRelPacket
  <2>2. conn' = [conn EXCEPT ![task.link] = g]
    <3>1. [c EXCEPT !.acks = Append(@, Ack("PubComp", p.pkid)), !.recorded = Tail(@)] = e
      BY <1>2, ConnFields DEF a
    <3>2. conn' = [conn EXCEPT ![task.link] = Woken([c EXCEPT !.acks = Append(@, Ack("PubComp", p.pkid)),
                                              !.recorded = Tail(@)], "IncomingAck")]
      BY <2>1
    <3> QED
      BY <3>1, <3>2
  <2>3. c.recorded \in Seq(Publishes)
    BY <1>2, ConnFields
  <2>4. rec \in Seq(Publishes) /\ h \in Publishes
    BY <1>7, <2>3
  <2>5. h.m \in Messages /\ h.topic \in Topics
    BY <2>4 DEF Publishes
  <2> HIDE DEF rec, d
  <2>6. e \in ConnectionsIn(data) /\ e.acks = d.acks
    BY <1>5, <2>4, ConnEdits, ConnFields
  <2> HIDE DEF e
  <2>7. g \in ConnectionsIn(data) /\ g.acks = e.acks
    BY <2>6, WokenFacts
  <2> HIDE DEF g
  <2>8. AcksKeep(c, g)
    BY <1>5, <2>6, <2>7 DEF AcksKeep
  <2>9. UNCHANGED slab
    BY <1>1 DEF InPayload
  <2> HIDE DEF c
  <2>10. AppendToLog(h.m, h.topic, Taken)
    BY <2>1
  <2> HIDE DEF h
  <2>11. /\ DataOK' /\ ParkedOK' /\ Grow(data, data')
         /\ routes' \in [Topics -> SUBSET Filters] /\ retain' \in [Topics -> Messages \cup {None}]
         /\ task' \in TasksIn(data') /\ task'.step = "packets" /\ task'.link = task.link
         /\ task'.id = task.id /\ \A w \in Range(task'.notes) : Used(w.id)
    BY <1>2, <2>5, <2>9, <2>10, AppendToLogKeeps
  <2>12. ready' \in Seq(Ids)
    <3>1. ready \in Seq(Ids)
      BY DEF TablesOK
    <3> QED
      BY <1>2, <2>1, <3>1, QueuedType
  <2>13. TablesOK'
    BY <1>1, <2>11, <2>12 DEF TablesOK
  <2>14. ConnOK' /\ \A m \in Links : AcksKeep(conn[m], conn'[m])
    BY <1>2, <2>2, <2>7, <2>8, <2>11, ConnPut DEF c
  <2> QED
    BY <1>1, <1>2, <2>11, <2>13, <2>14, PayloadKeeps
<1> QED
  BY <1>6, <1>7

\* What waits on one filter is replaced, its log is not.
LEMMA DataPut ==
    ASSUME DataOK, ParkedOK, UNCHANGED slab, NEW f \in Filters, NEW e \in FilterData(data),
           e.log = data[f].log, \A w \in Range(e.waiters) : Used(w.id) /\ w.req.f = f,
           data' = [data EXCEPT ![f] = e]
    PROVE  /\ DataOK' /\ ParkedOK' /\ Grow(data, data') /\ Grow(data', data)
           /\ data'[f] = e /\ \A g \in Filters : g # f => data'[g] = data[g]
<1>1. data \in [Filters -> FilterData(data)]
  BY DEF DataOK
<1>2. /\ data' \in [Filters -> FilterData(data)] /\ data'[f] = e
      /\ \A g \in Filters : g # f => data'[g] = data[g]
  BY <1>1
<1>3. Grow(data, data') /\ Grow(data', data)
  BY <1>2 DEF Grow
<1>4. WaitersIn(data) \subseteq WaitersIn(data')
  BY <1>3, GrowKeeps
<1>5. Seq(WaitersIn(data)) \subseteq Seq(WaitersIn(data'))
  BY <1>4, SeqMono
<1>6. FilterData(data) \subseteq FilterData(data')
  BY <1>5 DEF FilterData
<1>7. DataOK'
  BY <1>2, <1>6 DEF DataOK
<1>8. ParkedOK'
  BY <1>2 DEF ParkedOK, Used
<1> QED
  BY <1>2, <1>3, <1>7, <1>8

\* The position behind all messages is one a request may hold.
LEMMA FreshRequest ==
    ASSUME DataOK, NEW f \in Filters, NEW q \in 0 .. 2
    PROVE  Request(f, q, NextOffset(data[f].log)) \in RequestsIn(data)
<1> DEFINE pos == NextOffset(data[f].log)
<1>1. LogOK(data[f].log, Messages)
  BY DEF DataOK, FilterData, Logs
<1>2. Position(data[f].log, pos)
  BY <1>1, NextIsPosition
<1> HIDE DEF pos
<1>3. pos \in Positions
  BY <1>2 DEF Position, Positions
<1> QED
  BY <1>2, <1>3 DEF Request, RequestsIn, pos

\* Packet::Subscribe: the new request starts at the end of its log.
LEMMA SubscribePacketKeeps ==
    ASSUME BrokerType, NEW p, SubscribePacket(p)
    PROVE  BrokerType'
<1> USE DEF BrokerType
<1> DEFINE l == task.link
           f == p.filter
           fresh == f \notin conn[l].subs
           req == Request(f, p.qos, NextOffset(data[f].log))
           c0 == conn[l]
           a == Ack("SubAck", 0)
           c1 == [c0 EXCEPT !.acks = Append(@, a)]
           subs == c0.subs \cup {f}
           c2 == [c1 EXCEPT !.subs = subs]
           reqs == IF fresh THEN Append(c0.reqs, req) ELSE c0.reqs
           c == [c2 EXCEPT !.reqs = reqs]
           d == IF fresh THEN Woken(c, "NewFilter") ELSE c
           e == [data[f] EXCEPT !.known = TRUE]
<1>1. /\ Packet(p, {"Subscribe"}) /\ InPayload
      /\ data' = [data EXCEPT ![f].known = TRUE]
      /\ routes' = Joined(f)
      /\ submap' = [submap EXCEPT ![f] = @ \cup {task.id}]
      /\ ready' = IF fresh THEN Queued(ready, task.id, c, "NewFilter") ELSE ready
      /\ task' = TakenForced
      /\ UNCHANGED <<retain>>
  <2>1. [conn[l] EXCEPT !.acks = Append(@, Ack("SubAck", 0)), !.subs = @ \cup {f},
                        !.reqs = IF fresh THEN Append(@, req) ELSE @] = c
    <3>1. c0 \in ConnectionsIn(data)
      <4>1. Packet(p, {"Subscribe"})
        BY DEF SubscribePacket
      <4> QED
        BY <4>1, PacketOn
    <3> HIDE DEF req, fresh
    <3> QED
      BY <3>1, ConnFields DEF a
  <2> HIDE DEF c1, c2, c
  <2> QED
    BY <2>1 DEF SubscribePacket
<1>2. conn' = [conn EXCEPT ![l] = d]
  <2>1. [conn[l] EXCEPT !.acks = Append(@, Ack("SubAck", 0)), !.subs = @ \cup {f},
                        !.reqs = IF fresh THEN Append(@, req) ELSE @] = c
    <3>1. c0 \in ConnectionsIn(data)
      BY <1>1, PacketOn
    <3> HIDE DEF req, fresh
    <3> QED
      BY <3>1, ConnFields DEF a
  <2> HIDE DEF c1, c2, c
  <2> QED
    BY <2>1 DEF SubscribePacket
<1>3. /\ p \in Packets /\ p.k \in {"Subscribe"} /\ l \in Links /\ task.step = "packets"
      /\ Onward(TakenForced) /\ c0 \in ConnectionsIn(data) /\ task.id \in Ids
  BY <1>1, PacketOn
<1>4. f \in Filters /\ p.qos \in 0 .. 2
  <2>1. p \in [k : {"Subscribe"}, filter : Filters, qos : SubscribeQos]
    BY <1>3 DEF Packets, Publishes, Replies, ControlPackets
  <2> QED
    BY <2>1, BrokerAssumption
<1>5. req \in RequestsIn(data)
  BY <1>4, FreshRequest
<1>6. a \in Acks
  BY DEF Ack, Acks
<1>7. c1 \in ConnectionsIn(data) /\ AcksKeep(c0, c1)
  <2> HIDE DEF a
  <2> QED
    BY <1>3, <1>6, Acknowledges
<1>8. c0.subs \in SUBSET Filters /\ c0.reqs \in Seq(RequestsIn(data))
  BY <1>3, ConnFields
<1>9. subs \in SUBSET Filters /\ reqs \in Seq(RequestsIn(data))
  <2> HIDE DEF c0, req
  <2> QED
    BY <1>4, <1>5, <1>8
<1>10. data' = [data EXCEPT ![f] = e]
  BY <1>1, <1>4 DEF DataOK
<1> HIDE DEF subs, reqs, c1
<1>11. c2 \in ConnectionsIn(data) /\ c2.acks = c1.acks
  BY <1>7, <1>9, ConnEdits, ConnFields
<1> HIDE DEF c2
<1>12. c \in ConnectionsIn(data) /\ c.acks = c2.acks
  BY <1>9, <1>11, ConnEdits, ConnFields
<1> HIDE DEF c
<1>13. d \in ConnectionsIn(data) /\ d.acks = c.acks
  <2> HIDE DEF fresh
  <2> QED
    BY <1>12, WokenFacts
<1> HIDE DEF d
<1>14. AcksKeep(c0, d)
  BY <1>7, <1>11, <1>12, <1>13 DEF AcksKeep
<1>15. e \in FilterData(data) /\ e.log = data[f].log /\ e.waiters = data[f].waiters
       /\ e = [known |-> TRUE, log |-> data[f].log, waiters |-> data[f].waiters]
  <2> DEFINE W == Seq(WaitersIn(data))
             L == Logs
             o == data[f]
  <2>1. o \in FilterData(data) /\ FilterData(data) = [known : BOOLEAN, log : L, waiters : W]
    BY <1>4 DEF DataOK, FilterData
  <2> HIDE DEF W, L, o
  <2>2. e = [o EXCEPT !.known = TRUE]
    BY DEF o
  <2> HIDE DEF e
  <2>3. o.log \in L /\ o.waiters \in W /\ DOMAIN o = {"known", "log", "waiters"}
        /\ o = [known |-> o.known, log |-> o.log, waiters |-> o.waiters]
    BY <2>1
  <2>4. e = [known |-> TRUE, log |-> o.log, waiters |-> o.waiters]
    BY <2>2, <2>3
  <2>5. e.log = o.log /\ e.waiters = o.waiters
    BY <2>4
  <2>6. e \in FilterData(data)
    BY <2>1, <2>3, <2>4
  <2> QED
    BY <2>4, <2>5, <2>6 DEF o
<1>16. UNCHANGED slab /\ \A w \in Range(e.waiters) : Used(w.id) /\ w.req.f = f
  BY <1>1, <1>4, <1>15 DEF InPayload, ParkedOK
<1> HIDE DEF e, c0
<1>17. DataOK' /\ ParkedOK' /\ Grow(data, data')
  BY <1>4, <1>10, <1>15, <1>16, DataPut
<1>18. ConnOK' /\ \A m \in Links : AcksKeep(conn[m], conn'[m])
  BY <1>2, <1>3, <1>13, <1>14, <1>17, ConnPut DEF c0
<1>19. TasksIn(data) \subseteq TasksIn(data')
  BY <1>17, GrowKeeps
<1>20. /\ task' \in TasksIn(data') /\ task'.step = "packets" /\ task'.link = task.link
       /\ task'.id = task.id /\ \A w \in Range(task'.notes) : Used(w.id)
  BY <1>1, <1>3, <1>19 DEF Onward, TaskHolds
<1>21. TablesOK'
  <2>1. submap \in [Filters -> SUBSET Ids] /\ routes \in [Topics -> SUBSET Filters] /\ ready \in Seq(Ids)
        /\ retain \in [Topics -> Messages \cup {None}]
    BY DEF TablesOK
  <2>2. routes' \in [Topics -> SUBSET Filters]
    <3> HIDE DEF f
    <3> QED
      BY <1>1, <1>4, <2>1 DEF Joined
  <2>3. ready' \in Seq(Ids)
    <3>1. Queued(ready, task.id, c, "NewFilter") \in Seq(Ids)
      BY <1>3, <2>1, QueuedType
    <3> QED
      BY <1>1, <2>1, <3>1
  <2>4. submap' \in [Filters -> SUBSET Ids]
    <3> HIDE DEF f
    <3> QED
      BY <1>1, <1>3, <1>4, <2>1
  <2>5. retain' = retain
    BY <1>1
  <2> QED
    BY <2>1, <2>2, <2>3, <2>4, <2>5 DEF TablesOK
<1> QED
  BY <1>1, <1>3, <1>17, <1>18, <1>20, <1>21, PayloadKeeps

\* A step that leaves the connection and the logs alone.
LEMMA PacketKeepsAll ==
    ASSUME BrokerType, InPayload, NEW p, NEW kinds, Packet(p, kinds),
           UNCHANGED <<conn, data>>, Onward(task'), TablesOK'
    PROVE  BrokerType'
<1> DEFINE c == conn[task.link]
<1>1. c \in ConnectionsIn(data) /\ task.link \in Links
  BY PacketOn
<1>2. AcksKeep(c, c) /\ data' = data
  BY DEF AcksKeep
<1>3. conn' = [conn EXCEPT ![task.link] = c]
  BY <1>1 DEF BrokerType, ConnOK
<1> HIDE DEF c
<1> QED
  BY <1>1, <1>2, <1>3, PacketKeeps DEF c

\* What waits on a log loses the waiters of one connection.
LEMMA WithoutIdFacts ==
    ASSUME NEW S, NEW s \in Seq(S), NEW id
    PROVE  /\ WithoutId(s, id) \in Seq(S)
           /\ Range(WithoutId(s, id)) = {w \in Range(s) : w.id # id}
<1> DEFINE T == {w \in Range(s) : w.id # id}
<1>1. WithoutId(s, id) = Where(s, T) /\ T \subseteq Range(s)
  BY DEF WithoutId
<1>2. Where(s, T) \in Seq(S) /\ Range(Where(s, T)) = Range(s) \cap T
  BY WhereRange
<1> HIDE DEF T
<1>3. Range(s) \cap T = T
  BY <1>1
<1> QED
  BY <1>1, <1>2, <1>3 DEF T

\* Packet::Unsubscribe.
LEMMA UnsubscribePacketKeeps ==
    ASSUME BrokerType, NEW p, UnsubscribePacket(p)
    PROVE  BrokerType'
<1> USE DEF BrokerType
<1> DEFINE l == task.link
           f == p.filter
           c0 == conn[l]
           subs == c0.subs \ {f}
           c1 == [c0 EXCEPT !.subs = subs]
           reqs == NotOnFilter(c0.reqs, f)
           c2 == [c1 EXCEPT !.reqs = reqs]
           a == Ack("UnsubAck", 0)
           c == [c2 EXCEPT !.acks = Append(@, a)]
           ws == WithoutId(data[f].waiters, task.id)
           e == [data[f] EXCEPT !.waiters = ws]
<1>1. Packet(p, {"Unsubscribe"}) /\ InPayload /\ UNCHANGED <<routes, retain, ready>>
  BY DEF UnsubscribePacket
<1>2. /\ p \in Packets /\ p.k \in {"Unsubscribe"} /\ l \in Links /\ task.step = "packets"
      /\ Onward(Taken) /\ Onward(TakenForced) /\ c0 \in ConnectionsIn(data) /\ task.id \in Ids
  BY <1>1, PacketOn
<1>3. f \in Filters
  <2>1. p \in [k : {"Unsubscribe"}, filter : Filters]
    BY <1>2 DEF Packets, Publishes, Replies, ControlPackets
  <2> QED
    BY <2>1
<1>4. CASE task.id \notin submap[f]
  <2>1. task' = Taken /\ UNCHANGED <<submap, conn, data>>
    BY <1>4 DEF UnsubscribePacket
  <2>2. TablesOK'
    BY <1>1, <2>1, Frames
  <2> QED
    BY <1>1, <1>2, <2>1, <2>2, PacketKeepsAll
<1>5. CASE task.id \in submap[f]
  <2>1. /\ submap' = [submap EXCEPT ![f] = @ \ {task.id}]
        /\ conn' = [conn EXCEPT ![l].subs = @ \ {f}, ![l].reqs = NotOnFilter(@, f),
                                ![l].acks = Append(@, Ack("UnsubAck", 0))]
        /\ data' = [data EXCEPT ![f].waiters = WithoutId(@, task.id)]
        /\ task' = TakenForced
    BY <1>5 DEF UnsubscribePacket
  <2>2. conn' = [conn EXCEPT ![l] = c]
    <3>1. conn' = [conn EXCEPT ![l] = [c0 EXCEPT !.subs = @ \ {f}, !.reqs = NotOnFilter(@, f),
                                                 !.acks = Append(@, Ack("UnsubAck", 0))]]
      BY <1>2, <2>1, ConnFields DEF ConnOK
    <3>2. [c0 EXCEPT !.subs = @ \ {f}, !.reqs = NotOnFilter(@, f),
                     !.acks = Append(@, Ack("UnsubAck", 0))] = c
      <4> HIDE DEF c0
      <4> QED
        BY <1>2, ConnFields DEF a
    <3> HIDE DEF c
    <3> QED
      BY <3>1, <3>2
  <2>3. data' = [data EXCEPT ![f] = e]
    BY <1>3, <2>1 DEF DataOK
  <2>4. c0.subs \in SUBSET Filters /\ c0.reqs \in Seq(RequestsIn(data))
    BY <1>2, ConnFields
  <2>5. subs \in SUBSET Filters /\ reqs \in Seq(RequestsIn(data))
    <3> DEFINE T == {q \in Range(c0.reqs) : q.f # f}
    <3>1. reqs = Where(c0.reqs, T)
      BY DEF NotOnFilter
    <3> HIDE DEF c0, T, reqs
    <3>2. reqs \in Seq(RequestsIn(data))
      BY <2>4, <3>1, WhereRange
    <3> QED
      BY <2>4, <3>2
  <2> HIDE DEF subs, reqs, c0
  <2>6. c1 \in ConnectionsIn(data) /\ c1.acks = c0.acks
    BY <1>2, <2>5, ConnEdits, ConnFields, ZenonT(40)
  <2> HIDE DEF c1
  <2>7. c2 \in ConnectionsIn(data) /\ c2.acks = c0.acks
    BY <2>5, <2>6, ConnEdits, ConnFields
  <2> HIDE DEF c2
  <2>8. a \in Acks
    BY DEF Ack, Acks
  <2> HIDE DEF a
  <2>9. c \in ConnectionsIn(data) /\ AcksKeep(c2, c)
    BY <2>7, <2>8, Acknowledges
  <2> HIDE DEF c
  <2>10. AcksKeep(c0, c)
    BY <2>7, <2>9 DEF AcksKeep
  <2>11. data[f] \in FilterData(data) /\ data[f].waiters \in Seq(WaitersIn(data))
    BY <1>3 DEF DataOK, FilterData
  <2>12. ws \in Seq(WaitersIn(data)) /\ \A w \in Range(ws) : Used(w.id) /\ w.req.f = f
    <3>1. ws \in Seq(WaitersIn(data)) /\ Range(ws) = {w \in Range(data[f].waiters) : w.id # task.id}
      BY <2>11, WithoutIdFacts
    <3> HIDE DEF ws
    <3> QED
      BY <1>3, <3>1 DEF ParkedOK
  <2> HIDE DEF ws
  <2>13. e \in FilterData(data) /\ e.log = data[f].log /\ e.waiters = ws
    <3> DEFINE W == Seq(WaitersIn(data))
               L == Logs
               o == data[f]
    <3>1. o \in FilterData(data) /\ FilterData(data) = [known : BOOLEAN, log : L, waiters : W]
          /\ ws \in W
      BY <2>11, <2>12 DEF FilterData
    <3> HIDE DEF W, L, o
    <3>2. e = [o EXCEPT !.waiters = ws]
      BY DEF o
    <3> HIDE DEF e
    <3>3. e \in FilterData(data) /\ e.log = o.log /\ e.waiters = ws
      BY <3>1, <3>2
    <3> QED
      BY <3>3 DEF o
  <2> HIDE DEF e
  <2>14. UNCHANGED slab /\ \A w \in Range(e.waiters) : Used(w.id) /\ w.req.f = f
    BY <1>1, <2>12, <2>13 DEF InPayload
  <2>15. DataOK' /\ ParkedOK' /\ Grow(data, data')
    BY <1>3, <2>3, <2>13, <2>14, DataPut
  <2>16. ConnOK' /\ \A m \in Links : AcksKeep(conn[m], conn'[m])
    BY <1>2, <2>2, <2>9, <2>10, <2>15, ConnPut DEF c0
  <2>17. TasksIn(data) \subseteq TasksIn(data')
    BY <2>15, GrowKeeps
  <2>18. /\ task' \in TasksIn(data') /\ task'.step = "packets" /\ task'.link = task.link
         /\ task'.id = task.id /\ \A w \in Range(task'.notes) : Used(w.id)
    BY <1>2, <2>1, <2>17 DEF Onward, TaskHolds
  <2>19. TablesOK'
    <3>1. submap' \in [Filters -> SUBSET Ids]
      <4> HIDE DEF f
      <4> QED
        BY <1>3, <2>1 DEF TablesOK
    <3> QED
      BY <1>1, <3>1 DEF TablesOK
  <2> QED
    BY <1>1, <1>2, <2>15, <2>16, <2>18, <2>19, PayloadKeeps
<1> QED
  BY <1>4, <1>5

\* Packet::PubAck and PubRec: the oldest message in flight is taken out.
LEMMA AckPacketKeeps ==
    ASSUME BrokerType, NEW p, AckPacket(p)
    PROVE  BrokerType'
<1> USE DEF BrokerType
<1> DEFINE c == conn[task.link]
           tl == Tail(c.inflight)
           rest == [c EXCEPT !.inflight = tl]
           a == Ack("PubRel", p.pkid)
           r1 == [rest EXCEPT !.pubrels = Append(@, p.pkid)]
           r2 == [r1 EXCEPT !.acks = Append(@, a)]
           acked == IF p.k = "PubAck" THEN rest ELSE r2
<1>1. /\ Packet(p, {"PubAck", "PubRec"}) /\ InPayload /\ UNCHANGED <<data, submap, routes, retain>>
      /\ IF c.inflight # <<>> /\ Head(c.inflight).pkid = p.pkid
         THEN /\ conn' = [conn EXCEPT ![task.link] =
                   Woken(IF p.k = "PubAck" THEN rest
                         ELSE [rest EXCEPT !.pubrels = Append(@, p.pkid),
                                           !.acks = Append(@, Ack("PubRel", p.pkid))], "IncomingAck")]
              /\ ready' = Queued(ready, task.id, c, "IncomingAck")
              /\ task' = Taken
         ELSE /\ conn' = IF c.inflight = <<>> THEN conn ELSE [conn EXCEPT ![task.link] = rest]
              /\ task' = TakenBad
              /\ UNCHANGED ready
  BY DEF AckPacket
<1>2. /\ p \in Packets /\ p.k \in {"PubAck", "PubRec"} /\ task.link \in Links /\ task.step = "packets"
      /\ Onward(Taken) /\ Onward(TakenBad) /\ c \in ConnectionsIn(data) /\ task.id \in Ids
  BY <1>1, PacketOn
<1>3. p.pkid \in Nat
  BY <1>2 DEF Packets, Publishes, Replies, ControlPackets
<1>4. a \in Acks
  BY <1>3 DEF Ack, Acks
<1>5. CASE c.inflight = <<>>
  <2>1. conn' = conn /\ task' = TakenBad /\ UNCHANGED <<submap, routes, retain, ready>>
    BY <1>1, <1>5
  <2>2. TablesOK'
    BY <2>1, Frames
  <2> QED
    BY <1>1, <1>2, <2>1, <2>2, PacketKeepsAll
<1>6. CASE c.inflight # <<>>
  <2>1. c.inflight \in Seq(InflightsIn(data)) /\ c.pubrels \in Seq(Nat)
    BY <1>2, ConnFields
  <2>2. tl \in Seq(InflightsIn(data))
    BY <1>6, <2>1, TailFacts
  <2>3. [rest EXCEPT !.pubrels = Append(@, p.pkid), !.acks = Append(@, Ack("PubRel", p.pkid))] = r2
    BY <1>2, ConnFields DEF a
  <2> HIDE DEF tl
  <2>4. rest \in ConnectionsIn(data) /\ rest.acks = c.acks /\ rest.pubrels = c.pubrels
    BY <1>2, <2>2, ConnEdits, ConnFields
  <2>5. AcksKeep(c, rest)
    <3> HIDE DEF rest
    <3> QED
      BY <2>4 DEF AcksKeep
  <2>6. CASE ~(Head(c.inflight).pkid = p.pkid)
    <3>1. conn' = [conn EXCEPT ![task.link] = rest] /\ task' = TakenBad
          /\ UNCHANGED <<submap, routes, retain, ready>>
      BY <1>1, <1>6, <2>6
    <3>2. TablesOK' /\ data' = data
      BY <1>1, <3>1, Frames
    <3> HIDE DEF rest
    <3> QED
      BY <1>1, <1>2, <2>4, <2>5, <3>1, <3>2, PacketKeeps
  <2>7. CASE Head(c.inflight).pkid = p.pkid
    <3> DEFINE d == Woken(acked, "IncomingAck")
    <3>1. /\ conn' = [conn EXCEPT ![task.link] = d]
          /\ ready' = Queued(ready, task.id, c, "IncomingAck") /\ task' = Taken
      <4> HIDE DEF r2, rest
      <4> QED
        BY <1>1, <1>6, <2>3, <2>7
    <3> HIDE DEF a, rest
    <3>2. Append(rest.pubrels, p.pkid) \in Seq(Nat)
      BY <1>3, <2>1, <2>4
    <3> DEFINE pr == Append(rest.pubrels, p.pkid)
    <3>3. r1 = [rest EXCEPT !.pubrels = pr]
      OBVIOUS
    <3> HIDE DEF pr, r1
    <3>4. r1 \in ConnectionsIn(data) /\ r1.acks = rest.acks
      BY <2>4, <3>2, <3>3, ConnEdits, ConnFields, ZenonT(40) DEF pr
    <3>5. r2 \in ConnectionsIn(data) /\ AcksKeep(r1, r2)
      BY <1>4, <3>4, Acknowledges
    <3> HIDE DEF r2
    <3>6. acked \in ConnectionsIn(data) /\ AcksKeep(c, acked)
      BY <2>4, <2>5, <3>4, <3>5 DEF AcksKeep
    <3> HIDE DEF acked
    <3>7. d \in ConnectionsIn(data) /\ d.acks = acked.acks
      BY <3>6, WokenFacts
    <3> HIDE DEF d
    <3>8. AcksKeep(c, d)
      BY <3>6, <3>7 DEF AcksKeep
    <3>9. TablesOK'
      <4>1. ready \in Seq(Ids)
        BY DEF TablesOK
      <4>2. ready' \in Seq(Ids)
        BY <1>2, <3>1, <4>1, QueuedType
      <4> QED
        BY <1>1, <4>2 DEF TablesOK
    <3>10. data' = data
      BY <1>1
    <3> QED
      BY <1>1, <1>2, <3>1, <3>7, <3>8, <3>9, <3>10, PacketKeeps
  <2> QED
    BY <2>6, <2>7
<1> QED
  BY <1>5, <1>6

\* The packets that leave logs and requests alone.
LEMMA OtherPacketKeeps ==
    ASSUME BrokerType, NEW p, PubCompPacket(p) \/ PingPacket(p) \/ DisconnectPacket(p)
    PROVE  BrokerType'
<1> USE DEF BrokerType
<1> DEFINE c == conn[task.link]
<1>1. /\ InPayload /\ UNCHANGED <<data, submap, routes, retain, ready>>
      /\ \E k \in {"PubComp", "PingReq", "Disconnect"} : Packet(p, {k})
  BY DEF PubCompPacket, PingPacket, DisconnectPacket
<1>2. PICK k \in {"PubComp", "PingReq", "Disconnect"} : Packet(p, {k})
  BY <1>1
<1>3. /\ task.link \in Links /\ Onward(Taken) /\ Onward(TakenForced) /\ Onward(TakenBad)
      /\ c \in ConnectionsIn(data)
  BY <1>2, PacketOn
<1>4. TablesOK' /\ data' = data
  BY <1>1, Frames
<1>5. CASE DisconnectPacket(p)
  <2>1. task' = TakenBad /\ UNCHANGED <<conn, data>>
    BY <1>5 DEF DisconnectPacket
  <2> QED
    BY <1>1, <1>2, <1>3, <1>4, <2>1, PacketKeepsAll
<1>6. CASE PingPacket(p)
  <2> DEFINE a == Ack("PingResp", 0)
             d == [c EXCEPT !.acks = Append(@, a)]
  <2>1. conn' = [conn EXCEPT ![task.link] = d] /\ task' = TakenForced
    BY <1>3, <1>6 DEF PingPacket, ConnOK
  <2>2. a \in Acks
    BY DEF Ack, Acks
  <2> HIDE DEF a
  <2>3. d \in ConnectionsIn(data) /\ AcksKeep(c, d)
    BY <1>3, <2>2, Acknowledges
  <2> HIDE DEF d
  <2> QED
    BY <1>1, <1>2, <1>3, <1>4, <2>1, <2>3, PacketKeeps
<1>7. CASE PubCompPacket(p)
  <2> DEFINE tl == Tail(c.pubrels)
             d == [c EXCEPT !.pubrels = tl]
  <2>1. conn' = IF c.pubrels = <<>> THEN conn ELSE [conn EXCEPT ![task.link] = d]
    BY <1>3, <1>7 DEF PubCompPacket, ConnOK
  <2>2. Onward(task')
    BY <1>3, <1>7 DEF PubCompPacket
  <2>3. CASE c.pubrels = <<>>
    <3>1. UNCHANGED <<conn, data>>
      BY <1>4, <2>1, <2>3
    <3> QED
      BY <1>1, <1>2, <1>4, <2>2, <3>1, PacketKeepsAll
  <2>4. CASE c.pubrels # <<>>
    <3>1. c.pubrels \in Seq(Nat)
      BY <1>3, ConnFields
    <3>2. tl \in Seq(Nat)
      BY <2>4, <3>1
    <3> HIDE DEF tl
    <3>3. d \in ConnectionsIn(data) /\ d.acks = c.acks
      BY <1>3, <3>2, ConnEdits, ConnFields
    <3> HIDE DEF d
    <3>4. AcksKeep(c, d)
      BY <3>3 DEF AcksKeep
    <3> QED
      BY <1>1, <1>2, <1>3, <1>4, <2>1, <2>2, <2>4, <3>3, <3>4, PacketKeeps
  <2> QED
    BY <2>3, <2>4
<1> QED
  BY <1>5, <1>6, <1>7

-----------------------------------------------------------------------------
(* The end of a batch, and events *)

\* After the packets, acknowledgements wake the connection.
LEMMA ForceAcksKeeps ==
    ASSUME BrokerType, ForceAcks
    PROVE  BrokerType'
<1> USE DEF BrokerType
<1> DEFINE c == conn[task.link]
           d == IF task.force THEN Woken(c, "FreshData") ELSE c
<1>1. /\ task.step = "packets" /\ InPayload /\ UNCHANGED <<data, submap, routes, retain>>
      /\ conn' = IF task.force THEN [conn EXCEPT ![task.link] = Woken(@, "FreshData")] ELSE conn
      /\ ready' = IF task.force THEN Queued(ready, task.id, c, "FreshData") ELSE ready
      /\ task' = [task EXCEPT !.step = "notify"]
  BY DEF ForceAcks
<1>2. task \in TasksIn(data) /\ task.link \in Links /\ task.id \in Ids
  <2>1. task \in TasksIn(data)
    BY DEF TaskOK
  <2> QED
    BY <1>1, <2>1, TaskFields DEF TaskHolds
<1>3. c \in ConnectionsIn(data) /\ conn \in [Links -> ConnectionsIn(data)]
  BY <1>2 DEF ConnOK
<1>4. conn' = [conn EXCEPT ![task.link] = d]
  BY <1>1, <1>2, <1>3
<1>5. Woken(c, "FreshData") \in ConnectionsIn(data) /\ AcksKeep(c, Woken(c, "FreshData"))
  BY <1>3, WokenFacts
<1>6. d \in ConnectionsIn(data) /\ AcksKeep(c, d)
  BY <1>3, <1>5 DEF AcksKeep
<1> HIDE DEF d
<1>7. Grow(data, data') /\ DataOK' /\ ParkedOK' /\ data' = data
  <2>1. data' = data /\ slab' = slab
    BY <1>1 DEF InPayload
  <2> QED
    BY <2>1, Frames DEF Grow
<1>8. ConnOK' /\ \A m \in Links : AcksKeep(conn[m], conn'[m])
  <2> HIDE DEF c
  <2> QED
    BY <1>2, <1>4, <1>6, <1>7, ConnPut DEF c
<1>9. TablesOK'
  <2>1. ready \in Seq(Ids)
    BY DEF TablesOK
  <2>2. ready' \in Seq(Ids)
    BY <1>1, <1>2, <2>1, QueuedType
  <2> QED
    BY <1>1, <2>2 DEF TablesOK
<1>10. /\ task' \in TasksIn(data') /\ task'.step = "notify" /\ task'.link = task.link
       /\ task'.id = task.id /\ task'.notes = task.notes
  <2>1. task' \in TasksIn(data)
    BY <1>1, <1>2, TaskEdits
  <2> QED
    BY <1>1, <1>2, <1>7, <2>1, TaskFields
<1>11. \A w \in Range(task'.notes) : Used(w.id)
  BY <1>10 DEF TaskHolds
<1> QED
  BY <1>1, <1>7, <1>8, <1>9, <1>10, <1>11, PayloadKeeps

\* A request taken off a log goes to a connection that is there.
LEMMA NotifyWaiterKeeps ==
    ASSUME BrokerType, NotifyWaiter
    PROVE  BrokerType'
<1> USE DEF BrokerType
<1> DEFINE w == Head(task.notes)
           l == slab[w.id]
           c == conn[l]
           reqs == Append(c.reqs, w.req)
           c1 == [c EXCEPT !.reqs = reqs]
           d == Woken(c1, "FreshData")
           tl == Tail(task.notes)
<1>1. /\ task.step = "notify" /\ task.notes # <<>> /\ InPayload
      /\ UNCHANGED <<data, submap, routes, retain>>
      /\ conn' = [conn EXCEPT ![l] = Woken([conn[l] EXCEPT !.reqs = Append(@, w.req)], "FreshData")]
      /\ ready' = Queued(ready, w.id, conn[l], "FreshData")
      /\ task' = [task EXCEPT !.notes = Tail(@)]
  BY DEF NotifyWaiter
<1>2. task \in TasksIn(data) /\ task.link \in Links /\ task.id \in Ids
      /\ task.notes \in Seq(WaitersIn(data))
  <2>1. task \in TasksIn(data)
    BY DEF TaskOK
  <2> QED
    BY <1>1, <2>1, TaskFields DEF TaskHolds
<1>3. w \in WaitersIn(data) /\ w \in Range(task.notes) /\ tl \in Seq(WaitersIn(data))
      /\ Range(tl) \subseteq Range(task.notes)
  <2> DEFINE ns == task.notes
             W == WaitersIn(data)
  <2>1. ns \in Seq(W) /\ ns # <<>>
    BY <1>1, <1>2
  <2> HIDE DEF ns, W
  <2>2. /\ Head(ns) \in W /\ Tail(ns) \in Seq(W) /\ Head(ns) \in Range(ns)
        /\ Range(ns) = {Head(ns)} \cup Range(Tail(ns))
    BY <2>1, TailFacts
  <2> QED
    BY <2>2 DEF ns, W
<1>4. conn' = [conn EXCEPT ![l] = d]
  BY <1>1
<1> HIDE DEF tl
<1>5. w.id \in Ids /\ w.req \in RequestsIn(data) /\ Used(w.id)
  BY <1>3 DEF WaitersIn, TaskHolds
<1> HIDE DEF w
<1>6. l \in Links
  BY <1>5 DEF SlabOK, Used
<1>7. c \in ConnectionsIn(data)
  BY <1>6 DEF ConnOK
<1> HIDE DEF c
<1>8. reqs \in Seq(RequestsIn(data))
  <2>1. c.reqs \in Seq(RequestsIn(data))
    BY <1>7, ConnFields
  <2> QED
    BY <1>5, <2>1
<1> HIDE DEF reqs
<1>9. c1 \in ConnectionsIn(data) /\ c1.acks = c.acks
  BY <1>7, <1>8, ConnEdits, ConnFields
<1> HIDE DEF c1
<1>10. d \in ConnectionsIn(data) /\ d.acks = c1.acks
  BY <1>9, WokenFacts
<1> HIDE DEF d
<1>11. AcksKeep(c, d)
  BY <1>9, <1>10 DEF AcksKeep
<1>12. Grow(data, data') /\ DataOK' /\ ParkedOK' /\ data' = data
  <2>1. data' = data /\ slab' = slab
    BY <1>1 DEF InPayload
  <2> QED
    BY <2>1, Frames DEF Grow
<1>13. ConnOK' /\ \A m \in Links : AcksKeep(conn[m], conn'[m])
  <2> HIDE DEF l
  <2> QED
    BY <1>4, <1>6, <1>10, <1>11, <1>12, ConnPut DEF c
<1>14. TablesOK'
  <2>1. ready \in Seq(Ids)
    BY DEF TablesOK
  <2>2. ready' \in Seq(Ids)
    BY <1>1, <1>5, <2>1, QueuedType
  <2> QED
    BY <1>1, <2>2 DEF TablesOK
<1>15. task' = [task EXCEPT !.notes = tl]
  BY <1>1 DEF tl
<1>16. /\ task' \in TasksIn(data') /\ task'.step = "notify" /\ task'.link = task.link
       /\ task'.id = task.id /\ task'.notes = tl
  <2>1. task' \in TasksIn(data)
    BY <1>2, <1>3, <1>15, TaskEdits
  <2> QED
    BY <1>1, <1>2, <1>12, <1>15, <2>1, TaskFields
<1>17. \A v \in Range(task'.notes) : Used(v.id)
  BY <1>3, <1>16 DEF TaskHolds
<1> QED
  BY <1>1, <1>12, <1>13, <1>14, <1>16, <1>17, PayloadKeeps

\* A step of the router that tells the links nothing.
LEMMA RouterKeepsLinks ==
    ASSUME GreetingOK, IdleOK, UNCHANGED <<link, outbuf>>,
           \A l \in Links : Live(l)' => Live(l) /\ AcksKeep(conn[l], conn'[l]),
           task'.step = "requests" => task' = task,
           task'.step = "connect" => task' = task \/ Known(task'.link),
           \A i \in 1 .. Len(chan') : \E j \in 1 .. Len(chan) : chan[j] = chan'[i]
    PROVE  GreetingOK' /\ IdleOK'
<1>1. ASSUME NEW l \in Links PROVE Greeted(l)' /\ (Known(l) => link[l].pc # "idle")'
  <2>1. Greeted(l) /\ (Known(l) => link[l].pc # "idle")
    BY DEF GreetingOK, IdleOK
  <2>2. Live(l)' => Live(l) /\ AcksKeep(conn[l], conn'[l])
    OBVIOUS
  <2>3. task'.step = "requests" /\ task'.link = l => task.step = "requests" /\ task.link = l
    OBVIOUS
  <2>4. task'.step = "connect" /\ task'.link = l => Known(l)
    BY DEF Known
  <2>5. \A i \in 1 .. Len(chan') : chan'[i].k = "Connect" /\ chan'[i].link = l =>
              \E j \in 1 .. Len(chan) : chan[j] = chan'[i]
    OBVIOUS
  <2>6. link'[l] = link[l] /\ outbuf'[l] = outbuf[l]
    OBVIOUS
  <2> QED
    BY <2>1, <2>2, <2>3, <2>4, <2>5, <2>6, RouterLink
<1> QED
  BY <1>1 DEF GreetingOK, IdleOK

\* The links that are left when a connection has been dropped.
LEMMA DisconnectionLinks ==
    ASSUME SlabOK, NEW id \in Ids, Used(id),
           slab' = [slab EXCEPT ![id] = None],
           \A l \in Links : l # slab[id] => conn'[l] = conn[l]
    PROVE  /\ \A l \in Links : Live(l)' => Live(l) /\ AcksKeep(conn[l], conn'[l])
           /\ \A i \in Ids : Used(i)' <=> Used(i) /\ i # id
<1>1. \A i \in Ids : slab'[i] = IF i = id THEN None ELSE slab[i]
  BY DEF SlabOK
<1>2. \A i \in Ids : Used(i)' <=> Used(i) /\ i # id
  BY <1>1 DEF Used
<1>3. ASSUME NEW l \in Links, Live(l)' PROVE Live(l) /\ AcksKeep(conn[l], conn'[l])
  <2>1. PICK i \in Ids : slab'[i] = l
    BY <1>3 DEF Live
  <2>2. i # id /\ slab[i] = l
    BY <1>1, <2>1, BrokerAssumption
  <2>3. slab[id] # l
    BY <2>2 DEF SlabOK, Used
  <2> QED
    BY <2>2, <2>3 DEF Live, AcksKeep
<1> QED
  BY <1>2, <1>3

\* handle_device_payload ends, with its connection or without.
LEMMA EndPayloadKeeps ==
    ASSUME BrokerType, EndPayload
    PROVE  BrokerType'
<1> USE DEF BrokerType
<1>1. /\ task.step = "notify" /\ task' = NoTask
      /\ IF task.bad THEN Disconnection(task.id)
         ELSE UNCHANGED <<slab, free, conn, data, submap, grave>>
      /\ UNCHANGED <<routes, retain, ready, chan, link, inbuf, outbuf, owes, npub>>
  BY DEF EndPayload, linkVars
<1>2. task.id \in Ids /\ Used(task.id)
  BY <1>1, BrokerAssumption DEF TaskOK, TasksIn, TaskHolds, Used
<1>3. ChanOK' /\ BuffersOK'
  BY <1>1, Frames
<1>4. TaskOK' /\ TaskHolds' /\ task'.step = "none"
  <2>1. task' \in TasksIn(data')
    BY <1>1, NoTaskOK
  <2>2. task'.step = "none" /\ task'.notes = <<>> /\ Range(task'.notes) = {}
    BY <1>1, NilRange DEF NoTask
  <2> QED
    BY <2>1, <2>2 DEF TaskOK, TaskHolds
<1>5. /\ SlabOK' /\ DataOK' /\ ParkedOK' /\ ConnOK' /\ TablesOK' /\ GraveOK'
      /\ \A l \in Links : Live(l)' => Live(l) /\ AcksKeep(conn[l], conn'[l])
  <2>1. CASE task.bad
    <3>1. /\ SlabOK' /\ DataOK' /\ ParkedOK' /\ ConnOK' /\ TablesOK' /\ GraveOK'
          /\ slab' = [slab EXCEPT ![task.id] = None]
          /\ \A l \in Links : l # slab[task.id] => conn'[l] = conn[l]
      <4>1. Disconnection(task.id) /\ UNCHANGED <<routes, retain, ready>>
        BY <1>1, <2>1
      <4> QED
        BY <1>2, <4>1, DisconnectionKeeps
    <3> QED
      BY <1>2, <3>1, DisconnectionLinks
  <2>2. CASE ~task.bad
    <3>1. UNCHANGED <<slab, free, conn, data, submap, grave, routes, retain, ready>>
      BY <1>1, <2>2
    <3>2. \A l \in Links : Live(l)' => Live(l) /\ AcksKeep(conn[l], conn'[l])
      BY <3>1 DEF Live, AcksKeep
    <3> QED
      BY <3>1, <3>2, Frames
  <2> QED
    BY <2>1, <2>2
<1>6. GreetingOK' /\ IdleOK'
  <2>1. \A i \in 1 .. Len(chan') : \E j \in 1 .. Len(chan) : chan[j] = chan'[i]
    BY <1>1
  <2> QED
    BY <1>1, <1>4, <1>5, <2>1, RouterKeepsLinks
<1> QED
  BY <1>3, <1>4, <1>5, <1>6

\* The router takes an event out of the channel.
LEMMA BeginFacts ==
    ASSUME BrokerType, NEW e, Begin(e)
    PROVE  /\ ChanOK' /\ e \in Events /\ Idle
           /\ \A i \in 1 .. Len(chan') : \E j \in 1 .. Len(chan) : chan[j] = chan'[i]
           /\ 1 \in 1 .. Len(chan) /\ chan[1] = e
<1>1. chan \in Seq(Events) /\ Len(chan) <= ChannelSize /\ ChannelSize \in Nat
  BY BrokerAssumption DEF BrokerType, ChanOK
<1>2. chan # <<>> /\ e = Head(chan) /\ chan' = Tail(chan) /\ Idle
  BY DEF Begin
<1>3. /\ Head(chan) \in Events /\ Tail(chan) \in Seq(Events) /\ Len(chan) \in Nat /\ Len(chan) > 0
      /\ Len(Tail(chan)) = Len(chan) - 1 /\ Head(chan) = chan[1]
      /\ \A i \in 1 .. Len(chan) - 1 : Tail(chan)[i] = chan[i + 1]
  BY <1>1, <1>2, TailFacts
<1>4. ChanOK'
  BY <1>1, <1>2, <1>3 DEF ChanOK
<1>5. ASSUME NEW i \in 1 .. Len(chan') PROVE \E j \in 1 .. Len(chan) : chan[j] = chan'[i]
  <2>1. i + 1 \in 1 .. Len(chan) /\ chan'[i] = chan[i + 1]
    BY <1>2, <1>3
  <2> QED
    BY <2>1
<1> QED
  BY <1>2, <1>3, <1>4, <1>5

\* Without a task.
LEMMA IdleTask ==
    ASSUME Idle, TaskHolds, TaskOK, Grow(data, data'), UNCHANGED task
    PROVE  TaskOK' /\ TaskHolds' /\ task'.step = "none"
<1>1. TasksIn(data) \subseteq TasksIn(data')
  BY GrowKeeps
<1>2. task'.step = "none" /\ task'.notes = <<>> /\ Range(task'.notes) = {}
  BY NilRange DEF Idle, TaskHolds
<1> QED
  BY <1>1, <1>2 DEF TaskOK, TaskHolds

\* Event::Disconnect.
LEMMA HandleDisconnectKeeps ==
    ASSUME BrokerType, NEW e, HandleDisconnect(e)
    PROVE  BrokerType'
<1> USE DEF BrokerType
<1>1. /\ Begin(e)
      /\ IF Used(e.id) THEN Disconnection(e.id)
         ELSE UNCHANGED <<slab, free, conn, data, submap, grave>>
      /\ UNCHANGED <<routes, retain, ready, task, link, inbuf, outbuf, owes, npub>>
  BY DEF HandleDisconnect, linkVars
<1>2. /\ ChanOK' /\ e \in Events /\ Idle
      /\ \A i \in 1 .. Len(chan') : \E j \in 1 .. Len(chan) : chan[j] = chan'[i]
  BY <1>1, BeginFacts
<1>3. e.id \in Ids
  BY <1>2 DEF Events
<1>4. BuffersOK'
  BY <1>1, Frames
<1>5. /\ SlabOK' /\ DataOK' /\ ParkedOK' /\ ConnOK' /\ TablesOK' /\ GraveOK' /\ Grow(data, data')
      /\ \A l \in Links : Live(l)' => Live(l) /\ AcksKeep(conn[l], conn'[l])
  <2>1. CASE Used(e.id)
    <3>1. /\ SlabOK' /\ DataOK' /\ ParkedOK' /\ ConnOK' /\ TablesOK' /\ GraveOK'
          /\ slab' = [slab EXCEPT ![e.id] = None] /\ Grow(data, data')
          /\ \A l \in Links : l # slab[e.id] => conn'[l] = conn[l]
      <4>1. Disconnection(e.id) /\ UNCHANGED <<routes, retain, ready>>
        BY <1>1, <2>1
      <4> QED
        BY <1>3, <2>1, <4>1, DisconnectionKeeps
    <3> QED
      BY <1>3, <2>1, <3>1, DisconnectionLinks
  <2>2. CASE ~Used(e.id)
    <3>1. UNCHANGED <<slab, free, conn, data, submap, grave, routes, retain, ready>>
      BY <1>1, <2>2
    <3>2. /\ \A l \in Links : Live(l)' => Live(l) /\ AcksKeep(conn[l], conn'[l])
          /\ Grow(data, data')
      BY <3>1 DEF Live, AcksKeep, Grow
    <3> QED
      BY <3>1, <3>2, Frames
  <2> QED
    BY <2>1, <2>2
<1>6. TaskOK' /\ TaskHolds' /\ task'.step = "none"
  BY <1>1, <1>2, <1>5, IdleTask
<1>7. GreetingOK' /\ IdleOK'
  BY <1>1, <1>2, <1>5, <1>6, RouterKeepsLinks
<1> QED
  BY <1>2, <1>4, <1>5, <1>6, <1>7

\* Event::Ready; without a tracker the router panics.
LEMMA HandleReadyKeeps ==
    ASSUME BrokerType, NEW e, HandleReady(e)
    PROVE  BrokerType'
<1> USE DEF BrokerType
<1> DEFINE l == slab[e.id]
           c == conn[l]
           d == Woken(c, "Ready")
<1>1. /\ Begin(e)
      /\ IF Used(e.id)
         THEN /\ conn' = [conn EXCEPT ![l] = d]
              /\ ready' = Queued(ready, e.id, c, "Ready")
              /\ UNCHANGED task
         ELSE /\ task' = [NoTask EXCEPT !.step = "panicked"]
              /\ UNCHANGED <<conn, ready>>
      /\ UNCHANGED <<slab, free, data, submap, grave, routes, retain, link, inbuf, outbuf, owes, npub>>
  BY DEF HandleReady, linkVars
<1>2. /\ ChanOK' /\ e \in Events /\ Idle
      /\ \A i \in 1 .. Len(chan') : \E j \in 1 .. Len(chan) : chan[j] = chan'[i]
  BY <1>1, BeginFacts
<1>3. e.id \in Ids
  BY <1>2 DEF Events
<1>4. SlabOK' /\ DataOK' /\ ParkedOK' /\ GraveOK' /\ BuffersOK' /\ Grow(data, data') /\ slab' = slab
      /\ data' = data
  <2>1. UNCHANGED <<slab, free, data, grave, link, inbuf, outbuf, owes, npub>>
    BY <1>1
  <2> QED
    BY <2>1, Frames DEF Grow
<1>5. CASE Used(e.id)
  <2>1. conn' = [conn EXCEPT ![l] = d] /\ ready' = Queued(ready, e.id, c, "Ready") /\ UNCHANGED task
    BY <1>1, <1>5
  <2>2. l \in Links
    BY <1>3, <1>5 DEF SlabOK, Used
  <2>3. c \in ConnectionsIn(data)
    BY <2>2 DEF ConnOK
  <2>4. d \in ConnectionsIn(data) /\ AcksKeep(c, d)
    BY <2>3, WokenFacts
  <2> HIDE DEF d, c, l
  <2>5. ConnOK' /\ \A m \in Links : AcksKeep(conn[m], conn'[m])
    BY <1>4, <2>1, <2>2, <2>4, ConnPut DEF c
  <2>6. TablesOK'
    <3>1. ready \in Seq(Ids)
      BY DEF TablesOK
    <3>2. ready' \in Seq(Ids)
      BY <1>3, <2>1, <3>1, QueuedType
    <3> QED
      BY <1>1, <3>2 DEF TablesOK
  <2>7. TaskOK' /\ TaskHolds' /\ task'.step = "none"
    BY <1>2, <1>4, <2>1, IdleTask
  <2>8. \A m \in Links : Live(m)' => Live(m)
    BY <1>4 DEF Live
  <2>9. GreetingOK' /\ IdleOK'
    BY <1>1, <1>2, <2>5, <2>7, <2>8, RouterKeepsLinks
  <2> QED
    BY <1>2, <1>4, <2>5, <2>6, <2>7, <2>9
<1>6. CASE ~Used(e.id)
  <2>1. task' = [NoTask EXCEPT !.step = "panicked"] /\ UNCHANGED <<conn, ready>>
    BY <1>1, <1>6
  <2>2. ConnOK' /\ TablesOK'
    <3>1. UNCHANGED <<conn, data, submap, routes, retain, ready>>
      BY <1>1, <2>1
    <3> QED
      BY <3>1, Frames
  <2>3. TaskOK' /\ TaskHolds' /\ task'.step = "panicked"
    <3>1. task' \in TasksIn(data')
      <4>1. NoTask \in TasksIn(data')
        BY NoTaskOK
      <4> QED
        BY <2>1, <4>1, TaskEdits
    <3>2. task'.step = "panicked" /\ task'.notes = <<>> /\ Range(task'.notes) = {}
      BY <2>1, NilRange DEF NoTask
    <3> QED
      BY <3>1, <3>2 DEF TaskOK, TaskHolds
  <2>4. \A m \in Links : Live(m)' => Live(m) /\ AcksKeep(conn[m], conn'[m])
    BY <1>4, <2>1 DEF Live, AcksKeep
  <2>5. GreetingOK' /\ IdleOK'
    BY <1>1, <1>2, <2>3, <2>4, RouterKeepsLinks
  <2> QED
    BY <1>2, <1>4, <2>2, <2>3, <2>5
<1> QED
  BY <1>5, <1>6

\* Event::Connect begins handle_new_connection.
LEMMA HandleConnectKeeps ==
    ASSUME BrokerType, NEW e, HandleConnect(e)
    PROVE  BrokerType'
<1> USE DEF BrokerType
<1>1. /\ Begin(e) /\ e.k = "Connect"
      /\ task' = [NoTask EXCEPT !.step = "connect", !.link = e.link]
      /\ UNCHANGED <<slab, free, conn, data, submap, grave, routes, retain, ready, link, inbuf,
                     outbuf, owes, npub>>
  BY DEF HandleConnect, linkVars
<1>2. /\ ChanOK' /\ e \in Events /\ 1 \in 1 .. Len(chan) /\ chan[1] = e
      /\ \A i \in 1 .. Len(chan') : \E j \in 1 .. Len(chan) : chan[j] = chan'[i]
  BY <1>1, BeginFacts
<1>3. e.link \in Links
  BY <1>2 DEF Events
<1>4. SlabOK' /\ DataOK' /\ ParkedOK' /\ ConnOK' /\ TablesOK' /\ GraveOK' /\ BuffersOK'
  BY <1>1, Frames
<1>5. TaskOK' /\ TaskHolds' /\ task'.step = "connect" /\ task'.link = e.link
  <2>1. NoTask \in TasksIn(data')
    BY NoTaskOK
  <2>2. [NoTask EXCEPT !.step = "connect"] \in TasksIn(data')
    BY <2>1, TaskEdits
  <2>3. task' = [[NoTask EXCEPT !.step = "connect"] EXCEPT !.link = e.link]
    BY <1>1 DEF NoTask
  <2>4. task' \in TasksIn(data')
    BY <1>3, <2>2, <2>3, TaskEdits
  <2>5. task'.step = "connect" /\ task'.link = e.link /\ task'.notes = <<>> /\ Range(task'.notes) = {}
    BY <1>1, NilRange DEF NoTask
  <2> QED
    BY <1>3, <2>4, <2>5 DEF TaskOK, TaskHolds
<1>6. Known(e.link)
  BY <1>1, <1>2 DEF Known
<1>7. \A l \in Links : Live(l)' => Live(l) /\ AcksKeep(conn[l], conn'[l])
  BY <1>1 DEF Live, AcksKeep
<1>8. GreetingOK' /\ IdleOK'
  BY <1>1, <1>2, <1>5, <1>6, <1>7, RouterKeepsLinks
<1> QED
  BY <1>2, <1>4, <1>5, <1>8

\* Event::DeviceData takes what the link has read.
LEMMA HandleDeviceDataKeeps ==
    ASSUME BrokerType, NEW e, HandleDeviceData(e)
    PROVE  BrokerType'
<1> USE DEF BrokerType
<1> DEFINE l == slab[e.id]
<1>1. /\ Begin(e)
      /\ IF Used(e.id)
         THEN /\ task' = [NoTask EXCEPT !.step = "packets", !.id = e.id, !.link = l, !.cache = inbuf[l]]
              /\ inbuf' = [inbuf EXCEPT ![l] = <<>>]
         ELSE UNCHANGED <<task, inbuf>>
      /\ UNCHANGED <<slab, free, conn, data, submap, grave, routes, retain, ready, link, outbuf, owes,
                     npub>>
  BY DEF HandleDeviceData, linkVars
<1>2. /\ ChanOK' /\ e \in Events /\ Idle
      /\ \A i \in 1 .. Len(chan') : \E j \in 1 .. Len(chan) : chan[j] = chan'[i]
  BY <1>1, BeginFacts
<1>3. e.id \in Ids
  BY <1>2 DEF Events
<1>4. SlabOK' /\ DataOK' /\ ParkedOK' /\ ConnOK' /\ TablesOK' /\ GraveOK' /\ data' = data
      /\ slab' = slab /\ Grow(data, data')
  <2>1. UNCHANGED <<slab, free, conn, data, submap, grave, routes, retain, ready>>
    BY <1>1
  <2> QED
    BY <2>1, Frames DEF Grow
<1>5. \A m \in Links : Live(m)' => Live(m) /\ AcksKeep(conn[m], conn'[m])
  BY <1>1 DEF Live, AcksKeep
<1>6. CASE Used(e.id)
  <2>1. /\ task' = [NoTask EXCEPT !.step = "packets", !.id = e.id, !.link = l, !.cache = inbuf[l]]
        /\ inbuf' = [inbuf EXCEPT ![l] = <<>>]
    BY <1>1, <1>6
  <2>2. l \in Links
    BY <1>3, <1>6 DEF SlabOK, Used
  <2>3. inbuf[l] \in Seq(Packets) /\ inbuf' \in [Links -> Seq(Packets)]
    BY <2>1, <2>2 DEF BuffersOK
  <2>4. BuffersOK'
    BY <1>1, <2>3 DEF BuffersOK
  <2>5. TaskOK' /\ TaskHolds' /\ task'.step = "packets"
    <3> DEFINE t1 == [NoTask EXCEPT !.step = "packets"]
               t2 == [t1 EXCEPT !.id = e.id]
               t3 == [t2 EXCEPT !.link = l]
               t4 == [t3 EXCEPT !.cache = inbuf[l]]
    <3>1. task' = t4
      BY <2>1 DEF NoTask
    <3>2. task'.step = "packets" /\ task'.link = l /\ task'.id = e.id
          /\ task'.notes = <<>> /\ Range(task'.notes) = {}
      BY <2>1, NilRange DEF NoTask
    <3>3. NoTask \in TasksIn(data')
      BY NoTaskOK
    <3>4. t1 \in TasksIn(data')
      BY <3>3, TaskEdits
    <3> HIDE DEF t1
    <3>5. t2 \in TasksIn(data')
      BY <1>3, <3>4, TaskEdits
    <3> HIDE DEF t2
    <3>6. t3 \in TasksIn(data')
      BY <2>2, <3>5, TaskEdits
    <3> HIDE DEF t3
    <3>7. t4 \in TasksIn(data')
      BY <2>3, <3>6, TaskEdits
    <3> QED
      BY <1>4, <2>2, <3>1, <3>2, <3>7 DEF TaskOK, TaskHolds
  <2>6. GreetingOK' /\ IdleOK'
    BY <1>1, <1>2, <1>5, <2>5, RouterKeepsLinks
  <2> QED
    BY <1>2, <1>4, <2>4, <2>5, <2>6
<1>7. CASE ~Used(e.id)
  <2>1. UNCHANGED <<task, inbuf>>
    BY <1>1, <1>7
  <2>2. BuffersOK'
    BY <1>1, <2>1, Frames
  <2>3. TaskOK' /\ TaskHolds' /\ task'.step = "none"
    BY <1>2, <1>4, <2>1, IdleTask
  <2>4. GreetingOK' /\ IdleOK'
    BY <1>1, <1>2, <1>5, <2>3, RouterKeepsLinks
  <2> QED
    BY <1>2, <1>4, <2>2, <2>3, <2>4
<1> QED
  BY <1>6, <1>7

-----------------------------------------------------------------------------
(* New connections, and polls that find nothing *)

\* handle_new_connection: the old connection of the client is dropped.
LEMMA DropDuplicateKeeps ==
    ASSUME BrokerType, NEW id \in Ids, DropDuplicate(id)
    PROVE  BrokerType'
<1> USE DEF BrokerType
<1>1. /\ task.step = "connect" /\ id \in Rivals /\ Disconnection(id)
      /\ UNCHANGED <<routes, retain, ready, task, chan, link, inbuf, outbuf, owes, npub>>
  BY DEF DropDuplicate, linkVars
<1>2. Used(id)
  BY <1>1 DEF Rivals, ConnectionOf
<1>3. /\ SlabOK' /\ DataOK' /\ ParkedOK' /\ ConnOK' /\ TablesOK' /\ GraveOK'
      /\ slab' = [slab EXCEPT ![id] = None] /\ Grow(data, data')
      /\ \A l \in Links : l # slab[id] => conn'[l] = conn[l]
  BY <1>1, <1>2, DisconnectionKeeps
<1>4. \A l \in Links : Live(l)' => Live(l) /\ AcksKeep(conn[l], conn'[l])
  BY <1>2, <1>3, DisconnectionLinks
<1>5. ChanOK' /\ BuffersOK'
  BY <1>1, Frames
<1>6. TaskOK' /\ TaskHolds' /\ task' = task
  <2>1. TasksIn(data) \subseteq TasksIn(data')
    BY <1>3, GrowKeeps
  <2>2. task.notes = <<>> /\ Range(task.notes) = {}
    BY <1>1, NilRange DEF TaskHolds
  <2> QED
    BY <1>1, <2>1, <2>2 DEF TaskOK, TaskHolds
<1>7. GreetingOK' /\ IdleOK'
  <2>1. \A i \in 1 .. Len(chan') : \E j \in 1 .. Len(chan) : chan[j] = chan'[i]
    BY <1>1
  <2> QED
    BY <1>1, <1>4, <2>1, RouterKeepsLinks
<1> QED
  BY <1>3, <1>5, <1>6, <1>7

\* The steps that end a turn without doing anything, or look for the next.
LEMMA NothingKeeps ==
    ASSUME BrokerType, Refuse \/ PollNothing \/ PollStale \/ Drained
    PROVE  BrokerType'
<1> USE DEF BrokerType
<1>1. /\ UNCHANGED <<slab, free, conn, data, submap, grave, routes, retain, chan, link, inbuf, outbuf,
                     owes, npub>>
      /\ (task' = task /\ Idle) \/ task' = NoTask
  BY DEF Refuse, PollNothing, PollStale, Drained, linkVars
<1>2. ready' \in Seq(Ids)
  <2>1. ready \in Seq(Ids)
    BY DEF TablesOK
  <2>2. CASE PollStale
    <3>1. ready' = Tail(ready) /\ ready # <<>>
      BY <2>2 DEF PollStale
    <3> QED
      BY <2>1, <3>1
  <2>3. CASE Refuse \/ PollNothing \/ Drained
    BY <2>1, <2>3 DEF Refuse, PollNothing, Drained
  <2> QED
    BY <2>2, <2>3
<1>3. /\ SlabOK' /\ DataOK' /\ ParkedOK' /\ ConnOK' /\ GraveOK' /\ ChanOK' /\ BuffersOK'
      /\ Grow(data, data')
  <2>1. Grow(data, data')
    BY <1>1 DEF Grow
  <2> QED
    BY <1>1, <2>1, Frames
<1>4. TablesOK'
  BY <1>1, <1>2 DEF TablesOK
<1>5. TaskOK' /\ TaskHolds' /\ task'.step = "none"
  <2>1. CASE task' = task /\ Idle
    BY <1>3, <2>1, IdleTask
  <2>2. CASE task' = NoTask
    <3>1. task' \in TasksIn(data')
      BY <2>2, NoTaskOK
    <3>2. task'.step = "none" /\ task'.notes = <<>> /\ Range(task'.notes) = {}
      BY <2>2, NilRange DEF NoTask
    <3> QED
      BY <3>1, <3>2 DEF TaskOK, TaskHolds
  <2> QED
    BY <1>1, <2>1, <2>2
<1>6. GreetingOK' /\ IdleOK'
  <2>1. \A i \in 1 .. Len(chan') : \E j \in 1 .. Len(chan) : chan[j] = chan'[i]
    BY <1>1
  <2>2. \A l \in Links : Live(l)' => Live(l) /\ AcksKeep(conn[l], conn'[l])
    BY <1>1 DEF Live, AcksKeep
  <2> QED
    BY <1>1, <1>5, <2>1, <2>2, RouterKeepsLinks
<1> QED
  BY <1>3, <1>4, <1>5, <1>6

\* handle_new_connection: the first vacant slot is filled, the session restored.
LEMMA AdmitKeeps ==
    ASSUME BrokerType, Admit
    PROVE  BrokerType'
<1> USE DEF BrokerType
<1> DEFINE l == task.link
           c == ClientOf[l]
           saved == IF grave[c] = None \/ l \in Clean THEN NoSession ELSE grave[c]
           id == Head(free)
           rels == [i \in 1 .. Len(saved.pubrels) |-> Ack("PubRel", saved.pubrels[i])]
           acks == <<Ack("ConnAck", id)>> \o rels
           c1 == [Fresh EXCEPT !.status = "Ready"]
           c2 == [c1 EXCEPT !.reqs = saved.reqs]
           c3 == [c2 EXCEPT !.subs = saved.subs]
           c4 == [c3 EXCEPT !.pubrels = saved.pubrels]
           d == [c4 EXCEPT !.acks = acks]
<1>1. /\ task.step = "connect" /\ Rivals = {} /\ free # <<>>
      /\ slab' = [slab EXCEPT ![id] = l]
      /\ free' = Tail(free)
      /\ grave' = [grave EXCEPT ![c] = None]
      /\ ready' = Append(ready, id)
      /\ task' = NoTask
      /\ UNCHANGED <<data, submap, routes, retain, chan, link, inbuf, outbuf, owes, npub>>
  BY DEF Admit, linkVars
<1>2. conn' = [conn EXCEPT ![l] = d]
  <2>1. conn' = [conn EXCEPT ![l] =
                      [Fresh EXCEPT !.status = "Ready", !.reqs = saved.reqs, !.subs = saved.subs,
                                    !.pubrels = saved.pubrels,
                                    !.acks = <<Ack("ConnAck", id)>> \o
                                       [i \in 1 .. Len(saved.pubrels) |->
                                          Ack("PubRel", saved.pubrels[i])]]]
    BY DEF Admit
  <2> HIDE DEF saved, id
  <2> QED
    BY <2>1 DEF Fresh
<1>3. l \in Links /\ c \in Clients /\ l # None
  BY <1>1, BrokerAssumption DEF TaskHolds
<1>4. /\ id \in Ids /\ ~Used(id) /\ Tail(free) \in Seq(Ids)
      /\ Range(free) = {id} \cup Range(Tail(free)) /\ Len(free) \in Nat /\ Len(free) > 0
      /\ Len(Tail(free)) = Len(free) - 1 /\ id = free[1]
      /\ \A i \in 1 .. Len(free) - 1 : Tail(free)[i] = free[i + 1]
  <2>1. free \in Seq(Ids) /\ Range(free) = {i \in Ids : ~Used(i)}
    BY DEF SlabOK
  <2>2. /\ Head(free) \in Ids /\ Tail(free) \in Seq(Ids) /\ Len(free) \in Nat /\ Len(free) > 0
        /\ Len(Tail(free)) = Len(free) - 1 /\ Head(free) = free[1]
        /\ \A i \in 1 .. Len(free) - 1 : Tail(free)[i] = free[i + 1]
        /\ Range(free) = {Head(free)} \cup Range(Tail(free)) /\ Head(free) \in Range(free)
    BY <1>1, <2>1, TailFacts
  <2> QED
    BY <2>1, <2>2
<1>5. saved \in SessionsIn(data)
  BY <1>3, FreshOK DEF GraveOK
<1>6. saved.reqs \in Seq(RequestsIn(data)) /\ saved.subs \in SUBSET Filters /\ saved.pubrels \in Seq(Nat)
  BY <1>5 DEF SessionsIn
<1> HIDE DEF saved
<1>7. ~Live(l)
  <2>1. ASSUME NEW i \in Ids, slab[i] = l PROVE FALSE
    <3>1. i \in Rivals
      BY <1>3, <2>1 DEF Rivals, ConnectionOf, Used
    <3> QED
      BY <1>1, <3>1
  <2> QED
    BY <2>1 DEF Live
<1> DEFINE i0 == id
           t == Tail(free)
<1>8. SlabOK'
  <2>1. /\ i0 \in Ids /\ ~Used(i0) /\ t \in Seq(Ids) /\ Range(free) = {i0} \cup Range(t)
        /\ Len(free) \in Nat /\ Len(free) > 0 /\ Len(t) = Len(free) - 1 /\ i0 = free[1]
        /\ \A i \in 1 .. Len(free) - 1 : t[i] = free[i + 1]
        /\ slab' = [slab EXCEPT ![i0] = l] /\ free' = t
    BY <1>1, <1>4
  <2>2. /\ slab \in [Ids -> Links \cup {None}] /\ free \in Seq(Ids) /\ IsInjective(free)
        /\ Range(free) = {id_1 \in Ids : ~Used(id_1)} /\ DOMAIN free = 1 .. Len(free)
        /\ \A i, j \in Ids : Used(i) /\ Used(j) /\ ClientOf[slab[i]] = ClientOf[slab[j]] => i = j
    BY DEF SlabOK
  <2>3. \A i \in Ids : Used(i) => ClientOf[slab[i]] # c
    BY <1>1 DEF Rivals, ConnectionOf
  <2> HIDE DEF i0, t, l, c
  <2>4. slab' \in [Ids -> Links \cup {None}]
        /\ \A i \in Ids : slab'[i] = IF i = i0 THEN l ELSE slab[i]
    BY <1>3, <2>1, <2>2
  <2>5. \A i \in Ids : Used(i)' <=> Used(i) \/ i = i0
    BY <1>3, <2>1, <2>4 DEF Used
  <2>6. \A i, j \in Ids : Used(i)' /\ Used(j)' /\ ClientOf[slab'[i]] = ClientOf[slab'[j]] => i = j
    BY <2>2, <2>3, <2>4, <2>5 DEF c
  <2>7. IsInjective(t) /\ i0 \notin Range(t)
    <3>1. DOMAIN t = 1 .. Len(free) - 1
      BY <2>1
    <3>2. \A a, b \in 1 .. Len(free) : free[a] = free[b] => a = b
      BY <2>2 DEF IsInjective
    <3>3. \A a, b \in 1 .. Len(free) - 1 : t[a] = t[b] => a = b
      <4> SUFFICES ASSUME NEW a \in 1 .. Len(free) - 1, NEW b \in 1 .. Len(free) - 1, t[a] = t[b]
                   PROVE  a = b
        OBVIOUS
      <4>1. a + 1 \in 1 .. Len(free) /\ b + 1 \in 1 .. Len(free) /\ free[a + 1] = free[b + 1]
        BY <2>1
      <4>2. a + 1 = b + 1
        BY <3>2, <4>1
      <4> QED
        BY <2>1, <4>2
    <3>4. \A a \in 1 .. Len(free) - 1 : t[a] # i0
      <4> SUFFICES ASSUME NEW a \in 1 .. Len(free) - 1, t[a] = i0 PROVE FALSE
        OBVIOUS
      <4>1. a + 1 \in 1 .. Len(free) /\ 1 \in 1 .. Len(free) /\ free[a + 1] = free[1]
        BY <2>1
      <4>2. a + 1 = 1
        BY <3>2, <4>1
      <4> QED
        BY <2>1, <4>2
    <3> QED
      BY <3>1, <3>3, <3>4 DEF IsInjective, Range
  <2>8. Range(t) = {i \in Ids : ~Used(i)'}
    BY <2>1, <2>2, <2>5, <2>7
  <2> QED
    BY <2>1, <2>4, <2>6, <2>7, <2>8 DEF SlabOK
<1> HIDE DEF i0, t, id
<1>9. acks \in Seq(Acks) /\ acks # <<>> /\ Head(acks) = Ack("ConnAck", id)
  <2>1. Len(saved.pubrels) \in Nat /\ \A i \in 1 .. Len(saved.pubrels) : saved.pubrels[i] \in Nat
    BY <1>6
  <2>2. \A i \in 1 .. Len(saved.pubrels) : Ack("PubRel", saved.pubrels[i]) \in Acks
    BY <2>1 DEF Ack, Acks
  <2>3. Ack("ConnAck", id) \in Acks
    BY <1>4 DEF Ack, Acks, Ids
  <2> DEFINE a == Ack("ConnAck", id)
             A == Acks
  <2>4. a \in A /\ \A i \in 1 .. Len(saved.pubrels) : Ack("PubRel", saved.pubrels[i]) \in A
    BY <2>2, <2>3
  <2> HIDE DEF a, A
  <2>5. rels \in Seq(A)
    BY <2>1, <2>4
  <2> HIDE DEF rels
  <2>6. <<a>> \o rels \in Seq(A) /\ <<a>> \o rels # <<>> /\ Head(<<a>> \o rels) = a
    BY <2>4, <2>5
  <2> QED
    BY <2>6 DEF a, A
<1> HIDE DEF acks
<1>10. d \in ConnectionsIn(data) /\ d.acks = acks
  <2>1. Fresh \in ConnectionsIn(data)
    BY FreshOK
  <2>2. c1 \in ConnectionsIn(data)
    BY <2>1, ConnEdits DEF Statuses
  <2> HIDE DEF c1
  <2>3. c2 \in ConnectionsIn(data)
    BY <1>6, <2>2, ConnEdits
  <2> HIDE DEF c2
  <2>4. c3 \in ConnectionsIn(data)
    BY <1>6, <2>3, ConnEdits
  <2> HIDE DEF c3
  <2>5. c4 \in ConnectionsIn(data)
    BY <1>6, <2>4, ConnEdits
  <2> HIDE DEF c4
  <2> QED
    BY <1>9, <2>5, ConnEdits, ConnFields
<1> HIDE DEF d
<1>11. /\ conn' \in [Links -> ConnectionsIn(data)] /\ conn'[l] = d
       /\ \A m \in Links : m # l => conn'[m] = conn[m]
  BY <1>2, <1>3, <1>10 DEF ConnOK
<1>12. DataOK' /\ ChanOK' /\ BuffersOK' /\ data' = data
  BY <1>1, Frames
<1>13. ConnOK' /\ GraveOK'
  BY <1>1, <1>3, <1>11, <1>12 DEF ConnOK, GraveOK
<1>14. \A i \in Ids : Used(i) => Used(i)'
  BY <1>1, <1>3, <1>4 DEF SlabOK, Used
<1>15. ParkedOK'
  <2> SUFFICES ASSUME NEW f \in Filters, NEW w \in Range(data[f].waiters)
               PROVE  Used(w.id)' /\ w.req.f = f
    BY <1>12 DEF ParkedOK
  <2>1. data[f].waiters \in Seq(WaitersIn(data))
    BY DEF DataOK, FilterData
  <2>2. Range(data[f].waiters) \subseteq WaitersIn(data)
    BY <2>1, RangeFinite
  <2>3. w.id \in Ids
    BY <2>2 DEF WaitersIn
  <2> QED
    BY <1>14, <2>3 DEF ParkedOK
<1>16. TablesOK'
  <2>1. ready' \in Seq(Ids)
    BY <1>1, <1>4 DEF TablesOK
  <2> QED
    BY <1>1, <2>1 DEF TablesOK
<1>17. TaskOK' /\ TaskHolds' /\ task'.step = "none"
  <2>1. task' \in TasksIn(data')
    BY <1>1, NoTaskOK
  <2>2. task'.step = "none" /\ task'.notes = <<>> /\ Range(task'.notes) = {}
    BY <1>1, NilRange DEF NoTask
  <2> QED
    BY <2>1, <2>2 DEF TaskOK, TaskHolds
<1>18. ASSUME NEW m \in Links PROVE Greeted(m)' /\ (Known(m) => link[m].pc # "idle")'
  <2>1. Greeted(m) /\ (Known(m) => link[m].pc # "idle")
    BY DEF GreetingOK, IdleOK
  <2>2. CASE m = l
    <3>1. Known(l) /\ link'[l].pc # "idle"
      BY <1>1, <2>1, <2>2 DEF Known
    <3>2. conn'[l].acks # <<>> /\ Greets(conn'[l].acks)
      BY <1>4, <1>9, <1>10, <1>11 DEF Greets, Ack
    <3>3. outbuf' = outbuf /\ link' = link /\ task'.step # "requests"
      BY <1>1, <1>17
    <3> QED
      BY <2>1, <2>2, <3>1, <3>2, <3>3 DEF Greeted
  <2>3. CASE m # l
    <3>1. Live(m)' => Live(m)
      BY <1>1, <1>4, <2>3 DEF Live, SlabOK
    <3>2. AcksKeep(conn[m], conn'[m])
      BY <1>11, <2>3 DEF AcksKeep
    <3>3. \A i \in 1 .. Len(chan') : chan'[i].k = "Connect" /\ chan'[i].link = m =>
              \E j \in 1 .. Len(chan) : chan[j] = chan'[i]
      BY <1>1
    <3>4. link'[m] = link[m] /\ outbuf'[m] = outbuf[m]
      BY <1>1
    <3> QED
      BY <1>17, <2>1, <3>1, <3>2, <3>3, <3>4, RouterLink
  <2> QED
    BY <2>2, <2>3
<1>19. GreetingOK' /\ IdleOK'
  BY <1>18 DEF GreetingOK, IdleOK
<1> QED
  BY <1>8, <1>12, <1>13, <1>15, <1>16, <1>17, <1>19

-----------------------------------------------------------------------------
(* consume and forward_device_data *)

\* A turn of consume: what it may change, and what of it has to be shown.
LEMMA ConsumeKeeps ==
    ASSUME BrokerType, InConsume, task.step = "requests",
           DataOK', ParkedOK', Grow(data, data'),
           NEW c \in ConnectionsIn(data), c.acks = conn[task.link].acks,
           conn' = [conn EXCEPT ![task.link] = c],
           ready' \in Seq(Ids), NEW ns \in Seq(Notifications),
           outbuf' = [outbuf EXCEPT ![task.link] = outbuf[task.link] \o ns],
           \/ task' = NoTask
           \/ /\ task' \in TasksIn(data') /\ task'.step = "requests" /\ task'.link = task.link
              /\ task'.id = task.id /\ task'.notes = <<>>
    PROVE  BrokerType'
<1> USE DEF BrokerType
<1> DEFINE l == task.link
<1>1. UNCHANGED <<slab, free, submap, grave, routes, retain, chan, link, inbuf, owes, npub>>
  BY DEF InConsume, linkVars
<1>2. l \in Links /\ slab[task.id] = l
  BY DEF TaskHolds
<1>3. SlabOK' /\ ChanOK' /\ TablesOK'
  <2>1. TablesOK'
    BY <1>1 DEF TablesOK
  <2> QED
    BY <1>1, <2>1, Frames
<1>4. GraveOK'
  <2>1. SessionsIn(data) \subseteq SessionsIn(data')
    BY GrowKeeps
  <2> QED
    BY <1>1, <2>1 DEF GraveOK
<1>5. AcksKeep(conn[l], c)
  BY DEF AcksKeep
<1>6. ConnOK' /\ \A m \in Links : AcksKeep(conn[m], conn'[m])
  <2> HIDE DEF l
  <2>1. conn' = [conn EXCEPT ![l] = c]
    BY DEF l
  <2> QED
    BY <1>2, <1>5, <2>1, ConnPut
<1>7. outbuf[l] \in Seq(Notifications) /\ outbuf \in [Links -> Seq(Notifications)]
  BY <1>2 DEF BuffersOK
<1>8. outbuf[l] \o ns \in Seq(Notifications)
      /\ (outbuf[l] # <<>> => outbuf[l] \o ns # <<>> /\ Head(outbuf[l] \o ns) = Head(outbuf[l]))
  BY <1>7
<1> DEFINE out == outbuf[l] \o ns
<1> HIDE DEF out
<1>9. outbuf' \in [Links -> Seq(Notifications)] /\ outbuf'[l] = out
      /\ \A m \in Links : m # l => outbuf'[m] = outbuf[m]
  BY <1>2, <1>7, <1>8 DEF out
<1>10. BuffersOK'
  BY <1>1, <1>9 DEF BuffersOK
<1>11. TaskOK' /\ TaskHolds' /\ task'.step \in {"none", "requests"}
       /\ (task'.step = "requests" => task'.link = l)
  <2>1. CASE task' = NoTask
    <3>1. task' \in TasksIn(data')
      BY <2>1, NoTaskOK
    <3>2. task'.step = "none" /\ task'.notes = <<>> /\ Range(task'.notes) = {}
      BY <2>1, NilRange DEF NoTask
    <3> QED
      BY <3>1, <3>2 DEF TaskOK, TaskHolds
  <2>2. CASE task' # NoTask
    <3>1. /\ task' \in TasksIn(data') /\ task'.step = "requests" /\ task'.link = task.link
          /\ task'.id = task.id /\ task'.notes = <<>> /\ Range(task'.notes) = {}
      BY <2>2, NilRange
    <3> QED
      BY <1>1, <1>2, <3>1 DEF TaskOK, TaskHolds
  <2> QED
    BY <2>1, <2>2
<1>12. ASSUME NEW m \in Links PROVE Greeted(m)' /\ (Known(m) => link[m].pc # "idle")'
  <2>1. Greeted(m) /\ (Known(m) => link[m].pc # "idle")
    BY DEF GreetingOK, IdleOK
  <2>2. Live(m)' => Live(m) /\ AcksKeep(conn[m], conn'[m])
    BY <1>1, <1>6 DEF Live
  <2>3. \/ outbuf'[m] = outbuf[m]
        \/ outbuf[m] # <<>> /\ outbuf'[m] # <<>> /\ Head(outbuf'[m]) = Head(outbuf[m])
        \/ link[m].pc \notin {"idle", "connecting"}
    <3>1. CASE m = l
      <4>1. Live(l)
        BY <1>2 DEF Live, TaskOK, TasksIn
      <4>2. link[l].pc # "idle"
        BY <2>1, <3>1, <4>1 DEF Known
      <4>3. outbuf[l] = <<>> => link[l].pc # "connecting"
        BY <2>1, <3>1, <4>1 DEF Greeted
      <4> QED
        BY <1>8, <1>9, <3>1, <4>2, <4>3 DEF out
    <3>2. CASE m # l
      BY <1>9, <3>2
    <3> QED
      BY <3>1, <3>2
  <2>4. task'.step = "requests" /\ task'.link = m => task.step = "requests" /\ task.link = m
    BY <1>11
  <2>5. ~(task'.step = "connect" /\ task'.link = m)
    BY <1>11
  <2>6. link'[m] = link[m] /\ \A i \in 1 .. Len(chan') : chan'[i].k = "Connect" /\ chan'[i].link = m =>
              \E j \in 1 .. Len(chan) : chan[j] = chan'[i]
    BY <1>1
  <2> HIDE DEF l
  <2> QED
    BY <2>1, <2>2, <2>3, <2>4, <2>5, <2>6, RouterLink
<1>13. GreetingOK' /\ IdleOK'
  BY <1>12 DEF GreetingOK, IdleOK
<1> QED
  BY <1>3, <1>4, <1>6, <1>10, <1>11, <1>13

\* What a turn of consume is about.
LEMMA ServingFacts ==
    ASSUME BrokerType, task.step = "requests"
    PROVE  /\ task \in TasksIn(data) /\ task.link \in Links /\ task.id \in Ids
           /\ slab[task.id] = task.link /\ Used(task.id) /\ task.notes = <<>>
           /\ task.reqs \in Seq(RequestsIn(data)) /\ task.left \in Nat
           /\ conn[task.link] \in ConnectionsIn(data)
           /\ task.reqs # <<>> => /\ Head(task.reqs) \in RequestsIn(data)
                                  /\ Tail(task.reqs) \in Seq(RequestsIn(data))
<1> USE DEF BrokerType
<1>1. task \in TasksIn(data) /\ task.link \in Links /\ slab[task.id] = task.link
      /\ task.notes = <<>>
  BY DEF TaskOK, TaskHolds
<1>2. task.id \in Ids /\ task.reqs \in Seq(RequestsIn(data)) /\ task.left \in Nat
  BY <1>1, TaskFields
<1>3. Used(task.id) /\ conn[task.link] \in ConnectionsIn(data)
  BY <1>1, BrokerAssumption DEF Used, ConnOK
<1> DEFINE R == RequestsIn(data)
           rs == task.reqs
<1>4. rs \in Seq(R)
  BY <1>2
<1> HIDE DEF R, rs
<1>5. rs # <<>> => Head(rs) \in R /\ Tail(rs) \in Seq(R)
  BY <1>4, TailFacts
<1> QED
  BY <1>1, <1>2, <1>3, <1>5 DEF R, rs

\* pause takes the id the queue ends with.
LEMMA UnqueuedType ==
    ASSUME TablesOK
    PROVE  Unqueued \in Seq(Ids)
<1>1. ready \in Seq(Ids)
  BY DEF TablesOK
<1>2. Len(ready) \in Nat /\ \A i \in 1 .. Len(ready) - 1 : ready[i] \in Ids
  BY <1>1
<1>3. SubSeq(ready, 1, Len(ready) - 1) \in Seq(Ids)
  BY <1>1
<1> QED
  BY <1>3 DEF Unqueued, Front

\* poll: requests and acknowledgements leave the connection.
LEMMA PollKeeps ==
    ASSUME BrokerType, Poll
    PROVE  BrokerType'
<1> USE DEF BrokerType
<1> DEFINE id == Head(ready)
           l == slab[id]
           c == conn[l]
           e == <<>>
           c1 == [c EXCEPT !.acks = e]
           d == [c1 EXCEPT !.reqs = e]
<1>1. /\ ready # <<>> /\ Used(id)
      /\ ready' = Append(Tail(ready), id)
      /\ conn' = [conn EXCEPT ![l].acks = <<>>, ![l].reqs = <<>>]
      /\ outbuf' = [outbuf EXCEPT ![l] = @ \o c.acks]
      /\ task' = [NoTask EXCEPT !.step = "requests", !.id = id, !.link = l,
                                !.reqs = c.reqs, !.left = MaxIterations]
      /\ UNCHANGED <<slab, free, data, submap, grave, routes, retain, chan, link, inbuf, owes, npub>>
      /\ Idle
  BY DEF Poll, linkVars
<1>2. id \in Ids /\ ready' \in Seq(Ids)
  <2>1. ready \in Seq(Ids)
    BY DEF TablesOK
  <2>2. Head(ready) \in Ids /\ Tail(ready) \in Seq(Ids)
    BY <1>1, <2>1, SMTT(40)
  <2>3. id \in Ids /\ ready' = Append(Tail(ready), id)
    BY <1>1, <2>2
  <2> DEFINE t == Tail(ready)
  <2>4. t \in Seq(Ids)
    BY <2>2
  <2> HIDE DEF id, t
  <2>5. Append(t, id) \in Seq(Ids)
    BY <2>3, <2>4
  <2> QED
    BY <2>3, <2>5 DEF t
<1> HIDE DEF id
<1>3. l \in Links
  BY <1>1, <1>2 DEF SlabOK, Used
<1>4. c \in ConnectionsIn(data) /\ conn \in [Links -> ConnectionsIn(data)]
  BY <1>3 DEF ConnOK
<1>5. conn' = [conn EXCEPT ![l] = d]
  BY <1>1, <1>3, <1>4, ConnFields
<1>6. c.acks \in Seq(Acks) /\ c.reqs \in Seq(RequestsIn(data))
  BY <1>4, ConnFields
<1>7. e \in Seq(Acks) /\ e \in Seq(RequestsIn(data)) /\ e = <<>>
  OBVIOUS
<1> HIDE DEF c, e
<1>8. c1 \in ConnectionsIn(data)
  BY <1>4, <1>7, ConnEdits DEF c
<1> HIDE DEF c1
<1>9. d \in ConnectionsIn(data)
  BY <1>7, <1>8, ConnEdits
<1> HIDE DEF d
<1>10. conn' \in [Links -> ConnectionsIn(data)] /\ \A m \in Links : m # l => conn'[m] = conn[m]
  BY <1>3, <1>4, <1>5, <1>9
<1>11. SlabOK' /\ DataOK' /\ ParkedOK' /\ GraveOK' /\ ChanOK' /\ data' = data
  BY <1>1, Frames
<1>12. ConnOK' /\ TablesOK'
  BY <1>1, <1>2, <1>10, <1>11 DEF ConnOK, TablesOK
<1>13. c.acks \in Seq(Notifications)
  <2>1. Acks \subseteq Notifications
    BY DEF Notifications
  <2>2. Seq(Acks) \subseteq Seq(Notifications)
    BY <2>1, SeqMono
  <2> QED
    BY <1>6, <2>2
<1>14. outbuf \in [Links -> Seq(Notifications)] /\ outbuf[l] \in Seq(Notifications)
  BY <1>3 DEF BuffersOK
<1>15. /\ outbuf[l] \o c.acks \in Seq(Notifications)
       /\ outbuf[l] # <<>> => outbuf[l] \o c.acks # <<>> /\ Head(outbuf[l] \o c.acks) = Head(outbuf[l])
       /\ outbuf[l] = <<>> => outbuf[l] \o c.acks = c.acks
  <2> DEFINE o == outbuf[l]
             a == c.acks
             N == Notifications
  <2>1. o \in Seq(N) /\ a \in Seq(N)
    BY <1>13, <1>14
  <2> HIDE DEF o, a, N
  <2>2. o \o a \in Seq(N) /\ (o # <<>> => o \o a # <<>> /\ Head(o \o a) = Head(o))
    BY <2>1
  <2>3. <<>> \o a = a
    BY <2>1
  <2> QED
    BY <2>2, <2>3 DEF o, a, N
<1>16. outbuf' = [outbuf EXCEPT ![l] = outbuf[l] \o c.acks]
  BY <1>1 DEF c
<1> DEFINE out == outbuf[l] \o c.acks
<1> HIDE DEF out
<1>17. outbuf' \in [Links -> Seq(Notifications)] /\ outbuf'[l] = out
       /\ \A m \in Links : m # l => outbuf'[m] = outbuf[m]
  BY <1>3, <1>14, <1>15, <1>16 DEF out
<1>18. BuffersOK'
  BY <1>1, <1>17 DEF BuffersOK
<1>19. TaskOK' /\ TaskHolds' /\ task'.step = "requests" /\ task'.link = l
  <2> DEFINE t1 == [NoTask EXCEPT !.step = "requests"]
             t2 == [t1 EXCEPT !.id = id]
             t3 == [t2 EXCEPT !.link = l]
             rs == c.reqs
             t4 == [t3 EXCEPT !.reqs = rs]
             t5 == [t4 EXCEPT !.left = MaxIterations]
  <2>1. task' = t5 /\ task'.step = "requests" /\ task'.link = l /\ task'.id = id /\ task'.notes = <<>>
    BY <1>1 DEF NoTask, c
  <2>2. MaxIterations \in Nat /\ rs \in Seq(RequestsIn(data'))
    BY <1>6, <1>11, BrokerAssumption
  <2> HIDE DEF rs
  <2>3. t1 \in TasksIn(data')
    BY NoTaskOK, TaskEdits
  <2> HIDE DEF t1
  <2>4. t2 \in TasksIn(data')
    BY <1>2, <2>3, TaskEdits
  <2> HIDE DEF t2
  <2>5. t3 \in TasksIn(data')
    BY <1>3, <2>4, TaskEdits
  <2> HIDE DEF t3
  <2>6. t4 \in TasksIn(data')
    BY <2>2, <2>5, TaskEdits
  <2> HIDE DEF t4
  <2>7. t5 \in TasksIn(data')
    BY <2>2, <2>6, TaskEdits
  <2>8. Range(task'.notes) = {}
    BY <2>1, NilRange
  <2> HIDE DEF t5, l
  <2> QED
    BY <1>1, <1>3, <2>1, <2>7, <2>8 DEF TaskOK, TaskHolds, l
<1>20. ASSUME NEW m \in Links PROVE Greeted(m)' /\ (Known(m) => link[m].pc # "idle")'
  <2>1. Greeted(m) /\ (Known(m) => link[m].pc # "idle")
    BY DEF GreetingOK, IdleOK
  <2>2. CASE m = l
    <3>1. Live(l)
      BY <1>2 DEF Live
    <3>2. link[l].pc # "idle" /\ link'[l] = link[l]
      BY <1>1, <2>1, <2>2, <3>1 DEF Known
    <3>3. ASSUME link[l].pc = "connecting" PROVE Greets(out) /\ out # <<>>
      <4>1. CASE outbuf[l] # <<>>
        BY <1>15, <2>1, <2>2, <3>3, <4>1 DEF Greeted, Greets, out
      <4>2. CASE outbuf[l] = <<>>
        <5>1. c.acks # <<>> /\ Greets(c.acks)
          BY <2>1, <2>2, <3>1, <3>3, <4>2 DEF Greeted, c
        <5> QED
          BY <1>15, <4>2, <5>1 DEF out
      <4> QED
        BY <4>1, <4>2
    <3> QED
      BY <1>17, <2>2, <3>2, <3>3 DEF Greeted
  <2>3. CASE m # l
    <3>1. Live(m)' => Live(m) /\ AcksKeep(conn[m], conn'[m])
      BY <1>1, <1>10, <2>3 DEF Live, AcksKeep
    <3>2. ~(task'.step = "requests" /\ task'.link = m) /\ ~(task'.step = "connect" /\ task'.link = m)
      BY <1>19, <2>3
    <3>3. /\ link'[m] = link[m] /\ outbuf'[m] = outbuf[m]
          /\ \A i \in 1 .. Len(chan') : chan'[i].k = "Connect" /\ chan'[i].link = m =>
              \E j \in 1 .. Len(chan) : chan[j] = chan'[i]
      BY <1>1, <1>17, <2>3
    <3> QED
      BY <2>1, <3>1, <3>2, <3>3, RouterLink
  <2> QED
    BY <2>2, <2>3
<1>21. GreetingOK' /\ IdleOK'
  BY <1>20 DEF GreetingOK, IdleOK
<1> QED
  BY <1>11, <1>12, <1>18, <1>19, <1>21

\* What a request is served: retained messages, and messages of its log, as
\* far as there are slots.
ServeOK(order, read) ==
    LET req == Head(task.reqs) log == data[req.f].log
    IN  /\ order \in Seq(Topics) /\ \A i \in 1 .. Len(order) : retain[order[i]] \in Messages
        /\ read.out \in Seq(Entries(Messages))
        /\ \A i \in 1 .. Len(read.out) : Position(log, read.out[i].at)
        /\ Position(log, read.end) /\ read.done \in BOOLEAN
        /\ read.done => read.end[2] = NextOffset(log)[2]
        /\ Slots(req) \in Nat /\ Slots(req) > 0 /\ Len(order) + Len(read.out) <= Slots(req)
        /\ Expiring = {} /\ ~read.done /\ Len(order) < Slots(req) => Len(read.out) > 0

\* The retained messages of a turn are listed without repetition.
LEMMA OrderFacts ==
    ASSUME NEW room \in Nat, NEW topics, topics \subseteq Topics,
           NEW order \in UNION {SetToSeqs(T) : T \in kSubset(room, topics)}
    PROVE  order \in Seq(topics) /\ Len(order) = room
<1>1. PICK T \in kSubset(room, topics) : order \in SetToSeqs(T)
  OBVIOUS
<1>2. T \subseteq topics /\ Cardinality(T) = room
  BY <1>1 DEF kSubset
<1>3. order \in [1 .. room -> T]
  BY <1>1, <1>2 DEF SetToSeqs
<1>4. order \in [1 .. room -> topics]
  BY <1>2, <1>3
<1> QED
  BY <1>4

\* native_readv: what is read are messages of the log, from the cursor on.
LEMMA ReadingsFacts ==
    ASSUME DataOK, NEW req \in RequestsIn(data), NEW n \in Nat, NEW read \in Readings(req, n)
    PROVE  /\ read.out \in Seq(Entries(Messages)) /\ Len(read.out) <= n
           /\ \A i \in 1 .. Len(read.out) : Position(data[req.f].log, read.out[i].at)
           /\ Position(data[req.f].log, read.end) /\ read.done \in BOOLEAN
           /\ read.done => read.end[2] = NextOffset(data[req.f].log)[2]
           /\ Expiring = {} /\ ~read.done /\ 0 < n => Len(read.out) > 0
<1> DEFINE log == data[req.f].log
           r == ReadV(data[req.f].log, req.cur, n)
           E == Entries(Messages)
<1>1. LogOK(log, Messages) /\ Position(log, req.cur)
  BY DEF DataOK, FilterData, Logs, RequestsIn
<1>2. ReadingOK(log, Messages, req.cur, n, r)
  <2> DEFINE cur == req.cur
  <2> HIDE DEF log, cur
  <2>1. ReadingOK(log, Messages, cur, n, ReadV(log, cur, n))
    BY <1>1, ReadVReads DEF cur
  <2> QED
    BY <2>1 DEF log, cur
<1>3. PICK expired \in SUBSET Expiring :
         read = [r EXCEPT !.out = Where(@, {e \in Range(@) : e.m \notin expired})]
  BY DEF Readings
<1>4. DOMAIN r = {"start", "end", "done", "out"}
  <2>1. r = [start |-> r.start, end |-> r.end, done |-> r.done, out |-> r.out]
    <3> HIDE DEF r
    <3> DEFINE lg == log
               cur == req.cur
    <3>1. ReadV(lg, cur, n) = [start |-> ReadV(lg, cur, n).start, end |-> ReadV(lg, cur, n).end,
                               done |-> ReadV(lg, cur, n).done, out |-> ReadV(lg, cur, n).out]
      BY DEF ReadV
    <3> QED
      BY <3>1 DEF r
  <2> HIDE DEF r
  <2> QED
    BY <2>1
<1> HIDE DEF r
<1> DEFINE T == {e \in Range(r.out) : e.m \notin expired}
           out == Where(r.out, T)
<1>5. read = [r EXCEPT !.out = out]
  BY <1>3
<1>6. r.out \in Seq(E) /\ Len(r.out) <= n /\ Reads(log, r.out, r.start[2]) /\ Position(log, r.end)
      /\ r.done \in BOOLEAN /\ (r.done => r.end[2] = NextOffset(log)[2])
      /\ (~r.done /\ n > 0 => Len(r.out) > 0) /\ r.start = Reached(log, req.cur)
  BY <1>2 DEF ReadingOK
<1>7. out \in Seq(E) /\ Len(out) <= Len(r.out) /\ Range(out) = Range(r.out) \cap T
  BY <1>6, WhereRange
<1> HIDE DEF out
<1>8. read.out = out /\ read.end = r.end /\ read.done = r.done
  BY <1>4, <1>5
<1>9. ASSUME NEW i \in 1 .. Len(r.out) PROVE Position(log, r.out[i].at)
  <2> DEFINE e == r.out[i]
             s == log.segs[e.at[1] - log.head + 1]
  <2>1. e \in E /\ e.at \in Nat \X Nat
    <3>1. e \in E
      <4> HIDE DEF E
      <4> QED
        BY <1>6
    <3> HIDE DEF e
    <3> QED
      BY <3>1 DEF Entries
  <2>2. e.at[1] \in log.head .. log.tail /\ s.abs <= e.at[2] /\ e.at[2] < SegNext(s)
    BY <1>6 DEF Reads
  <2> DEFINE a == e.at
  <2> HIDE DEF e
  <2>3. a \in Nat \X Nat /\ a[1] \in log.head .. log.tail
        /\ log.segs[a[1] - log.head + 1].abs <= a[2]
        /\ a[2] < SegNext(log.segs[a[1] - log.head + 1])
    BY <2>1, <2>2
  <2>4. a[2] \in Nat /\ SegNext(log.segs[a[1] - log.head + 1]) \in Nat
    <3>1. a[1] \in log.head .. log.tail
      BY <2>3
    <3> HIDE DEF a, log
    <3>2. SegNext(log.segs[a[1] - log.head + 1]) \in Nat
      BY <1>1, <3>1, SegmentFacts
    <3> QED
      BY <2>3, <3>2
  <2>5. Within(log, a)
    <3> DEFINE x == a[2]
               y == SegNext(log.segs[a[1] - log.head + 1])
    <3>1. x \in Nat /\ y \in Nat /\ x < y
      BY <2>3, <2>4
    <3> HIDE DEF x, y
    <3>2. x <= y
      BY <3>1
    <3> QED
      BY <2>3, <3>2 DEF Within, x, y
  <2> HIDE DEF a, log
  <2>6. Position(log, a)
    BY <1>1, <2>3, <2>5, WithinIsPosition
  <2> QED
    BY <2>6 DEF a, e
<1>10. ASSUME NEW i \in 1 .. Len(out) PROVE Position(log, out[i].at)
  <2>1. out[i] \in Range(r.out)
    <3>1. DOMAIN out = 1 .. Len(out)
      BY <1>7
    <3>2. out[i] \in Range(out)
      BY <3>1 DEF Range
    <3> QED
      BY <1>7, <3>2
  <2>2. PICK j \in 1 .. Len(r.out) : out[i] = r.out[j]
    BY <1>6, <2>1 DEF Range
  <2> QED
    BY <1>9, <2>2
<1>11. Len(r.out) \in Nat /\ Len(out) \in Nat
  BY <1>6, <1>7
<1>12. ASSUME Expiring = {} PROVE Len(out) = Len(r.out)
  <2>1. \A e \in Range(r.out) : e \in T <=> e \in Range(r.out)
    BY <1>12
  <2> DEFINE U == Range(r.out)
  <2>2. Where(r.out, T) = Where(r.out, U)
    <3> HIDE DEF T
    <3> QED
      BY <1>6, <2>1, WhereSame
  <2>3. Where(r.out, U) = r.out
    BY <1>6, WhereAll
  <2> QED
    BY <2>2, <2>3 DEF out
<1> HIDE DEF log, T
<1>13. /\ out \in Seq(E) /\ Len(out) <= n
       /\ \A i \in 1 .. Len(out) : Position(log, out[i].at)
       /\ Position(log, read.end) /\ read.done \in BOOLEAN
       /\ read.done => read.end[2] = NextOffset(log)[2]
       /\ Expiring = {} /\ ~read.done /\ 0 < n => Len(out) > 0
  BY <1>6, <1>7, <1>8, <1>10, <1>11, <1>12
<1> QED
  BY <1>8, <1>13 DEF log

\* A request that is served has its slots, its messages and its end.
LEMMA ServeRequestOK ==
    ASSUME BrokerType, ServeRequest
    PROVE  \E order, read : ServeOK(order, read) /\ Serve(order, read)
<1> USE DEF BrokerType
<1> DEFINE req == Head(task.reqs)
           topics == IF req.ret THEN RetainedFor(req.f) ELSE {}
           room == IF Cardinality(topics) < Slots(req) THEN Cardinality(topics) ELSE Slots(req)
<1>1. /\ task.step = "requests" /\ task.left > 0 /\ task.reqs # <<>>
      /\ req.qos = 0 \/ Slots(req) > 0
      /\ \E order \in UNION {SetToSeqs(T) : T \in kSubset(room, topics)},
             read \in Readings(req, Slots(req) - room) : Serve(order, read)
  BY DEF ServeRequest
<1>2. req \in RequestsIn(data) /\ conn[task.link] \in ConnectionsIn(data)
  BY <1>1, ServingFacts
<1>3. Slots(req) \in Nat /\ Slots(req) > 0
  <2>1. MaxInflight \in Nat /\ MaxRead \in Nat /\ MaxRead > 0
    BY BrokerAssumption
  <2>2. Len(conn[task.link].inflight) \in Nat
    <3>1. conn[task.link].inflight \in Seq(InflightsIn(data))
      BY <1>2, ConnFields
    <3> QED
      BY <3>1
  <2> HIDE DEF req
  <2>3. CASE req.qos = 0
    BY <2>1, <2>3 DEF Slots
  <2>4. CASE req.qos # 0
    BY <1>1, <2>1, <2>2, <2>4 DEF Slots
  <2> QED
    BY <2>3, <2>4
<1> HIDE DEF req
<1>4. topics \subseteq Topics /\ IsFiniteSet(topics) /\ \A t \in topics : retain[t] \in Messages
  <2>1. topics \subseteq Topics /\ \A t \in topics : retain[t] \in Messages
    BY DEF RetainedFor, TablesOK
  <2>2. IsFiniteSet(Topics)
    BY BrokerAssumption
  <2> QED
    BY <2>1, <2>2, FS_Subset
<1> HIDE DEF topics
<1>5. Cardinality(topics) \in Nat
  BY <1>4, FS_CardinalityType
<1>6. room \in Nat /\ room <= Slots(req) /\ Slots(req) - room \in Nat
  BY <1>3, <1>5
<1>7. PICK order \in UNION {SetToSeqs(T) : T \in kSubset(room, topics)},
           read \in Readings(req, Slots(req) - room) : Serve(order, read)
  BY <1>1
<1> DEFINE n == Slots(req) - room
<1> HIDE DEF room
<1>8. order \in Seq(topics) /\ Len(order) = room
  BY <1>4, <1>6, <1>7, OrderFacts
<1>9. order \in Seq(Topics) /\ \A i \in 1 .. Len(order) : retain[order[i]] \in Messages
  <2>1. Seq(topics) \subseteq Seq(Topics)
    BY <1>4, SeqMono
  <2>2. \A i \in 1 .. Len(order) : order[i] \in topics
    BY <1>8
  <2> QED
    BY <1>4, <1>8, <2>1, <2>2
<1>10. n \in Nat /\ read \in Readings(req, n)
  BY <1>6, <1>7
<1>11. n = Slots(req) - room
  OBVIOUS
<1> HIDE DEF n
<1> DEFINE log == data[req.f].log
<1>12. /\ read.out \in Seq(Entries(Messages)) /\ Len(read.out) <= n
       /\ \A i \in 1 .. Len(read.out) : Position(log, read.out[i].at)
       /\ Position(log, read.end) /\ read.done \in BOOLEAN
       /\ read.done => read.end[2] = NextOffset(log)[2]
       /\ Expiring = {} /\ ~read.done /\ 0 < n => Len(read.out) > 0
  BY <1>2, <1>10, ReadingsFacts
<1>13. Len(read.out) \in Nat
  BY <1>12
<1>14. Len(order) + Len(read.out) <= Slots(req) /\ (Len(order) < Slots(req) => 0 < n)
  BY <1>3, <1>6, <1>8, <1>11, <1>12, <1>13
<1>15. ServeOK(order, read)
  BY <1>3, <1>9, <1>12, <1>14 DEF ServeOK, req
<1> QED
  BY <1>7, <1>15

\* The messages a turn sends: retained ones, then those read.
Sending(order, read) ==
    [i \in 1 .. Len(order) |-> [m |-> retain[order[i]], at |-> None]] \o read.out
Sendable(f) ==
    {x \in [m : Messages, at : Positions \cup {None}] : x.at # None => Position(data[f].log, x.at)}

\* What a turn sends, retained messages first.
LEMMA SendingType ==
    ASSUME NEW order, NEW read, ServeOK(order, read)
    PROVE  /\ Sending(order, read) \in Seq(Sendable(Head(task.reqs).f))
           /\ Len(Sending(order, read)) = Len(order) + Len(read.out)
           /\ Len(order) \in Nat /\ Len(read.out) \in Nat
           /\ \A i \in 1 .. Len(order) : Sending(order, read)[i].at = None
           /\ \A i \in 1 .. Len(read.out) : Sending(order, read)[Len(order) + i] = read.out[i]
<1> DEFINE f == Head(task.reqs).f
           S == Sendable(f)
           kept == [i \in 1 .. Len(order) |-> [m |-> retain[order[i]], at |-> None]]
           out == read.out
<1>1. /\ order \in Seq(Topics) /\ \A i \in 1 .. Len(order) : retain[order[i]] \in Messages
      /\ out \in Seq(Entries(Messages))
      /\ \A i \in 1 .. Len(out) : Position(data[f].log, out[i].at)
  BY DEF ServeOK
<1>2. Len(order) \in Nat /\ Len(out) \in Nat /\ \A i \in 1 .. Len(out) : out[i] \in Entries(Messages)
  BY <1>1
<1> HIDE DEF f, out
<1>3. \A i \in 1 .. Len(order) : kept[i] \in S
  BY <1>1 DEF Sendable
<1>4. \A i \in 1 .. Len(out) : out[i] \in S
  BY <1>1, <1>2 DEF Entries, Positions, Sendable
<1>5. \A i \in 1 .. Len(order) : kept[i].at = None
  OBVIOUS
<1> HIDE DEF S
<1>6. kept \in Seq(S) /\ Len(kept) = Len(order)
  BY <1>2, <1>3
<1> HIDE DEF kept
<1>7. out \in Seq(S)
  BY <1>1, <1>2, <1>4
<1>8. /\ kept \o out \in Seq(S) /\ Len(kept \o out) = Len(order) + Len(out)
      /\ \A i \in 1 .. Len(order) : (kept \o out)[i] = kept[i]
      /\ \A i \in 1 .. Len(out) : (kept \o out)[Len(order) + i] = out[i]
  BY <1>2, <1>6, <1>7
<1>9. Sending(order, read) = kept \o out
  BY DEF Sending, kept, out
<1> QED
  BY <1>2, <1>5, <1>8, <1>9 DEF S, f, out

\* The notifications of a turn and what they leave in flight.
LEMMA ForwardsType ==
    ASSUME BrokerType, task.step = "requests", NEW req \in RequestsIn(data),
           NEW ms \in Seq(Sendable(req.f))
    PROVE  LET fs == Forwards(req, ms)
               c  == conn[task.link]
               in == [i \in 1 .. Len(fs) |-> [pkid |-> fs[i].pkid, f |-> req.f, at |-> fs[i].at]]
           IN  /\ fs \in Seq(ForwardsOut) /\ Len(fs) = Len(ms) /\ Len(ms) \in Nat
               /\ \A i \in 1 .. Len(ms) : /\ fs[i].at = ms[i].at /\ fs[i].m = ms[i].m /\ fs[i].f = req.f
                                          /\ fs[i].qos = req.qos /\ fs[i].k = "Forward"
                                          /\ fs[i].pkid = IF req.qos = 0 THEN 0 ELSE NextPkid(c.pkid, i)
               /\ in \in Seq(InflightsIn(data)) /\ Len(in) = Len(ms)
               /\ \A i \in 1 .. Len(ms) : in[i] = [pkid |-> fs[i].pkid, f |-> req.f, at |-> fs[i].at]
<1> DEFINE c == conn[task.link]
           fs == Forwards(req, ms)
           S == Sendable(req.f)
           O == ForwardsOut
           I == InflightsIn(data)
           in == [i \in 1 .. Len(fs) |-> [pkid |-> fs[i].pkid, f |-> req.f, at |-> fs[i].at]]
           p(i) == IF req.qos = 0 THEN 0 ELSE NextPkid(c.pkid, i)
<1>1. Len(ms) \in Nat /\ \A i \in 1 .. Len(ms) : ms[i] \in S
  <2>1. ms \in Seq(S)
    OBVIOUS
  <2> HIDE DEF S
  <2> QED
    BY <2>1
<1>2. \A i \in 1 .. Len(ms) : ms[i].m \in Messages /\ ms[i].at \in Positions \cup {None}
                              /\ (ms[i].at # None => Position(data[req.f].log, ms[i].at))
  BY <1>1 DEF Sendable
<1>3. req.f \in Filters /\ req.qos \in 0 .. 2
  BY DEF RequestsIn
<1>4. ASSUME NEW i \in 1 .. Len(ms) PROVE p(i) \in Nat
  <2>1. c.pkid \in 0 .. MaxInflight - 1 /\ MaxInflight \in Nat \ {0}
    <3>1. c \in ConnectionsIn(data)
      BY ServingFacts
    <3> QED
      BY <3>1, ConnFields, BrokerAssumption
  <2> DEFINE a == c.pkid + i - 1
  <2>2. a \in Nat /\ i \in Nat
    BY <1>1, <2>1
  <2> HIDE DEF a
  <2>3. (a % MaxInflight) + 1 \in Nat
    BY <2>1, <2>2
  <2>4. NextPkid(c.pkid, i) = (a % MaxInflight) + 1
    BY DEF NextPkid, a
  <2> QED
    BY <2>3, <2>4
<1>5. fs = [i \in 1 .. Len(ms) |-> [k |-> "Forward", f |-> req.f, qos |-> req.qos, pkid |-> p(i),
                                   m |-> ms[i].m, at |-> ms[i].at]]
  BY DEF Forwards, Forward
<1> HIDE DEF p, fs, S
<1>6. \A i \in 1 .. Len(ms) : fs[i] \in O
  BY <1>2, <1>3, <1>4, <1>5 DEF ForwardsOut
<1>7. /\ \A i \in 1 .. Len(ms) : fs[i].at = ms[i].at /\ fs[i].m = ms[i].m /\ fs[i].pkid = p(i)
                                 /\ fs[i].f = req.f /\ fs[i].qos = req.qos /\ fs[i].k = "Forward"
      /\ fs = [i \in 1 .. Len(ms) |-> fs[i]]
  BY <1>5
<1> HIDE DEF O
<1>8. fs \in Seq(O) /\ Len(fs) = Len(ms)
  BY <1>1, <1>6, <1>7
<1>9. \A i \in 1 .. Len(ms) : [pkid |-> fs[i].pkid, f |-> req.f, at |-> fs[i].at] \in I
  BY <1>2, <1>3, <1>4, <1>7 DEF InflightsIn
<1> HIDE DEF I
<1>10. in \in Seq(I) /\ Len(in) = Len(ms)
       /\ \A i \in 1 .. Len(ms) : in[i] = [pkid |-> fs[i].pkid, f |-> req.f, at |-> fs[i].at]
  BY <1>1, <1>8, <1>9
<1> HIDE DEF in
<1> QED
  BY <1>1, <1>7, <1>8, <1>10 DEF fs, O, I, in, p

\* push_forwards
LEMMA InflightType ==
    ASSUME BrokerType, task.step = "requests", NEW req \in RequestsIn(data),
           NEW ms \in Seq(Sendable(req.f))
    PROVE  LET c == conn[task.link]
               d == Inflight(c, req, Forwards(req, ms))
           IN  /\ d \in ConnectionsIn(data) /\ d.acks = c.acks /\ d.reqs = c.reqs /\ d.subs = c.subs
               /\ d.status = c.status
               /\ req.qos = 0 => d = c
               /\ req.qos # 0 =>
                   /\ d.inflight = c.inflight \o [i \in 1 .. Len(Forwards(req, ms)) |->
                        [pkid |-> Forwards(req, ms)[i].pkid, f |-> req.f, at |-> Forwards(req, ms)[i].at]]
                   /\ d.pkid = (c.pkid + Len(ms)) % MaxInflight
<1> DEFINE c == conn[task.link]
           fs == Forwards(req, ms)
           d == Inflight(c, req, fs)
           in == [i \in 1 .. Len(fs) |-> [pkid |-> fs[i].pkid, f |-> req.f, at |-> fs[i].at]]
           all == c.inflight \o in
           k == (c.pkid + Len(fs)) % MaxInflight
           c1 == [c EXCEPT !.inflight = all]
           c2 == [c1 EXCEPT !.pkid = k]
<1>1. c \in ConnectionsIn(data)
  BY ServingFacts
<1>2. in \in Seq(InflightsIn(data)) /\ Len(fs) = Len(ms) /\ Len(ms) \in Nat
  BY ForwardsType
<1>3. c.inflight \in Seq(InflightsIn(data)) /\ c.pkid \in 0 .. MaxInflight - 1
  BY <1>1, ConnFields
<1>4. d = IF req.qos = 0 THEN c ELSE c2
  BY <1>1, ConnFields DEF Inflight
<1> HIDE DEF in, fs, d
<1>5. all \in Seq(InflightsIn(data))
  BY <1>2, <1>3
<1>6. k \in 0 .. MaxInflight - 1
  <2>1. c.pkid + Len(fs) \in Nat /\ MaxInflight \in Nat \ {0}
    <3>1. MaxInflight \in Nat \ {0}
      BY BrokerAssumption
    <3> DEFINE p == c.pkid
               n == Len(fs)
    <3>2. p \in 0 .. MaxInflight - 1 /\ n \in Nat
      BY <1>2, <1>3
    <3> HIDE DEF p, n
    <3>3. p + n \in Nat
      BY <3>1, <3>2
    <3> QED
      BY <3>1, <3>3 DEF p, n
  <2> DEFINE a == c.pkid + Len(fs)
  <2> HIDE DEF a
  <2>2. a % MaxInflight \in 0 .. MaxInflight - 1
    BY <2>1 DEF a
  <2> QED
    BY <2>2 DEF a
<1> HIDE DEF c, all, k
<1>7. c1 \in ConnectionsIn(data) /\ c1.acks = c.acks /\ c1.reqs = c.reqs /\ c1.subs = c.subs
      /\ c1.status = c.status /\ c1.inflight = all
  BY <1>1, <1>5, ConnEdits, ConnFields
<1> HIDE DEF c1
<1>8. c2 \in ConnectionsIn(data) /\ c2.acks = c.acks /\ c2.reqs = c.reqs /\ c2.subs = c.subs
      /\ c2.status = c.status /\ c2.inflight = all /\ c2.pkid = k
  BY <1>6, <1>7, ConnEdits, ConnFields
<1> HIDE DEF c2
<1>9. /\ d \in ConnectionsIn(data) /\ d.acks = c.acks /\ d.reqs = c.reqs /\ d.subs = c.subs
      /\ d.status = c.status /\ (req.qos = 0 => d = c)
      /\ (req.qos # 0 => d.inflight = all /\ d.pkid = k)
  BY <1>1, <1>4, <1>8
<1>10. k = (c.pkid + Len(ms)) % MaxInflight
  BY <1>2 DEF k
<1> QED
  BY <1>9, <1>10 DEF c, d, all, in, fs

\* A request that is put behind others.
LEMMA BehindType ==
    ASSUME NEW S, NEW s \in Seq(S), NEW t \in Seq(S), NEW x \in S
    PROVE  s \o t \o <<x>> \in Seq(S) /\ Append(t, x) \in Seq(S)
OBVIOUS

\* A turn that serves nothing: slots used up, all parked, or out of iterations.
LEMMA TurnEndKeeps ==
    ASSUME BrokerType, RequestInflightFull \/ CaughtUp \/ TurnEnds
    PROVE  BrokerType'
<1> USE DEF BrokerType
<1> DEFINE c == conn[task.link]
           req == Head(task.reqs)
           e == <<>>
<1>1. /\ task.step = "requests" /\ InConsume /\ task' = NoTask
      /\ UNCHANGED <<data, outbuf>>
  BY DEF RequestInflightFull, CaughtUp, TurnEnds
<1>2. /\ task.link \in Links /\ task.reqs \in Seq(RequestsIn(data)) /\ c \in ConnectionsIn(data)
      /\ task.reqs # <<>> => req \in RequestsIn(data) /\ Tail(task.reqs) \in Seq(RequestsIn(data))
  BY <1>1, ServingFacts
<1>3. c.reqs \in Seq(RequestsIn(data))
  BY <1>2, ConnFields
<1>4. Grow(data, data') /\ DataOK' /\ ParkedOK'
  <2>1. data' = data /\ slab' = slab
    BY <1>1 DEF InConsume
  <2> QED
    BY <2>1, Frames DEF Grow
<1>5. Unqueued \in Seq(Ids) /\ ready \in Seq(Ids)
  BY UnqueuedType DEF TablesOK
<1>6. e \in Seq(Notifications) /\ outbuf' = [outbuf EXCEPT ![task.link] = outbuf[task.link] \o e]
  <2>1. outbuf[task.link] \in Seq(Notifications) /\ outbuf \in [Links -> Seq(Notifications)]
    BY <1>2 DEF BuffersOK
  <2> DEFINE o == outbuf[task.link]
             N == Notifications
  <2> HIDE DEF o, N
  <2>2. o \o e = o
    <3>1. o \in Seq(N)
      BY <2>1 DEF o, N
    <3> QED
      BY <3>1
  <2>3. outbuf' = outbuf
    BY <1>1
  <2>4. e \in Seq(N)
    OBVIOUS
  <2> QED
    BY <1>2, <2>1, <2>2, <2>3, <2>4 DEF o, N
<1>7. \E d \in ConnectionsIn(data) : d.acks = c.acks /\ conn' = [conn EXCEPT ![task.link] = d]
  <2>1. CASE RequestInflightFull
    <3> DEFINE rs == c.reqs \o Tail(task.reqs) \o <<req>>
               c1 == [c EXCEPT !.reqs = rs]
               d == [c1 EXCEPT !.status = "InflightFull"]
    <3>1. task.reqs # <<>> /\ conn' = [conn EXCEPT ![task.link] = d]
      BY <2>1 DEF RequestInflightFull, Paused
    <3>2. rs \in Seq(RequestsIn(data))
      <4> HIDE DEF c, req
      <4> QED
        BY <1>2, <1>3, <3>1, BehindType
    <3> HIDE DEF rs, c
    <3>3. c1 \in ConnectionsIn(data) /\ c1.acks = c.acks
      BY <1>2, <3>2, ConnEdits, ConnFields
    <3> HIDE DEF c1
    <3>4. d \in ConnectionsIn(data) /\ d.acks = c.acks
      BY <3>3, ConnEdits, ConnFields, ZenonT(40) DEF Statuses
    <3> QED
      BY <3>1, <3>4
  <2>2. CASE CaughtUp
    <3> DEFINE d == [c EXCEPT !.status = "Caughtup"]
    <3>1. conn' = [conn EXCEPT ![task.link] = d]
      BY <2>2 DEF CaughtUp, Paused
    <3>2. "Caughtup" \in Statuses
      BY DEF Statuses
    <3> HIDE DEF c
    <3>3. d \in ConnectionsIn(data) /\ d.acks = c.acks
      BY <1>2, <3>2, ConnEdits, ConnFields
    <3> HIDE DEF d
    <3> QED
      BY <3>1, <3>3
  <2>3. CASE TurnEnds
    <3> DEFINE rs == c.reqs \o task.reqs
               d == [c EXCEPT !.reqs = rs]
    <3>1. conn' = [conn EXCEPT ![task.link] = d]
      BY <2>3, <1>2 DEF TurnEnds, ConnOK
    <3>2. rs \in Seq(RequestsIn(data))
      <4> HIDE DEF c
      <4> QED
        BY <1>2, <1>3
    <3> HIDE DEF rs
    <3>3. d \in ConnectionsIn(data) /\ d.acks = c.acks
      BY <1>2, <3>2, ConnEdits, ConnFields
    <3> HIDE DEF d
    <3> QED
      BY <3>1, <3>3
  <2> QED
    BY <2>1, <2>2, <2>3
<1>8. PICK d \in ConnectionsIn(data) : d.acks = c.acks /\ conn' = [conn EXCEPT ![task.link] = d]
  BY <1>7
<1>9. ready' \in Seq(Ids)
  BY <1>5 DEF RequestInflightFull, CaughtUp, TurnEnds
<1> HIDE DEF e
<1> QED
  BY <1>1, <1>4, <1>6, <1>8, <1>9, ConsumeKeeps

\* What is left of a request that has been served.
Following(read) == [Head(task.reqs) EXCEPT !.cur = read.end, !.ret = FALSE]

\* A turn in three parts: the buffer is full, the request is parked, or it is
\* served again.
TurnOut(order, read) == Forwards(Head(task.reqs), Sending(order, read))
TurnFull(order, read) ==
    TurnOut(order, read) # <<>> /\ Len(outbuf[task.link]) + Len(TurnOut(order, read)) >= BufferLimit
TurnLeaves(order, read) == Inflight(conn[task.link], Head(task.reqs), TurnOut(order, read))
TurnBusy(order, read) ==
    /\ TurnFull(order, read)
    /\ conn' = [conn EXCEPT ![task.link] =
                  Paused([TurnLeaves(order, read) EXCEPT
                            !.reqs = @ \o Tail(task.reqs) \o <<Following(read)>>], "Busy")]
    /\ ready' = Unqueued /\ task' = NoTask /\ data' = data
TurnParks(order, read) ==
    /\ ~TurnFull(order, read) /\ (TurnOut(order, read) = <<>> \/ read.done)
    /\ conn' = [conn EXCEPT ![task.link] = TurnLeaves(order, read)] /\ ready' = ready
    /\ data' = [data EXCEPT ![Head(task.reqs).f].waiters =
                  Append(@, [id |-> task.id, req |-> Following(read)])]
    /\ task' = [task EXCEPT !.reqs = Tail(task.reqs), !.left = task.left - 1]
TurnAgain(order, read) ==
    /\ ~TurnFull(order, read) /\ TurnOut(order, read) # <<>> /\ ~read.done
    /\ conn' = [conn EXCEPT ![task.link] = TurnLeaves(order, read)] /\ ready' = ready
    /\ data' = data
    /\ task' = [task EXCEPT !.reqs = Append(Tail(task.reqs), Following(read)), !.left = task.left - 1]

\* forward_device_data ends in one of the three.
LEMMA ServeParts ==
    ASSUME NEW order, NEW read, Serve(order, read)
    PROVE  /\ outbuf' = [outbuf EXCEPT ![task.link] = outbuf[task.link] \o TurnOut(order, read) \o
                            (IF TurnFull(order, read) THEN <<Unschedule>> ELSE <<>>)]
           /\ InConsume
           /\ TurnBusy(order, read) \/ TurnParks(order, read) \/ TurnAgain(order, read)
<1> DEFINE req == Head(task.reqs)
           rest == Tail(task.reqs)
           fs == TurnOut(order, read)
           next == Following(read)
           l == task.link
           served == TurnLeaves(order, read)
           full == Len(outbuf[l]) + Len(fs) >= BufferLimit
<1>1. /\ outbuf' = [outbuf EXCEPT ![l] = @ \o fs \o (IF fs # <<>> /\ full THEN <<Unschedule>> ELSE <<>>)]
      /\ IF fs # <<>> /\ full
         THEN /\ conn' = [conn EXCEPT ![l] = Paused([served EXCEPT !.reqs = @ \o rest \o <<next>>], "Busy")]
              /\ ready' = Unqueued
              /\ task' = NoTask
              /\ UNCHANGED data
         ELSE /\ conn' = [conn EXCEPT ![l] = served]
              /\ UNCHANGED ready
              /\ IF fs = <<>> \/ read.done
                 THEN /\ data' = [data EXCEPT ![req.f].waiters =
                                    Append(@, [id |-> task.id, req |-> next])]
                      /\ task' = [task EXCEPT !.reqs = rest, !.left = @ - 1]
                 ELSE /\ task' = [task EXCEPT !.reqs = Append(rest, next), !.left = @ - 1]
                      /\ UNCHANGED data
      /\ InConsume
  BY Zenon DEF Serve, Sending, Following, TurnOut, TurnLeaves
<1>2. TurnFull(order, read) <=> fs # <<>> /\ full
  BY DEF TurnFull
<1>3. outbuf' = [outbuf EXCEPT ![l] = @ \o fs \o (IF TurnFull(order, read) THEN <<Unschedule>> ELSE <<>>)]
  <2>1. CASE fs # <<>> /\ full
    BY <1>1, <1>2, <2>1
  <2>2. CASE ~(fs # <<>> /\ full)
    BY <1>1, <1>2, <2>2
  <2> QED
    BY <2>1, <2>2
<1> HIDE DEF full
<1>4. CASE fs # <<>> /\ full
  <2>1. TurnBusy(order, read)
    BY <1>1, <1>2, <1>4, Zenon DEF TurnBusy
  <2> QED
    BY <1>1, <1>3, <2>1
<1>5. CASE ~(fs # <<>> /\ full) /\ (fs = <<>> \/ read.done)
  <2>1. task' = [task EXCEPT !.reqs = rest, !.left = task.left - 1]
    BY <1>1, <1>5
  <2>2. TurnParks(order, read)
    BY <1>1, <1>2, <1>5, <2>1, Zenon DEF TurnParks
  <2> QED
    BY <1>1, <1>3, <2>2
<1>6. CASE ~(fs # <<>> /\ full) /\ ~(fs = <<>> \/ read.done)
  <2>1. task' = [task EXCEPT !.reqs = Append(rest, next), !.left = task.left - 1]
    BY <1>1, <1>6
  <2>2. TurnAgain(order, read)
    BY <1>1, <1>2, <1>6, <2>1, Zenon DEF TurnAgain
  <2> QED
    BY <1>1, <1>3, <2>2
<1> QED
  BY <1>4, <1>5, <1>6

\* Lists one after the other.
LEMMA ConcatThree ==
    ASSUME NEW S, NEW s \in Seq(S), NEW t \in Seq(S), NEW u \in Seq(S)
    PROVE  t \o u \in Seq(S) /\ (s \o t) \o u = s \o (t \o u)
OBVIOUS

\* What is left of a request is a request of the same log.
LEMMA FollowingType ==
    ASSUME BrokerType, task.step = "requests", task.reqs # <<>>,
           NEW order, NEW read, ServeOK(order, read)
    PROVE  /\ Following(read) \in RequestsIn(data) /\ Following(read).f = Head(task.reqs).f
           /\ Following(read).cur = read.end /\ Following(read).qos = Head(task.reqs).qos
           /\ [id |-> task.id, req |-> Following(read)] \in WaitersIn(data)
<1> DEFINE req == Head(task.reqs)
<1>1. req \in RequestsIn(data) /\ task.id \in Ids
  BY ServingFacts
<1>2. Position(data[req.f].log, read.end)
  BY DEF ServeOK
<1>3. read.end \in Positions
  BY <1>2 DEF Position, Positions
<1> HIDE DEF req
<1>4. [req EXCEPT !.cur = read.end, !.ret = FALSE] \in RequestsIn(data)
  BY <1>1, <1>2, <1>3 DEF RequestsIn
<1>5. [req EXCEPT !.cur = read.end, !.ret = FALSE].f = req.f
      /\ [req EXCEPT !.cur = read.end, !.ret = FALSE].qos = req.qos
      /\ [req EXCEPT !.cur = read.end, !.ret = FALSE].cur = read.end
  BY <1>1 DEF RequestsIn
<1>6. Following(read) = [req EXCEPT !.cur = read.end, !.ret = FALSE]
  BY DEF Following, req
<1> QED
  BY <1>1, <1>4, <1>5, <1>6 DEF WaitersIn, req

\* A turn goes on with other requests.
LEMMA TurnGoesOn ==
    ASSUME BrokerType, task.step = "requests", task.left > 0, NEW d,
           task \in TasksIn(d), NEW rs \in Seq(RequestsIn(d)),
           task' = [task EXCEPT !.reqs = rs, !.left = task.left - 1]
    PROVE  /\ task' \in TasksIn(d) /\ task'.step = "requests" /\ task'.link = task.link
           /\ task'.id = task.id /\ task'.notes = <<>> /\ task'.reqs = rs
<1> DEFINE t1 == [task EXCEPT !.reqs = rs]
           n == task.left - 1
           t2 == [t1 EXCEPT !.left = n]
<1>1. task.left \in Nat /\ task.notes = <<>>
  BY ServingFacts
<1>2. n \in Nat
  BY <1>1
<1>3. task' = t2
  BY TaskFields
<1>4. /\ t2.step = task.step /\ t2.link = task.link /\ t2.id = task.id /\ t2.notes = task.notes
      /\ t2.reqs = rs
  BY TaskFields
<1> HIDE DEF n
<1>5. t1 \in TasksIn(d)
  BY TaskEdits
<1> HIDE DEF t1
<1>6. t2 \in TasksIn(d)
  BY <1>2, <1>5, TaskEdits
<1> QED
  BY <1>1, <1>3, <1>4, <1>6

\* forward_device_data.
LEMMA ServeKeeps ==
    ASSUME BrokerType, task.step = "requests", task.left > 0, task.reqs # <<>>,
           NEW order, NEW read, ServeOK(order, read), Serve(order, read)
    PROVE  BrokerType'
<1> USE DEF BrokerType
<1> DEFINE req == Head(task.reqs)
           fs == TurnOut(order, read)
           next == Following(read)
           rest == Tail(task.reqs)
           full == TurnFull(order, read)
           c == conn[task.link]
           served == TurnLeaves(order, read)
           tail == IF full THEN <<Unschedule>> ELSE <<>>
           ns == fs \o tail
           R == RequestsIn(data)
           f == req.f
           Busy == TurnBusy(order, read)
           Parked == TurnParks(order, read)
           Again == TurnAgain(order, read)
<1>1. /\ outbuf' = [outbuf EXCEPT ![task.link] = outbuf[task.link] \o fs \o tail]
      /\ InConsume /\ (Busy \/ Parked \/ Again)
  BY ServeParts
<1>2. /\ task \in TasksIn(data) /\ task.link \in Links /\ task.id \in Ids
      /\ req \in R /\ rest \in Seq(R) /\ c \in ConnectionsIn(data)
      /\ Used(task.id)
  BY ServingFacts
<1>3. Sending(order, read) \in Seq(Sendable(f))
  BY SendingType
<1>4. fs \in Seq(ForwardsOut)
  BY <1>2, <1>3, ForwardsType DEF TurnOut
<1>5. served \in ConnectionsIn(data) /\ served.acks = c.acks /\ served.reqs = c.reqs
  BY <1>2, <1>3, InflightType DEF TurnOut, TurnLeaves
<1>6. next \in R /\ next.f = f /\ [id |-> task.id, req |-> next] \in WaitersIn(data)
  BY FollowingType
<1>7. ns \in Seq(Notifications) /\ outbuf' = [outbuf EXCEPT ![task.link] = outbuf[task.link] \o ns]
  <2>1. ForwardsOut \subseteq Notifications /\ Unschedule \in Notifications
    BY DEF Notifications
  <2>2. Seq(ForwardsOut) \subseteq Seq(Notifications)
    BY <2>1, SeqMono
  <2>3. fs \in Seq(Notifications)
    BY <1>4, <2>2
  <2>4. tail \in Seq(Notifications)
    <3> HIDE DEF fs, full
    <3> DEFINE N == Notifications
    <3> HIDE DEF N
    <3>1. <<Unschedule>> \in Seq(N) /\ <<>> \in Seq(N)
      BY <2>1 DEF N
    <3> QED
      BY <3>1 DEF N
  <2>5. outbuf[task.link] \in Seq(Notifications)
    BY <1>2 DEF BuffersOK
  <2> DEFINE N == Notifications
             o == outbuf[task.link]
  <2> HIDE DEF fs, tail, N, o
  <2>6. ns \in Seq(N) /\ (o \o fs) \o tail = o \o ns
    <3>1. fs \in Seq(N) /\ tail \in Seq(N) /\ o \in Seq(N)
      BY <2>3, <2>4, <2>5 DEF N, o
    <3> QED
      BY <3>1, ConcatThree
  <2> QED
    BY <1>1, <2>6 DEF N, o
<1> HIDE DEF fs, next, rest, full, served, req, ns
<1>8. ready \in Seq(Ids) /\ Unqueued \in Seq(Ids)
  BY UnqueuedType DEF TablesOK
<1>9. CASE Busy
  <2> DEFINE rs == served.reqs \o rest \o <<next>>
             c1 == [served EXCEPT !.reqs = rs]
             d == [c1 EXCEPT !.status = "Busy"]
  <2>1. conn' = [conn EXCEPT ![task.link] = d]
    BY <1>9 DEF Paused, TurnBusy, served, rest, next
  <2>2. rs \in Seq(R)
    <3>1. served.reqs \in Seq(R)
      BY <1>5, ConnFields
    <3> HIDE DEF R
    <3> QED
      BY <1>2, <1>6, <3>1, BehindType
  <2> HIDE DEF rs
  <2>3. c1 \in ConnectionsIn(data) /\ c1.acks = c.acks
    BY <1>5, <2>2, ConnEdits, ConnFields
  <2>4. "Busy" \in Statuses
    BY DEF Statuses
  <2> HIDE DEF c1
  <2>5. d \in ConnectionsIn(data) /\ d.acks = c.acks
    BY <2>3, <2>4, ConnEdits, ConnFields
  <2> HIDE DEF d
  <2>6. data' = data /\ slab' = slab /\ task' = NoTask /\ ready' = Unqueued
    BY <1>1, <1>9 DEF InConsume, TurnBusy
  <2>7. Grow(data, data') /\ DataOK' /\ ParkedOK'
    BY <2>6, Frames DEF Grow
  <2> QED
    BY <1>1, <1>7, <1>8, <2>1, <2>5, <2>6, <2>7, ConsumeKeeps
<1>10. CASE Parked
  <2> DEFINE w == [id |-> task.id, req |-> next]
             ws == data[f].waiters
             e == [data[f] EXCEPT !.waiters = Append(ws, w)]
  <2>1. f \in Filters
    BY <1>2 DEF RequestsIn
  <2>2. /\ data[f] \in FilterData(data) /\ ws \in Seq(WaitersIn(data))
        /\ \A v \in Range(ws) : Used(v.id) /\ v.req.f = f
    BY <2>1 DEF DataOK, ParkedOK, FilterData
  <2>3. Append(ws, w) \in Seq(WaitersIn(data)) /\ Range(Append(ws, w)) = Range(ws) \cup {w}
    <3> DEFINE W == WaitersIn(data)
    <3>1. ws \in Seq(W) /\ w \in W
      BY <1>6, <2>2
    <3> HIDE DEF W, ws, w
    <3> QED
      BY <3>1, AppendFacts DEF W
  <2>4. \A v \in Range(Append(ws, w)) : Used(v.id) /\ v.req.f = f
    BY <1>2, <1>6, <2>2, <2>3
  <2>5. e \in FilterData(data) /\ e.log = data[f].log /\ e.waiters = Append(ws, w)
    <3> DEFINE W == Append(ws, w)
    <3>1. W \in Seq(WaitersIn(data))
      BY <2>3
    <3> HIDE DEF W
    <3>2. [data[f] EXCEPT !.waiters = W] \in FilterData(data)
          /\ [data[f] EXCEPT !.waiters = W].log = data[f].log
          /\ [data[f] EXCEPT !.waiters = W].waiters = W
      BY <2>2, <3>1 DEF FilterData
    <3> QED
      BY <3>2 DEF W
  <2>6. data' = [data EXCEPT ![f] = e] /\ slab' = slab
    BY <1>1, <1>10 DEF InConsume, TurnParks, req, next
  <2> HIDE DEF f, w
  <2>7. DataOK' /\ ParkedOK' /\ Grow(data, data')
    <3> HIDE DEF e
    <3>1. \A v \in Range(e.waiters) : Used(v.id) /\ v.req.f = f
      BY <2>4, <2>5
    <3> QED
      BY <2>1, <2>5, <2>6, <3>1, DataPut
  <2>8. task \in TasksIn(data') /\ rest \in Seq(RequestsIn(data'))
    <3>1. /\ RequestsIn(data) \subseteq RequestsIn(data') /\ TasksIn(data) \subseteq TasksIn(data')
      BY <2>7, GrowKeeps
    <3>2. Seq(RequestsIn(data)) \subseteq Seq(RequestsIn(data'))
      BY <3>1, SeqMono
    <3> QED
      BY <1>2, <3>1, <3>2
  <2>9. task' \in TasksIn(data') /\ task'.step = "requests" /\ task'.link = task.link
        /\ task'.id = task.id /\ task'.notes = <<>>
    BY <1>10, <2>8, TurnGoesOn DEF TurnParks, rest
  <2> QED
    <3>1. conn' = [conn EXCEPT ![task.link] = served] /\ ready' = ready
      BY <1>10 DEF TurnParks, served
    <3> QED
      BY <1>1, <1>5, <1>7, <1>8, <2>7, <2>9, <3>1, ConsumeKeeps
<1>11. CASE Again
  <2>1. data' = data /\ slab' = slab
    BY <1>1, <1>11 DEF InConsume, TurnAgain
  <2>2. Grow(data, data') /\ DataOK' /\ ParkedOK'
    BY <2>1, Frames DEF Grow
  <2>3. Append(rest, next) \in Seq(R)
    <3> HIDE DEF R
    <3> QED
      BY <1>2, <1>6
  <2> DEFINE rs == Append(rest, next)
  <2> HIDE DEF rs
  <2>4. task' \in TasksIn(data) /\ task'.step = "requests" /\ task'.link = task.link
        /\ task'.id = task.id /\ task'.notes = <<>>
    <3>1. rs \in Seq(RequestsIn(data)) /\ task' = [task EXCEPT !.reqs = rs, !.left = task.left - 1]
      BY <1>11, <2>3 DEF rs, TurnAgain, rest, next
    <3> QED
      BY <1>2, <3>1, TurnGoesOn
  <2> QED
    <3>1. conn' = [conn EXCEPT ![task.link] = served] /\ ready' = ready
      BY <1>11 DEF TurnAgain, served
    <3> QED
      BY <1>1, <1>5, <1>7, <1>8, <2>1, <2>2, <2>4, <3>1, ConsumeKeeps
<1> QED
  BY <1>1, <1>9, <1>10, <1>11

\* A request of the turn is served.
LEMMA ServeRequestKeeps ==
    ASSUME BrokerType, ServeRequest
    PROVE  BrokerType'
<1>1. task.step = "requests" /\ task.left > 0 /\ task.reqs # <<>>
  BY DEF ServeRequest
<1>2. PICK order, read : ServeOK(order, read) /\ Serve(order, read)
  BY ServeRequestOK
<1> QED
  BY <1>1, <1>2, ServeKeeps

-----------------------------------------------------------------------------
(* Every step *)

\* Every event.
LEMMA HandleEventKeeps ==
    ASSUME BrokerType, NEW e, HandleEvent(e)
    PROVE  BrokerType'
BY HandleConnectKeeps, HandleDeviceDataKeeps, HandleDisconnectKeeps, HandleReadyKeeps DEF
          HandleEvent

\* Every packet.
LEMMA HandlePacketKeeps ==
    ASSUME BrokerType, NEW p, HandlePacket(p)
    PROVE  BrokerType'
BY PublishPacketKeeps, RecordPacketKeeps, PubRelPacketKeeps, SubscribePacketKeeps,
   UnsubscribePacketKeeps, AckPacketKeeps, OtherPacketKeeps DEF HandlePacket

\* Every step of the router.
LEMMA RouterStepKeeps ==
    ASSUME BrokerType, RouterStep
    PROVE  BrokerType'
<1>1. CASE chan # <<>> /\ HandleEvent(Head(chan))
  BY <1>1, HandleEventKeeps
<1>2. CASE \E id \in Ids : DropDuplicate(id)
  BY <1>2, DropDuplicateKeeps
<1>3. CASE Refuse \/ PollNothing \/ PollStale \/ Drained
  BY <1>3, NothingKeeps
<1>4. CASE Admit
  BY <1>4, AdmitKeeps
<1>5. CASE task.cache # <<>> /\ HandlePacket(Head(task.cache))
  BY <1>5, HandlePacketKeeps
<1>6. CASE ForceAcks
  BY <1>6, ForceAcksKeeps
<1>7. CASE NotifyWaiter
  BY <1>7, NotifyWaiterKeeps
<1>8. CASE EndPayload
  BY <1>8, EndPayloadKeeps
<1>9. CASE Poll
  BY <1>9, PollKeeps
<1>10. CASE ServeRequest
  BY <1>10, ServeRequestKeeps
<1>11. CASE RequestInflightFull \/ CaughtUp \/ TurnEnds
  BY <1>11, TurnEndKeeps
<1> QED
  BY <1>1, <1>2, <1>3, <1>4, <1>5, <1>6, <1>7, <1>8, <1>9, <1>10, <1>11 DEF RouterStep

\* Every step of the broker.
LEMMA NextKeeps ==
    ASSUME BrokerType, [Next]_vars
    PROVE  BrokerType'
<1>1. CASE RouterStep
  BY <1>1, RouterStepKeeps
<1>2. CASE \E l \in Links : LinkStep(l) \/ ClientStep(l) \/ ClientAnswer(l)
  <2>1. PICK l \in Links : LinkStep(l) \/ ClientStep(l) \/ ClientAnswer(l)
    BY <1>2
  <2>2. CASE Dial(l)
    BY <2>2, DialKeeps
  <2>3. CASE Established(l)
    BY <2>3, EstablishedKeeps
  <2>4. CASE Refused(l) \/ Exchange(l) \/ Wake(l) \/ Dropped(l) \/ Fail(l) \/ GreetFails(l)
    BY <2>4, LinkStepKeeps
  <2>5. CASE \/ ClientAnswer(l)
             \/ \E t \in Topics, q \in PublishQos : ClientPublish(l, t, q)
             \/ \E p \in ControlPackets : ClientControl(l, p)
    BY <2>5, ClientKeeps
  <2> QED
    BY <2>1, <2>2, <2>3, <2>4, <2>5 DEF LinkStep, ClientStep
<1>3. CASE UNCHANGED vars
  <2>1. UNCHANGED <<slab, free, conn, submap, data, routes, retain, ready, grave, task, link, owes,
                    npub, chan, inbuf, outbuf>>
    BY <1>3 DEF vars, routerVars, linkVars
  <2>2. /\ SlabOK' /\ DataOK' /\ ParkedOK' /\ ConnOK' /\ TablesOK' /\ GraveOK' /\ TaskOK'
        /\ TaskHolds' /\ ChanOK' /\ BuffersOK'
    BY <2>1, Frames DEF BrokerType
  <2>3. IdleOK'
    BY <2>1 DEF BrokerType, IdleOK, Known, Live
  <2>4. GreetingOK'
    BY <2>1 DEF BrokerType, GreetingOK, Greeted, Greets, Live
  <2> QED
    BY <2>2, <2>3, <2>4 DEF BrokerType
<1> QED
  BY <1>1, <1>2, <1>3 DEF Next

\* Every cursor the broker keeps, in a tracker, on a log, in flight, in the
\* graveyard or in the router's hands, stays a position of its log, and ids
\* name connections that are there.
THEOREM BrokerTypeInvariant == Spec => []BrokerType
<1>1. Init => BrokerType
  BY InitType
<1>2. BrokerType /\ [Next]_vars => BrokerType'
  BY NextKeeps
<1> QED
  BY <1>1, <1>2, PTL DEF Spec

\* TypeOK is a part of it.
LEMMA TypeFollows == BrokerType => TypeOK
<1> SUFFICES ASSUME BrokerType PROVE TypeOK
  OBVIOUS
<1> USE DEF BrokerType
<1>1. \A i, j \in Ids : i # j /\ Used(i) => slab[i] # slab[j]
  BY DEF SlabOK, Used
<1>2. IsInjective(free) /\ Range(free) = {id \in Ids : ~Used(id)} /\ slab \in [Ids -> Links \cup {None}]
  BY DEF SlabOK
<1>3. \A l \in Links : conn[l].status \in Statuses /\ conn[l].subs \subseteq Filters
  BY ConnFields DEF ConnOK
<1>4. Range(ready) \subseteq Ids
  BY RangeFinite DEF TablesOK
<1>5. ASSUME NEW c \in Clients PROVE Cardinality(ConnectionOf(c)) <= 1
  <2>1. CASE ConnectionOf(c) = {}
    BY <2>1, FS_EmptySet
  <2>2. CASE ConnectionOf(c) # {}
    <3>1. PICK id \in ConnectionOf(c) : TRUE
      BY <2>2
    <3>2. ConnectionOf(c) = {id}
      BY <3>1 DEF ConnectionOf, SlabOK
    <3> QED
      BY <3>2, FS_Singleton, SMTT(40)
  <2> QED
    BY <2>1, <2>2
<1> QED
  BY <1>1, <1>2, <1>3, <1>4, <1>5 DEF TypeOK, TablesOK, ChanOK, BuffersOK

\* Slab, vacant list, tables and queues keep their types, and a client has
\* one connection at most (handle_new_connection).
THEOREM BrokerTypeCorrect == Spec => []TypeOK
<1> QED
  BY BrokerTypeInvariant, TypeFollows, PTL

=============================================================================

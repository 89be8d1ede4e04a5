---------------------------- MODULE PolicyProofs ----------------------------
(***************************************************************************)
(* What Policy's operators compute: the search of route and the decisions  *)
(* of evaluate.                                                            *)
(***************************************************************************)
EXTENDS Policy, FiniteSets, FiniteSetTheorems, WellFoundedInduction, SequenceTheorems, TLAPS

-----------------------------------------------------------------------------
(***************************************************************************)
(* Eight states bound every loop of the search to eight turns.             *)
(***************************************************************************)

Turns(S) == [1 .. 8 -> [S -> S]]

Follows(S, a, g, f) ==
  f \in [0 .. 8 -> S] /\ f[0] = a /\ \A k \in 1 .. 8 : f[k] = g[k][f[k - 1]]

\* Eight turns from a value are a function on 0 .. 8.
LEMMA EightTurns ==
  ASSUME NEW S, NEW a \in S, NEW g \in Turns(S)
  PROVE  \E f : Follows(S, a, g, f)
<1> DEFINE v1 == g[1][a]
           v2 == g[2][v1]
           v3 == g[3][v2]
           v4 == g[4][v3]
           v5 == g[5][v4]
           v6 == g[6][v5]
           v7 == g[7][v6]
           v8 == g[8][v7]
           t == <<v1, v2, v3, v4, v5, v6, v7, v8>>
           f == [k \in 0 .. 8 |-> IF k = 0 THEN a ELSE t[k]]
<1>1. \A k \in 1 .. 8 : \A x \in S : g[k][x] \in S
  BY DEF Turns
<1>2. \A k \in 1 .. 8 : k \in {1, 2, 3, 4, 5, 6, 7, 8}
  OBVIOUS
<1>3. 1 \in 1 .. 8 /\ 2 \in 1 .. 8 /\ 3 \in 1 .. 8 /\ 4 \in 1 .. 8 /\ 5 \in 1 .. 8 /\ 6 \in 1 .. 8
      /\ 7 \in 1 .. 8 /\ 8 \in 1 .. 8
  OBVIOUS
<1>4. v1 \in S /\ v2 \in S /\ v3 \in S /\ v4 \in S /\ v5 \in S /\ v6 \in S /\ v7 \in S /\ v8 \in S
  BY <1>1, <1>3, Zenon
<1> HIDE DEF v1, v2, v3, v4, v5, v6, v7, v8
<1>5. /\ f[0] = a /\ f[1] = v1 /\ f[2] = v2 /\ f[3] = v3 /\ f[4] = v4 /\ f[5] = v5 /\ f[6] = v6
      /\ f[7] = v7 /\ f[8] = v8
  OBVIOUS
<1>6. f \in [0 .. 8 -> S]
  <2>1. \A k \in 0 .. 8 : k = 0 \/ k \in {1, 2, 3, 4, 5, 6, 7, 8}
    OBVIOUS
  <2>2. \A k \in 0 .. 8 : f[k] \in S
    <3> HIDE DEF f
    <3> QED BY <1>4, <1>5, <2>1
  <2> QED BY <2>2, Zenon
<1>7. ASSUME NEW k \in 1 .. 8 PROVE f[k] = g[k][f[k - 1]]
  <2>1. /\ f[1] = g[1][f[0]] /\ f[2] = g[2][f[1]] /\ f[3] = g[3][f[2]] /\ f[4] = g[4][f[3]]
        /\ f[5] = g[5][f[4]] /\ f[6] = g[6][f[5]] /\ f[7] = g[7][f[6]] /\ f[8] = g[8][f[7]]
    <3> HIDE DEF f
    <3> QED BY <1>5, Zenon DEF v1, v2, v3, v4, v5, v6, v7, v8
  <2> HIDE DEF f, t
  <2>2. \/ k = 1 /\ k - 1 = 0
        \/ k = 2 /\ k - 1 = 1
        \/ k = 3 /\ k - 1 = 2
        \/ k = 4 /\ k - 1 = 3
        \/ k = 5 /\ k - 1 = 4
        \/ k = 6 /\ k - 1 = 5
        \/ k = 7 /\ k - 1 = 6
        \/ k = 8 /\ k - 1 = 7
    OBVIOUS
  <2> QED BY <2>1, <2>2, Zenon
<1> QED BY <1>5, <1>6, <1>7, Zenon DEF Follows

\* What holds at the start and is kept by every turn holds after eight.
LEMMA EightSteps ==
  ASSUME NEW T, 0 \in T, \A n \in T : n + 1 \in T
  PROVE  8 \in T
<1>1. 0 + 1 \in T /\ 1 + 1 \in T /\ 2 + 1 \in T /\ 3 + 1 \in T
  BY SMT
<1>2. 4 + 1 \in T /\ 5 + 1 \in T /\ 6 + 1 \in T /\ 7 + 1 \in T
  BY <1>1, SMT
<1> QED BY <1>2

\* Every nonempty set of natural numbers has a least element.
LEMMA Least ==
  ASSUME NEW T \in SUBSET Nat, T # {}
  PROVE  \E n \in T : \A m \in T : n <= m
<1> DEFINE R == OpToRel(<, Nat)
<1>1. IsWellFoundedOn(R, Nat)
  BY NatLessThanWellFounded, Zenon
<1>2. \E x \in T : \A y \in T : ~(<<y, x>> \in R)
  <2> HIDE DEF R
  <2> QED BY <1>1, WFMin, Zenon
<1>3. \A m, n \in Nat : m < n => <<m, n>> \in R
  <2> SUFFICES ASSUME NEW m \in Nat, NEW n \in Nat, m < n
               PROVE  <<m, n>> \in OpToRel(<, Nat)
    BY Zenon
  <2>1. <<m, n>>[1] < <<m, n>>[2]
    OBVIOUS
  <2> QED BY <2>1, Zenon DEF OpToRel
<1> HIDE DEF R
<1>4. PICK x \in T : \A y \in T : ~(<<y, x>> \in R)
  BY <1>2
<1>5. \A y \in T : ~(y < x)
  BY <1>3, <1>4, Zenon
<1> QED BY <1>5

-----------------------------------------------------------------------------
(***************************************************************************)
(* The search.                                                             *)
(***************************************************************************)

\* What the search keeps: its queue and who reached each state.
Searches ==
  [queue : Seq(AdmissionStates), prev : [AdmissionStates -> AdmissionStates \cup {NoState}]]

Items(q) == {q[i] : i \in DOMAIN q}
Once(q) == \A i, j \in DOMAIN q : q[i] = q[j] => i = j

\* The states that the next turn reaches.
Fresh(from, v) ==
  {n \in AdmissionStates : /\ n # Head(v.queue) /\ n # from /\ v.prev[n] = NoState
                           /\ can_become(Head(v.queue), n)}

\* ALL names every admission state once.
LEMMA AllStates ==
  /\ Len(ALL) = 8 /\ \A i \in 1 .. 8 : ALL[i] \in AdmissionStates
  /\ \A n \in AdmissionStates : \E i \in 1 .. 8 : ALL[i] = n
  /\ \A i, j \in 1 .. 8 : ALL[i] = ALL[j] => i = j
<1>1. Len(ALL) = 8
  BY Zenon DEF ALL
<1>2. /\ ALL[1] = "UNKNOWN" /\ ALL[2] = "QUARANTINED" /\ ALL[3] = "OBSERVED" /\ ALL[4] = "VERIFIED"
      /\ ALL[5] = "ADMITTED" /\ ALL[6] = "DEGRADED" /\ ALL[7] = "REVOKED" /\ ALL[8] = "POLICY_BLOCKED"
  BY Zenon DEF ALL
<1>3. \A n \in AdmissionStates : \E i \in 1 .. 8 : ALL[i] = n
  BY <1>2 DEF AdmissionStates
<1>4. \A i, j \in 1 .. 8 : ALL[i] = ALL[j] => i = j
  <2> SUFFICES ASSUME NEW i \in 1 .. 8, NEW j \in 1 .. 8, ALL[i] = ALL[j]
               PROVE  i = j
    OBVIOUS
  <2>1. i \in {1, 2, 3, 4, 5, 6, 7, 8} /\ j \in {1, 2, 3, 4, 5, 6, 7, 8}
    OBVIOUS
  <2> QED BY <1>2, <2>1
<1>5. ASSUME NEW i \in 1 .. 8 PROVE ALL[i] \in AdmissionStates
  <2>1. i \in {1, 2, 3, 4, 5, 6, 7, 8}
    OBVIOUS
  <2> QED BY <1>2, <2>1, Zenon DEF AdmissionStates
<1> QED BY <1>1, <1>3, <1>4, <1>5, Zenon

\* Appending to a queue.
LEMMA AppendItems ==
  ASSUME NEW S, NEW q \in Seq(S), NEW x \in S
  PROVE  /\ Append(q, x) \in Seq(S) /\ Items(Append(q, x)) = Items(q) \cup {x}
         /\ Once(q) /\ x \notin Items(q) => Once(Append(q, x))
<1>1. /\ Append(q, x) \in Seq(S) /\ Len(Append(q, x)) = Len(q) + 1 /\ Len(q) \in Nat
      /\ \A i \in 1 .. Len(q) : Append(q, x)[i] = q[i]
      /\ Append(q, x)[Len(q) + 1] = x
      /\ DOMAIN q = 1 .. Len(q) /\ DOMAIN Append(q, x) = 1 .. Len(q) + 1
  OBVIOUS
<1> DEFINE r == Append(q, x)
<1>2. \A i \in 1 .. Len(q) + 1 : i \in 1 .. Len(q) \/ i = Len(q) + 1
  BY <1>1
<1> HIDE DEF r
<1>3. Items(r) = Items(q) \cup {x}
  BY <1>1, <1>2 DEF Items, r
<1>4. ASSUME Once(q), x \notin Items(q) PROVE Once(r)
  <2> SUFFICES ASSUME NEW i \in 1 .. Len(q) + 1, NEW j \in 1 .. Len(q) + 1, r[i] = r[j]
               PROVE  i = j
    BY <1>1, Zenon DEF Once, r
  <2>1. \A k \in 1 .. Len(q) : q[k] # x
    BY <1>4, <1>1, Zenon DEF Items
  <2> QED BY <2>1, <1>1, <1>2, <1>4, Zenon DEF Once, r
<1> QED BY <1>1, <1>3, <1>4, Zenon DEF r

\* Taking the first off a queue.
LEMMA TailItems ==
  ASSUME NEW S, NEW q \in Seq(S), q # <<>>
  PROVE  /\ Head(q) \in S /\ Tail(q) \in Seq(S) /\ Items(q) = Items(Tail(q)) \cup {Head(q)}
         /\ Once(q) => Once(Tail(q)) /\ Head(q) \notin Items(Tail(q))
<1>1. /\ Len(q) \in Nat /\ Len(q) >= 1 /\ Head(q) = q[1] /\ Head(q) \in S /\ Tail(q) \in Seq(S)
      /\ Len(Tail(q)) = Len(q) - 1 /\ \A i \in 1 .. Len(q) - 1 : Tail(q)[i] = q[i + 1]
      /\ DOMAIN q = 1 .. Len(q) /\ DOMAIN Tail(q) = 1 .. Len(q) - 1
  OBVIOUS
<1> DEFINE t == Tail(q)
<1> HIDE DEF t
<1>2. \A i \in 1 .. Len(q) : i = 1 \/ (i - 1 \in 1 .. Len(q) - 1 /\ t[i - 1] = q[i])
  BY <1>1 DEF t
<1>3. Items(q) = Items(t) \cup {Head(q)}
  <2>1. Items(q) \subseteq Items(t) \cup {Head(q)}
    <3> SUFFICES ASSUME NEW i \in 1 .. Len(q)
                 PROVE  q[i] \in Items(t) \cup {Head(q)}
      BY <1>1, ZenonT(60) DEF Items
    <3>1. CASE i = 1
      BY <3>1, <1>1, Zenon
    <3>2. CASE i - 1 \in 1 .. Len(q) - 1 /\ t[i - 1] = q[i]
      <4>1. i - 1 \in DOMAIN t
        BY <3>2, <1>1, Zenon DEF t
      <4> QED BY <4>1, <3>2, Zenon DEF Items
    <3> QED BY <3>1, <3>2, <1>2, Zenon
  <2>2. Items(t) \cup {Head(q)} \subseteq Items(q)
    BY <1>1 DEF Items, t
  <2> QED BY <2>1, <2>2, Zenon
<1>4. Once(q) => Once(t) /\ Head(q) \notin Items(t)
  <2> SUFFICES ASSUME Once(q) PROVE Once(t) /\ Head(q) \notin Items(t)
    OBVIOUS
  <2>1. /\ 1 \in 1 .. Len(q)
        /\ \A i \in 1 .. Len(q) - 1 : i + 1 \in 1 .. Len(q) /\ i + 1 # 1
        /\ \A i, j \in 1 .. Len(q) - 1 : i + 1 = j + 1 => i = j
    BY <1>1
  <2>2. DOMAIN t = 1 .. Len(q) - 1 /\ \A i \in 1 .. Len(q) - 1 : t[i] = q[i + 1]
    BY <1>1, Zenon DEF t
  <2>3. \A i, j \in 1 .. Len(q) : q[i] = q[j] => i = j
    BY <1>1, Zenon DEF Once
  <2>4. Once(t)
    <3> SUFFICES ASSUME NEW i \in 1 .. Len(q) - 1, NEW j \in 1 .. Len(q) - 1, t[i] = t[j]
                 PROVE  i = j
      BY <2>2, Zenon DEF Once
    <3>1. q[i + 1] = q[j + 1]
      BY <2>2, Zenon
    <3>2. i + 1 = j + 1
      BY <2>1, <2>3, <3>1, Zenon
    <3> QED BY <2>1, <3>2, Zenon
  <2>5. ASSUME NEW i \in 1 .. Len(q) - 1 PROVE t[i] # Head(q)
    <3>1. i + 1 \in 1 .. Len(q) /\ i + 1 # 1 /\ t[i] = q[i + 1]
      BY <2>1, <2>2, Zenon
    <3>2. q[i + 1] # q[1]
      BY <2>1, <2>3, <3>1, Zenon
    <3> QED BY <1>1, <3>1, <3>2, Zenon
  <2> QED BY <2>2, <2>4, <2>5, Zenon DEF Items
<1> QED BY <1>1, <1>3, <1>4, Zenon DEF t

\* What one turn of the search does: the states that are fresh are queued, each once,
\* with the state that was taken off before them.
LEMMA ExploreResult ==
  ASSUME NEW from \in AdmissionStates, NEW v \in Searches, v.queue # <<>>,
         Once(v.queue), Items(v.queue) \cap Fresh(from, v) = {}
  PROVE  /\ Explore(from, v) \in Searches
         /\ \A n \in AdmissionStates :
              Explore(from, v).prev[n] = IF n \in Fresh(from, v) THEN Head(v.queue) ELSE v.prev[n]
         /\ Items(Explore(from, v).queue) = Items(Tail(v.queue)) \cup Fresh(from, v)
         /\ Once(Explore(from, v).queue)
<1> DEFINE s == Head(v.queue)
           a == [queue |-> Tail(v.queue), prev |-> v.prev]
           G(i, u) == LET n == ALL[i]
                      IN  IF n # s /\ n # from /\ u.prev[n] = NoState /\ can_become(s, n)
                          THEN [queue |-> Append(u.queue, n), prev |-> [u.prev EXCEPT ![n] = s]]
                          ELSE u
           look == CHOOSE f : f = [i \in 0 .. Len(ALL) |-> IF i = 0 THEN a ELSE G(i, f[i - 1])]
<1>1. Explore(from, v) = look[Len(ALL)]
  BY Zenon DEF Explore
<1>2. /\ v.queue \in Seq(AdmissionStates)
      /\ v.prev \in [AdmissionStates -> AdmissionStates \cup {NoState}]
  BY Zenon DEF Searches
<1>3. s \in AdmissionStates /\ a \in Searches
  BY <1>2, TailItems, Zenon DEF Searches
<1>4. ASSUME NEW i \in 1 .. 8, NEW u \in Searches
      PROVE  G(i, u) \in Searches
  <2>1. ALL[i] \in AdmissionStates
    BY AllStates, Zenon
  <2> HIDE DEF s
  <2>2. Append(u.queue, ALL[i]) \in Seq(AdmissionStates)
    BY <2>1 DEF Searches
  <2>3. [u.prev EXCEPT ![ALL[i]] = s] \in [AdmissionStates -> AdmissionStates \cup {NoState}]
    BY <1>3, <2>1, Zenon DEF Searches
  <2> QED BY <2>2, <2>3, Zenon DEF Searches
<1>5. /\ look[0] = a
      /\ \A i \in 1 .. 8 : look[i] = G(i, look[i - 1])
  <2> DEFINE g == [i \in 1 .. 8 |-> [u \in Searches |-> G(i, u)]]
             P(f) == f = [i \in 0 .. Len(ALL) |-> IF i = 0 THEN a ELSE G(i, f[i - 1])]
  <2> HIDE DEF G, a
  <2>1. g \in Turns(Searches)
    BY <1>4, Zenon DEF Turns
  <2>2. PICK f : Follows(Searches, a, g, f)
    <3> HIDE DEF g
    <3> QED BY <2>1, <1>3, EightTurns, Zenon
  <2>3. /\ f \in [0 .. 8 -> Searches] /\ f[0] = a
        /\ \A i \in 1 .. 8 : f[i] = G(i, f[i - 1])
    BY <2>2 DEF Follows
  <2>4. P(f)
    BY <2>3, AllStates
  <2>5. P(look)
    <3> HIDE DEF P
    <3>1. P(CHOOSE h : P(h))
      BY <2>4, Zenon
    <3> QED BY <3>1, Zenon DEF P
  <2> HIDE DEF look
  <2> QED BY <2>5, AllStates
<1> DEFINE Upto(i) == {n \in Fresh(from, v) : \E j \in 1 .. i : ALL[j] = n}
           Good(i) == /\ look[i] \in Searches
                      /\ \A n \in AdmissionStates : look[i].prev[n] = IF n \in Upto(i) THEN s ELSE v.prev[n]
                      /\ Items(look[i].queue) = Items(Tail(v.queue)) \cup Upto(i)
                      /\ Once(look[i].queue)
           T == {i \in Nat : i <= 8 => Good(i)}
<1> HIDE DEF look
<1>6. 0 \in T
  <2>1. Upto(0) = {}
    OBVIOUS
  <2> HIDE DEF Upto
  <2>2. Once(Tail(v.queue))
    BY <1>2, TailItems, Zenon
  <2>3. Good(0)
    <3>1. look[0] = a
      <4> HIDE DEF G, a
      <4> QED BY <1>5, Zenon
    <3>2. look[0] \in Searches /\ look[0].queue = Tail(v.queue) /\ look[0].prev = v.prev
      BY <1>3, <3>1
    <3>3. \A n : n \notin Upto(0)
      BY <2>1, Zenon
    <3>4. Items(Tail(v.queue)) = Items(Tail(v.queue)) \cup Upto(0)
      BY <2>1, Zenon
    <3> QED BY <2>2, <3>2, <3>3, <3>4, Zenon
  <2> HIDE DEF Good
  <2> QED BY <2>3, Zenon
<1>7. \A i \in T : i + 1 \in T
  <2> SUFFICES ASSUME NEW i \in Nat, i + 1 <= 8, Good(i)
               PROVE  Good(i + 1)
    <3> HIDE DEF Good
    <3> QED OBVIOUS
  <2> DEFINE n == ALL[i + 1]
             u == look[i]
  <2>0. i + 1 \in 1 .. 8 /\ (i + 1) - 1 = i
    OBVIOUS
  <2>1. n \in AdmissionStates /\ n \notin Upto(i)
    <3>1. \A j \in 1 .. i : j \in 1 .. 8 /\ j # i + 1
      BY <2>0
    <3> QED BY <2>0, <3>1, AllStates, Zenon
  <2>2. look[i + 1] = G(i + 1, u)
    <3> HIDE DEF G
    <3> QED BY <1>5, <2>0, Zenon
  <2>3. u.prev[n] = v.prev[n]
    BY <2>1, Zenon
  <2>4. CASE n \in Fresh(from, v)
    <3>1. Upto(i + 1) = Upto(i) \cup {n}
      BY <2>4
    <3>2. look[i + 1] = [queue |-> Append(u.queue, n), prev |-> [u.prev EXCEPT ![n] = s]]
      BY <2>2, <2>3, <2>4, Zenon DEF Fresh
    <3>3. n \notin Items(u.queue)
      <4>1. Items(Tail(v.queue)) \subseteq Items(v.queue)
        BY <1>2, TailItems
      <4> HIDE DEF Upto, n
      <4> QED BY <4>1, <2>1, <2>4, Zenon
    <3>4. /\ Items(Append(u.queue, n)) = Items(u.queue) \cup {n}
          /\ Once(Append(u.queue, n))
      <4>1. u.queue \in Seq(AdmissionStates)
        BY Zenon DEF Searches
      <4> HIDE DEF n, u
      <4> QED BY <4>1, <2>1, <3>3, AppendItems DEF u
    <3>5. look[i + 1] \in Searches
      <4> HIDE DEF G
      <4> QED BY <1>4, <2>0, <2>2
    <3>6. \A m \in AdmissionStates : look[i + 1].prev[m] = IF m = n THEN s ELSE u.prev[m]
      <4>1. u.prev \in [AdmissionStates -> AdmissionStates \cup {NoState}]
        BY Zenon DEF Searches
      <4> HIDE DEF n, u, s
      <4> QED BY <4>1, <2>1, <3>2
    <3> HIDE DEF Upto, n
    <3> QED BY <3>1, <3>2, <3>4, <3>5, <3>6
  <2>5. CASE n \notin Fresh(from, v)
    <3>1. Upto(i + 1) = Upto(i)
      BY <2>5
    <3>2. look[i + 1] = u
      BY <2>1, <2>2, <2>3, <2>5, Zenon DEF Fresh
    <3> HIDE DEF Upto
    <3> QED BY <3>1, <3>2, Zenon
  <2> QED BY <2>4, <2>5, Zenon
<1>8. Good(8)
  <2> HIDE DEF T
  <2>1. 8 \in T
    BY <1>6, <1>7, EightSteps, Zenon
  <2> HIDE DEF Good
  <2> QED BY <2>1 DEF T
<1>9. Upto(8) = Fresh(from, v)
  BY AllStates, Zenon DEF Fresh
<1> HIDE DEF Upto
<1> QED BY <1>1, <1>8, <1>9, AllStates

\* There are eight admission states.
LEMMA StatesFinite == IsFiniteSet(AdmissionStates) /\ Cardinality(AdmissionStates) = 8
<1> DEFINE A1 == {"UNKNOWN"}
           A2 == A1 \cup {"QUARANTINED"}
           A3 == A2 \cup {"OBSERVED"}
           A4 == A3 \cup {"VERIFIED"}
           A5 == A4 \cup {"ADMITTED"}
           A6 == A5 \cup {"DEGRADED"}
           A7 == A6 \cup {"REVOKED"}
           A8 == A7 \cup {"POLICY_BLOCKED"}
<1>1. IsFiniteSet(A1) /\ Cardinality(A1) = 1
  BY FS_Singleton, Zenon
<1>2. /\ "QUARANTINED" \notin A1 /\ "OBSERVED" \notin A2 /\ "VERIFIED" \notin A3
      /\ "ADMITTED" \notin A4 /\ "DEGRADED" \notin A5 /\ "REVOKED" \notin A6
      /\ "POLICY_BLOCKED" \notin A7 /\ AdmissionStates = A8
  BY Zenon DEF AdmissionStates
<1> HIDE DEF A1
<1>3. IsFiniteSet(A2) /\ Cardinality(A2) = 2
  BY <1>1, <1>2, FS_AddElement
<1> HIDE DEF A2
<1>4. IsFiniteSet(A3) /\ Cardinality(A3) = 3
  BY <1>3, <1>2, FS_AddElement
<1> HIDE DEF A3
<1>5. IsFiniteSet(A4) /\ Cardinality(A4) = 4
  BY <1>4, <1>2, FS_AddElement
<1> HIDE DEF A4
<1>6. IsFiniteSet(A5) /\ Cardinality(A5) = 5
  BY <1>5, <1>2, FS_AddElement
<1> HIDE DEF A5
<1>7. IsFiniteSet(A6) /\ Cardinality(A6) = 6
  BY <1>6, <1>2, FS_AddElement
<1> HIDE DEF A6
<1>8. IsFiniteSet(A7) /\ Cardinality(A7) = 7
  BY <1>7, <1>2, FS_AddElement
<1> HIDE DEF A7
<1>9. IsFiniteSet(A8) /\ Cardinality(A8) = 8
  BY <1>8, <1>2, FS_AddElement
<1> QED BY <1>2, <1>9, Zenon

Reached(v) == {n \in AdmissionStates : v.prev[n] # NoState}

\* No detour by way of a promotion: VERIFIED leads only to ADMITTED and DEGRADED, and
\* these to nothing, because whoever reaches VERIFIED reaches what follows them too.
NoDetour(from, v) ==
  /\ "VERIFIED" \in Reached(v) =>
       {"QUARANTINED", "OBSERVED", "POLICY_BLOCKED", "REVOKED"} \subseteq Reached(v) \cup {from}
  /\ "ADMITTED" \in Reached(v) =>
       {"DEGRADED", "QUARANTINED", "POLICY_BLOCKED", "REVOKED"} \subseteq Reached(v) \cup {from}
  /\ \A n \in Reached(v) :
       /\ v.prev[n] = "VERIFIED" => from = "VERIFIED" \/ n \in {"ADMITTED", "DEGRADED"}
       /\ v.prev[n] = "ADMITTED" => from = "ADMITTED"
       /\ v.prev[n] = "DEGRADED" /\ v.prev["DEGRADED"] = "VERIFIED" => from = "VERIFIED"

\* Who reached a state was reached earlier, by d, or is where the search began, and
\* may become that state.
Tree(from, v, k, d) ==
  /\ v.prev[from] = NoState /\ d \in [AdmissionStates -> Nat]
  /\ \A n \in Reached(v) :
       /\ v.prev[n] \in Reached(v) \cup {from} /\ v.prev[n] # n /\ can_become(v.prev[n], n)
       /\ d[n] \in 1 .. k
       /\ v.prev[n] # from => d[v.prev[n]] < d[n]

\* P is what has been taken off the queue, one state a turn; what these may become is
\* reached, and what the first of them may become is reached from it.
Frontier(from, v, k, P) ==
  /\ P \subseteq AdmissionStates /\ Once(v.queue) /\ Items(v.queue) \cap P = {}
  /\ Items(v.queue) \cup P = Reached(v) \cup {from}
  /\ \A s \in P, n \in AdmissionStates : can_become(s, n) => n \in Reached(v) \cup {from}
  /\ v.queue = <<>> \/ Cardinality(P) = k
  /\ IF from \in P
     THEN \A n \in AdmissionStates \ {from} : can_become(from, n) => v.prev[n] = from
     ELSE v.queue = <<from>> /\ Reached(v) = {}

SearchSound(from, v, k) ==
  /\ v \in Searches /\ NoDetour(from, v)
  /\ \E d : Tree(from, v, k, d)
  /\ \E P : Frontier(from, v, k, P)

\* The steps of the state machine about the states that run.
LEMMA MovesOfTrust ==
  /\ \A s \in AdmissionStates \ {"VERIFIED"} : can_become(s, "VERIFIED") =>
       /\ can_become(s, "QUARANTINED") /\ can_become(s, "OBSERVED")
       /\ can_become(s, "POLICY_BLOCKED") /\ can_become(s, "REVOKED")
  /\ \A s \in AdmissionStates \ {"ADMITTED"} : can_become(s, "ADMITTED") => s = "VERIFIED"
  /\ \A n : can_become("VERIFIED", n) <=>
       n \in {"VERIFIED", "ADMITTED", "DEGRADED", "QUARANTINED", "POLICY_BLOCKED", "REVOKED"}
  /\ \A n : can_become("ADMITTED", n) <=>
       n \in {"ADMITTED", "DEGRADED", "QUARANTINED", "POLICY_BLOCKED", "REVOKED"}
  /\ \A n : can_become("DEGRADED", n) <=>
       n \in {"DEGRADED", "QUARANTINED", "VERIFIED", "OBSERVED", "POLICY_BLOCKED", "REVOKED"}
BY DEF can_become, Moves, AdmissionStates

\* A turn of the search keeps it sound.
LEMMA TurnSound ==
  ASSUME NEW from \in AdmissionStates, NEW v, NEW k \in Nat, SearchSound(from, v, k), v.queue # <<>>
  PROVE  SearchSound(from, Explore(from, v), k + 1)
<1> DEFINE w == Explore(from, v)
           s == Head(v.queue)
           F == Fresh(from, v)
<1>1. PICK d : Tree(from, v, k, d)
  BY Zenon DEF SearchSound
<1>2. PICK P : Frontier(from, v, k, P)
  BY Zenon DEF SearchSound
<1>3. /\ v \in Searches /\ v.queue \in Seq(AdmissionStates)
      /\ v.prev \in [AdmissionStates -> AdmissionStates \cup {NoState}]
  BY Zenon DEF SearchSound, Searches
<1>4. /\ s \in AdmissionStates /\ Items(v.queue) = Items(Tail(v.queue)) \cup {s}
      /\ s \notin Items(Tail(v.queue))
  BY <1>2, <1>3, TailItems, Zenon DEF Frontier
<1>5. /\ F \subseteq AdmissionStates /\ F \cap (Reached(v) \cup {from, s}) = {}
      /\ \A n \in F : can_become(s, n)
      /\ \A n \in AdmissionStates : can_become(s, n) /\ n # s => n \in F \cup Reached(v) \cup {from}
  BY Zenon DEF Fresh, Reached
<1>6. /\ w \in Searches /\ Once(w.queue)
      /\ \A n \in AdmissionStates : w.prev[n] = IF n \in F THEN s ELSE v.prev[n]
      /\ Items(w.queue) = Items(Tail(v.queue)) \cup F
  <2>1. Items(v.queue) \cap F = {}
    BY <1>2, <1>5, Zenon DEF Frontier
  <2> QED BY <2>1, <1>2, <1>3, ExploreResult, Zenon DEF Frontier
<1>7. NoState \notin AdmissionStates
  BY Zenon DEF NoState, AdmissionStates
<1>8. Reached(w) = Reached(v) \cup F
  BY <1>4, <1>5, <1>6, <1>7, Zenon DEF Reached
<1>9. s \in Reached(v) \cup {from} /\ s \notin P
  BY <1>2, <1>4, Zenon DEF Frontier
<1> HIDE DEF w, s, F
<1>10. NoDetour(from, w)
  <2> DEFINE C == Reached(v) \cup {from}
  <2>1. Reached(w) \cup {from} = C \cup F /\ NoDetour(from, v) /\ s \in C
    BY <1>8, <1>9, Zenon DEF SearchSound
  <2>2. \A n \in AdmissionStates : can_become(s, n) => n \in C \cup F
    BY <1>5, <2>1, Zenon
  <2>3. /\ "VERIFIED" \in AdmissionStates /\ "ADMITTED" \in AdmissionStates
        /\ {"DEGRADED", "QUARANTINED", "OBSERVED", "POLICY_BLOCKED", "REVOKED"} \subseteq AdmissionStates
    BY Zenon DEF AdmissionStates
  <2>4. ASSUME "VERIFIED" \in F
        PROVE  {"QUARANTINED", "OBSERVED", "POLICY_BLOCKED", "REVOKED"} \subseteq C \cup F
    <3>1. s # "VERIFIED" /\ can_become(s, "VERIFIED")
      BY <2>4, <1>5, Zenon
    <3> QED BY <3>1, <1>4, <2>2, <2>3, MovesOfTrust, Zenon
  <2>5. ASSUME "ADMITTED" \in F
        PROVE  {"DEGRADED", "QUARANTINED", "POLICY_BLOCKED", "REVOKED"} \subseteq C \cup F
    <3>1. s # "ADMITTED" /\ can_become(s, "ADMITTED")
      BY <2>5, <1>5, Zenon
    <3> QED BY <3>1, <1>4, <2>2, <2>3, MovesOfTrust, Zenon
  <2>6. ASSUME NEW n \in F, s = "VERIFIED" PROVE from = "VERIFIED" \/ n \in {"ADMITTED", "DEGRADED"}
    <3>1. n \notin C /\ n # s /\ can_become(s, n)
      BY <2>6, <1>5, Zenon
    <3> QED BY <3>1, <2>1, <2>6, MovesOfTrust, Zenon DEF NoDetour
  <2>7. ASSUME NEW n \in F, s = "ADMITTED" PROVE from = "ADMITTED"
    <3>1. n \notin C /\ n # s /\ can_become(s, n)
      BY <2>7, <1>5, Zenon
    <3> QED BY <3>1, <2>1, <2>7, MovesOfTrust, Zenon DEF NoDetour
  <2>8. ASSUME NEW n \in F, s = "DEGRADED", w.prev["DEGRADED"] = "VERIFIED" PROVE from = "VERIFIED"
    <3>1. n \notin C /\ n # s /\ can_become(s, n) /\ w.prev[s] = v.prev[s]
      BY <2>8, <1>4, <1>5, <1>6, Zenon
    <3>2. s \in Reached(v)
      BY <3>1, <2>8, <1>1, <1>9, Zenon DEF Tree, NoState
    <3>3. v.prev[s] \in C
      BY <3>2, <1>1, Zenon DEF Tree
    <3> QED BY <3>1, <3>3, <2>1, <2>8, MovesOfTrust, Zenon DEF NoDetour
  <2>9. ASSUME NEW n \in Reached(w)
        PROVE  /\ w.prev[n] = "VERIFIED" => from = "VERIFIED" \/ n \in {"ADMITTED", "DEGRADED"}
               /\ w.prev[n] = "ADMITTED" => from = "ADMITTED"
               /\ w.prev[n] = "DEGRADED" /\ w.prev["DEGRADED"] = "VERIFIED" => from = "VERIFIED"
    <3>1. CASE n \in F
      BY <3>1, <2>6, <2>7, <2>8, <1>5, <1>6, Zenon
    <3>2. CASE n \notin F
      <4>1. n \in Reached(v) /\ w.prev[n] = v.prev[n]
        BY <3>2, <1>6, <1>8, Zenon DEF Reached
      <4>2. ASSUME v.prev[n] = "DEGRADED" PROVE w.prev["DEGRADED"] = v.prev["DEGRADED"]
        <5>1. "DEGRADED" \in C
          BY <4>1, <4>2, <1>1, Zenon DEF Tree
        <5> QED BY <5>1, <1>5, <1>6, <2>3, Zenon
      <4> QED BY <4>1, <4>2, <2>1, Zenon DEF NoDetour
    <3> QED BY <3>1, <3>2, Zenon
  <2> QED BY <1>8, <2>1, <2>4, <2>5, <2>9, Zenon DEF NoDetour
<1>11. \E e : Tree(from, w, k + 1, e)
  <2> DEFINE e == [n \in AdmissionStates |-> IF n \in F THEN k + 1 ELSE d[n]]
  <2>1. e \in [AdmissionStates -> Nat] /\ w.prev[from] = NoState
    BY <1>1, <1>5, <1>6 DEF Tree
  <2>2. ASSUME NEW n \in Reached(v)
        PROVE  /\ w.prev[n] \in Reached(w) \cup {from} /\ w.prev[n] # n /\ can_become(w.prev[n], n)
               /\ e[n] \in 1 .. k + 1 /\ (w.prev[n] # from => e[w.prev[n]] < e[n])
    <3>1. n \in AdmissionStates /\ n \notin F /\ w.prev[n] = v.prev[n] /\ e[n] = d[n]
      BY <1>5, <1>6, Zenon DEF Reached
    <3>2. /\ v.prev[n] \in Reached(v) \cup {from} /\ v.prev[n] # n /\ can_become(v.prev[n], n)
          /\ d[n] \in 1 .. k /\ (v.prev[n] # from => d[v.prev[n]] < d[n])
      BY <1>1, Zenon DEF Tree
    <3>3. ASSUME v.prev[n] # from PROVE e[v.prev[n]] = d[v.prev[n]]
      BY <3>2, <3>3, <1>5, Zenon DEF Reached
    <3> HIDE DEF e
    <3> QED BY <3>1, <3>2, <3>3, <1>8
  <2>3. ASSUME NEW n \in F
        PROVE  /\ w.prev[n] \in Reached(w) \cup {from} /\ w.prev[n] # n /\ can_become(w.prev[n], n)
               /\ e[n] \in 1 .. k + 1 /\ (w.prev[n] # from => e[w.prev[n]] < e[n])
    <3>1. n \in AdmissionStates /\ w.prev[n] = s /\ e[n] = k + 1 /\ can_become(s, n) /\ n # s
      BY <1>5, <1>6, Zenon
    <3>2. ASSUME s # from PROVE e[s] = d[s] /\ d[s] \in 1 .. k
      BY <3>2, <1>1, <1>5, <1>9, Zenon DEF Reached, Tree
    <3> HIDE DEF e
    <3> QED BY <3>1, <3>2, <1>8, <1>9
  <2> HIDE DEF e
  <2>4. Tree(from, w, k + 1, e)
    BY <2>1, <2>2, <2>3, <1>8, Zenon DEF Tree
  <2> QED BY <2>4, Zenon
<1>12. Frontier(from, w, k + 1, P \cup {s})
  <2> DEFINE Q == P \cup {s}
  <2>1. Q \subseteq AdmissionStates /\ Items(w.queue) \cap Q = {}
    BY <1>2, <1>4, <1>5, <1>6 DEF Frontier
  <2>2. Items(w.queue) \cup Q = Reached(w) \cup {from}
    BY <1>2, <1>4, <1>6, <1>8, Zenon DEF Frontier
  <2>3. \A t \in Q, n \in AdmissionStates : can_become(t, n) => n \in Reached(w) \cup {from}
    BY <1>2, <1>5, <1>8, <1>9, Zenon DEF Frontier
  <2>4. Cardinality(Q) = k + 1
    <3>1. Cardinality(P) = k /\ IsFiniteSet(P)
      BY <1>2, StatesFinite, FS_Subset, Zenon DEF Frontier
    <3> QED BY <3>1, <1>9, FS_AddElement, Zenon
  <2>5. /\ from \in Q
        /\ \A n \in AdmissionStates \ {from} : can_become(from, n) => w.prev[n] = from
    <3>1. CASE from \in P
      <4>1. ASSUME NEW n \in AdmissionStates \ {from}, can_become(from, n) PROVE w.prev[n] = from
        <5>1. v.prev[n] = from
          BY <4>1, <3>1, <1>2, Zenon DEF Frontier
        <5>2. n \notin F
          BY <5>1, <1>5, <1>7, Zenon DEF Reached
        <5> QED BY <5>1, <5>2, <1>6, Zenon
      <4> QED BY <3>1, <4>1, Zenon
    <3>2. CASE from \notin P
      <4>1. v.queue = <<from>> /\ Reached(v) = {}
        BY <3>2, <1>2, Zenon DEF Frontier
      <4>2. s = from
        BY <1>9, <4>1, Zenon
      <4>3. ASSUME NEW n \in AdmissionStates \ {from}, can_become(from, n) PROVE w.prev[n] = from
        BY <4>1, <4>2, <4>3, <1>5, <1>6, Zenon
      <4> QED BY <4>2, <4>3, Zenon
    <3> QED BY <3>1, <3>2, Zenon
  <2> HIDE DEF Q
  <2> QED BY <1>6, <2>1, <2>2, <2>3, <2>4, <2>5, Zenon DEF Frontier, Q
<1> QED BY <1>6, <1>10, <1>11, <1>12, Zenon DEF SearchSound, w

\* A search is sound when it begins.
LEMMA StartSound ==
  ASSUME NEW from \in AdmissionStates
  PROVE  SearchSound(from, [queue |-> <<from>>, prev |-> [n \in AdmissionStates |-> NoState]], 0)
<1> DEFINE v == [queue |-> <<from>>, prev |-> [n \in AdmissionStates |-> NoState]]
           d == [n \in AdmissionStates |-> 0]
<1>1. /\ v \in Searches /\ v.queue = <<from>>
      /\ v.prev \in [AdmissionStates -> AdmissionStates \cup {NoState}]
      /\ \A n \in AdmissionStates : v.prev[n] = NoState
  BY DEF Searches
<1> HIDE DEF v
<1>2. Reached(v) = {}
  BY <1>1, Zenon DEF Reached
<1>3. NoDetour(from, v)
  BY <1>2, Zenon DEF NoDetour
<1>4. Tree(from, v, 0, d)
  BY <1>1, <1>2, Zenon DEF Tree
<1>5. Items(v.queue) = {from} /\ Once(v.queue)
  BY <1>1 DEF Items, Once
<1>6. Frontier(from, v, 0, {})
  BY <1>1, <1>2, <1>5, FS_EmptySet, Zenon DEF Frontier
<1> QED BY <1>1, <1>3, <1>4, <1>6, Zenon DEF SearchSound, v

\* A search that has ended stays sound.
LEMMA EndSound ==
  ASSUME NEW from, NEW v, NEW k \in Nat, SearchSound(from, v, k), v.queue = <<>>
  PROVE  SearchSound(from, v, k + 1)
<1>1. PICK d : Tree(from, v, k, d)
  BY Zenon DEF SearchSound
<1>2. PICK P : Frontier(from, v, k, P)
  BY Zenon DEF SearchSound
<1>3. Tree(from, v, k + 1, d)
  <2>1. \A n \in Reached(v) : d[n] \in 1 .. k + 1
    BY <1>1 DEF Tree
  <2> QED BY <1>1, <2>1, Zenon DEF Tree
<1>4. Frontier(from, v, k + 1, P)
  BY <1>2, Zenon DEF Frontier
<1> QED BY <1>3, <1>4, Zenon DEF SearchSound

\* reached_from is the outcome of a sound search of eight turns.
LEMMA SearchResult ==
  ASSUME NEW from \in AdmissionStates
  PROVE  \E v : reached_from(from) = v.prev /\ SearchSound(from, v, 8)
<1> DEFINE a == [queue |-> <<from>>, prev |-> [n \in AdmissionStates |-> NoState]]
           G(v) == IF v.queue = <<>> THEN v ELSE Explore(from, v)
           visit == CHOOSE f : f = [k \in 0 .. Len(ALL) |-> IF k = 0 THEN a ELSE G(f[k - 1])]
           S == {v \in Searches : \E k \in Nat : SearchSound(from, v, k)}
<1>1. reached_from(from) = visit[Len(ALL)].prev
  BY Zenon DEF reached_from
<1>2. SearchSound(from, a, 0) /\ a \in Searches
  BY StartSound, Zenon DEF SearchSound
<1>3. ASSUME NEW k \in Nat, NEW v, SearchSound(from, v, k)
      PROVE  SearchSound(from, G(v), k + 1)
  BY <1>3, TurnSound, EndSound, Zenon
<1> HIDE DEF G, a
<1>4. /\ visit[0] = a
      /\ \A k \in 1 .. 8 : visit[k] = G(visit[k - 1])
  <2> DEFINE g == [k \in 1 .. 8 |-> [v \in S |-> G(v)]]
             P(f) == f = [k \in 0 .. Len(ALL) |-> IF k = 0 THEN a ELSE G(f[k - 1])]
  <2>1. a \in S
    BY <1>2, Zenon
  <2>2. ASSUME NEW v \in S PROVE G(v) \in S
    <3>1. PICK k \in Nat : SearchSound(from, v, k)
      BY <2>2, Zenon
    <3>2. SearchSound(from, G(v), k + 1) /\ G(v) \in Searches /\ k + 1 \in Nat
      BY <1>3, <3>1 DEF SearchSound
    <3> QED BY <3>2, Zenon
  <2> HIDE DEF S
  <2>3. g \in Turns(S)
    BY <2>2, Zenon DEF Turns
  <2>4. PICK f : Follows(S, a, g, f)
    <3> HIDE DEF g
    <3> QED BY <2>1, <2>3, EightTurns, Zenon
  <2>5. /\ f \in [0 .. 8 -> S] /\ f[0] = a
        /\ \A k \in 1 .. 8 : f[k] = G(f[k - 1])
    BY <2>4 DEF Follows
  <2>6. P(f)
    BY <2>5, AllStates
  <2>7. P(visit)
    <3> HIDE DEF P
    <3>1. P(CHOOSE h : P(h))
      BY <2>6, Zenon
    <3> QED BY <3>1, Zenon DEF P
  <2> HIDE DEF visit
  <2> QED BY <2>7, AllStates
<1> HIDE DEF visit
<1> DEFINE T == {k \in Nat : k <= 8 => SearchSound(from, visit[k], k)}
<1>5. 0 \in T
  BY <1>2, <1>4, Zenon
<1>6. \A k \in T : k + 1 \in T
  <2> SUFFICES ASSUME NEW k \in Nat, k + 1 <= 8, SearchSound(from, visit[k], k)
               PROVE  SearchSound(from, visit[k + 1], k + 1)
    OBVIOUS
  <2>1. visit[k + 1] = G(visit[k])
    <3>1. k + 1 \in 1 .. 8 /\ (k + 1) - 1 = k
      OBVIOUS
    <3> QED BY <1>4, <3>1, Zenon
  <2> QED BY <1>3, <2>1, Zenon
<1>7. SearchSound(from, visit[8], 8)
  <2> HIDE DEF T
  <2>1. 8 \in T
    BY <1>5, <1>6, EightSteps, Zenon
  <2> QED BY <2>1 DEF T
<1> QED BY <1>1, <1>7, AllStates

\* The search reaches every state that may be decided on, from every state but REVOKED.
LEMMA ReachesAll ==
  ASSUME NEW from \in AdmissionStates \ {"REVOKED"}, NEW v, SearchSound(from, v, 8),
         NEW to \in AdmissionStates \ {"UNKNOWN"}
  PROVE  to = from \/ v.prev[to] # NoState
<1> DEFINE C == Reached(v) \cup {from}
<1>1. PICK P : Frontier(from, v, 8, P)
  BY Zenon DEF SearchSound
<1>2. \A s \in C, n \in AdmissionStates : can_become(s, n) => n \in C
  <2>1. CASE v.queue = <<>>
    <3>1. P = C
      BY <2>1, <1>1 DEF Frontier, Items
    <3> QED BY <3>1, <1>1, Zenon DEF Frontier
  <2>2. CASE v.queue # <<>>
    <3>1. P \in SUBSET AdmissionStates /\ Cardinality(P) = 8
      BY <2>2, <1>1, Zenon DEF Frontier
    <3>2. P = AdmissionStates
      BY <3>1, StatesFinite, FS_Subset, Zenon
    <3>3. C \subseteq P
      BY <3>2, Zenon DEF Reached
    <3> QED BY <3>3, <1>1, Zenon DEF Frontier
  <2> QED BY <2>1, <2>2, Zenon
<1>3. from \in C /\ C \subseteq AdmissionStates
  BY Zenon DEF Reached
<1> HIDE DEF C
<1>4. "QUARANTINED" \in C
  BY <1>2, <1>3, Zenon DEF can_become, Moves, AdmissionStates
<1>5. "VERIFIED" \in C /\ "OBSERVED" \in C
  BY <1>2, <1>4, Zenon DEF can_become, Moves, AdmissionStates
<1>6. to \in C
  BY <1>2, <1>4, <1>5, Zenon DEF can_become, Moves, AdmissionStates
<1> QED BY <1>6, Zenon DEF C, Reached

\* A part of a route's end: states that were reached one from the other, the last one to.
Backtrack(v, to, c) ==
  /\ c \in Seq(AdmissionStates) /\ Len(c) >= 1 /\ c[Len(c)] = to
  /\ \A i \in 1 .. Len(c) : c[i] \in Reached(v)
  /\ \A i \in 1 .. Len(c) - 1 : v.prev[c[i + 1]] = c[i]

\* One state more in front.
LEMMA BacktrackLonger ==
  ASSUME NEW v, NEW to, NEW c, Backtrack(v, to, c), NEW p \in Reached(v), p = v.prev[c[1]]
  PROVE  Backtrack(v, to, <<p>> \o c) /\ (<<p>> \o c)[1] = p
<1> DEFINE b == <<p>> \o c
<1>1. c \in Seq(AdmissionStates) /\ Len(c) \in Nat /\ Len(c) >= 1 /\ p \in AdmissionStates
  BY DEF Backtrack, Reached
<1>2. /\ b \in Seq(AdmissionStates) /\ Len(b) = Len(c) + 1 /\ b[1] = p
      /\ \A i \in 1 .. Len(c) : b[i + 1] = c[i]
  BY <1>1
<1> HIDE DEF b
<1>3. \A i \in 1 .. Len(b) : i = 1 \/ (i - 1 \in 1 .. Len(c) /\ b[i] = c[i - 1])
  BY <1>1, <1>2
<1>4. \A i \in 1 .. Len(b) : b[i] \in Reached(v)
  BY <1>2, <1>3, Zenon DEF Backtrack
<1>5. ASSUME NEW i \in 1 .. Len(b) - 1 PROVE v.prev[b[i + 1]] = b[i]
  <2>1. b[i + 1] = c[i]
    BY <1>1, <1>2
  <2>2. CASE i = 1
    BY <2>1, <2>2, <1>2, Zenon
  <2>3. CASE i > 1
    <3>1. i - 1 \in 1 .. Len(c) - 1 /\ b[i] = c[i - 1] /\ (i - 1) + 1 = i
      BY <2>3, <1>1, <1>2, <1>3
    <3>2. v.prev[c[(i - 1) + 1]] = c[i - 1]
      BY <3>1, Zenon DEF Backtrack
    <3> QED BY <2>1, <3>1, <3>2, Zenon
  <2> QED BY <2>2, <2>3
<1>6. b[Len(b)] = to
  BY <1>1, <1>2 DEF Backtrack
<1>7. Len(b) >= 1
  BY <1>1, <1>2
<1>8. Backtrack(v, to, b)
  BY <1>2, <1>4, <1>5, <1>6, <1>7, Zenon DEF Backtrack
<1> QED BY <1>2, <1>8, Zenon DEF b

\* The way back from a state that was reached ends where the search began: a route that
\* is found consists of steps the search made.
LEMMA RouteFound ==
  ASSUME NEW from \in AdmissionStates, NEW to \in AdmissionStates, from # to,
         NEW v, SearchSound(from, v, 8), reached_from(from) = v.prev, v.prev[to] # NoState
  PROVE  Backtrack(v, to, route(from, to)) /\ v.prev[route(from, to)[1]] = from
<1> DEFINE G(c) == IF v.prev[Head(c)] \in {from, NoState} THEN c ELSE <<v.prev[Head(c)]>> \o c
           back == CHOOSE f : f = [k \in 0 .. Len(ALL) |-> IF k = 0 THEN <<to>> ELSE G(f[k - 1])]
           S == {c \in Seq(AdmissionStates) : Backtrack(v, to, c)}
<1>1. route(from, to) = back[Len(ALL)]
  BY Zenon DEF route
<1>2. PICK d : Tree(from, v, 8, d)
  BY Zenon DEF SearchSound
<1>3. to \in Reached(v)
  BY Zenon DEF Reached
<1>4. Backtrack(v, to, <<to>>) /\ <<to>> \in Seq(AdmissionStates) /\ <<to>>[1] = to
  BY <1>3 DEF Backtrack
<1>5. ASSUME NEW c, Backtrack(v, to, c)
      PROVE  /\ Backtrack(v, to, G(c)) /\ c[1] \in Reached(v)
             /\ \/ v.prev[c[1]] = from /\ G(c) = c
                \/ d[G(c)[1]] < d[c[1]] /\ G(c)[1] \in Reached(v)
  <2>1. c \in Seq(AdmissionStates) /\ Len(c) \in Nat /\ Len(c) >= 1 /\ Head(c) = c[1]
    BY <1>5 DEF Backtrack
  <2>2. c[1] \in Reached(v)
    BY <1>5, <2>1 DEF Backtrack
  <2>3. v.prev[c[1]] # NoState /\ v.prev[c[1]] \in Reached(v) \cup {from}
    BY <1>2, <2>2, Zenon DEF Tree, Reached
  <2>4. CASE v.prev[c[1]] = from
    BY <2>1, <2>2, <2>4, <1>5, Zenon
  <2>5. CASE v.prev[c[1]] # from
    <3>1. v.prev[c[1]] \in Reached(v) /\ d[v.prev[c[1]]] < d[c[1]]
      BY <2>2, <2>3, <2>5, <1>2, Zenon DEF Tree
    <3>2. G(c) = <<v.prev[c[1]]>> \o c
      BY <2>1, <2>3, <2>5, Zenon
    <3> QED BY <2>2, <3>1, <3>2, <1>5, BacktrackLonger
  <2> QED BY <2>4, <2>5, Zenon
<1> HIDE DEF G
<1>6. /\ back[0] = <<to>>
      /\ \A k \in 1 .. 8 : back[k] = G(back[k - 1])
  <2> DEFINE g == [k \in 1 .. 8 |-> [c \in S |-> G(c)]]
             P(f) == f = [k \in 0 .. Len(ALL) |-> IF k = 0 THEN <<to>> ELSE G(f[k - 1])]
  <2>1. <<to>> \in S
    BY <1>4, Zenon
  <2>2. ASSUME NEW c \in S PROVE G(c) \in S
    BY <1>5, Zenon DEF Backtrack
  <2> HIDE DEF S
  <2>3. g \in Turns(S)
    BY <2>2, Zenon DEF Turns
  <2>4. PICK f : Follows(S, <<to>>, g, f)
    <3> HIDE DEF g
    <3> QED BY <2>1, <2>3, EightTurns, Zenon
  <2>5. /\ f \in [0 .. 8 -> S] /\ f[0] = <<to>>
        /\ \A k \in 1 .. 8 : f[k] = G(f[k - 1])
    BY <2>4 DEF Follows
  <2>6. P(f)
    BY <2>5, AllStates
  <2>7. P(back)
    <3> HIDE DEF P
    <3>1. P(CHOOSE h : P(h))
      BY <2>6, Zenon
    <3> QED BY <3>1, Zenon DEF P
  <2> HIDE DEF back
  <2> QED BY <2>7, AllStates
<1> HIDE DEF back
<1> DEFINE Good(k) == /\ Backtrack(v, to, back[k])
                      /\ v.prev[back[k][1]] = from \/ d[back[k][1]] + k <= 8
           T == {k \in Nat : k <= 8 => Good(k)}
<1>7. \A n \in Reached(v) : d[n] \in 1 .. 8
  BY <1>2, Zenon DEF Tree
<1>8. 0 \in T
  BY <1>3, <1>4, <1>6, <1>7
<1>9. \A k \in T : k + 1 \in T
  <2> SUFFICES ASSUME NEW k \in Nat, k + 1 <= 8, Good(k)
               PROVE  Good(k + 1)
    <3> HIDE DEF Good
    <3> QED OBVIOUS
  <2>1. back[k + 1] = G(back[k])
    <3>1. k + 1 \in 1 .. 8 /\ (k + 1) - 1 = k
      OBVIOUS
    <3> QED BY <1>6, <3>1, Zenon
  <2>2. Backtrack(v, to, back[k + 1])
    BY <1>5, <2>1, Zenon
  <2>3. CASE v.prev[back[k][1]] = from /\ back[k + 1] = back[k]
    BY <2>2, <2>3, Zenon
  <2>4. CASE /\ v.prev[back[k][1]] # from /\ back[k][1] \in Reached(v)
             /\ d[back[k + 1][1]] < d[back[k][1]] /\ back[k + 1][1] \in Reached(v)
    BY <2>2, <2>4, <1>7
  <2>5. CASE v.prev[back[k][1]] = from /\ back[k + 1] # back[k]
    <3>1. back[k][1] \in AdmissionStates /\ Head(back[k]) = back[k][1]
      BY DEF Backtrack
    <3> QED BY <2>1, <2>5, <3>1, Zenon DEF G
  <2> QED BY <1>5, <2>1, <2>3, <2>4, <2>5, Zenon
<1>10. Good(8)
  <2> HIDE DEF T
  <2>1. 8 \in T
    BY <1>8, <1>9, EightSteps, Zenon
  <2> HIDE DEF Good
  <2> QED BY <2>1 DEF T
<1>11. back[8][1] \in Reached(v)
  BY <1>10 DEF Backtrack
<1> QED BY <1>1, <1>7, <1>10, <1>11, AllStates

\* A route: legal steps that end at the target, in one step where one is legal, and by
\* way of a state that runs only to one that does, or to DEGRADED.
LegalRoute(from, to, c) ==
  /\ c \in Seq(AdmissionStates) /\ Len(c) >= 1 /\ c[Len(c)] = to
  /\ can_become(from, c[1])
  /\ \A i \in 1 .. Len(c) - 1 : can_become(c[i], c[i + 1])
  /\ \A i \in 1 .. Len(c) :
       /\ permits_normal_execution(c[i]) => permits_normal_execution(to) \/ to = "DEGRADED"
       /\ c[i] = "REVOKED" => to = "REVOKED"
  /\ can_become(from, to) => Len(c) = 1

\* route finds a legal route from every state but REVOKED, which none leaves, to every
\* state but UNKNOWN, which none enters: apply_decision never fails for want of one, and
\* never records a promotion on the way to a demotion.
THEOREM RouteSound ==
  ASSUME NEW from \in AdmissionStates \ {"REVOKED"}, NEW to \in AdmissionStates \ {"UNKNOWN"},
         from # to
  PROVE  LegalRoute(from, to, route(from, to))
<1> DEFINE c == route(from, to)
<1>1. PICK v : reached_from(from) = v.prev /\ SearchSound(from, v, 8)
  BY SearchResult, Zenon
<1>2. v.prev[to] # NoState
  BY <1>1, ReachesAll, Zenon
<1>3. Backtrack(v, to, c) /\ v.prev[c[1]] = from
  BY <1>1, <1>2, RouteFound, Zenon
<1> HIDE DEF c
<1>4. /\ c \in Seq(AdmissionStates) /\ Len(c) \in Nat /\ Len(c) >= 1 /\ c[Len(c)] = to
      /\ \A i \in 1 .. Len(c) : c[i] \in Reached(v) /\ c[i] # from
      /\ \A i \in 1 .. Len(c) - 1 : v.prev[c[i + 1]] = c[i]
  <2>1. PICK d : Tree(from, v, 8, d)
    BY <1>1, Zenon DEF SearchSound
  <2> QED BY <2>1, <1>3 DEF Backtrack, Tree, Reached
<1>5. \A n \in Reached(v) : can_become(v.prev[n], n) /\ v.prev[n] # n
  BY <1>1, Zenon DEF SearchSound, Tree
<1>6. can_become(from, c[1])
  BY <1>3, <1>4, <1>5
<1>7. \A i \in 1 .. Len(c) - 1 : can_become(c[i], c[i + 1]) /\ c[i] # c[i + 1]
  <2> SUFFICES ASSUME NEW i \in 1 .. Len(c) - 1
               PROVE  can_become(c[i], c[i + 1]) /\ c[i] # c[i + 1]
    OBVIOUS
  <2>1. i + 1 \in 1 .. Len(c)
    BY <1>4
  <2> QED BY <2>1, <1>4, <1>5, Zenon
<1>8. ASSUME NEW i \in 1 .. Len(c)
      PROVE  /\ permits_normal_execution(c[i]) => permits_normal_execution(to) \/ to = "DEGRADED"
             /\ c[i] = "REVOKED" => to = "REVOKED"
  <2>1. CASE i = Len(c)
    BY <2>1, <1>4, Zenon
  <2>2. CASE i # Len(c)
    <3>1. i \in 1 .. Len(c) - 1 /\ i + 1 \in 1 .. Len(c)
      BY <2>2, <1>4
    <3>2. c[i] # "REVOKED"
      BY <3>1, <1>7 DEF can_become, Moves
    <3>3. NoDetour(from, v) /\ v.prev[c[i + 1]] = c[i] /\ c[i + 1] \in Reached(v) /\ c[i] # from
      BY <3>1, <1>1, <1>4, Zenon DEF SearchSound
    <3>4. c[i] # "ADMITTED"
      BY <3>3, Zenon DEF NoDetour
    <3>5. ASSUME c[i] = "VERIFIED" PROVE permits_normal_execution(to) \/ to = "DEGRADED"
      <4>1. c[i + 1] \in {"ADMITTED", "DEGRADED"}
        BY <3>3, <3>5, Zenon DEF NoDetour
      <4>2. ASSUME i + 1 # Len(c) PROVE FALSE
        <5>1. (i + 1) + 1 \in 1 .. Len(c) /\ i + 1 \in 1 .. Len(c) - 1
          BY <3>1, <4>2, <1>4
        <5>2. v.prev[c[(i + 1) + 1]] = c[i + 1] /\ c[(i + 1) + 1] \in Reached(v) /\ c[i + 1] # from
          BY <5>1, <1>4
        <5> QED BY <5>2, <4>1, <3>3, <3>5, Zenon DEF NoDetour
      <4> QED BY <4>1, <4>2, <1>4, Zenon DEF permits_normal_execution
    <3> QED BY <3>2, <3>4, <3>5, Zenon DEF permits_normal_execution
  <2> QED BY <2>1, <2>2, Zenon
<1>9. ASSUME can_become(from, to) PROVE Len(c) = 1
  <2>1. PICK P : Frontier(from, v, 8, P)
    BY <1>1, Zenon DEF SearchSound
  <2>2. to \in Reached(v)
    BY <1>2, Zenon DEF Reached
  <2>3. v.prev[to] = from
    BY <1>9, <2>1, <2>2, Zenon DEF Frontier
  <2>4. ASSUME Len(c) # 1 PROVE FALSE
    <3>1. Len(c) - 1 \in 1 .. Len(c) - 1 /\ (Len(c) - 1) + 1 = Len(c) /\ Len(c) - 1 \in 1 .. Len(c)
      <4>1. \A n \in Nat : n >= 1 /\ n # 1 =>
              n - 1 \in 1 .. n - 1 /\ (n - 1) + 1 = n /\ n - 1 \in 1 .. n
        OBVIOUS
      <4>2. Len(c) \in Nat /\ Len(c) >= 1 /\ Len(c) # 1
        BY <2>4, <1>4, Zenon
      <4> QED BY <4>1, <4>2, Zenon
    <3>2. v.prev[c[(Len(c) - 1) + 1]] = c[Len(c) - 1] /\ c[Len(c) - 1] # from
      BY <3>1, <1>4, Zenon
    <3> QED BY <3>1, <3>2, <2>3, <1>4, Zenon
  <2> QED BY <2>4, Zenon
<1> QED BY <1>4, <1>6, <1>7, <1>8, <1>9, Zenon DEF LegalRoute, c

-----------------------------------------------------------------------------
(***************************************************************************)
(* Decisions.                                                              *)
(***************************************************************************)

\* What every rule of validate_with ensures, whatever it demands of the names.
ValidPolicy(p) ==
  /\ IsPolicy(p) /\ Len(p.tiers) \in 1 .. 64
  /\ matches_everything(p.tiers[Len(p.tiers)])
  /\ \A i \in DOMAIN p.tiers : tier_ok(p.tiers[i])

\* A policy that set_policy or setup accepts is valid.
LEMMA ValidateMeans ==
  ASSUME NEW p, IsPolicy(p), NEW rule, validate_with(p, rule)
  PROVE  ValidPolicy(p)
BY Zenon DEF validate_with, ValidPolicy

\* The facts a decision may rest on.
IsFacts(f) ==
  f.artifact.provenance \in Ranks /\ (f.approval = NoApproval \/ f.approval.cell \in Cells)

\* The tier that speaks for an artifact is a tier of the policy, and one that lets it
\* run matches it: the catch-all, which matches everything, lets nothing run.
LEMMA FirstTier ==
  ASSUME NEW p, ValidPolicy(p), NEW f, IsFacts(f)
  PROVE  \E i \in DOMAIN p.tiers :
           /\ first_tier(p, f) = p.tiers[i]
           /\ permits_normal_execution(p.tiers[i].state) => tier_matches(p.tiers[i], f)
<1> DEFINE hits == {i \in DOMAIN p.tiers : tier_matches(p.tiers[i], f)}
           n == Len(p.tiers)
<1>1. DOMAIN p.tiers = 1 .. n /\ n \in DOMAIN p.tiers
  <2> DEFINE X == {p.tiers[i] : i \in DOMAIN p.tiers}
  <2>1. p.tiers \in Seq(X) /\ n \in 1 .. 64
    BY Zenon DEF ValidPolicy, IsPolicy
  <2> HIDE DEF X
  <2>2. DOMAIN p.tiers = 1 .. n
    BY <2>1
  <2>3. \A m \in 1 .. 64 : m \in 1 .. m
    OBVIOUS
  <2> HIDE DEF n
  <2> QED BY <2>1, <2>2, <2>3, Zenon
<1>2. CASE hits = {}
  <2>1. first_tier(p, f) = p.tiers[n]
    BY <1>2, Zenon DEF first_tier
  <2>2. ~permits_normal_execution(p.tiers[n].state)
    <3>1. p.tiers[n].max_provenance = 6 /\ run_has_grounds(p.tiers[n])
      BY <1>1, Zenon DEF ValidPolicy, matches_everything, tier_ok
    <3> QED BY <3>1 DEF run_has_grounds, satisfies
  <2> QED BY <2>1, <2>2, <1>1, Zenon
<1>3. CASE hits # {}
  <2> DEFINE First(i) == \A j \in hits : i <= j
             i0 == CHOOSE i \in hits : First(i)
  <2>1. first_tier(p, f) = p.tiers[i0]
    BY <1>3, Zenon DEF first_tier
  <2>2. hits \in SUBSET Nat
    BY <1>1
  <2>3. \E i \in hits : First(i)
    <3> HIDE DEF hits
    <3> QED BY <1>3, <2>2, Least, Zenon
  <2>4. i0 \in hits
    <3> HIDE DEF First, hits
    <3> QED BY <2>3, Zenon
  <2> HIDE DEF i0
  <2> QED BY <2>1, <2>4, Zenon
<1> QED BY <1>2, <1>3, Zenon

\* What base_decision and the two guards decide: no state that only evidence against
\* the artifact gives, a state that runs on a tier's grounds, and authority only for a
\* state that runs.
LEMMA GuardedDecision ==
  ASSUME NEW p, ValidPolicy(p), NEW f, IsFacts(f)
  PROVE  LET d == writable_guard(p, f, setuid_guard(p, f, base_decision(p, f))) IN
         /\ d.state \in {"QUARANTINED", "OBSERVED", "VERIFIED", "ADMITTED", "POLICY_BLOCKED"}
         /\ permits_normal_execution(d.state) =>
              /\ f.artifact.provenance <= 4
              /\ \E i \in DOMAIN p.tiers : /\ p.tiers[i].require_evidence # {}
                                           /\ p.tiers[i].require_evidence \subseteq f.evidence
         /\ ~permits_normal_execution(d.state) => d.cell = 0 /\ d.network = 0
         /\ d.capabilities = {} /\ d.cell \in Cells
         /\ "WRITABLE_PATH" \in f.evidence => d.cell <= p.writable_path_max_cell
         /\ d = finish(d.state, d.cell, d.network, d.capabilities, d.reasons, d.basis, d.needs_user)
<1> DEFINE b == base_decision(p, f)
           c == setuid_guard(p, f, b)
           d == writable_guard(p, f, c)
           Grounds == /\ f.artifact.provenance <= 4
                      /\ \E i \in DOMAIN p.tiers : /\ p.tiers[i].require_evidence # {}
                                                   /\ p.tiers[i].require_evidence \subseteq f.evidence
           Sound(x) ==
             /\ x.state \in {"QUARANTINED", "OBSERVED", "VERIFIED", "ADMITTED", "POLICY_BLOCKED"}
             /\ permits_normal_execution(x.state) => Grounds
             /\ ~permits_normal_execution(x.state) => x.cell = 0 /\ x.network = 0
             /\ x.capabilities = {} /\ x.cell \in Cells
             /\ x = finish(x.state, x.cell, x.network, x.capabilities, x.reasons, x.basis, x.needs_user)
<1>1. Sound(b)
  <2>1. CASE "SIGNATURE_INVALID" \in f.evidence
    <3>1. b = finish("QUARANTINED", 0, 0, {}, {"BAD_SIGNATURE"}, "NONE", TRUE)
      BY <2>1, Zenon DEF base_decision
    <3> HIDE DEF b, Grounds
    <3> QED BY <3>1 DEF finish, permits_normal_execution, Cells
  <2>2. CASE "SIGNATURE_INVALID" \notin f.evidence
    <3>1. PICK i \in DOMAIN p.tiers :
            /\ first_tier(p, f) = p.tiers[i]
            /\ permits_normal_execution(p.tiers[i].state) => tier_matches(p.tiers[i], f)
      BY FirstTier, Zenon
    <3> DEFINE t == p.tiers[i]
    <3>2. b = finish(t.state, t.cell, t.network, {}, {t.reason}, tier_basis(t), t.needs_user)
      BY <2>2, <3>1, Zenon DEF base_decision
    <3>3. tier_ok(t) /\ t.state \in AdmissionStates /\ t.cell \in Cells /\ t.max_provenance \in Ranks
      BY Zenon DEF ValidPolicy, IsPolicy
    <3>4. ASSUME permits_normal_execution(t.state) PROVE Grounds
      <4>1. /\ f.artifact.provenance <= t.max_provenance /\ t.require_evidence \subseteq f.evidence
            /\ t.max_provenance <= 4 /\ t.require_evidence # {}
        BY <3>1, <3>3, <3>4, Zenon DEF tier_matches, tier_ok, run_has_grounds, satisfies
      <4>2. f.artifact.provenance <= 4
        BY <4>1, <3>3 DEF IsFacts, Ranks
      <4> QED BY <4>1, <4>2, Zenon
    <3>5. t.state \in {"QUARANTINED", "OBSERVED", "VERIFIED", "ADMITTED", "POLICY_BLOCKED"}
      BY <3>3, Zenon DEF tier_ok, AdmissionStates
    <3>6. ~permits_normal_execution(t.state) => t.cell = 0 /\ t.network = 0
      BY <3>3, Zenon DEF tier_ok, idle_is_confined
    <3> HIDE DEF b, t, Grounds
    <3> QED BY <3>2, <3>3, <3>4, <3>5, <3>6, Zenon DEF finish
  <2> QED BY <2>1, <2>2, Zenon
<1>2. Sound(c)
  <2> HIDE DEF b, Grounds
  <2>1. CASE c = b
    <3> HIDE DEF c
    <3> QED BY <1>1, <2>1, Zenon
  <2>2. CASE c = finish("QUARANTINED", 0, 0, {}, b.reasons \cup {"SETUID_EXECUTABLE"}, "NONE", TRUE)
    <3> HIDE DEF c
    <3> QED BY <2>2 DEF finish, permits_normal_execution, Cells
  <2> QED BY <2>1, <2>2, Zenon DEF setuid_guard
<1>3. p.writable_path_max_cell \in Cells
  BY Zenon DEF ValidPolicy, IsPolicy
<1>4. Sound(d) /\ ("WRITABLE_PATH" \in f.evidence => d.cell <= p.writable_path_max_cell)
  <2> HIDE DEF c, Grounds
  <2>1. CASE "WRITABLE_PATH" \in f.evidence /\ c.cell > p.writable_path_max_cell
    <3>1. /\ d.state = c.state /\ d.cell = p.writable_path_max_cell /\ d.capabilities = c.capabilities
          /\ d = finish(d.state, d.cell, d.network, d.capabilities, d.reasons, d.basis, d.needs_user)
      BY <2>1, <1>2, Zenon DEF writable_guard, finish
    <3>2. permits_normal_execution(c.state)
      BY <2>1, <1>2, <1>3 DEF Cells
    <3> HIDE DEF d
    <3> QED BY <3>1, <3>2, <1>2, <1>3 DEF Cells
  <2>2. CASE ~("WRITABLE_PATH" \in f.evidence /\ c.cell > p.writable_path_max_cell)
    <3>1. d = c
      BY <2>2, Zenon DEF writable_guard
    <3>2. "WRITABLE_PATH" \in f.evidence => c.cell <= p.writable_path_max_cell
      BY <2>2, <1>2, <1>3 DEF Cells
    <3> HIDE DEF d
    <3> QED BY <3>1, <3>2, <1>2, Zenon
  <2> QED BY <2>1, <2>2, Zenon
<1> HIDE DEF d
<1> QED BY <1>4, Zenon DEF d

\* A decision is a state that the state machine can be moved to; REVOKED comes from a
\* revocation and DEGRADED from changed content of what was trusted.
DecisionState(f, d) ==
  /\ d.state \in AdmissionStates \ {"UNKNOWN"}
  /\ d.state = "REVOKED" <=> revoked(f) \/ f.prior = "REVOKED"
  /\ d.state = "DEGRADED" => permits_normal_execution(f.prior)

\* What a decision to run rests on.
DecisionGrounds(p, f, now, d) ==
  permits_normal_execution(d.state) =>
    /\ ~Prohibited(p, f) /\ "CONTENT_DIGEST_MISMATCH" \notin f.evidence
    /\ \/ applies_to(f.approval, f.artifact.id, now)
       \/ /\ f.artifact.provenance <= 4
          /\ \E i \in DOMAIN p.tiers : /\ p.tiers[i].require_evidence # {}
                                       /\ p.tiers[i].require_evidence \subseteq f.evidence

\* What a decision may grant.
DecisionAuthority(p, f, now, d) ==
  /\ ~permits_normal_execution(d.state) => d.cell = 0 /\ d.network = 0 /\ d.capabilities = {}
  /\ d.capabilities \cap HighRisk # {} => applies_to(f.approval, f.artifact.id, now)
  /\ applies_to(f.approval, f.artifact.id, now) => d.cell <= p.max_manual_cell
  /\ ~applies_to(f.approval, f.artifact.id, now) /\ "WRITABLE_PATH" \in f.evidence
       => d.cell <= p.writable_path_max_cell

\* evaluate, for every valid policy and all facts: revocation and changed content come
\* first, what runs has grounds, and authority is capped.
THEOREM EvaluateSound ==
  ASSUME NEW p, ValidPolicy(p), NEW f, IsFacts(f), NEW now
  PROVE  /\ DecisionState(f, evaluate(p, f, now))
         /\ DecisionGrounds(p, f, now, evaluate(p, f, now))
         /\ DecisionAuthority(p, f, now, evaluate(p, f, now))
<1> DEFINE e == evaluate(p, f, now)
           d == writable_guard(p, f, setuid_guard(p, f, base_decision(p, f)))
           r == requested_capabilities(f, d)
           approved == applies_to(f.approval, f.artifact.id, now)
<1>0. p.max_manual_cell \in Cells /\ p.writable_path_max_cell \in Cells
  BY Zenon DEF ValidPolicy, IsPolicy
<1>1. ASSUME NEW st \in {"REVOKED", "DEGRADED", "QUARANTINED", "POLICY_BLOCKED"}, NEW why, NEW basis,
             e = Refuse(st, why, basis)
      PROVE  e.state = st /\ DecisionGrounds(p, f, now, e) /\ DecisionAuthority(p, f, now, e)
  <2>1. e.state = st /\ e.cell = 0 /\ e.network = 0 /\ e.capabilities = {}
    BY <1>1 DEF Refuse, finish
  <2>2. ~permits_normal_execution(e.state)
    BY <2>1, Zenon DEF permits_normal_execution
  <2>3. 0 <= p.max_manual_cell /\ 0 <= p.writable_path_max_cell
    BY <1>0 DEF Cells
  <2> HIDE DEF e
  <2> QED BY <2>1, <2>2, <2>3, Zenon DEF DecisionGrounds, DecisionAuthority
<1>2. CASE revoked(f)
  <2>1. e = Refuse("REVOKED", "REVOKED", "POLICY")
    BY <1>2, Zenon DEF evaluate
  <2> HIDE DEF e
  <2> QED BY <2>1, <1>1, <1>2, Zenon DEF DecisionState, AdmissionStates, e
<1>3. CASE ~revoked(f) /\ f.prior = "REVOKED"
  <2>1. e = Refuse("REVOKED", "PREVIOUSLY_REVOKED", "POLICY")
    BY <1>3, Zenon DEF evaluate
  <2> HIDE DEF e
  <2> QED BY <2>1, <1>1, <1>3, Zenon DEF DecisionState, AdmissionStates, e
<1>4. CASE ~revoked(f) /\ f.prior # "REVOKED" /\ "CONTENT_DIGEST_MISMATCH" \in f.evidence
  <2>1. e = Refuse(changed_content(f.prior), "CONTENT_CHANGED", "NONE")
    BY <1>4, Zenon DEF evaluate
  <2>2. /\ changed_content(f.prior) \in {"DEGRADED", "QUARANTINED"}
        /\ changed_content(f.prior) = "DEGRADED" => permits_normal_execution(f.prior)
    BY Zenon DEF changed_content
  <2> HIDE DEF e
  <2> QED BY <2>1, <2>2, <1>1, <1>4, Zenon DEF DecisionState, AdmissionStates, e
<1>5. CASE /\ ~revoked(f) /\ f.prior # "REVOKED" /\ "CONTENT_DIGEST_MISMATCH" \notin f.evidence
           /\ Prohibited(p, f)
  <2>1. e = Refuse("POLICY_BLOCKED", "POLICY_PROHIBITION", "POLICY")
    BY <1>5, Zenon DEF evaluate
  <2> HIDE DEF e
  <2> QED BY <2>1, <1>1, <1>5, Zenon DEF DecisionState, AdmissionStates, e
<1>6. CASE /\ ~revoked(f) /\ f.prior # "REVOKED" /\ "CONTENT_DIGEST_MISMATCH" \notin f.evidence
           /\ ~Prohibited(p, f)
  <2>1. e = apply_approval(p, f, now, r)
    BY <1>6, Zenon DEF evaluate
  <2>2. /\ d.state \in {"QUARANTINED", "OBSERVED", "VERIFIED", "ADMITTED", "POLICY_BLOCKED"}
        /\ permits_normal_execution(d.state) =>
              /\ f.artifact.provenance <= 4
              /\ \E i \in DOMAIN p.tiers : /\ p.tiers[i].require_evidence # {}
                                           /\ p.tiers[i].require_evidence \subseteq f.evidence
        /\ ~permits_normal_execution(d.state) => d.cell = 0 /\ d.network = 0
        /\ d.capabilities = {} /\ d.cell \in Cells
        /\ "WRITABLE_PATH" \in f.evidence => d.cell <= p.writable_path_max_cell
        /\ d = finish(d.state, d.cell, d.network, d.capabilities, d.reasons, d.basis, d.needs_user)
    <3> HIDE DEF d
    <3> QED BY GuardedDecision, Zenon DEF d
  <2> HIDE DEF d
  <2>3. /\ r.state = d.state /\ r.cell = d.cell /\ r.network = d.network
        /\ r.capabilities \cap HighRisk = {}
        /\ ~permits_normal_execution(d.state) => r.capabilities = {}
    <3>1. CASE permits_normal_execution(d.state) /\ d.cell > 0
      <4>1. /\ r.state = d.state /\ r.cell = d.cell /\ r.network = d.network
            /\ r.capabilities = f.requested \ HighRisk
        BY <3>1, <2>2, Zenon DEF requested_capabilities, finish
      <4> QED BY <4>1, <3>1, Zenon
    <3>2. CASE ~(permits_normal_execution(d.state) /\ d.cell > 0)
      <4>1. r = d
        BY <3>2, Zenon DEF requested_capabilities
      <4> QED BY <4>1, <2>2, Zenon
    <3> QED BY <3>1, <3>2, Zenon
  <2> HIDE DEF r
  <2>4. CASE ~approved
    <3>1. e = r
      BY <2>1, <2>4, Zenon DEF apply_approval
    <3>2. DecisionState(f, r)
      BY <1>6, <2>2, <2>3, Zenon DEF DecisionState, AdmissionStates
    <3>3. DecisionGrounds(p, f, now, r)
      BY <1>6, <2>2, <2>3, Zenon DEF DecisionGrounds
    <3>4. DecisionAuthority(p, f, now, r)
      BY <2>2, <2>3, <2>4, Zenon DEF DecisionAuthority
    <3> QED BY <3>1, <3>2, <3>3, <3>4, Zenon
  <2>5. CASE approved
    <3>1. f.approval.cell \in Cells
      BY <2>5, Zenon DEF IsFacts, applies_to
    <3>2. e.state = "ADMITTED" /\ e.cell <= p.max_manual_cell
      <4> DEFINE cell == IF f.approval.cell > p.max_manual_cell THEN p.max_manual_cell ELSE f.approval.cell
      <4>1. e.state = "ADMITTED" /\ e.cell = cell
        BY <2>1, <2>5 DEF apply_approval, finish
      <4>2. cell <= p.max_manual_cell
        BY <3>1, <1>0 DEF Cells
      <4> QED BY <4>1, <4>2, Zenon
    <3> HIDE DEF e
    <3>3. DecisionState(f, e)
      BY <1>6, <3>2, Zenon DEF DecisionState, AdmissionStates
    <3>4. DecisionGrounds(p, f, now, e)
      BY <1>6, <2>5, Zenon DEF DecisionGrounds
    <3>5. DecisionAuthority(p, f, now, e)
      BY <2>5, <3>2, Zenon DEF DecisionAuthority, permits_normal_execution
    <3> QED BY <3>3, <3>4, <3>5, Zenon DEF e
  <2> QED BY <2>4, <2>5, Zenon
<1> QED BY <1>2, <1>3, <1>4, <1>5, <1>6, Zenon
=============================================================================

---------------------------- MODULE LedgerProofs ------------------------------
(***************************************************************************)
(* Proofs about the token ledger and the gateway, of GatewaySpec: runs and *)
(* calls together, for any number of either, any backends, months, limits  *)
(* and faults.                                                             *)
(***************************************************************************)
EXTENDS TokenGateway, FoldFacts

-----------------------------------------------------------------------------
(***************************************************************************)
(* The queues.                                                             *)
(***************************************************************************)
Distinct(q) == \A i, j \in 1 .. Len(q) : q[i] = q[j] => i = j

\* The calls that occupy a slot of their backend, by the stages st.
Busy(st, b) == {c \in Call : CallBackend[c] = b /\ st[c] \in {"sent", "answered", "broken"}}

\* A set of positions that has with each all before it is a front of the sequence.
LEMMA FrontIsInterval ==
  ASSUME NEW n \in Nat, NEW S \in SUBSET (1 .. n), \A i \in S : \A j \in 1 .. i : j \in S
  PROVE  /\ Cardinality(S) \in 0 .. n
         /\ S = 1 .. Cardinality(S)
<1>1. \E m \in 0 .. n : S = 1 .. m
  <2> DEFINE U == {i \in Nat : i + 1 \notin S}
  <2>1. PICK m \in U : \A i \in U : m <= i
    <3>1. n \in U
      OBVIOUS
    <3> QED BY <3>1, NatLeast
  <2>2. m <= n
    <3>1. n \in U
      OBVIOUS
    <3> QED BY <2>1, <3>1
  <2>3. ASSUME NEW i \in 1 .. m PROVE i \in S
    <3>1. i - 1 \in Nat /\ ~ (m <= i - 1) /\ (i - 1) + 1 = i
      OBVIOUS
    <3> QED BY <2>1, <3>1
  <2>4. ASSUME NEW i \in S PROVE i \in 1 .. m
    <3>1. SUFFICES ASSUME ~ (i <= m) PROVE FALSE
      OBVIOUS
    <3>2. m + 1 \in 1 .. i
      BY <3>1
    <3> QED BY <2>1, <3>2
  <2>5. m \in 0 .. n
    BY <2>1, <2>2
  <2> HIDE DEF U
  <2>6. S \subseteq 1 .. m /\ 1 .. m \subseteq S
    BY <2>3, <2>4
  <2> QED BY <2>5, <2>6
<1>2. PICK m \in 0 .. n : S = 1 .. m
  BY <1>1
<1>3. Cardinality(S) = m
  BY <1>2, FS_Interval
<1> QED BY <1>2, <1>3

\* What drain() counts ahead of a position: one more for each call for the backend.
LEMMA AheadCounts ==
  ASSUME NEW q \in Seq(Call), NEW b
  PROVE  /\ Ahead(q, 1, b) = 0
         /\ \A i \in 1 .. Len(q) + 1 : Ahead(q, i, b) \in Nat
         /\ \A i \in 1 .. Len(q) :
              Ahead(q, i + 1, b) = Ahead(q, i, b) + (IF CallBackend[q[i]] = b THEN 1 ELSE 0)
<1> DEFINE A(i) == {j \in 1 .. i - 1 : CallBackend[q[j]] = b}
<1>1. A(1) = {} /\ Ahead(q, 1, b) = 0
  BY FS_EmptySet DEF Ahead
<1>2. ASSUME NEW i \in 1 .. Len(q) + 1 PROVE IsFiniteSet(A(i)) /\ Ahead(q, i, b) = Cardinality(A(i))
                                             /\ Ahead(q, i, b) \in Nat
  <2>0. 1 \in Int /\ i - 1 \in Int
    OBVIOUS
  <2>1. IsFiniteSet(1 .. i - 1) /\ A(i) \subseteq 1 .. i - 1
    BY <2>0, FS_Interval
  <2>2. IsFiniteSet(A(i))
    BY <2>1, FS_Subset
  <2> QED BY <2>2, FS_CardinalityType DEF Ahead
<1>3. ASSUME NEW i \in 1 .. Len(q)
      PROVE  Ahead(q, i + 1, b) = Ahead(q, i, b) + (IF CallBackend[q[i]] = b THEN 1 ELSE 0)
  <2>1. i \in 1 .. Len(q) + 1 /\ i + 1 \in 1 .. Len(q) + 1
    OBVIOUS
  <2>2. i \notin A(i)
    OBVIOUS
  <2>3. A(i + 1) = IF CallBackend[q[i]] = b THEN A(i) \cup {i} ELSE A(i)
    OBVIOUS
  <2> HIDE DEF A
  <2>4. /\ IsFiniteSet(A(i)) /\ Ahead(q, i, b) = Cardinality(A(i)) /\ Ahead(q, i, b) \in Nat
        /\ Ahead(q, i + 1, b) = Cardinality(A(i + 1))
    BY <1>2, <2>1
  <2>5. Cardinality(A(i) \cup {i}) = Cardinality(A(i)) + 1
    BY <2>2, <2>4, FS_AddElement
  <2> QED BY <2>3, <2>4, <2>5
<1> QED BY <1>1, <1>2, <1>3

\* A call is pushed: the queue has it and what it had, in an order that forgets nobody.
LEMMA PushedHas ==
  ASSUME NEW q \in Seq(Call), NEW c \in Call, Distinct(q), \A i \in 1 .. Len(q) : q[i] # c
  PROVE  /\ Pushed(q, c) \in Seq(Call) /\ Len(Pushed(q, c)) = Len(q) + 1
         /\ Distinct(Pushed(q, c))
         /\ \A i \in 1 .. Len(q) + 1 :
              Pushed(q, c)[i] = c \/ \E j \in 1 .. Len(q) : Pushed(q, c)[i] = q[j]
         /\ \E i \in 1 .. Len(q) + 1 : Pushed(q, c)[i] = c
         /\ \A j \in 1 .. Len(q) : \E i \in 1 .. Len(q) + 1 : Pushed(q, c)[i] = q[j]
<1> DEFINE I == {i \in DOMAIN q : Rank[q[i]] <= Rank[c]}
           n == Cardinality(I)
           f == SubSeq(q, 1, n)
           g == SubSeq(q, n + 1, Len(q))
           p == Pushed(q, c)
<1>0. Len(q) \in Nat /\ DOMAIN q = 1 .. Len(q) /\ \A i \in 1 .. Len(q) : q[i] \in Call
  BY LenProperties, ElementOfSeq
<1>1. n \in 0 .. Len(q)
  <2>0. 1 \in Int /\ Len(q) \in Int
    BY <1>0
  <2>1. IsFiniteSet(1 .. Len(q)) /\ Cardinality(1 .. Len(q)) = IF 1 > Len(q) THEN 0 ELSE Len(q) - 1 + 1
    BY <2>0, FS_Interval
  <2>2. I \subseteq 1 .. Len(q)
    BY <1>0
  <2> HIDE DEF I
  <2>3. Cardinality(I) \in Nat /\ Cardinality(I) <= Cardinality(1 .. Len(q))
    BY <2>1, <2>2, FS_Subset, FS_CardinalityType
  <2> QED BY <1>0, <2>1, <2>3
<1>2. p = f \o <<c>> \o g
  BY DEF Pushed
<1> HIDE DEF n, p
<1>3. f \in Seq(Call) /\ Len(f) = n /\ \A i \in 1 .. n : f[i] = q[i]
  <2>1. \A i \in 1 .. n : q[i] \in Call
    BY <1>0, <1>1
  <2>2. /\ SubSeq(q, 1, n) \in Seq(Call)
        /\ Len(SubSeq(q, 1, n)) = IF 1 <= n THEN n - 1 + 1 ELSE 0
        /\ \A i \in 1 .. n - 1 + 1 : SubSeq(q, 1, n)[i] = q[1 + i - 1]
    BY <1>1, <2>1, SubSeqProperties
  <2> QED BY <1>0, <1>1, <2>2
<1>4. g \in Seq(Call) /\ Len(g) = Len(q) - n /\ \A i \in 1 .. Len(q) - n : g[i] = q[n + i]
  <2>1. \A i \in n + 1 .. Len(q) : q[i] \in Call
    BY <1>0, <1>1
  <2>2. n + 1 \in Int /\ Len(q) \in Int
    BY <1>0, <1>1
  <2>3. /\ SubSeq(q, n + 1, Len(q)) \in Seq(Call)
        /\ Len(SubSeq(q, n + 1, Len(q))) = IF n + 1 <= Len(q) THEN Len(q) - (n + 1) + 1 ELSE 0
        /\ \A i \in 1 .. Len(q) - (n + 1) + 1 : SubSeq(q, n + 1, Len(q))[i] = q[(n + 1) + i - 1]
    BY <2>1, <2>2, SubSeqProperties
  <2>4. \A l \in Nat : \A m \in 0 .. l :
          /\ (IF m + 1 <= l THEN l - (m + 1) + 1 ELSE 0) = l - m
          /\ \A i \in 1 .. l - m : i \in 1 .. l - (m + 1) + 1 /\ (m + 1) + i - 1 = m + i
    OBVIOUS
  <2>5. /\ Len(g) = Len(q) - n
        /\ \A i \in 1 .. Len(q) - n : i \in 1 .. Len(q) - (n + 1) + 1 /\ (n + 1) + i - 1 = n + i
    BY <1>0, <1>1, <2>3, <2>4
  <2> HIDE DEF g
  <2>6. g \in Seq(Call) /\ \A i \in 1 .. Len(q) - (n + 1) + 1 : g[i] = q[(n + 1) + i - 1]
    BY <2>3 DEF g
  <2> QED BY <2>5, <2>6
<1> HIDE DEF f, g
<1>5. /\ f \o <<c>> \in Seq(Call) /\ Len(f \o <<c>>) = n + 1
      /\ \A i \in 1 .. n + 1 : (f \o <<c>>)[i] = IF i <= n THEN q[i] ELSE c
  <2>1. <<c>> \in Seq(Call) /\ Len(<<c>>) = 1 /\ <<c>>[1] = c
    OBVIOUS
  <2>2. /\ f \o <<c>> \in Seq(Call) /\ Len(f \o <<c>>) = Len(f) + Len(<<c>>)
        /\ \A i \in 1 .. Len(f) + Len(<<c>>) :
             (f \o <<c>>)[i] = IF i <= Len(f) THEN f[i] ELSE <<c>>[i - Len(f)]
    BY <1>3, <2>1, ConcatProperties
  <2>3. \A i \in 1 .. n + 1 : i <= n \/ i - n = 1
    BY <1>1
  <2> QED BY <1>1, <1>3, <2>1, <2>2, <2>3
<1>6. /\ p \in Seq(Call) /\ Len(p) = Len(q) + 1
      /\ \A i \in 1 .. Len(q) + 1 : p[i] = IF i <= n THEN q[i] ELSE IF i = n + 1 THEN c ELSE q[i - 1]
  <2> DEFINE h == f \o <<c>>
  <2>1. h \in Seq(Call) /\ Len(h) = n + 1 /\ \A i \in 1 .. n + 1 : h[i] = IF i <= n THEN q[i] ELSE c
    BY <1>5
  <2>2. p = h \o g
    BY <1>2
  <2> HIDE DEF h
  <2>3. /\ p \in Seq(Call) /\ Len(p) = Len(h) + Len(g)
        /\ \A i \in 1 .. Len(h) + Len(g) : p[i] = IF i <= Len(h) THEN h[i] ELSE g[i - Len(h)]
    BY <1>4, <2>1, <2>2, ConcatProperties
  <2>4. Len(h) + Len(g) = Len(q) + 1
    BY <1>0, <1>1, <1>4, <2>1
  <2>5. ASSUME NEW i \in 1 .. Len(q) + 1
        PROVE  p[i] = IF i <= n THEN q[i] ELSE IF i = n + 1 THEN c ELSE q[i - 1]
    <3>1. CASE i <= n + 1
      <4>1. i \in 1 .. n + 1
        BY <1>1, <3>1
      <4> QED BY <1>1, <2>1, <2>3, <2>4, <3>1, <4>1
    <3>2. CASE ~ (i <= n + 1)
      <4>1. i - (n + 1) \in 1 .. Len(q) - n /\ n + (i - (n + 1)) = i - 1 /\ ~ (i <= n) /\ i # n + 1
        BY <1>0, <1>1, <3>2
      <4> QED BY <1>4, <2>1, <2>3, <2>4, <3>2, <4>1
    <3> QED BY <3>1, <3>2
  <2> QED BY <2>3, <2>4, <2>5
<1>7. Distinct(p)
  <2> SUFFICES ASSUME NEW i \in 1 .. Len(q) + 1, NEW j \in 1 .. Len(q) + 1, p[i] = p[j] PROVE i = j
    BY <1>6 DEF Distinct
  <2>1. \A k \in 1 .. Len(q) + 1 :
          \/ k = n + 1 /\ p[k] = c
          \/ k <= n /\ k \in 1 .. Len(q) /\ p[k] = q[k]
          \/ k > n + 1 /\ k - 1 \in 1 .. Len(q) /\ p[k] = q[k - 1]
    BY <1>0, <1>1, <1>6
  <2>2. \A k, l \in 1 .. Len(q) : q[k] = q[l] => k = l
    BY DEF Distinct
  <2> QED BY <1>0, <1>1, <2>1, <2>2
<1>8. \A i \in 1 .. Len(q) + 1 : p[i] = c \/ \E j \in 1 .. Len(q) : p[i] = q[j]
  <2>1. \A k \in 1 .. Len(q) + 1 :
          \/ k = n + 1 /\ p[k] = c
          \/ k \in 1 .. Len(q) /\ p[k] = q[k]
          \/ k - 1 \in 1 .. Len(q) /\ p[k] = q[k - 1]
    BY <1>0, <1>1, <1>6
  <2> QED BY <2>1
<1>9. \E i \in 1 .. Len(q) + 1 : p[i] = c
  <2>1. n + 1 \in 1 .. Len(q) + 1 /\ p[n + 1] = c
    BY <1>0, <1>1, <1>6
  <2> QED BY <2>1
<1>10. ASSUME NEW j \in 1 .. Len(q) PROVE \E i \in 1 .. Len(q) + 1 : p[i] = q[j]
  <2>1. \/ j \in 1 .. Len(q) + 1 /\ p[j] = q[j]
        \/ j + 1 \in 1 .. Len(q) + 1 /\ p[j + 1] = q[j]
    <3>1. j <= n => p[j] = q[j]
      BY <1>0, <1>1, <1>6
    <3>2. j > n => p[j + 1] = q[j]
      <4>1. j > n => j + 1 \in 1 .. Len(q) + 1 /\ ~ (j + 1 <= n) /\ j + 1 # n + 1 /\ (j + 1) - 1 = j
        BY <1>0, <1>1
      <4> QED BY <1>6, <4>1
    <3>3. j \in 1 .. Len(q) + 1 /\ j + 1 \in 1 .. Len(q) + 1 /\ (j <= n \/ j > n)
      BY <1>0, <1>1
    <3> QED BY <3>1, <3>2, <3>3
  <2> QED BY <2>1
<1> QED BY <1>6, <1>7, <1>8, <1>9, <1>10 DEF p

\* How far drain() gets on queue q with n[b] calls at each backend: to the first call
\* that cannot be dispatched, and never over the capacity of a local backend.
LEMMA StartsReach ==
  ASSUME TokenGatewayAssumption, NEW q \in Seq(Call), NEW n \in [Backend -> Nat],
         \A b \in Local : n[b] <= Capacity, NEW k, k = Cardinality(Starts(q, n))
  PROVE  /\ k \in 0 .. Len(q) /\ Starts(q, n) = 1 .. k
         /\ k < Len(q) =>
              ~ CanDispatch(CallBackend[q[k + 1]],
                            n[CallBackend[q[k + 1]]] + Ahead(q, k + 1, CallBackend[q[k + 1]]))
         /\ \A b \in Local : n[b] + Ahead(q, k + 1, b) <= Capacity
<1> DEFINE S == Starts(q, n)
           Can(j) == CanDispatch(CallBackend[q[j]], n[CallBackend[q[j]]] + Ahead(q, j, CallBackend[q[j]]))
<1>0. Len(q) \in Nat /\ DOMAIN q = 1 .. Len(q) /\ \A i \in 1 .. Len(q) : q[i] \in Call
  BY LenProperties, ElementOfSeq
<1>1. \A i : i \in S <=> i \in 1 .. Len(q) /\ \A j \in 1 .. i : Can(j)
  BY <1>0 DEF Starts
<1> HIDE DEF S, Can
<1>2. k \in 0 .. Len(q) /\ S = 1 .. k
  <2>0. \A l \in Nat : \A i \in 1 .. l : \A j \in 1 .. i : j \in 1 .. l /\ 1 .. j \subseteq 1 .. i
    OBVIOUS
  <2>1. S \subseteq 1 .. Len(q) /\ \A i \in S : \A j \in 1 .. i : j \in S
    <3>1. S \subseteq 1 .. Len(q)
      BY <1>1
    <3>2. ASSUME NEW i \in S, NEW j \in 1 .. i PROVE j \in S
      <4>1. i \in 1 .. Len(q)
        BY <1>1
      <4>2. j \in 1 .. Len(q) /\ 1 .. j \subseteq 1 .. i
        BY <1>0, <2>0, <4>1
      <4> QED BY <1>1, <4>2
    <3> QED BY <3>1, <3>2
  <2>2. k = Cardinality(S)
    BY DEF S
  <2> QED BY <1>0, <2>1, <2>2, FrontIsInterval
<1>3. k < Len(q) => ~ Can(k + 1)
  <2> SUFFICES ASSUME k < Len(q), Can(k + 1) PROVE FALSE
    OBVIOUS
  <2>1. k + 1 \in 1 .. Len(q) /\ k + 1 \notin S
    BY <1>0, <1>2
  <2>2. ASSUME NEW j \in 1 .. k + 1 PROVE Can(j)
    <3>1. CASE j = k + 1
      BY <3>1
    <3>2. CASE j # k + 1
      <4>1. j \in 1 .. k
        BY <1>0, <1>2, <3>2
      <4> QED BY <1>1, <1>2, <4>1
    <3> QED BY <3>1, <3>2
  <2> QED BY <1>1, <2>1, <2>2
<1>4. ASSUME NEW b \in Local PROVE n[b] + Ahead(q, k + 1, b) <= Capacity
  <2> DEFINE T == {i \in Nat : i <= k => n[b] + Ahead(q, i + 1, b) <= Capacity}
  <2>0. b \in Backend /\ n[b] \in Nat /\ n[b] <= Capacity /\ Capacity \in Nat
    BY DEF TokenGatewayAssumption
  <2>1. 0 \in T
    <3>1. Ahead(q, 0 + 1, b) = 0
      BY AheadCounts
    <3> QED BY <2>0, <3>1
  <2>2. ASSUME NEW i \in Nat, i \in T PROVE i + 1 \in T
    <3> SUFFICES ASSUME i + 1 <= k PROVE n[b] + Ahead(q, i + 2, b) <= Capacity
      OBVIOUS
    <3> DEFINE j == i + 1
    <3>1. j \in 1 .. Len(q) /\ j \in 1 .. k /\ j \in 1 .. Len(q) + 1 /\ j + 1 = i + 2
      BY <1>0, <1>2
    <3>2. n[b] + Ahead(q, j, b) <= Capacity
      BY <1>2, <2>2
    <3> HIDE DEF j
    <3>3. Ahead(q, j, b) \in Nat
          /\ Ahead(q, j + 1, b) = Ahead(q, j, b) + (IF CallBackend[q[j]] = b THEN 1 ELSE 0)
      BY <3>1, AheadCounts
    <3>4. CallBackend[q[j]] = b => n[b] + Ahead(q, j, b) < Capacity
      <4>1. Can(j)
        BY <1>1, <1>2, <3>1
      <4> QED BY <4>1 DEF Can, CanDispatch
    <3>5. n[b] + Ahead(q, j + 1, b) <= Capacity
      BY <2>0, <3>2, <3>3, <3>4
    <3> QED BY <3>1, <3>5
  <2>3. k \in Nat
    BY <1>0, <1>2
  <2>4. k \in T
    <3> HIDE DEF T
    <3> QED BY <2>1, <2>2, <2>3, NatInduct
  <2> QED BY <2>3, <2>4
<1> QED BY <1>2, <1>3, <1>4 DEF S, Can

\* The calls drain() starts at a backend are as many as it counted.
LEMMA SentAreCounted ==
  ASSUME NEW q \in Seq(Call), Distinct(q), NEW k \in 0 .. Len(q), NEW b
  PROVE  /\ IsFiniteSet({q[i] : i \in {j \in 1 .. k : CallBackend[q[j]] = b}})
         /\ Cardinality({q[i] : i \in {j \in 1 .. k : CallBackend[q[j]] = b}}) = Ahead(q, k + 1, b)
<1> DEFINE W(m) == {q[i] : i \in {j \in 1 .. m : CallBackend[q[j]] = b}}
           T == {m \in Nat : m <= k => IsFiniteSet(W(m)) /\ Cardinality(W(m)) = Ahead(q, m + 1, b)}
<1>0. Len(q) \in Nat
  BY LenProperties
<1>1. 0 \in T
  <2>1. W(0) = {} /\ Ahead(q, 0 + 1, b) = 0
    BY AheadCounts
  <2> QED BY <2>1, FS_EmptySet
<1>2. ASSUME NEW m \in Nat, m \in T PROVE m + 1 \in T
  <2> SUFFICES ASSUME m + 1 <= k
               PROVE  IsFiniteSet(W(m + 1)) /\ Cardinality(W(m + 1)) = Ahead(q, (m + 1) + 1, b)
    OBVIOUS
  <2>1. m + 1 \in 1 .. Len(q) /\ IsFiniteSet(W(m)) /\ Cardinality(W(m)) = Ahead(q, m + 1, b)
    BY <1>0, <1>2
  <2>2. Ahead(q, (m + 1) + 1, b) = Ahead(q, m + 1, b) + (IF CallBackend[q[m + 1]] = b THEN 1 ELSE 0)
        /\ Ahead(q, m + 1, b) \in Nat
    <3>1. m + 1 \in 1 .. Len(q) + 1
      BY <1>0, <2>1
    <3> QED BY <2>1, <3>1, AheadCounts
  <2>3. q[m + 1] \notin W(m)
    <3>1. \A i \in 1 .. m : i \in 1 .. Len(q) /\ i # m + 1
      BY <1>0, <2>1
    <3> QED BY <2>1, <3>1 DEF Distinct
  <2>4. W(m + 1) = IF CallBackend[q[m + 1]] = b THEN W(m) \cup {q[m + 1]} ELSE W(m)
    <3> DEFINE U == W(m)
               V == W(m + 1)
               x == q[m + 1]
    <3>1. \A i : i \in 1 .. m + 1 <=> i \in 1 .. m \/ i = m + 1
      OBVIOUS
    <3>2. \A y : y \in U <=> \E i \in 1 .. m : CallBackend[q[i]] = b /\ y = q[i]
      OBVIOUS
    <3>3. \A y : y \in V <=> \E i \in 1 .. m + 1 : CallBackend[q[i]] = b /\ y = q[i]
      OBVIOUS
    <3> HIDE DEF U, V
    <3>4. \A y : y \in V <=> y \in U \/ (CallBackend[x] = b /\ y = x)
      BY <3>1, <3>2, <3>3
    <3> HIDE DEF x
    <3>5. V = IF CallBackend[x] = b THEN U \cup {x} ELSE U
      BY <3>4
    <3> QED BY <3>5 DEF U, V, x
  <2> HIDE DEF W
  <2>5. /\ IsFiniteSet(W(m) \cup {q[m + 1]})
        /\ Cardinality(W(m) \cup {q[m + 1]}) = Cardinality(W(m)) + 1
    BY <2>1, <2>3, FS_AddElement
  <2> QED BY <2>1, <2>2, <2>4, <2>5
<1>3. k \in T
  <2> HIDE DEF T
  <2>1. k \in Nat
    BY <1>0
  <2> QED BY <1>1, <1>2, <2>1, NatInduct
<1> QED BY <1>3

\* The queues hold each waiting call once and nobody else, and what NobodyWaitsIdly
\* says.
Waiting(q, st) ==
  /\ q \in Seq(Call) /\ Distinct(q) /\ st \in [Call -> CallStage]
  /\ \A i \in 1 .. Len(q) : st[q[i]] = "queued"
  /\ \A c \in Call : st[c] = "queued" => \E i \in 1 .. Len(q) : q[i] = c
Counted(n, st) ==
  /\ n \in [Backend -> Nat]
  /\ \A b \in Backend : n[b] = Cardinality(Busy(st, b))
  /\ \A b \in Local : n[b] <= Capacity
QueueInv == Waiting(queue, stage) /\ Counted(inflight, stage) /\ NobodyWaitsIdly

\* drain() sends calls of the queue and no others, ...
LEMMA DrainSends ==
  ASSUME TokenGatewayAssumption, NEW q, NEW n, NEW st, Waiting(q, st), Counted(n, st), Drain(q, n, st),
         NEW k, k = Cardinality(Starts(q, n))
  PROVE  /\ stage' \in [Call -> CallStage]
         /\ \A c \in Call : stage'[c] = st[c] \/ (st[c] = "queued" /\ stage'[c] = "sent")
         /\ \A c \in Call : stage'[c] # st[c] <=> \E i \in 1 .. k : q[i] = c
         /\ \A b \in Backend : inflight'[b] = n[b] + Ahead(q, k + 1, b)
<1>1. k \in 0 .. Len(q) /\ Starts(q, n) = 1 .. k
  BY StartsReach DEF Waiting, Counted
<1>2. stage' = [c \in Call |-> IF c \in {q[i] : i \in 1 .. k} THEN "sent" ELSE st[c]]
  BY <1>1 DEF Drain
<1>3. \A b \in Backend : inflight'[b] = n[b] + Ahead(q, k + 1, b)
  BY DEF Drain
<1>4. st \in [Call -> CallStage] /\ \A i \in 1 .. k : st[q[i]] = "queued"
  BY <1>1, LenProperties DEF Waiting
<1>5. stage' \in [Call -> CallStage]
  <2>1. "sent" \in CallStage
    BY DEF CallStage
  <2> QED BY <1>2, <1>4, <2>1
<1>6. ASSUME NEW c \in Call
      PROVE  /\ stage'[c] = st[c] \/ (st[c] = "queued" /\ stage'[c] = "sent")
             /\ stage'[c] # st[c] <=> \E i \in 1 .. k : q[i] = c
  <2>1. stage'[c] = IF \E i \in 1 .. k : q[i] = c THEN "sent" ELSE st[c]
    BY <1>2
  <2> QED BY <1>4, <2>1
<1> QED BY <1>3, <1>5, <1>6

\* ... leaves the others where they were, ...
LEMMA DrainKeepsWaiting ==
  ASSUME TokenGatewayAssumption, NEW q, NEW n, NEW st, Waiting(q, st), Counted(n, st), Drain(q, n, st)
  PROVE  /\ Waiting(queue, stage)'
         /\ queue' # <<>> => ~ CanDispatch(CallBackend[Head(queue)], inflight[CallBackend[Head(queue)]])'
<1> DEFINE k == Cardinality(Starts(q, n))
<1> HIDE DEF k
<1>0. Len(q) \in Nat /\ \A i \in 1 .. Len(q) : q[i] \in Call
  BY LenProperties, ElementOfSeq DEF Waiting
<1>1. /\ k \in 0 .. Len(q)
      /\ k < Len(q) => ~ CanDispatch(CallBackend[q[k + 1]],
                                     n[CallBackend[q[k + 1]]] + Ahead(q, k + 1, CallBackend[q[k + 1]]))
  BY StartsReach DEF Waiting, Counted, k
<1>2. /\ stage' \in [Call -> CallStage]
      /\ \A c \in Call : stage'[c] = st[c] \/ (st[c] = "queued" /\ stage'[c] = "sent")
      /\ \A c \in Call : stage'[c] # st[c] <=> \E i \in 1 .. k : q[i] = c
      /\ \A b \in Backend : inflight'[b] = n[b] + Ahead(q, k + 1, b)
  BY DrainSends DEF k
<1>3. /\ queue' \in Seq(Call) /\ Len(queue') = Len(q) - k
      /\ \A i \in 1 .. Len(q) - k : queue'[i] = q[k + i]
  <2>1. \A i \in k + 1 .. Len(q) : q[i] \in Call
    BY <1>0, <1>1
  <2>2. k + 1 \in Int /\ Len(q) \in Int
    BY <1>0, <1>1
  <2>3. queue' = SubSeq(q, k + 1, Len(q))
    BY DEF Drain, k
  <2>4. /\ queue' \in Seq(Call)
        /\ Len(queue') = IF k + 1 <= Len(q) THEN Len(q) - (k + 1) + 1 ELSE 0
        /\ \A i \in 1 .. Len(q) - (k + 1) + 1 : queue'[i] = q[(k + 1) + i - 1]
    BY <2>1, <2>2, <2>3, SubSeqProperties
  <2>5. \A l \in Nat : \A m \in 0 .. l :
          /\ (IF m + 1 <= l THEN l - (m + 1) + 1 ELSE 0) = l - m
          /\ \A i \in 1 .. l - m : i \in 1 .. l - (m + 1) + 1 /\ (m + 1) + i - 1 = m + i
    OBVIOUS
  <2>6. /\ Len(queue') = Len(q) - k
        /\ \A i \in 1 .. Len(q) - k : i \in 1 .. Len(q) - (k + 1) + 1 /\ (k + 1) + i - 1 = k + i
    BY <1>0, <1>1, <2>4, <2>5
  <2> QED BY <2>4, <2>6
<1>4. \A i \in 1 .. Len(q) - k : k + i \in 1 .. Len(q) /\ k + i \notin 1 .. k
  BY <1>0, <1>1
<1>5. ASSUME NEW i \in 1 .. Len(queue') PROVE stage'[queue'[i]] = "queued"
  <2>1. k + i \in 1 .. Len(q) /\ queue'[i] = q[k + i] /\ k + i \notin 1 .. k
    BY <1>3, <1>4
  <2>2. \A j \in 1 .. k : j \in 1 .. Len(q)
    BY <1>0, <1>1
  <2>3. \A j \in 1 .. k : q[j] # q[k + i]
    BY <2>1, <2>2 DEF Waiting, Distinct
  <2>4. stage'[q[k + i]] = st[q[k + i]]
    BY <1>0, <1>2, <2>1, <2>3
  <2> QED BY <2>1, <2>4 DEF Waiting
<1>6. ASSUME NEW c \in Call, stage'[c] = "queued" PROVE \E i \in 1 .. Len(queue') : queue'[i] = c
  <2>1. st[c] = "queued" /\ stage'[c] = st[c]
    BY <1>2, <1>6
  <2>2. PICK j \in 1 .. Len(q) : q[j] = c
    BY <2>1 DEF Waiting
  <2>3. j \notin 1 .. k
    BY <1>2, <2>1, <2>2
  <2>4. j - k \in 1 .. Len(q) - k /\ k + (j - k) = j
    BY <1>0, <1>1, <2>3
  <2> QED BY <1>3, <2>2, <2>4
<1>7. Distinct(queue')
  <2> SUFFICES ASSUME NEW i \in 1 .. Len(queue'), NEW j \in 1 .. Len(queue'), queue'[i] = queue'[j]
               PROVE  i = j
    BY DEF Distinct
  <2>1. q[k + i] = q[k + j] /\ k + i \in 1 .. Len(q) /\ k + j \in 1 .. Len(q)
    BY <1>3, <1>4
  <2>2. k + i = k + j
    BY <2>1 DEF Waiting, Distinct
  <2> QED BY <1>0, <1>1, <2>2
<1>8. ASSUME queue' # <<>>
      PROVE  ~ CanDispatch(CallBackend[Head(queue')], inflight'[CallBackend[Head(queue')]])
  <2>1. Len(queue') \in Nat \ {0} /\ Head(queue') = queue'[1]
    BY <1>3, <1>8, EmptySeq
  <2>2. k < Len(q) /\ queue'[1] = q[k + 1] /\ k + 1 \in 1 .. Len(q)
    BY <1>0, <1>1, <1>3, <2>1
  <2>3. CallBackend[q[k + 1]] \in Backend
    BY <1>0, <2>2 DEF TokenGatewayAssumption
  <2> QED BY <1>1, <1>2, <2>1, <2>2, <2>3
<1> QED BY <1>2, <1>3, <1>5, <1>6, <1>7, <1>8 DEF Waiting

\* ... and counts those it sent.
LEMMA DrainCounts ==
  ASSUME TokenGatewayAssumption, NEW q, NEW n, NEW st, Waiting(q, st), Counted(n, st), Drain(q, n, st)
  PROVE  Counted(inflight, stage)'
<1> DEFINE k == Cardinality(Starts(q, n))
<1> HIDE DEF k
<1>0. Len(q) \in Nat /\ \A i \in 1 .. Len(q) : q[i] \in Call
  BY LenProperties, ElementOfSeq DEF Waiting
<1>1. k \in 0 .. Len(q) /\ \A b \in Local : n[b] + Ahead(q, k + 1, b) <= Capacity
  BY StartsReach DEF Waiting, Counted, k
<1>2. /\ stage' \in [Call -> CallStage]
      /\ \A c \in Call : stage'[c] = st[c] \/ (st[c] = "queued" /\ stage'[c] = "sent")
      /\ \A c \in Call : stage'[c] # st[c] <=> \E i \in 1 .. k : q[i] = c
      /\ \A b \in Backend : inflight'[b] = n[b] + Ahead(q, k + 1, b)
  BY DrainSends DEF k
<1>3. inflight' \in [Backend -> Nat]
  <2>1. inflight' = [b \in Backend |-> n[b] + Ahead(q, k + 1, b)]
    BY DEF Drain, k
  <2>2. ASSUME NEW b \in Backend PROVE n[b] + Ahead(q, k + 1, b) \in Nat
    <3>1. k + 1 \in 1 .. Len(q) + 1 /\ q \in Seq(Call)
      BY <1>0, <1>1 DEF Waiting
    <3>2. Ahead(q, k + 1, b) \in Nat
      BY <3>1, AheadCounts
    <3> QED BY <3>2 DEF Counted
  <2> QED BY <2>1, <2>2
<1>4. ASSUME NEW b \in Backend PROVE inflight'[b] = Cardinality(Busy(stage', b))
  <2> DEFINE W == {q[i] : i \in {j \in 1 .. k : CallBackend[q[j]] = b}}
  <2>1. IsFiniteSet(W) /\ Cardinality(W) = Ahead(q, k + 1, b)
    BY <1>1, SentAreCounted DEF Waiting
  <2>2. ASSUME NEW c \in Call PROVE c \in W <=> CallBackend[c] = b /\ stage'[c] # st[c]
    <3>1. c \in W <=> \E i \in 1 .. k : CallBackend[q[i]] = b /\ c = q[i]
      OBVIOUS
    <3> QED BY <1>2, <3>1
  <2>3. W \subseteq Call
    <3>1. \A i \in 1 .. k : q[i] \in Call
      BY <1>0, <1>1
    <3> QED BY <3>1
  <2> HIDE DEF W
  <2>4. IsFiniteSet(Busy(st, b)) /\ n[b] = Cardinality(Busy(st, b)) /\ n[b] \in Nat
    <3>1. Busy(st, b) \subseteq Call /\ IsFiniteSet(Call)
      BY DEF Busy, TokenGatewayAssumption
    <3> QED BY <3>1, FS_Subset DEF Counted
  <2>5. Busy(stage', b) = Busy(st, b) \cup W
    <3> SUFFICES ASSUME NEW c \in Call
                 PROVE  c \in Busy(stage', b) <=> c \in Busy(st, b) \/ c \in W
      BY <2>3 DEF Busy
    <3>1. stage'[c] = st[c] \/ (st[c] = "queued" /\ stage'[c] = "sent")
      BY <1>2
    <3> QED BY <2>2, <3>1 DEF Busy
  <2>6. Busy(st, b) \cap W = {}
    <3>1. \A c \in W : st[c] = "queued"
      BY <1>2, <2>2, <2>3
    <3> QED BY <3>1 DEF Busy
  <2>7. Cardinality(Busy(st, b) \cup W) = Cardinality(Busy(st, b)) + Cardinality(W)
    <3>1. Cardinality(Busy(st, b) \cap W) = 0
      BY <2>6, FS_EmptySet
    <3>2. Cardinality(Busy(st, b)) \in Nat /\ Cardinality(W) \in Nat
      BY <2>1, <2>4, FS_CardinalityType
    <3>3. Cardinality(Busy(st, b) \cup W)
            = Cardinality(Busy(st, b)) + Cardinality(W) - Cardinality(Busy(st, b) \cap W)
      BY <2>1, <2>4, FS_Union
    <3> QED BY <3>1, <3>2, <3>3
  <2> QED BY <1>2, <2>1, <2>4, <2>5, <2>7
<1>5. \A b \in Local : inflight'[b] <= Capacity
  BY <1>1, <1>2 DEF TokenGatewayAssumption
<1> QED BY <1>3, <1>4, <1>5 DEF Counted

\* What drain() may do to a call that stands at st.
Drained(c, st) == stage'[c] = st \/ (st = "queued" /\ stage'[c] = "sent")

\* So what drain() leaves behind is in order.
LEMMA DrainWorks ==
  ASSUME TokenGatewayAssumption, NEW q, NEW n, NEW st, Waiting(q, st), Counted(n, st), Drain(q, n, st)
  PROVE  QueueInv' /\ \A c \in Call : Drained(c, st[c])
<1>1. Counted(inflight, stage)'
  BY DrainCounts
<1>2. /\ Waiting(queue, stage)'
      /\ queue' # <<>> => ~ CanDispatch(CallBackend[Head(queue)], inflight[CallBackend[Head(queue)]])'
  BY DrainKeepsWaiting
<1>3. \A b \in Backend : Busy(stage', b) = AtBackend(b)'
  BY DEF Busy, AtBackend
<1>4. \A c \in Call : Drained(c, st[c])
  BY DrainSends DEF Drained
<1> QED BY <1>1, <1>2, <1>3, <1>4 DEF QueueInv, NobodyWaitsIdly, Counted

\* A call outside the queues moves on and neither leaves nor takes a slot.
LEMMA MovingOn ==
  ASSUME TokenGatewayAssumption, QueueInv, NEW c \in Call, NEW s \in CallStage,
         Becomes(c, s), UNCHANGED <<queue, inflight>>, stage[c] # "queued", s # "queued",
         stage[c] \in {"sent", "answered", "broken"} <=> s \in {"sent", "answered", "broken"}
  PROVE  QueueInv'
<1>1. stage' \in [Call -> CallStage] /\ \A d \in Call : stage'[d] = IF d = c THEN s ELSE stage[d]
  BY DEF Becomes, QueueInv, Waiting
<1>2. \A i \in 1 .. Len(queue) : queue[i] \in Call /\ stage[queue[i]] = "queued"
  BY ElementOfSeq DEF QueueInv, Waiting
<1>3. Waiting(queue, stage)'
  BY <1>1, <1>2 DEF QueueInv, Waiting
<1>4. \A b \in Backend : Busy(stage', b) = Busy(stage, b) /\ AtBackend(b)' = AtBackend(b)
  BY <1>1 DEF Busy, AtBackend
<1> HIDE DEF Becomes
<1>5. Counted(inflight, stage)'
  BY <1>4 DEF QueueInv, Counted
<1>6. NobodyWaitsIdly'
  BY <1>4 DEF QueueInv, NobodyWaitsIdly
<1> QED BY <1>3, <1>5, <1>6 DEF QueueInv

\* A call that leaves its backend is one less there.
LEMMA Leaving ==
  ASSUME TokenGatewayAssumption, QueueInv, NEW c \in Call, NEW s \in CallStage,
         stage[c] \in {"sent", "answered", "broken"}, s \notin {"sent", "answered", "broken", "queued"},
         Leave(c, s)
  PROVE  /\ QueueInv' /\ stage'[c] = s
         /\ \A d \in Call \ {c} : Drained(d, stage[d])
<1> DEFINE n == [inflight EXCEPT ![CallBackend[c]] = @ - 1]
           st == [stage EXCEPT ![c] = s]
<1>0. CallBackend[c] \in Backend /\ IsFiniteSet(Call) /\ inflight \in [Backend -> Nat]
  BY DEF TokenGatewayAssumption, QueueInv, Counted
<1>1. st \in [Call -> CallStage] /\ \A d \in Call : st[d] = IF d = c THEN s ELSE stage[d]
  BY DEF QueueInv, Waiting
<1>2. \A i \in 1 .. Len(queue) : queue[i] \in Call /\ stage[queue[i]] = "queued" /\ queue[i] # c
  BY ElementOfSeq DEF QueueInv, Waiting
<1>3. Drain(queue, n, st)
  BY DEF Leave
<1>n. \A b \in Backend : n[b] = IF b = CallBackend[c] THEN inflight[b] - 1 ELSE inflight[b]
  BY <1>0
<1>d. DOMAIN n = Backend /\ n = [b \in Backend |-> n[b]]
  BY <1>0
<1> HIDE DEF n, st
<1>4. Waiting(queue, st)
  BY <1>1, <1>2 DEF QueueInv, Waiting
<1>5. Counted(n, st)
  <2>1. ASSUME NEW b \in Backend PROVE n[b] \in Nat /\ n[b] <= inflight[b] /\ n[b] = Cardinality(Busy(st, b))
    <3>1. /\ inflight[b] = Cardinality(Busy(stage, b)) /\ inflight[b] \in Nat
          /\ IsFiniteSet(Busy(stage, b))
      <4>1. Busy(stage, b) \subseteq Call
        BY DEF Busy
      <4> QED BY <1>0, <4>1, FS_Subset DEF QueueInv, Counted
    <3>2. CASE b = CallBackend[c]
      <4>1. c \in Busy(stage, b) /\ Busy(st, b) = Busy(stage, b) \ {c}
        BY <1>1, <3>2 DEF Busy
      <4>2. Cardinality(Busy(st, b)) = Cardinality(Busy(stage, b)) - 1 /\ Cardinality(Busy(st, b)) \in Nat
        BY <3>1, <4>1, FS_RemoveElement, FS_CardinalityType
      <4> QED BY <1>n, <3>1, <3>2, <4>2
    <3>3. CASE b # CallBackend[c]
      <4>1. Busy(st, b) = Busy(stage, b)
        BY <1>1, <3>3 DEF Busy
      <4> QED BY <1>n, <3>1, <3>3, <4>1
    <3> QED BY <3>2, <3>3
  <2>2. n \in [Backend -> Nat]
    BY <1>d, <2>1
  <2>3. ASSUME NEW b \in Local PROVE n[b] <= Capacity
    <3>1. b \in Backend /\ inflight[b] <= Capacity /\ Capacity \in Nat /\ inflight[b] \in Nat
      BY <1>0 DEF QueueInv, Counted, TokenGatewayAssumption
    <3> QED BY <2>1, <3>1
  <2> QED BY <2>1, <2>2, <2>3 DEF Counted
<1>6. QueueInv' /\ \A d \in Call : Drained(d, st[d])
  BY <1>3, <1>4, <1>5, DrainWorks
<1> QED BY <1>1, <1>6 DEF Drained

\* A call joins the queues.
LEMMA Joining ==
  ASSUME TokenGatewayAssumption, QueueInv, NEW c \in Call, stage[c] = "reserved",
         Drain(Pushed(queue, c), inflight, [stage EXCEPT ![c] = "queued"])
  PROVE  /\ QueueInv' /\ Drained(c, "queued")
         /\ \A d \in Call \ {c} : Drained(d, stage[d])
<1> DEFINE q == Pushed(queue, c)
           st == [stage EXCEPT ![c] = "queued"]
<1>1. st \in [Call -> CallStage] /\ \A d \in Call : st[d] = IF d = c THEN "queued" ELSE stage[d]
  BY DEF QueueInv, Waiting, CallStage
<1>2. \A i \in 1 .. Len(queue) : queue[i] \in Call /\ stage[queue[i]] = "queued" /\ queue[i] # c
  BY ElementOfSeq DEF QueueInv, Waiting
<1>3. /\ q \in Seq(Call) /\ Len(q) = Len(queue) + 1 /\ Distinct(q)
      /\ \A i \in 1 .. Len(queue) + 1 : q[i] = c \/ \E j \in 1 .. Len(queue) : q[i] = queue[j]
      /\ \E i \in 1 .. Len(queue) + 1 : q[i] = c
      /\ \A j \in 1 .. Len(queue) : \E i \in 1 .. Len(queue) + 1 : q[i] = queue[j]
  BY <1>2, PushedHas DEF QueueInv, Waiting
<1>4. Drain(q, inflight, st)
  OBVIOUS
<1> HIDE DEF q, st
<1>5. Waiting(q, st)
  <2>1. ASSUME NEW i \in 1 .. Len(q) PROVE st[q[i]] = "queued"
    BY <1>1, <1>2, <1>3
  <2>2. ASSUME NEW d \in Call, st[d] = "queued" PROVE \E i \in 1 .. Len(q) : q[i] = d
    <3>1. CASE d = c
      BY <1>3, <3>1
    <3>2. CASE d # c
      <4>1. PICK j \in 1 .. Len(queue) : queue[j] = d
        BY <1>1, <2>2, <3>2 DEF QueueInv, Waiting
      <4> QED BY <1>3, <4>1
    <3> QED BY <3>1, <3>2
  <2> QED BY <1>1, <1>3, <2>1, <2>2 DEF Waiting
<1>6. Counted(inflight, st)
  <2>1. \A b \in Backend : Busy(st, b) = Busy(stage, b)
    BY <1>1 DEF Busy
  <2> QED BY <2>1 DEF QueueInv, Counted
<1>7. QueueInv' /\ \A d \in Call : Drained(d, st[d])
  BY <1>4, <1>5, <1>6, DrainWorks
<1> QED BY <1>1, <1>7 DEF Drained

\* The queues' invariant, through every step of the gateway and of the ledger.
THEOREM QueueInvariance == GatewaySpec => []QueueInv
<1> USE TokenGatewayAssumption
<1>1. GatewayInit => QueueInv
  <2> SUFFICES ASSUME GatewayInit PROVE QueueInv
    OBVIOUS
  <2>1. \A b \in Backend : Busy(stage, b) = {} /\ AtBackend(b) = {}
    BY DEF GatewayInit, Busy, AtBackend
  <2>2. Cardinality({}) = 0 /\ <<>> \in Seq(Call) /\ Len(<<>>) = 0
    BY FS_EmptySet, EmptySeq
  <2>3. Counted(inflight, stage)
    <3>1. \A b \in Backend : Cardinality(Busy(stage, b)) = 0
      BY <2>1, <2>2
    <3>2. inflight \in [Backend -> Nat] /\ \A b \in Backend : inflight[b] = 0
      BY DEF GatewayInit
    <3>3. \A b \in Local : b \in Backend /\ 0 <= Capacity
      BY DEF TokenGatewayAssumption
    <3> QED BY <3>1, <3>2, <3>3 DEF Counted
  <2>4. Waiting(queue, stage)
    <3>1. "new" \in CallStage
      BY DEF CallStage
    <3> QED BY <2>2, <3>1 DEF GatewayInit, Waiting, Distinct
  <2>5. NobodyWaitsIdly
    BY <2>1, <2>2, <2>3 DEF GatewayInit, NobodyWaitsIdly, Counted
  <2> QED BY <2>3, <2>4, <2>5 DEF QueueInv
<1>2. QueueInv /\ [GatewayNext]_vars => QueueInv'
  <2> SUFFICES ASSUME QueueInv, [GatewayNext]_vars PROVE QueueInv'
    OBVIOUS
  <2>0. \A x \in {"new", "admitted", "fits", "reserved", "queued", "sent", "answered", "broken",
                  "done", "failed", "stuck", "rejected"} : x \in CallStage
    BY DEF CallStage
  <2>a. ASSUME UNCHANGED <<stage, queue, inflight>> PROVE QueueInv'
    BY <2>a DEF QueueInv, NobodyWaitsIdly, AtBackend
  <2>b. stage \in [Call -> CallStage]
    BY DEF QueueInv, Waiting
  <2>1. ASSUME NEW c \in Call, Invoke(c) PROVE QueueInv'
    BY <2>0, <2>1, MovingOn DEF Invoke
  <2>2. ASSUME NEW c \in Call, InvokeThrows(c) PROVE QueueInv'
    <3>1. stage[c] \in {"admitted", "fits", "reserved"} /\ UNCHANGED <<queue, inflight>>
          /\ Becomes(c, IF stage[c] = "reserved" THEN "stuck" ELSE "rejected")
      BY <2>2 DEF InvokeThrows
    <3> QED BY <2>0, <3>1, MovingOn
  <2>3. ASSUME NEW c \in Call, Break(c) PROVE QueueInv'
    BY <2>0, <2>3, MovingOn DEF Break
  <2>4. ASSUME NEW c \in Call, CheckBudget(c) PROVE QueueInv'
    <3> DEFINE s == IF Projected(session[c], "workspace", Backend) + Estimate[c] > WorkspaceLimit
                    THEN "rejected" ELSE "fits"
    <3>1. stage[c] = "admitted" /\ Becomes(c, s) /\ UNCHANGED <<queue, inflight>>
      BY <2>4 DEF CheckBudget
    <3>2. s = "rejected" \/ s = "fits"
      OBVIOUS
    <3> HIDE DEF s
    <3> QED BY <2>0, <3>1, <3>2, MovingOn
  <2>5. ASSUME NEW c \in Call, ReserveForCall(c) PROVE QueueInv'
    BY <2>0, <2>5, MovingOn DEF ReserveForCall
  <2>6. ASSUME NEW c \in Call, Enqueue(c) PROVE QueueInv'
    BY <2>6, Joining DEF Enqueue
  <2>7. ASSUME NEW c \in Call, Answer(c) PROVE QueueInv'
    BY <2>0, <2>7, MovingOn DEF Answer
  <2>8. ASSUME NEW c \in Call, GiveUp(c) PROVE QueueInv'
    <3>1. stage[c] = "broken" /\ (Leave(c, "failed") \/ Leave(c, "stuck"))
      BY <2>8 DEF GiveUp
    <3> QED BY <2>0, <3>1, Leaving
  <2>9. ASSUME NEW c \in Call, NEW n \in Response, Consume(c, n) PROVE QueueInv'
    BY <2>0, <2>9, Leaving DEF Consume
  <2>10. CASE UNCHANGED gatewayVars
    BY <2>a, <2>10 DEF gatewayVars
  <2>11. CASE UNCHANGED vars
    BY <2>a, <2>11 DEF vars, gatewayVars
  <2> QED BY <2>1, <2>2, <2>3, <2>4, <2>5, <2>6, <2>7, <2>8, <2>9, <2>10, <2>11 DEF GatewayNext, Goes
<1> QED BY <1>1, <1>2, PTL DEF GatewaySpec

\* Nobody waits idly: whoever is first in the queues waits for a backend that is full,
\* and no local backend is over its capacity, however many calls and backends.
THEOREM QueuesMove == GatewaySpec => []NobodyWaitsIdly
<1>1. QueueInv => NobodyWaitsIdly
  BY DEF QueueInv
<1> QED BY <1>1, QueueInvariance, PTL

-----------------------------------------------------------------------------
(* The ledger.                                                             *)

OpenStage == {"reserved", "queued", "sent", "answered", "broken", "stuck"}

\* What a step of one call does to the others.
OthersStay(c) ==
  \A d \in Call \ {c} : /\ session'[d] = session[d] /\ cost'[d] = cost[d]
                        /\ stage'[d] \in OpenStage <=> stage[d] \in OpenStage
                        /\ stage'[d] = "done" <=> stage[d] = "done"

\* drain() changes nobody's reservation.
LEMMA DrainedStays ==
  ASSUME NEW c \in Call, \A d \in Call \ {c} : Drained(d, stage[d]), UNCHANGED session,
         \A d \in Call \ {c} : cost'[d] = cost[d]
  PROVE  OthersStay(c)
<1> QED BY DEF Drained, OthersStay, OpenStage

\* The types.
LEMMA LedgerTypes ==
  ASSUME TokenLedgerAssumption, LedgerTypeOK
  PROVE  /\ \A m \in Month, b \in Backend : <<m, "workspace", b>> \in Key /\ <<m, "agent", b>> \in Key
         /\ \A r \in Run : /\ Amount[r] \in Nat \ {0} /\ spent[r] \in Nat
                           /\ WorkspaceKey(mon[r], r) \in Key /\ AgentKey(agentMon[r], r) \in Key
                           /\ WorkspaceKey(month, r) \in Key /\ AgentKey(month, r) \in Key
<1>1. \A m \in Month, b \in Backend : <<m, "workspace", b>> \in Key /\ <<m, "agent", b>> \in Key
  BY DEF Key
<1>2. \A r \in Run : BackendOf[r] \in Backend /\ RuntimeOf[r] \in Backend /\ Amount[r] \in Nat \ {0}
  BY DEF TokenLedgerAssumption
<1>3. \A r \in Run : mon[r] \in Month /\ agentMon[r] \in Month /\ month \in Month
  BY DEF LedgerTypeOK
<1>4. \A r \in Run : spent[r] \in Nat
  <2>1. Actual \cup {0} \subseteq Nat
    BY DEF TokenLedgerAssumption
  <2> QED BY <2>1 DEF LedgerTypeOK
<1> QED BY <1>1, <1>2, <1>3, <1>4 DEF WorkspaceKey, AgentKey

\* A charge leaves numbers of tokens.
LEMMA ChargeTypes ==
  ASSUME LedgerTypeOK, NEW k, NEW n \in Nat, NEW back \in Nat, Charge(k, n, back)
  PROVE  used' \in [Key -> Nat] /\ reserved' \in [Key -> Nat]
<1>1. CASE k \in rows
  <2>1. k \in Key /\ used[k] \in Nat /\ reserved[k] \in Nat
    BY <1>1 DEF LedgerTypeOK
  <2>2. used[k] + n \in Nat /\ (IF reserved[k] > back THEN reserved[k] - back ELSE 0) \in Nat
    BY <2>1
  <2> QED BY <1>1, <2>1, <2>2 DEF Charge, LedgerTypeOK
<1>2. CASE k \notin rows
  BY <1>2 DEF Charge, LedgerTypeOK
<1> QED BY <1>1, <1>2

\* So do a reservation and its rows.
LEMMA UpsertTypes ==
  ASSUME LedgerTypeOK, NEW keys \in SUBSET Key, NEW n \in Nat, Upsert(keys, n)
  PROVE  reserved' \in [Key -> Nat] /\ rows' \subseteq Key
BY DEF LedgerTypeOK, Upsert

\* The faults stay within their bound.
LEMMA FaultTypes ==
  ASSUME TokenLedgerAssumption, LedgerTypeOK, Fault
  PROVE  faults' \in 0 .. MaxFaults
<1>1. MaxFaults \in Nat /\ faults \in Nat
  BY DEF TokenLedgerAssumption, LedgerTypeOK
<1>2. faults < MaxFaults /\ faults' = faults + 1
  BY DEF Fault
<1> QED BY <1>1, <1>2

\* Types of the variables that one step of a run may set.
LEMMA RunTypes ==
  ASSUME TokenLedgerAssumption, LedgerTypeOK, NEW r \in Run, RunTokens(r)
  PROVE  LedgerTypeOK'
<1>0. \A s \in {"new", "waiting", "locked", "fits", "admitted", "held", "half", "torn", "done", "refused"} :
        s \in RunStage
  BY DEF RunStage
<1>s. ASSUME NEW s \in RunStage, GoesTo(r, s) PROVE at' \in [Run -> RunStage]
  BY <1>s DEF GoesTo, LedgerTypeOK
<1>1. CASE Begin(r)
  BY <1>0, <1>1, <1>s DEF Begin, LedgerTypeOK
<1>2. CASE Lock(r)
  BY <1>0, <1>2, <1>s DEF Lock, LedgerTypeOK
<1>3. CASE CheckWorkspace(r)
  BY <1>0, <1>3, <1>s DEF CheckWorkspace, LedgerTypeOK
<1>4. CASE CheckAgent(r)
  BY <1>0, <1>4, <1>s DEF CheckAgent, LedgerTypeOK
<1>5. CASE Reserve(r)
  <2>1. {WorkspaceKey(mon[r], r), AgentKey(month, r)} \subseteq Key /\ Amount[r] \in Nat
    BY LedgerTypes
  <2>2. reserved' \in [Key -> Nat] /\ rows' \subseteq Key
    BY <1>5, <2>1, UpsertTypes DEF Reserve
  <2> QED BY <1>0, <1>5, <1>s, <2>2 DEF Reserve, LedgerTypeOK
<1>6. CASE RollBack(r)
  <2>1. faults' \in 0 .. MaxFaults
    BY <1>6, FaultTypes DEF RollBack
  <2> QED BY <1>0, <1>6, <1>s, <2>1 DEF RollBack, LedgerTypeOK
<1>7. CASE SettleAgent(r)
  <2>1. used' \in [Key -> Nat] /\ reserved' \in [Key -> Nat]
    BY <1>7, LedgerTypes, ChargeTypes DEF SettleAgent
  <2> QED BY <1>0, <1>7, <1>s, <2>1 DEF SettleAgent, LedgerTypeOK
<1>8. CASE Tear(r)
  <2>1. faults' \in 0 .. MaxFaults
    BY <1>8, FaultTypes DEF Tear
  <2> QED BY <1>0, <1>8, <1>s, <2>1 DEF Tear, LedgerTypeOK
<1>9. ASSUME NEW n \in Actual, Settle(r, n) PROVE LedgerTypeOK'
  <2>0. n \in Nat
    BY DEF TokenLedgerAssumption
  <2>1. used' \in [Key -> Nat] /\ reserved' \in [Key -> Nat]
    BY <1>9, <2>0, LedgerTypes, ChargeTypes DEF Settle
  <2> QED BY <1>0, <1>9, <1>s, <2>1 DEF Settle, LedgerTypeOK
<1> QED BY <1>1, <1>2, <1>3, <1>4, <1>5, <1>6, <1>7, <1>8, <1>9 DEF RunTokens

\* The four sums of LedgerExact.
OpenRun(k) == SumFunctionOnSet(Amount, OpenOfRun(k))
OpenCall(k) == SumFunctionOnSet(Estimate, OpenOfCall(k))
SpentRun(k) == SumFunctionOnSet(spent, SpentOfRun(k))
SpentCall(k) == SumFunctionOnSet(cost, CallsIn(k))
CallTypeOK == session \in [Call -> Month] /\ cost \in [Call -> Response \cup {0}]

\* When one run moves, each sum over runs changes by what that run contributes.
LEMMA RunMoves ==
  ASSUME TokenLedgerAssumption, LedgerTypeOK, LedgerTypeOK', NEW r \in Run,
         \A s \in Run \ {r} : /\ at'[s] = at[s] /\ spent'[s] = spent[s]
                              /\ mon'[s] = mon[s] /\ agentMon'[s] = agentMon[s],
         NEW k
  PROVE  /\ OpenRun(k) \in Nat /\ OpenRun(k)' \in Nat /\ SpentRun(k) \in Nat /\ SpentRun(k)' \in Nat
         /\ OpenRun(k)' + Summand(Amount, OpenOfRun(k), r) = OpenRun(k) + Summand(Amount, OpenOfRun(k)', r)
         /\ SpentRun(k)' + Summand(spent, SpentOfRun(k), r) = SpentRun(k) + Summand(spent', SpentOfRun(k)', r)
<1>1. /\ IsFiniteSet(OpenOfRun(k)) /\ IsFiniteSet(SpentOfRun(k))
      /\ OpenOfRun(k) \subseteq Run /\ OpenOfRun(k)' \subseteq Run
      /\ SpentOfRun(k) \subseteq Run /\ SpentOfRun(k)' \subseteq Run
  <2>1. /\ OpenOfRun(k) \subseteq Run /\ OpenOfRun(k)' \subseteq Run
        /\ SpentOfRun(k) \subseteq Run /\ SpentOfRun(k)' \subseteq Run
    BY DEF OpenOfRun, SpentOfRun, RunsIn
  <2>2. IsFiniteSet(Run)
    BY DEF TokenLedgerAssumption
  <2> QED BY <2>1, <2>2, FS_Subset
<1>2. \A s \in Run : Amount[s] \in Nat /\ spent[s] \in Nat /\ spent'[s] \in Nat
  <2>1. Actual \cup {0} \subseteq Nat
    BY DEF TokenLedgerAssumption
  <2> QED BY <2>1 DEF LedgerTypeOK, TokenLedgerAssumption
<1>3. \A s \in Run \ {r} : /\ s \in OpenOfRun(k) <=> s \in OpenOfRun(k)'
                           /\ s \in SpentOfRun(k) <=> s \in SpentOfRun(k)'
  BY DEF OpenOfRun, SpentOfRun, RunsIn, WorkspaceKey, AgentKey
<1>4. OpenOfRun(k) \ {r} = OpenOfRun(k)' \ {r} /\ SpentOfRun(k) \ {r} = SpentOfRun(k)' \ {r}
  BY <1>1, <1>3
<1>5. /\ NatOn(Amount, OpenOfRun(k)) /\ NatOn(Amount, OpenOfRun(k)')
      /\ NatOn(spent, SpentOfRun(k)) /\ NatOn(spent', SpentOfRun(k)')
      /\ \A s \in SpentOfRun(k) \ {r} : spent[s] = spent'[s]
  BY <1>1, <1>2 DEF NatOn
<1>6. /\ OpenRun(k) \in Nat /\ OpenRun(k)' \in Nat
      /\ OpenRun(k)' + Summand(Amount, OpenOfRun(k), r) = OpenRun(k) + Summand(Amount, OpenOfRun(k)', r)
  BY <1>1, <1>4, <1>5, SumMoves DEF OpenRun
<1>7. /\ SpentRun(k) \in Nat /\ SpentRun(k)' \in Nat
      /\ SpentRun(k)' + Summand(spent, SpentOfRun(k), r) = SpentRun(k) + Summand(spent', SpentOfRun(k)', r)
  BY <1>1, <1>4, <1>5, SumMoves DEF SpentRun
<1> QED BY <1>6, <1>7

\* When a step leaves the runs alone, it leaves their sums alone.
LEMMA RunsStay ==
  ASSUME UNCHANGED <<at, spent, mon, agentMon>>, NEW k
  PROVE  OpenRun(k)' = OpenRun(k) /\ SpentRun(k)' = SpentRun(k)
<1>1. OpenOfRun(k)' = OpenOfRun(k) /\ SpentOfRun(k)' = SpentOfRun(k)
  BY DEF OpenOfRun, SpentOfRun, RunsIn, WorkspaceKey, AgentKey
<1> QED BY <1>1 DEF OpenRun, SpentRun

\* The same of calls.
LEMMA CallMoves ==
  ASSUME TokenGatewayAssumption, CallTypeOK, CallTypeOK', NEW c \in Call, OthersStay(c), NEW k
  PROVE  /\ OpenCall(k) \in Nat /\ OpenCall(k)' \in Nat /\ SpentCall(k) \in Nat /\ SpentCall(k)' \in Nat
         /\ OpenCall(k)' + Summand(Estimate, OpenOfCall(k), c) = OpenCall(k) + Summand(Estimate, OpenOfCall(k)', c)
         /\ SpentCall(k)' + Summand(cost, CallsIn(k), c) = SpentCall(k) + Summand(cost', CallsIn(k)', c)
<1>1. /\ IsFiniteSet(OpenOfCall(k)) /\ IsFiniteSet(CallsIn(k))
      /\ OpenOfCall(k) \subseteq Call /\ OpenOfCall(k)' \subseteq Call
      /\ CallsIn(k) \subseteq Call /\ CallsIn(k)' \subseteq Call
  <2>1. /\ OpenOfCall(k) \subseteq Call /\ OpenOfCall(k)' \subseteq Call
        /\ CallsIn(k) \subseteq Call /\ CallsIn(k)' \subseteq Call
    BY DEF OpenOfCall, CallsIn
  <2>2. IsFiniteSet(Call)
    BY DEF TokenGatewayAssumption
  <2> QED BY <2>1, <2>2, FS_Subset
<1>2. \A d \in Call : Estimate[d] \in Nat /\ cost[d] \in Nat /\ cost'[d] \in Nat
  <2>1. Response \cup {0} \subseteq Nat /\ \A d \in Call : Estimate[d] \in Nat
    BY DEF TokenGatewayAssumption
  <2> QED BY <2>1 DEF CallTypeOK
<1>3. \A d \in Call \ {c} : /\ d \in OpenOfCall(k) <=> d \in OpenOfCall(k)'
                            /\ d \in CallsIn(k) <=> d \in CallsIn(k)'
  BY DEF OpenOfCall, CallsIn, CallKey, OthersStay, OpenStage
<1>4. OpenOfCall(k) \ {c} = OpenOfCall(k)' \ {c} /\ CallsIn(k) \ {c} = CallsIn(k)' \ {c}
  BY <1>1, <1>3
<1>5. /\ NatOn(Estimate, OpenOfCall(k)) /\ NatOn(Estimate, OpenOfCall(k)')
      /\ NatOn(cost, CallsIn(k)) /\ NatOn(cost', CallsIn(k)')
      /\ \A d \in CallsIn(k) \ {c} : cost[d] = cost'[d]
  BY <1>1, <1>2 DEF NatOn, OthersStay
<1>6. /\ OpenCall(k) \in Nat /\ OpenCall(k)' \in Nat
      /\ OpenCall(k)' + Summand(Estimate, OpenOfCall(k), c) = OpenCall(k) + Summand(Estimate, OpenOfCall(k)', c)
  BY <1>1, <1>4, <1>5, SumMoves DEF OpenCall
<1>7. /\ SpentCall(k) \in Nat /\ SpentCall(k)' \in Nat
      /\ SpentCall(k)' + Summand(cost, CallsIn(k), c) = SpentCall(k) + Summand(cost', CallsIn(k)', c)
  BY <1>1, <1>4, <1>5, SumMoves DEF SpentCall
<1> QED BY <1>6, <1>7

\* What the calls of a key have open and have spent stands where no call moves.
LEMMA CallsStay ==
  ASSUME UNCHANGED gatewayVars, NEW k
  PROVE  OpenCall(k)' = OpenCall(k) /\ SpentCall(k)' = SpentCall(k)
<1>1. OpenOfCall(k)' = OpenOfCall(k) /\ CallsIn(k)' = CallsIn(k)
  BY DEF OpenOfCall, CallsIn, CallKey, gatewayVars
<1>2. UNCHANGED cost
  BY DEF gatewayVars
<1> QED BY <1>1, <1>2 DEF OpenCall, SpentCall

\* Sums are numbers, and each reservation is part of the sum of its row.
LEMMA LedgerSums ==
  ASSUME TokenLedgerAssumption, TokenGatewayAssumption, LedgerTypeOK, CallTypeOK, NEW k
  PROVE  /\ OpenRun(k) \in Nat /\ SpentRun(k) \in Nat /\ OpenCall(k) \in Nat /\ SpentCall(k) \in Nat
         /\ \A r \in OpenOfRun(k) : OpenRun(k) >= Amount[r]
         /\ \A c \in OpenOfCall(k) : OpenCall(k) >= Estimate[c]
<1>1. /\ IsFiniteSet(OpenOfRun(k)) /\ IsFiniteSet(SpentOfRun(k)) /\ IsFiniteSet(OpenOfCall(k))
      /\ IsFiniteSet(CallsIn(k))
  <2>1. /\ OpenOfRun(k) \subseteq Run /\ SpentOfRun(k) \subseteq Run
        /\ OpenOfCall(k) \subseteq Call /\ CallsIn(k) \subseteq Call
    BY DEF OpenOfRun, SpentOfRun, OpenOfCall, CallsIn, RunsIn
  <2>2. IsFiniteSet(Call) /\ IsFiniteSet(Run)
    BY DEF TokenGatewayAssumption, TokenLedgerAssumption
  <2> QED BY <2>1, <2>2, FS_Subset
<1>2. /\ NatOn(Amount, OpenOfRun(k)) /\ NatOn(spent, SpentOfRun(k))
      /\ NatOn(Estimate, OpenOfCall(k)) /\ NatOn(cost, CallsIn(k))
  <2>1. \A r \in Run : Amount[r] \in Nat /\ spent[r] \in Nat
    BY LedgerTypes
  <2>2. \A d \in Call : Estimate[d] \in Nat /\ cost[d] \in Nat
    <3>1. Response \cup {0} \subseteq Nat /\ \A d \in Call : Estimate[d] \in Nat
      BY DEF TokenGatewayAssumption
    <3> QED BY <3>1 DEF CallTypeOK
  <2> QED BY <2>1, <2>2 DEF NatOn, OpenOfRun, SpentOfRun, OpenOfCall, CallsIn, RunsIn
<1>3. OpenRun(k) \in Nat /\ SpentRun(k) \in Nat /\ OpenCall(k) \in Nat /\ SpentCall(k) \in Nat
  BY <1>1, <1>2, SumOf DEF OpenRun, SpentRun, OpenCall, SpentCall
<1>4. ASSUME NEW r \in OpenOfRun(k) PROVE OpenRun(k) >= Amount[r]
  <2> DEFINE T == OpenOfRun(k) \ {r}
  <2>1. SumFunctionOnSet(Amount, T) \in Nat /\ Amount[r] \in Nat
    BY <1>1, <1>2, SumPart DEF NatOn
  <2>2. OpenRun(k) = Amount[r] + SumFunctionOnSet(Amount, T)
    BY <1>1, <1>2, SumOf DEF OpenRun
  <2> QED BY <1>3, <2>1, <2>2
<1>5. ASSUME NEW c \in OpenOfCall(k) PROVE OpenCall(k) >= Estimate[c]
  <2> DEFINE T == OpenOfCall(k) \ {c}
  <2>1. SumFunctionOnSet(Estimate, T) \in Nat /\ Estimate[c] \in Nat
    BY <1>1, <1>2, SumPart DEF NatOn
  <2>2. OpenCall(k) = Estimate[c] + SumFunctionOnSet(Estimate, T)
    BY <1>1, <1>2, SumOf DEF OpenCall
  <2> QED BY <1>3, <2>1, <2>2
<1> QED BY <1>3, <1>4, <1>5

\* In which rows a run's reservation and usage are counted.
LEMMA WhereRunCounts ==
  ASSUME NEW r \in Run, NEW k
  PROVE  /\ r \in OpenOfRun(k) <=> \/ k = WorkspaceKey(mon[r], r) /\ at[r] = "held"
                                   \/ k = AgentKey(agentMon[r], r) /\ at[r] \in {"held", "half", "torn"}
         /\ r \in SpentOfRun(k) <=> \/ k = WorkspaceKey(mon[r], r) /\ at[r] \in {"half", "torn", "done"}
                                    \/ k = AgentKey(agentMon[r], r) /\ at[r] = "done"
         /\ r \in OpenOfRun(k)' <=> \/ k = WorkspaceKey(mon'[r], r) /\ at'[r] = "held"
                                    \/ k = AgentKey(agentMon'[r], r) /\ at'[r] \in {"held", "half", "torn"}
         /\ r \in SpentOfRun(k)' <=> \/ k = WorkspaceKey(mon'[r], r) /\ at'[r] \in {"half", "torn", "done"}
                                     \/ k = AgentKey(agentMon'[r], r) /\ at'[r] = "done"
<1>1. \A m : WorkspaceKey(m, r)[2] = "workspace" /\ AgentKey(m, r)[2] = "agent"
  BY DEF WorkspaceKey, AgentKey
<1> QED BY <1>1 DEF OpenOfRun, SpentOfRun, RunsIn

\* A reservation's own row, no larger than what it has reserved there.
LEMMA ChargeExact ==
  ASSUME LedgerTypeOK, NEW k \in rows, NEW n \in Nat, NEW back \in Nat, back <= reserved[k],
         Charge(k, n, back)
  PROVE  /\ reserved'[k] + back = reserved[k] /\ used'[k] = used[k] + n
         /\ \A j \in Key \ {k} : reserved'[j] = reserved[j] /\ used'[j] = used[j]
<1>1. k \in Key /\ used[k] \in Nat /\ reserved[k] \in Nat
  BY DEF LedgerTypeOK
<1>2. /\ used' = [used EXCEPT ![k] = @ + n]
      /\ reserved' = [reserved EXCEPT ![k] = IF @ > back THEN @ - back ELSE 0]
  BY DEF Charge
<1>3. \A j \in Key : /\ used'[j] = IF j = k THEN used[k] + n ELSE used[j]
                     /\ reserved'[j] = IF j = k THEN (IF reserved[k] > back THEN reserved[k] - back ELSE 0)
                                       ELSE reserved[j]
  BY <1>2 DEF LedgerTypeOK
<1>4. (IF reserved[k] > back THEN reserved[k] - back ELSE 0) + back = reserved[k]
  BY <1>1
<1> QED BY <1>1, <1>3, <1>4

\* Whatever is reserved has a row, and only a call that is done has cost anything.
RowsInv ==
  /\ \A r \in Run : at[r] \in {"held", "half", "torn", "done"} =>
       WorkspaceKey(mon[r], r) \in rows /\ AgentKey(agentMon[r], r) \in rows
  /\ \A c \in Call : stage[c] \in OpenStage => CallKey(c) \in rows
CostInv == \A c \in Call : cost[c] # 0 => stage[c] = "done"

Exact(k) == reserved[k] = OpenRun(k) + OpenCall(k) /\ used[k] = SpentRun(k) + SpentCall(k)

\* LedgerExact, key by key.
LEMMA ExactSays == LedgerExact <=> (crossed = {} => \A k \in Key : Exact(k))
BY DEF LedgerExact, Exact, OpenRun, OpenCall, SpentRun, SpentCall

LedgerInv == LedgerTypeOK /\ CallTypeOK /\ RowsInv /\ CostInv /\ LedgerExact

\* A run that is not about to be charged moves without an effect on any row.
LEMMA RunStepsAside ==
  ASSUME TokenLedgerAssumption, TokenGatewayAssumption, LedgerTypeOK, LedgerTypeOK',
         \A k \in Key : Exact(k), NEW r \in Run,
         \A s \in Run \ {r} : /\ at'[s] = at[s] /\ spent'[s] = spent[s]
                              /\ mon'[s] = mon[s] /\ agentMon'[s] = agentMon[s],
         UNCHANGED gatewayVars, UNCHANGED <<used, reserved, spent>>,
         \/ {at[r], at'[r]} \cap {"held", "half", "torn", "done"} = {}
         \/ at[r] = "half" /\ at'[r] = "torn" /\ UNCHANGED <<mon, agentMon>>,
         NEW k \in Key
  PROVE  Exact(k)'
<1>1. /\ r \in OpenOfRun(k)' <=> r \in OpenOfRun(k)
      /\ r \in SpentOfRun(k)' <=> r \in SpentOfRun(k)
  BY WhereRunCounts
<1>2. /\ Summand(Amount, OpenOfRun(k), r) = Summand(Amount, OpenOfRun(k)', r)
      /\ Summand(spent, SpentOfRun(k), r) = Summand(spent', SpentOfRun(k)', r)
  BY <1>1 DEF Summand
<1>3. \A s \in Run : Amount[s] \in Nat /\ spent[s] \in Nat
  BY LedgerTypes
<1>4. Summand(Amount, OpenOfRun(k), r) \in Nat /\ Summand(spent, SpentOfRun(k), r) \in Nat
  BY <1>3 DEF Summand
<1>5. OpenRun(k)' = OpenRun(k) /\ SpentRun(k)' = SpentRun(k)
  <2>1. /\ OpenRun(k) \in Nat /\ OpenRun(k)' \in Nat /\ SpentRun(k) \in Nat /\ SpentRun(k)' \in Nat
        /\ OpenRun(k)' + Summand(Amount, OpenOfRun(k), r) = OpenRun(k) + Summand(Amount, OpenOfRun(k)', r)
        /\ SpentRun(k)' + Summand(spent, SpentOfRun(k), r) = SpentRun(k) + Summand(spent', SpentOfRun(k)', r)
    BY RunMoves
  <2>2. \A a, b, x \in Nat : a + x = b + x => a = b
    OBVIOUS
  <2> QED BY <1>2, <1>4, <2>1, <2>2
<1>6. OpenCall(k)' = OpenCall(k) /\ SpentCall(k)' = SpentCall(k)
  BY CallsStay
<1> QED BY <1>5, <1>6 DEF Exact

\* The two inserts: the reservation is counted in the workspace's row and the agent's.
LEMMA ReserveIsExact ==
  ASSUME TokenLedgerAssumption, TokenGatewayAssumption, LedgerTypeOK, LedgerTypeOK', CallTypeOK,
         \A k \in Key : Exact(k), NEW r \in Run, Reserve(r), UNCHANGED gatewayVars, NEW k \in Key
  PROVE  Exact(k)'
<1> DEFINE w == WorkspaceKey(mon[r], r)
           a == AgentKey(month, r)
<1>0. w # a
  BY DEF WorkspaceKey, AgentKey
<1>1. /\ \A s \in Run \ {r} : /\ at'[s] = at[s] /\ spent'[s] = spent[s]
                              /\ mon'[s] = mon[s] /\ agentMon'[s] = agentMon[s]
      /\ at[r] = "admitted" /\ at'[r] = "held" /\ mon'[r] = mon[r] /\ agentMon'[r] = month
      /\ UNCHANGED <<used, spent>>
      /\ reserved'[k] = IF k \in {w, a} THEN reserved[k] + Amount[r] ELSE reserved[k]
  BY DEF Reserve, Upsert, GoesTo, LedgerTypeOK
<1>2. /\ r \notin OpenOfRun(k) /\ r \notin SpentOfRun(k) /\ r \notin SpentOfRun(k)'
      /\ r \in OpenOfRun(k)' <=> k \in {w, a}
  BY <1>1, WhereRunCounts
<1>3. Amount[r] \in Nat
  BY LedgerTypes
<1> HIDE DEF w, a
<1>4. /\ Summand(Amount, OpenOfRun(k), r) = 0 /\ Summand(spent, SpentOfRun(k), r) = 0 /\ Summand(spent', SpentOfRun(k)', r) = 0
      /\ Summand(Amount, OpenOfRun(k)', r) = IF k \in {w, a} THEN Amount[r] ELSE 0
  BY <1>2 DEF Summand
<1>5. /\ OpenRun(k) \in Nat /\ OpenRun(k)' \in Nat /\ SpentRun(k) \in Nat /\ SpentRun(k)' \in Nat
      /\ OpenRun(k)' + Summand(Amount, OpenOfRun(k), r) = OpenRun(k) + Summand(Amount, OpenOfRun(k)', r)
      /\ SpentRun(k)' + Summand(spent, SpentOfRun(k), r) = SpentRun(k) + Summand(spent', SpentOfRun(k)', r)
  BY <1>1, RunMoves
<1>6. OpenCall(k)' = OpenCall(k) /\ SpentCall(k)' = SpentCall(k) /\ OpenCall(k) \in Nat
  BY CallsStay, LedgerSums
<1>7. reserved[k] = OpenRun(k) + OpenCall(k) /\ used[k] = SpentRun(k) + SpentCall(k)
  BY DEF Exact
<1> QED BY <1>1, <1>3, <1>4, <1>5, <1>6, <1>7 DEF Exact

\* A reservation leaves its row and what was used enters it: the arithmetic of a charge.
LEMMA ChargedRow ==
  ASSUME NEW res \in Nat, NEW res2 \in Nat, NEW use \in Nat, NEW use2 \in Nat,
         NEW open \in Nat, NEW open2 \in Nat, NEW done \in Nat, NEW done2 \in Nat,
         NEW others \in Nat, NEW other \in Nat, NEW back \in Nat, NEW n \in Nat,
         res = open + others, use = done + other,
         res2 + back = res, use2 = use + n, open2 + back = open, done2 = done + n
  PROVE  res2 = open2 + others /\ use2 = done2 + other
OBVIOUS

\* settleRun's first statement, in the month of the reservation.
LEMMA SettleIsExact ==
  ASSUME TokenLedgerAssumption, TokenGatewayAssumption, LedgerInv, LedgerTypeOK',
         \A k \in Key : Exact(k), NEW r \in Run, NEW n \in Actual, Settle(r, n), month = mon[r],
         UNCHANGED gatewayVars, NEW k \in Key
  PROVE  Exact(k)'
<1> DEFINE w == WorkspaceKey(mon[r], r)
           a == AgentKey(agentMon[r], r)
<1>0. w # a /\ w \in rows /\ w \in Key /\ Amount[r] \in Nat /\ n \in Nat /\ LedgerTypeOK /\ CallTypeOK
  BY LedgerTypes DEF WorkspaceKey, AgentKey, LedgerInv, RowsInv, Settle, TokenLedgerAssumption
<1>1. /\ \A s \in Run \ {r} : /\ at'[s] = at[s] /\ spent'[s] = spent[s]
                              /\ mon'[s] = mon[s] /\ agentMon'[s] = agentMon[s]
      /\ at[r] = "held" /\ at'[r] = "half" /\ mon'[r] = mon[r] /\ agentMon'[r] = agentMon[r]
      /\ spent'[r] = n /\ Charge(w, n, Amount[r])
  BY DEF Settle, GoesTo, LedgerTypeOK, LedgerInv
<1>2. /\ r \in OpenOfRun(k) <=> k \in {w, a}
      /\ r \in OpenOfRun(k)' <=> k = a
      /\ r \notin SpentOfRun(k)
      /\ r \in SpentOfRun(k)' <=> k = w
  BY <1>1, WhereRunCounts
<1>w. r \in OpenOfRun(w)
  BY <1>1, WhereRunCounts
<1> HIDE DEF w, a
<1>3. /\ Summand(Amount, OpenOfRun(k), r) = IF k \in {w, a} THEN Amount[r] ELSE 0
      /\ Summand(Amount, OpenOfRun(k)', r) = IF k = a THEN Amount[r] ELSE 0
      /\ Summand(spent, SpentOfRun(k), r) = 0
      /\ Summand(spent', SpentOfRun(k)', r) = IF k = w THEN n ELSE 0
  BY <1>1, <1>2 DEF Summand
<1>4. /\ OpenRun(k) \in Nat /\ OpenRun(k)' \in Nat /\ SpentRun(k) \in Nat /\ SpentRun(k)' \in Nat
      /\ OpenRun(k)' + Summand(Amount, OpenOfRun(k), r) = OpenRun(k) + Summand(Amount, OpenOfRun(k)', r)
      /\ SpentRun(k)' + Summand(spent, SpentOfRun(k), r) = SpentRun(k) + Summand(spent', SpentOfRun(k)', r)
  BY <1>0, <1>1, RunMoves
<1>5. /\ OpenCall(k)' = OpenCall(k) /\ SpentCall(k)' = SpentCall(k)
      /\ OpenCall(k) \in Nat /\ SpentCall(k) \in Nat
  BY <1>0, CallsStay, LedgerSums
<1>6. Amount[r] <= reserved[w]
  <2>1. OpenRun(w) >= Amount[r] /\ OpenRun(w) \in Nat /\ OpenCall(w) \in Nat
    BY <1>0, <1>w, LedgerSums
  <2>2. reserved[w] = OpenRun(w) + OpenCall(w)
    BY <1>0 DEF Exact
  <2> QED BY <1>0, <2>1, <2>2
<1>7. /\ reserved'[w] + Amount[r] = reserved[w] /\ used'[w] = used[w] + n
      /\ \A j \in Key \ {w} : reserved'[j] = reserved[j] /\ used'[j] = used[j]
  BY <1>0, <1>1, <1>6, ChargeExact
<1>8. reserved[k] = OpenRun(k) + OpenCall(k) /\ used[k] = SpentRun(k) + SpentCall(k)
  BY DEF Exact
<1>9. reserved[k] \in Nat /\ reserved'[k] \in Nat /\ used[k] \in Nat /\ used'[k] \in Nat
  BY <1>0 DEF LedgerTypeOK
<1>10. CASE k = w
  <2>1. OpenRun(k)' + Amount[r] = OpenRun(k) /\ SpentRun(k)' = SpentRun(k) + n
    BY <1>0, <1>3, <1>4, <1>10
  <2>2. reserved'[k] + Amount[r] = reserved[k] /\ used'[k] = used[k] + n
    BY <1>7, <1>10
  <2>3. reserved'[k] = OpenRun(k)' + OpenCall(k) /\ used'[k] = SpentRun(k)' + SpentCall(k)
    BY <1>0, <1>4, <1>5, <1>8, <1>9, <2>1, <2>2, ChargedRow
  <2> QED BY <1>5, <2>3 DEF Exact
<1>11. CASE k # w
  <2>1. OpenRun(k)' = OpenRun(k) /\ SpentRun(k)' = SpentRun(k)
    BY <1>0, <1>3, <1>4, <1>11
  <2> QED BY <1>5, <1>7, <1>8, <1>11, <2>1 DEF Exact
<1> QED BY <1>10, <1>11

\* Its second statement, in the month of the agent's reservation.
LEMMA SettleAgentIsExact ==
  ASSUME TokenLedgerAssumption, TokenGatewayAssumption, LedgerInv, LedgerTypeOK',
         \A k \in Key : Exact(k), NEW r \in Run, SettleAgent(r), month = agentMon[r],
         UNCHANGED gatewayVars, NEW k \in Key
  PROVE  Exact(k)'
<1> DEFINE w == WorkspaceKey(mon[r], r)
           a == AgentKey(agentMon[r], r)
           n == spent[r]
<1>0. w # a /\ a \in rows /\ a \in Key /\ Amount[r] \in Nat /\ n \in Nat /\ LedgerTypeOK /\ CallTypeOK
  BY LedgerTypes DEF WorkspaceKey, AgentKey, LedgerInv, RowsInv, SettleAgent
<1>1. /\ \A s \in Run \ {r} : /\ at'[s] = at[s] /\ spent'[s] = spent[s]
                              /\ mon'[s] = mon[s] /\ agentMon'[s] = agentMon[s]
      /\ at[r] = "half" /\ at'[r] = "done" /\ mon'[r] = mon[r] /\ agentMon'[r] = agentMon[r]
      /\ spent'[r] = n /\ Charge(a, n, Amount[r])
  BY DEF SettleAgent, GoesTo, LedgerTypeOK, LedgerInv
<1>2. /\ r \in OpenOfRun(k) <=> k = a
      /\ r \notin OpenOfRun(k)'
      /\ r \in SpentOfRun(k) <=> k = w
      /\ r \in SpentOfRun(k)' <=> k \in {w, a}
  BY <1>1, WhereRunCounts
<1>w. r \in OpenOfRun(a)
  BY <1>1, WhereRunCounts
<1> HIDE DEF w, a
<1>3. /\ Summand(Amount, OpenOfRun(k), r) = IF k = a THEN Amount[r] ELSE 0
      /\ Summand(Amount, OpenOfRun(k)', r) = 0
      /\ Summand(spent, SpentOfRun(k), r) = IF k = w THEN n ELSE 0
      /\ Summand(spent', SpentOfRun(k)', r) = IF k \in {w, a} THEN n ELSE 0
  BY <1>1, <1>2 DEF Summand
<1> HIDE DEF n
<1>4. /\ OpenRun(k) \in Nat /\ OpenRun(k)' \in Nat /\ SpentRun(k) \in Nat /\ SpentRun(k)' \in Nat
      /\ OpenRun(k)' + Summand(Amount, OpenOfRun(k), r) = OpenRun(k) + Summand(Amount, OpenOfRun(k)', r)
      /\ SpentRun(k)' + Summand(spent, SpentOfRun(k), r) = SpentRun(k) + Summand(spent', SpentOfRun(k)', r)
  BY <1>0, <1>1, RunMoves
<1>5. /\ OpenCall(k)' = OpenCall(k) /\ SpentCall(k)' = SpentCall(k)
      /\ OpenCall(k) \in Nat /\ SpentCall(k) \in Nat
  BY <1>0, CallsStay, LedgerSums
<1>6. Amount[r] <= reserved[a]
  <2>1. OpenRun(a) >= Amount[r] /\ OpenRun(a) \in Nat /\ OpenCall(a) \in Nat
    BY <1>0, <1>w, LedgerSums
  <2>2. reserved[a] = OpenRun(a) + OpenCall(a)
    BY <1>0 DEF Exact
  <2> QED BY <1>0, <2>1, <2>2
<1>7. /\ reserved'[a] + Amount[r] = reserved[a] /\ used'[a] = used[a] + n
      /\ \A j \in Key \ {a} : reserved'[j] = reserved[j] /\ used'[j] = used[j]
  BY <1>0, <1>1, <1>6, ChargeExact
<1>8. reserved[k] = OpenRun(k) + OpenCall(k) /\ used[k] = SpentRun(k) + SpentCall(k)
  BY DEF Exact
<1>9. reserved[k] \in Nat /\ reserved'[k] \in Nat /\ used[k] \in Nat /\ used'[k] \in Nat
  BY <1>0 DEF LedgerTypeOK
<1>10. CASE k = a
  <2>1. OpenRun(k)' + Amount[r] = OpenRun(k) /\ SpentRun(k)' = SpentRun(k) + n
    BY <1>0, <1>3, <1>4, <1>10
  <2>2. reserved'[k] + Amount[r] = reserved[k] /\ used'[k] = used[k] + n
    BY <1>7, <1>10
  <2>3. reserved'[k] = OpenRun(k)' + OpenCall(k) /\ used'[k] = SpentRun(k)' + SpentCall(k)
    BY <1>0, <1>4, <1>5, <1>8, <1>9, <2>1, <2>2, ChargedRow
  <2> QED BY <1>5, <2>3 DEF Exact
<1>11. CASE k # a
  <2>1. OpenRun(k)' = OpenRun(k) /\ SpentRun(k)' = SpentRun(k)
    BY <1>0, <1>3, <1>4, <1>11
  <2> QED BY <1>5, <1>7, <1>8, <1>11, <2>1 DEF Exact
<1> QED BY <1>10, <1>11

\* A step of a run, or of its transaction, keeps the ledger.
LEMMA RunKeepsLedger ==
  ASSUME TokenLedgerAssumption, TokenGatewayAssumption, LedgerInv, NEW r \in Run, RunTokens(r),
         UNCHANGED gatewayVars
  PROVE  LedgerInv'
<1>1. LedgerTypeOK'
  BY RunTypes DEF LedgerInv
<1>2. CallTypeOK' /\ CostInv'
  BY DEF LedgerInv, CallTypeOK, CostInv, gatewayVars
<1>a. \A s \in Run \ {r} : /\ at'[s] = at[s] /\ spent'[s] = spent[s]
                           /\ mon'[s] = mon[s] /\ agentMon'[s] = agentMon[s]
  BY DEF LedgerInv, LedgerTypeOK, RunTokens, Begin, Lock, CheckWorkspace, CheckAgent, Reserve, RollBack,
         SettleAgent, Tear, Settle, GoesTo
<1>b. /\ rows \subseteq rows' /\ crossed \subseteq crossed'
      /\ \/ Reserve(r)
         \/ UNCHANGED <<mon, agentMon>> /\ \A s \in Run : at'[s] \in {"held", "half", "torn", "done"} =>
                                                          at[s] \in {"held", "half", "torn", "done"}
         \/ Begin(r) /\ \A s \in Run : at'[s] \in {"held", "half", "torn", "done"} =>
                                       s # r /\ at[s] \in {"held", "half", "torn", "done"}
  BY DEF LedgerInv, LedgerTypeOK, RunTokens, Begin, Lock, CheckWorkspace, CheckAgent, Reserve, RollBack,
         SettleAgent, Tear, Settle, GoesTo, Upsert
<1>3. RowsInv'
  <2>1. \A c \in Call : stage'[c] \in OpenStage => CallKey(c)' \in rows'
    BY <1>b DEF LedgerInv, RowsInv, gatewayVars, CallKey
  <2>2. ASSUME NEW s \in Run, at'[s] \in {"held", "half", "torn", "done"}
        PROVE  WorkspaceKey(mon'[s], s) \in rows' /\ AgentKey(agentMon'[s], s) \in rows'
    <3>1. CASE s = r /\ Reserve(r)
      BY <3>1 DEF Reserve, Upsert, LedgerInv, LedgerTypeOK
    <3>2. CASE ~ (s = r /\ Reserve(r))
      <4>1. at[s] \in {"held", "half", "torn", "done"} /\ mon'[s] = mon[s] /\ agentMon'[s] = agentMon[s]
        BY <1>a, <1>b, <2>2, <3>2
      <4> QED BY <1>b, <4>1 DEF LedgerInv, RowsInv
    <3> QED BY <3>1, <3>2
  <2> QED BY <2>1, <2>2 DEF RowsInv
<1>4. LedgerExact'
  <2>0. LedgerExact' <=> (crossed' = {} => \A k \in Key : Exact(k)')
    BY DEF LedgerExact, Exact, OpenRun, OpenCall, SpentRun, SpentCall
  <2> SUFFICES ASSUME crossed' = {}, NEW k \in Key PROVE Exact(k)'
    BY <2>0
  <2>1. \A j \in Key : Exact(j)
    BY <1>b, ExactSays DEF LedgerInv
  <2>2. CASE Reserve(r)
    BY <1>1, <2>1, <2>2, ReserveIsExact DEF LedgerInv
  <2>3. CASE SettleAgent(r)
    <3>1. month = agentMon[r]
      BY <2>3 DEF SettleAgent
    <3> QED BY <1>1, <2>1, <2>3, <3>1, SettleAgentIsExact
  <2>4. ASSUME NEW n \in Actual, Settle(r, n) PROVE Exact(k)'
    <3>1. month = mon[r]
      BY <2>4 DEF Settle
    <3> QED BY <1>1, <2>1, <2>4, <3>1, SettleIsExact
  <2>5. CASE Begin(r) \/ Lock(r) \/ CheckWorkspace(r) \/ CheckAgent(r) \/ RollBack(r) \/ Tear(r)
    <3>1. /\ UNCHANGED <<used, reserved, spent>>
          /\ \/ {at[r], at'[r]} \cap {"held", "half", "torn", "done"} = {}
             \/ at[r] = "half" /\ at'[r] = "torn" /\ UNCHANGED <<mon, agentMon>>
      BY <2>5 DEF LedgerInv, LedgerTypeOK, Begin, Lock, CheckWorkspace, CheckAgent, RollBack, Tear, GoesTo
    <3> QED BY <1>1, <1>a, <2>1, <3>1, RunStepsAside DEF LedgerInv
  <2> QED BY <2>2, <2>3, <2>4, <2>5 DEF RunTokens
<1> QED BY <1>1, <1>2, <1>3, <1>4 DEF LedgerInv

\* In which rows a call's reservation and tokens are counted.
LEMMA WhereCallCounts ==
  ASSUME NEW c \in Call, NEW k
  PROVE  /\ c \in OpenOfCall(k) <=> k = CallKey(c) /\ stage[c] \in OpenStage
         /\ c \in CallsIn(k) <=> k = CallKey(c)
         /\ c \in OpenOfCall(k)' <=> k = CallKey(c)' /\ stage'[c] \in OpenStage
         /\ c \in CallsIn(k)' <=> k = CallKey(c)'
BY DEF OpenOfCall, CallsIn, OpenStage

\* A call moves on without taking or giving back a reservation.
LEMMA CallStepsAside ==
  ASSUME TokenLedgerAssumption, TokenGatewayAssumption, LedgerInv, CallTypeOK',
         \A k \in Key : Exact(k), NEW c \in Call, OthersStay(c),
         UNCHANGED <<used, reserved, at, spent, mon, agentMon>>,
         cost'[c] = cost[c], stage[c] \in OpenStage <=> stage'[c] \in OpenStage,
         session'[c] = session[c] \/ (stage[c] \notin OpenStage /\ cost[c] = 0),
         NEW k \in Key
  PROVE  Exact(k)'
<1>0. CallTypeOK /\ Estimate[c] \in Nat /\ cost[c] \in Nat
  <2>1. Response \cup {0} \subseteq Nat /\ Estimate[c] \in Nat
    BY DEF TokenGatewayAssumption
  <2> QED BY <2>1 DEF LedgerInv, CallTypeOK
<1>1. session'[c] = session[c] => CallKey(c)' = CallKey(c)
  BY DEF CallKey
<1>2. /\ Summand(Estimate, OpenOfCall(k), c) = Summand(Estimate, OpenOfCall(k)', c)
      /\ Summand(cost, CallsIn(k), c) = Summand(cost', CallsIn(k)', c)
      /\ Summand(Estimate, OpenOfCall(k), c) \in Nat /\ Summand(cost, CallsIn(k), c) \in Nat
  BY <1>0, <1>1, WhereCallCounts DEF Summand
<1>3. /\ OpenCall(k) \in Nat /\ OpenCall(k)' \in Nat /\ SpentCall(k) \in Nat /\ SpentCall(k)' \in Nat
      /\ OpenCall(k)' + Summand(Estimate, OpenOfCall(k), c) = OpenCall(k) + Summand(Estimate, OpenOfCall(k)', c)
      /\ SpentCall(k)' + Summand(cost, CallsIn(k), c) = SpentCall(k) + Summand(cost', CallsIn(k)', c)
  BY <1>0, CallMoves
<1>4. OpenCall(k)' = OpenCall(k) /\ SpentCall(k)' = SpentCall(k)
  <2>1. \A a, b, x \in Nat : a + x = b + x => a = b
    OBVIOUS
  <2> QED BY <1>2, <1>3, <2>1
<1>5. OpenRun(k)' = OpenRun(k) /\ SpentRun(k)' = SpentRun(k)
  BY RunsStay
<1> QED BY <1>4, <1>5 DEF Exact

\* A call reserves.
LEMMA CallReserves ==
  ASSUME TokenLedgerAssumption, TokenGatewayAssumption, LedgerInv, CallTypeOK',
         \A k \in Key : Exact(k), NEW c \in Call, OthersStay(c), ReserveForCall(c),
         stage'[c] = "reserved", NEW k \in Key
  PROVE  Exact(k)'
<1> DEFINE w == CallKey(c)
<1>0. CallTypeOK /\ Estimate[c] \in Nat /\ LedgerTypeOK
  BY DEF LedgerInv, TokenGatewayAssumption
<1>1. /\ UNCHANGED <<used, at, spent, mon, agentMon, session, cost>> /\ stage[c] = "fits"
      /\ reserved'[k] = IF k = w THEN reserved[k] + Estimate[c] ELSE reserved[k]
  BY DEF ReserveForCall, Upsert
<1>2. /\ c \notin OpenOfCall(k)
      /\ c \in OpenOfCall(k)' <=> k = w
  BY <1>1, WhereCallCounts DEF CallKey, OpenStage
<1> HIDE DEF w
<1>3. /\ Summand(Estimate, OpenOfCall(k), c) = 0
      /\ Summand(Estimate, OpenOfCall(k)', c) = IF k = w THEN Estimate[c] ELSE 0
  BY <1>2 DEF Summand
<1>4. /\ OpenCall(k) \in Nat /\ OpenCall(k)' \in Nat /\ SpentCall(k) \in Nat /\ SpentCall(k)' \in Nat
      /\ OpenCall(k)' + Summand(Estimate, OpenOfCall(k), c) = OpenCall(k) + Summand(Estimate, OpenOfCall(k)', c)
  BY <1>0, CallMoves
<1>5. OpenRun(k)' = OpenRun(k) /\ SpentRun(k)' = SpentRun(k) /\ OpenRun(k) \in Nat
  BY <1>0, <1>1, RunsStay, LedgerSums
<1>6. reserved[k] = OpenRun(k) + OpenCall(k) /\ used[k] = SpentRun(k) + SpentCall(k)
  BY DEF Exact
<1>7. OpenCall(k)' = OpenCall(k) + (IF k = w THEN Estimate[c] ELSE 0)
  BY <1>0, <1>3, <1>4
<1>8. SpentCall(k)' = SpentCall(k)
  <2>1. CallsIn(k)' = CallsIn(k)
    BY <1>1 DEF CallsIn, CallKey
  <2> QED BY <1>1, <2>1 DEF SpentCall
<1>9. reserved'[k] = OpenRun(k)' + OpenCall(k)'
  BY <1>0, <1>1, <1>4, <1>5, <1>6, <1>7
<1> QED BY <1>1, <1>5, <1>6, <1>8, <1>9 DEF Exact

\* A call gives its reservation back, charged with n.
LEMMA CallReturns ==
  ASSUME TokenLedgerAssumption, TokenGatewayAssumption, LedgerInv, LedgerTypeOK', CallTypeOK',
         \A k \in Key : Exact(k), NEW c \in Call, OthersStay(c), NEW n \in Nat,
         Charge(CallKey(c), n, Estimate[c]),
         UNCHANGED <<at, spent, mon, agentMon, session>>,
         stage[c] \in OpenStage, stage'[c] \notin OpenStage, cost[c] = 0, cost'[c] = n,
         NEW k \in Key
  PROVE  Exact(k)'
<1> DEFINE w == CallKey(c)
<1>0. CallTypeOK /\ Estimate[c] \in Nat /\ LedgerTypeOK /\ w \in rows /\ w \in Key
  BY DEF LedgerInv, TokenGatewayAssumption, RowsInv, LedgerTypeOK
<1>2. /\ c \in OpenOfCall(k) <=> k = w
      /\ c \notin OpenOfCall(k)'
      /\ c \in CallsIn(k) <=> k = w
      /\ c \in CallsIn(k)' <=> k = w
  BY WhereCallCounts DEF CallKey
<1>w. c \in OpenOfCall(w)
  BY WhereCallCounts
<1>c. Charge(w, n, Estimate[c])
  OBVIOUS
<1> HIDE DEF w
<1>3. /\ Summand(Estimate, OpenOfCall(k), c) = IF k = w THEN Estimate[c] ELSE 0
      /\ Summand(Estimate, OpenOfCall(k)', c) = 0
      /\ Summand(cost, CallsIn(k), c) = 0
      /\ Summand(cost', CallsIn(k)', c) = IF k = w THEN n ELSE 0
  BY <1>2 DEF Summand
<1>4. /\ OpenCall(k) \in Nat /\ OpenCall(k)' \in Nat /\ SpentCall(k) \in Nat /\ SpentCall(k)' \in Nat
      /\ OpenCall(k)' + Summand(Estimate, OpenOfCall(k), c) = OpenCall(k) + Summand(Estimate, OpenOfCall(k)', c)
      /\ SpentCall(k)' + Summand(cost, CallsIn(k), c) = SpentCall(k) + Summand(cost', CallsIn(k)', c)
  BY <1>0, CallMoves
<1>5. OpenRun(k)' = OpenRun(k) /\ SpentRun(k)' = SpentRun(k) /\ OpenRun(k) \in Nat /\ SpentRun(k) \in Nat
  BY <1>0, RunsStay, LedgerSums
<1>6. Estimate[c] <= reserved[w]
  <2>1. OpenCall(w) >= Estimate[c] /\ OpenRun(w) \in Nat /\ OpenCall(w) \in Nat
    BY <1>0, <1>w, LedgerSums
  <2>2. reserved[w] = OpenRun(w) + OpenCall(w)
    BY <1>0 DEF Exact
  <2> QED BY <1>0, <2>1, <2>2
<1>7. /\ reserved'[w] + Estimate[c] = reserved[w] /\ used'[w] = used[w] + n
      /\ \A j \in Key \ {w} : reserved'[j] = reserved[j] /\ used'[j] = used[j]
  BY <1>0, <1>6, <1>c, ChargeExact
<1>8. reserved[k] = OpenCall(k) + OpenRun(k) /\ used[k] = SpentCall(k) + SpentRun(k)
  BY <1>4, <1>5 DEF Exact
<1>9. reserved[k] \in Nat /\ reserved'[k] \in Nat /\ used[k] \in Nat /\ used'[k] \in Nat
  BY <1>0 DEF LedgerTypeOK
<1>10. CASE k = w
  <2>1. OpenCall(k)' + Estimate[c] = OpenCall(k) /\ SpentCall(k)' = SpentCall(k) + n
    BY <1>0, <1>3, <1>4, <1>10
  <2>2. reserved'[k] + Estimate[c] = reserved[k] /\ used'[k] = used[k] + n
    BY <1>7, <1>10
  <2>3. reserved'[k] = OpenCall(k)' + OpenRun(k) /\ used'[k] = SpentCall(k)' + SpentRun(k)
    BY <1>0, <1>4, <1>5, <1>8, <1>9, <2>1, <2>2, ChargedRow
  <2>4. reserved'[k] = OpenRun(k) + OpenCall(k)' /\ used'[k] = SpentRun(k) + SpentCall(k)'
    BY <1>4, <1>5, <2>3
  <2> QED BY <1>5, <2>4 DEF Exact
<1>11. CASE k # w
  <2>1. OpenCall(k)' = OpenCall(k) /\ SpentCall(k)' = SpentCall(k)
    BY <1>0, <1>3, <1>4, <1>11
  <2>2. reserved'[k] = reserved[k] /\ used'[k] = used[k]
    BY <1>7, <1>11
  <2>3. reserved[k] = OpenRun(k) + OpenCall(k) /\ used[k] = SpentRun(k) + SpentCall(k)
    BY DEF Exact
  <2> QED BY <1>5, <2>1, <2>2, <2>3 DEF Exact
<1> QED BY <1>10, <1>11

\* A step of a call keeps the ledger.
LEMMA CallKeepsLedger ==
  ASSUME TokenLedgerAssumption, TokenGatewayAssumption, LedgerInv, QueueInv, NEW c \in Call,
         Invoke(c) \/ InvokeThrows(c) \/ Break(c) \/ Goes(c)
  PROVE  LedgerInv'
<1>0. LedgerTypeOK /\ CallTypeOK /\ Estimate[c] \in Nat /\ Response \cup {0} \subseteq Nat
      /\ stage \in [Call -> CallStage] /\ CallKey(c) \in Key /\ CallBackend[c] \in Backend
  <2>1. CallBackend[c] \in Backend
    BY DEF TokenGatewayAssumption
  <2>2. CallKey(c) \in Key
    BY <2>1 DEF LedgerInv, CallTypeOK, CallKey, Key
  <2>3. Estimate[c] \in Nat /\ Response \cup {0} \subseteq Nat
    BY DEF TokenGatewayAssumption
  <2> QED BY <2>1, <2>2, <2>3 DEF LedgerInv, QueueInv, Waiting
<1>a. UNCHANGED <<month, lock, at, mon, agentMon, spent, crossed>>
  BY DEF Invoke, InvokeThrows, Break, Goes, CheckBudget, ReserveForCall, Enqueue, Answer, GiveUp, Consume,
         ledgerVars
<1>b. LedgerExact' <=> (crossed' = {} => \A k \in Key : Exact(k)')
  BY DEF LedgerExact, Exact, OpenRun, OpenCall, SpentRun, SpentCall
<1>c. crossed' = {} => \A k \in Key : Exact(k)
  BY <1>a, ExactSays DEF LedgerInv
\* The four facts of a step that make up the ledger's invariant.
<1>d. ASSUME OthersStay(c), CallTypeOK', LedgerTypeOK', rows \subseteq rows',
             stage'[c] \in OpenStage => CallKey(c)' \in rows',
             cost'[c] # 0 => stage'[c] = "done",
             (\A k \in Key : Exact(k)) => \A k \in Key : Exact(k)'
      PROVE  LedgerInv'
  <2>1. ASSUME NEW d \in Call, stage'[d] \in OpenStage PROVE CallKey(d)' \in rows'
    <3>1. CASE d = c
      BY <1>d, <2>1, <3>1
    <3>2. CASE d # c
      <4>1. stage[d] \in OpenStage /\ CallKey(d)' = CallKey(d)
        BY <1>d, <2>1, <3>2 DEF OthersStay, CallKey
      <4> QED BY <1>d, <4>1 DEF LedgerInv, RowsInv
    <3> QED BY <3>1, <3>2
  <2>2. RowsInv'
    BY <1>a, <1>d, <2>1 DEF LedgerInv, RowsInv, WorkspaceKey, AgentKey
  <2>3. ASSUME NEW d \in Call, cost'[d] # 0 PROVE stage'[d] = "done"
    BY <1>d, <2>3 DEF OthersStay, LedgerInv, CostInv
  <2>4. LedgerExact'
    BY <1>b, <1>c, <1>d
  <2> QED BY <1>d, <2>2, <2>3, <2>4 DEF LedgerInv, CostInv
<1>s. ASSUME NEW s, Becomes(c, s), UNCHANGED cost, \A d \in Call \ {c} : session'[d] = session[d]
      PROVE  OthersStay(c) /\ stage'[c] = s
  BY <1>0, <1>s DEF Becomes, OthersStay
<1>z. stage[c] # "done" => cost[c] = 0
  BY DEF LedgerInv, CostInv
<1>1. CASE Invoke(c)
  <2>1. PICK s \in {"rejected", "admitted"} : Becomes(c, s)
    BY <1>1 DEF Invoke
  <2>2. OthersStay(c) /\ stage'[c] = s
    BY <1>0, <1>1, <1>s, <2>1 DEF Invoke, CallTypeOK
  <2>3. CallTypeOK' /\ LedgerTypeOK' /\ UNCHANGED <<rows, used, reserved, cost>> /\ stage[c] = "new"
    BY <1>0, <1>1 DEF Invoke, CallTypeOK, LedgerTypeOK, ledgerVars
  <2>4. cost[c] = 0 /\ stage[c] \notin OpenStage /\ stage'[c] \notin OpenStage
    BY <1>z, <2>2, <2>3 DEF OpenStage
  <2>5. ASSUME \A k \in Key : Exact(k), NEW k \in Key PROVE Exact(k)'
    BY <1>a, <2>2, <2>3, <2>4, <2>5, CallStepsAside
  <2> QED BY <1>d, <2>2, <2>3, <2>4, <2>5
<1>2. CASE InvokeThrows(c) \/ Break(c) \/ CheckBudget(c) \/ Answer(c)
  <2>1. PICK s : Becomes(c, s) /\ (stage[c] \in OpenStage <=> s \in OpenStage) /\ stage[c] # "done"
    BY <1>2 DEF InvokeThrows, Break, CheckBudget, Answer, OpenStage
  <2>2. UNCHANGED <<rows, used, reserved, session, cost>> /\ faults' \in 0 .. MaxFaults
    BY <1>0, <1>2, FaultTypes DEF InvokeThrows, Break, CheckBudget, Answer, ledgerVars, LedgerTypeOK
  <2>3. CallTypeOK' /\ LedgerTypeOK'
    BY <1>0, <1>a, <2>2 DEF CallTypeOK, LedgerTypeOK
  <2>4. OthersStay(c) /\ stage'[c] = s
    BY <1>s, <2>1, <2>2
  <2>5. stage'[c] \in OpenStage => CallKey(c)' \in rows'
    BY <2>1, <2>2, <2>4 DEF CallKey, LedgerInv, RowsInv
  <2>6. ASSUME \A k \in Key : Exact(k), NEW k \in Key PROVE Exact(k)'
    BY <1>a, <2>1, <2>2, <2>3, <2>4, <2>6, CallStepsAside
  <2> QED BY <1>d, <1>z, <2>1, <2>2, <2>3, <2>4, <2>5, <2>6
<1>3. CASE ReserveForCall(c)
  <2>1. /\ Becomes(c, "reserved") /\ Upsert({CallKey(c)}, Estimate[c]) /\ stage[c] = "fits"
        /\ UNCHANGED <<used, session, cost, faults>>
    BY <1>3 DEF ReserveForCall
  <2>2. OthersStay(c) /\ stage'[c] = "reserved"
    BY <1>s, <2>1
  <2>3. reserved' \in [Key -> Nat] /\ rows' \subseteq Key
    BY <1>0, <2>1, UpsertTypes
  <2>4. CallTypeOK' /\ LedgerTypeOK'
    BY <1>0, <1>a, <2>1, <2>3 DEF CallTypeOK, LedgerTypeOK
  <2>5. rows \subseteq rows' /\ CallKey(c)' \in rows'
    BY <2>1 DEF Upsert, CallKey
  <2>6. ASSUME \A k \in Key : Exact(k), NEW k \in Key PROVE Exact(k)'
    BY <1>3, <2>2, <2>4, <2>6, CallReserves
  <2> QED BY <1>d, <1>z, <2>1, <2>2, <2>4, <2>5, <2>6
<1>4. CASE Enqueue(c)
  <2>1. /\ Drained(c, "queued") /\ \A d \in Call \ {c} : Drained(d, stage[d])
        /\ stage[c] = "reserved"
    BY <1>4, Joining DEF Enqueue
  <2>2. UNCHANGED <<rows, used, reserved, faults, session, cost>>
    BY <1>4 DEF Enqueue, ledgerVars
  <2>3. OthersStay(c) /\ stage[c] \in OpenStage /\ stage'[c] \in OpenStage /\ stage[c] # "done"
    BY <2>1, <2>2, DrainedStays DEF Drained, OpenStage
  <2>4. CallTypeOK' /\ LedgerTypeOK'
    BY <1>0, <1>a, <2>2 DEF CallTypeOK, LedgerTypeOK
  <2>5. CallKey(c)' \in rows'
    BY <2>2, <2>3 DEF CallKey, LedgerInv, RowsInv
  <2>6. ASSUME \A k \in Key : Exact(k), NEW k \in Key PROVE Exact(k)'
    BY <1>a, <2>2, <2>3, <2>4, <2>6, CallStepsAside
  <2> QED BY <1>d, <1>z, <2>2, <2>3, <2>4, <2>5, <2>6
<1>5. ASSUME NEW n \in Response, Consume(c, n) PROVE LedgerInv'
  <2>1. /\ stage[c] = "answered" /\ Charge(CallKey(c), n, Estimate[c]) /\ Leave(c, "done")
        /\ cost' = [cost EXCEPT ![c] = n] /\ UNCHANGED <<rows, faults, session>> /\ n \in Nat
    BY <1>0, <1>5 DEF Consume
  <2>2. stage'[c] = "done" /\ \A d \in Call \ {c} : Drained(d, stage[d])
    <3>1. "done" \in CallStage
      BY DEF CallStage
    <3> QED BY <2>1, <3>1, Leaving
  <2>3. OthersStay(c) /\ stage[c] \in OpenStage /\ stage'[c] \notin OpenStage /\ cost'[c] = n
    BY <1>0, <2>1, <2>2, DrainedStays DEF OpenStage, CallTypeOK
  <2>4. used' \in [Key -> Nat] /\ reserved' \in [Key -> Nat]
    BY <1>0, <2>1, ChargeTypes
  <2>5. CallTypeOK' /\ LedgerTypeOK'
    BY <1>0, <1>a, <2>1, <2>4 DEF CallTypeOK, LedgerTypeOK
  <2>6. ASSUME \A k \in Key : Exact(k), NEW k \in Key PROVE Exact(k)'
    BY <1>a, <1>z, <2>1, <2>3, <2>5, <2>6, CallReturns
  <2> QED BY <1>d, <2>1, <2>2, <2>3, <2>5, <2>6
<1>6. CASE GiveUp(c)
  <2>0. stage[c] = "broken" /\ UNCHANGED <<rows, faults, session, cost>> /\ cost[c] = 0
    BY <1>6, <1>z DEF GiveUp
  <2>1. CASE Charge(CallKey(c), 0, Estimate[c]) /\ Leave(c, "failed")
    <3>2. stage'[c] = "failed" /\ \A d \in Call \ {c} : Drained(d, stage[d])
      <4>1. "failed" \in CallStage
        BY DEF CallStage
      <4> QED BY <2>0, <2>1, <4>1, Leaving
    <3>3. OthersStay(c) /\ stage[c] \in OpenStage /\ stage'[c] \notin OpenStage /\ cost'[c] = 0
      BY <2>0, <3>2, DrainedStays DEF OpenStage
    <3>4. used' \in [Key -> Nat] /\ reserved' \in [Key -> Nat]
      BY <1>0, <2>1, ChargeTypes
    <3>5. CallTypeOK' /\ LedgerTypeOK'
      BY <1>0, <1>a, <2>0, <3>4 DEF CallTypeOK, LedgerTypeOK
    <3>6. ASSUME \A k \in Key : Exact(k), NEW k \in Key PROVE Exact(k)'
      BY <1>a, <2>0, <2>1, <3>3, <3>5, <3>6, CallReturns
    <3> QED BY <1>d, <2>0, <3>3, <3>5, <3>6
  <2>2. CASE UNCHANGED <<used, reserved>> /\ Leave(c, "stuck")
    <3>2. stage'[c] = "stuck" /\ \A d \in Call \ {c} : Drained(d, stage[d])
      <4>1. "stuck" \in CallStage
        BY DEF CallStage
      <4> QED BY <2>0, <2>2, <4>1, Leaving
    <3>3. OthersStay(c) /\ stage[c] \in OpenStage /\ stage'[c] \in OpenStage
      BY <2>0, <3>2, DrainedStays DEF OpenStage
    <3>4. CallTypeOK' /\ LedgerTypeOK'
      BY <1>0, <1>a, <2>0, <2>2 DEF CallTypeOK, LedgerTypeOK
    <3>5. CallKey(c)' \in rows'
      BY <2>0, <3>3 DEF CallKey, LedgerInv, RowsInv
    <3>6. ASSUME \A k \in Key : Exact(k), NEW k \in Key PROVE Exact(k)'
      BY <1>a, <2>0, <2>2, <3>3, <3>4, <3>6, CallStepsAside
    <3> QED BY <1>d, <2>0, <2>2, <3>3, <3>4, <3>5, <3>6
  <2> QED BY <1>6, <2>1, <2>2 DEF GiveUp
<1> QED BY <1>1, <1>2, <1>3, <1>4, <1>5, <1>6 DEF Goes

\* The ledger's invariant, through every step of runs, calls and the calendar.
THEOREM LedgerInvariance == GatewaySpec => []LedgerInv
<1> USE TokenLedgerAssumption, TokenGatewayAssumption
<1>1. GatewayInit => LedgerInv
  <2> SUFFICES ASSUME GatewayInit PROVE LedgerInv
    OBVIOUS
  <2>1. LedgerTypeOK
    BY DEF GatewayInit, LedgerInit, LedgerTypeOK, Month, RunStage, TokenLedgerAssumption
  <2>2. CallTypeOK
    BY DEF GatewayInit, CallTypeOK, Month, TokenLedgerAssumption
  <2>3. RowsInv /\ CostInv
    BY DEF GatewayInit, LedgerInit, RowsInv, CostInv, OpenStage
  <2>4. ASSUME NEW k \in Key PROVE Exact(k)
    <3>1. OpenOfRun(k) = {} /\ SpentOfRun(k) = {} /\ OpenOfCall(k) = {}
      <4>1. \A r \in Run : at[r] = "new"
        BY DEF GatewayInit, LedgerInit
      <4>2. \A c \in Call : stage[c] = "new"
        BY DEF GatewayInit
      <4>3. \A r \in Run : r \notin OpenOfRun(k) /\ r \notin SpentOfRun(k)
        BY <4>1, WhereRunCounts
      <4>4. \A c \in Call : c \notin OpenOfCall(k)
        BY <4>2, WhereCallCounts DEF OpenStage
      <4> QED BY <4>3, <4>4 DEF OpenOfRun, SpentOfRun, OpenOfCall, RunsIn, CallsIn
    <3>2. OpenRun(k) = 0 /\ SpentRun(k) = 0 /\ OpenCall(k) = 0
      <4>1. IsFiniteSet({}) /\ NatOn(Amount, {}) /\ NatOn(spent, {}) /\ NatOn(Estimate, {})
        BY FS_EmptySet DEF NatOn
      <4> QED BY <3>1, <4>1, SumOf DEF OpenRun, SpentRun, OpenCall
    <3>3. SpentCall(k) = 0
      <4>1. IsFiniteSet(CallsIn(k)) /\ \A c \in CallsIn(k) : cost[c] = 0
        <5>1. CallsIn(k) \subseteq Call /\ IsFiniteSet(Call)
          BY DEF CallsIn, TokenGatewayAssumption
        <5> QED BY <5>1, FS_Subset DEF GatewayInit
      <4> QED BY <4>1, SumNone DEF SpentCall
    <3> QED BY <3>2, <3>3 DEF Exact, GatewayInit, LedgerInit
  <2> QED BY <2>1, <2>2, <2>3, <2>4, ExactSays DEF LedgerInv
<1>2. QueueInv /\ LedgerInv /\ [GatewayNext]_vars => LedgerInv'
  <2> SUFFICES ASSUME QueueInv, LedgerInv, [GatewayNext]_vars PROVE LedgerInv'
    OBVIOUS
  <2>a. ASSUME UNCHANGED <<rows, used, reserved, lock, at, mon, agentMon, spent, crossed, faults>>,
               UNCHANGED gatewayVars, month' \in Month
        PROVE  LedgerInv'
    <3>1. LedgerTypeOK' /\ CallTypeOK' /\ RowsInv' /\ CostInv'
      BY <2>a DEF LedgerInv, LedgerTypeOK, CallTypeOK, RowsInv, CostInv, gatewayVars, WorkspaceKey, AgentKey,
                  CallKey
    <3>2. LedgerExact' <=> (crossed' = {} => \A k \in Key : Exact(k)')
      BY DEF LedgerExact, Exact, OpenRun, OpenCall, SpentRun, SpentCall
    <3>3. ASSUME NEW k \in Key, Exact(k) PROVE Exact(k)'
      BY <2>a, <3>3, RunsStay, CallsStay DEF Exact
    <3>4. LedgerExact'
      BY <2>a, <3>2, <3>3, ExactSays DEF LedgerInv
    <3> QED BY <3>1, <3>4 DEF LedgerInv
  <2>1. ASSUME NEW c \in Call, Invoke(c) \/ InvokeThrows(c) \/ Break(c) \/ Goes(c) PROVE LedgerInv'
    BY <2>1, CallKeepsLedger
  <2>2. ASSUME NEW r \in Run, RunTokens(r), UNCHANGED gatewayVars PROVE LedgerInv'
    BY <2>2, RunKeepsLedger
  <2>3. CASE NextMonth /\ UNCHANGED gatewayVars
    <3>1. month' \in Month
      BY <2>3 DEF NextMonth, LedgerInv, LedgerTypeOK, Month, TokenLedgerAssumption
    <3> QED BY <2>3, <2>a, <3>1 DEF NextMonth
  <2>4. CASE UNCHANGED vars
    <3>1. UNCHANGED gatewayVars
      BY <2>4 DEF vars
    <3>2. UNCHANGED <<month, rows, used, reserved, lock, at, mon, agentMon, spent, crossed, faults>>
      BY <2>4 DEF vars, ledgerVars
    <3>3. month' \in Month
      BY <3>2 DEF LedgerInv, LedgerTypeOK
    <3> QED BY <2>a, <3>1, <3>2, <3>3
  <2> QED BY <2>1, <2>2, <2>3, <2>4 DEF GatewayNext
<1> QED BY <1>1, <1>2, QueueInvariance, PTL DEF GatewaySpec

\* Every row of the ledger counts exactly the open reservations and the usage of those
\* that reserved there.
THEOREM RowsAreExact == GatewaySpec => []LedgerExact
<1>1. LedgerInv => LedgerExact
  BY DEF LedgerInv
<1> QED BY <1>1, LedgerInvariance, PTL

\* Every variable of the ledger and the gateway keeps its type.
THEOREM GatewayTypes == GatewaySpec => []GatewayTypeOK
<1>1. QueueInv /\ LedgerInv => GatewayTypeOK
  BY DEF QueueInv, Waiting, Counted, LedgerInv, CallTypeOK, GatewayTypeOK
<1> QED BY <1>1, QueueInvariance, LedgerInvariance, PTL

-----------------------------------------------------------------------------
(* The limits.                                                             *)

\* What the runs of X draw from a workspace's bucket, and all runs from the agent's.
InWs(X, m) == SumFunctionOnSet(InWorkspace, {r \in X : mon[r] = m})
InAg(m) == SumFunctionOnSet(InAgent, {r \in Run : agentMon[r] = m})

\* What a run has drawn, and what it counts for in each ledger, at each point of its way.
LEMMA WhatARunDraws ==
  ASSUME TokenLedgerAssumption, LedgerTypeOK, NEW r \in Run
  PROVE  /\ Drawn(r) \in Nat /\ Drawn(r) <= spent[r] /\ Drawn(r) <= Amount[r]
         /\ InWorkspace[r] \in Nat /\ InWorkspace[r] <= Amount[r]
         /\ at[r] = "held" => InWorkspace[r] = Amount[r]
         /\ at[r] \in {"half", "torn", "done"} => InWorkspace[r] = Drawn(r)
         /\ at[r] \notin {"held", "half", "torn", "done"} => InWorkspace[r] = 0
         /\ InAgent[r] \in Nat /\ InAgent[r] <= Amount[r]
         /\ at[r] \in {"held", "half", "torn"} => InAgent[r] = Amount[r]
         /\ at[r] = "done" => InAgent[r] = Drawn(r)
         /\ at[r] \notin {"held", "half", "torn", "done"} => InAgent[r] = 0
<1>1. Amount[r] \in Nat /\ spent[r] \in Nat
  BY LedgerTypes
<1>2. Drawn(r) \in Nat /\ Drawn(r) <= spent[r] /\ Drawn(r) <= Amount[r]
  BY <1>1 DEF Drawn
<1>3. InWorkspace[r] = CASE at[r] = "held" -> Amount[r]
                         [] at[r] \in {"half", "torn", "done"} -> Drawn(r)
                         [] OTHER -> 0
  BY DEF InWorkspace
<1>4. InAgent[r] = CASE at[r] \in {"held", "half", "torn"} -> Amount[r]
                     [] at[r] = "done" -> Drawn(r)
                     [] OTHER -> 0
  BY DEF InAgent
<1> QED BY <1>1, <1>2, <1>3, <1>4

\* The checks of a reservation see at least what the runs draw: row by row, ...
LEMMA RowCoversRuns ==
  ASSUME TokenLedgerAssumption, TokenGatewayAssumption, LedgerInv, crossed = {},
         NEW m \in Month, NEW b \in Backend
  PROVE  /\ SumFunctionOnSet(InWorkspace, {r \in Run : mon[r] = m /\ BackendOf[r] = b})
              <= used[<<m, "workspace", b>>] + reserved[<<m, "workspace", b>>]
         /\ SumFunctionOnSet(InAgent, {r \in Run : agentMon[r] = m /\ RuntimeOf[r] = b})
              <= used[<<m, "agent", b>>] + reserved[<<m, "agent", b>>]
<1>0. LedgerTypeOK /\ CallTypeOK /\ \A k \in Key : Exact(k)
  BY ExactSays DEF LedgerInv
<1>1. ASSUME NEW f, NEW k \in Key, NEW S \in SUBSET Run, NatOn(f, S),
             OpenOfRun(k) \subseteq S, SpentOfRun(k) \subseteq S, OpenOfRun(k) \cap SpentOfRun(k) = {},
             \A r \in OpenOfRun(k) : f[r] <= Amount[r],
             \A r \in SpentOfRun(k) : f[r] <= spent[r],
             \A r \in S \ (OpenOfRun(k) \cup SpentOfRun(k)) : f[r] = 0
      PROVE  SumFunctionOnSet(f, S) <= used[k] + reserved[k]
  <2>1. /\ IsFiniteSet(S) /\ NatOn(Amount, OpenOfRun(k)) /\ NatOn(spent, SpentOfRun(k))
    <3>1. IsFiniteSet(S)
      BY FS_Subset DEF TokenLedgerAssumption
    <3>2. \A r \in Run : Amount[r] \in Nat /\ spent[r] \in Nat
      BY <1>0, LedgerTypes
    <3> QED BY <1>1, <3>1, <3>2 DEF NatOn
  <2>2. SumFunctionOnSet(f, S) <= OpenRun(k) + SpentRun(k) /\ SumFunctionOnSet(f, S) \in Nat
    BY <1>1, <2>1, SumParts, SumOf DEF OpenRun, SpentRun
  <2>3. OpenRun(k) \in Nat /\ SpentRun(k) \in Nat /\ OpenCall(k) \in Nat /\ SpentCall(k) \in Nat
    BY <1>0, LedgerSums
  <2>4. reserved[k] = OpenRun(k) + OpenCall(k) /\ used[k] = SpentRun(k) + SpentCall(k)
    BY <1>0 DEF Exact
  <2> QED BY <2>2, <2>3, <2>4
<1>2. \A k : OpenOfRun(k) \subseteq Run /\ SpentOfRun(k) \subseteq Run
  BY DEF OpenOfRun, SpentOfRun, RunsIn
<1>3. SumFunctionOnSet(InWorkspace, {r \in Run : mon[r] = m /\ BackendOf[r] = b})
        <= used[<<m, "workspace", b>>] + reserved[<<m, "workspace", b>>]
  <2> DEFINE k == <<m, "workspace", b>>
             S == {r \in Run : mon[r] = m /\ BackendOf[r] = b}
  <2>0. k \in Key
    BY DEF Key
  <2>1. ASSUME NEW r \in Run
        PROVE  /\ r \in OpenOfRun(k) <=> r \in S /\ at[r] = "held"
               /\ r \in SpentOfRun(k) <=> r \in S /\ at[r] \in {"half", "torn", "done"}
    <3>1. (k = WorkspaceKey(mon[r], r) <=> r \in S) /\ k # AgentKey(agentMon[r], r)
      BY DEF WorkspaceKey, AgentKey
    <3> HIDE DEF k, S
    <3> QED BY <3>1, WhereRunCounts
  <2>2. S \subseteq Run
    OBVIOUS
  <2> HIDE DEF k, S
  <2>3. /\ NatOn(InWorkspace, S) /\ OpenOfRun(k) \subseteq S /\ SpentOfRun(k) \subseteq S
        /\ OpenOfRun(k) \cap SpentOfRun(k) = {}
        /\ \A r \in OpenOfRun(k) : InWorkspace[r] <= Amount[r]
        /\ \A r \in SpentOfRun(k) : InWorkspace[r] <= spent[r]
        /\ \A r \in S \ (OpenOfRun(k) \cup SpentOfRun(k)) : InWorkspace[r] = 0
    BY <1>0, <1>2, <2>1, <2>2, WhatARunDraws DEF NatOn
  <2>4. SumFunctionOnSet(InWorkspace, S) <= used[k] + reserved[k]
    BY <1>1, <2>0, <2>2, <2>3
  <2> QED BY <2>4 DEF k, S
<1>4. SumFunctionOnSet(InAgent, {r \in Run : agentMon[r] = m /\ RuntimeOf[r] = b})
        <= used[<<m, "agent", b>>] + reserved[<<m, "agent", b>>]
  <2> DEFINE k == <<m, "agent", b>>
             S == {r \in Run : agentMon[r] = m /\ RuntimeOf[r] = b}
  <2>0. k \in Key
    BY DEF Key
  <2>1. ASSUME NEW r \in Run
        PROVE  /\ r \in OpenOfRun(k) <=> r \in S /\ at[r] \in {"held", "half", "torn"}
               /\ r \in SpentOfRun(k) <=> r \in S /\ at[r] = "done"
    <3>1. (k = AgentKey(agentMon[r], r) <=> r \in S) /\ k # WorkspaceKey(mon[r], r)
      BY DEF WorkspaceKey, AgentKey
    <3> HIDE DEF k, S
    <3> QED BY <3>1, WhereRunCounts
  <2>2. S \subseteq Run
    OBVIOUS
  <2> HIDE DEF k, S
  <2>3. /\ NatOn(InAgent, S) /\ OpenOfRun(k) \subseteq S /\ SpentOfRun(k) \subseteq S
        /\ OpenOfRun(k) \cap SpentOfRun(k) = {}
        /\ \A r \in OpenOfRun(k) : InAgent[r] <= Amount[r]
        /\ \A r \in SpentOfRun(k) : InAgent[r] <= spent[r]
        /\ \A r \in S \ (OpenOfRun(k) \cup SpentOfRun(k)) : InAgent[r] = 0
    BY <1>0, <1>2, <2>1, <2>2, WhatARunDraws DEF NatOn
  <2>4. SumFunctionOnSet(InAgent, S) <= used[k] + reserved[k]
    BY <1>1, <2>0, <2>2, <2>3
  <2> QED BY <2>4 DEF k, S
<1> QED BY <1>3, <1>4

\* ... and in all.
LEMMA ProjectedCovers ==
  ASSUME TokenLedgerAssumption, TokenGatewayAssumption, LedgerInv, crossed = {}, NEW m \in Month
  PROVE  /\ InWs(Run \ Scoped, m) <= Projected(m, "workspace", Backend)
         /\ \A r \in Scoped : InWs(Scoped, m) <= Projected(m, "workspace", {BackendOf[r]})
         /\ InAg(m) <= Projected(m, "agent", Backend)
<1> DEFINE w == [b \in Backend |-> used[<<m, "workspace", b>>] + reserved[<<m, "workspace", b>>]]
           a == [b \in Backend |-> used[<<m, "agent", b>>] + reserved[<<m, "agent", b>>]]
           W == {r \in Run : mon[r] = m}
           A == {r \in Run : agentMon[r] = m}
<1>0. /\ LedgerTypeOK /\ IsFiniteSet(Run) /\ IsFiniteSet(Backend) /\ Scoped \subseteq Run
      /\ \A r \in Run : BackendOf[r] \in Backend /\ RuntimeOf[r] \in Backend
      /\ \A r, s \in Scoped : BackendOf[r] = BackendOf[s]
  BY DEF LedgerInv, TokenLedgerAssumption
<1>1. /\ \A b \in Backend : w[b] \in Nat /\ a[b] \in Nat
      /\ \A b \in Backend : /\ w[b] = used[<<m, "workspace", b>>] + reserved[<<m, "workspace", b>>]
                            /\ a[b] = used[<<m, "agent", b>>] + reserved[<<m, "agent", b>>]
  <2>1. \A b \in Backend : <<m, "workspace", b>> \in Key /\ <<m, "agent", b>> \in Key
    BY DEF Key
  <2> QED BY <1>0, <2>1 DEF LedgerTypeOK
<1>2. /\ NatOn(w, Backend) /\ NatOn(a, Backend)
      /\ IsFiniteSet(W) /\ IsFiniteSet(A) /\ NatOn(InWorkspace, W) /\ NatOn(InAgent, A)
  BY <1>0, <1>1, FS_Subset, WhatARunDraws DEF NatOn
<1>3. ASSUME NEW b \in Backend
      PROVE  /\ SumFunctionOnSet(InWorkspace, {r \in W : BackendOf[r] = b}) <= w[b]
             /\ SumFunctionOnSet(InAgent, {r \in A : RuntimeOf[r] = b}) <= a[b]
  <2>1. /\ {r \in W : BackendOf[r] = b} = {r \in Run : mon[r] = m /\ BackendOf[r] = b}
        /\ {r \in A : RuntimeOf[r] = b} = {r \in Run : agentMon[r] = m /\ RuntimeOf[r] = b}
    OBVIOUS
  <2> HIDE DEF W, A, w, a
  <2> QED BY <1>1, <2>1, RowCoversRuns
<1>4. SumFunctionOnSet(w, Backend) = Projected(m, "workspace", Backend)
      /\ SumFunctionOnSet(a, Backend) = Projected(m, "agent", Backend)
  BY DEF Projected
<1>5. SumFunctionOnSet(InWorkspace, W) <= Projected(m, "workspace", Backend)
  <2>1. \A r \in W : BackendOf[r] \in Backend
    BY <1>0
  <2> HIDE DEF W, w
  <2>2. SumFunctionOnSet(InWorkspace, W) <= SumFunctionOnSet(w, Backend)
    BY <1>0, <1>2, <1>3, <2>1, SumGroups
  <2> QED BY <1>4, <2>2
<1>6. InAg(m) <= Projected(m, "agent", Backend)
  <2>1. \A r \in A : RuntimeOf[r] \in Backend
    BY <1>0
  <2>2. InAg(m) = SumFunctionOnSet(InAgent, A)
    BY DEF InAg
  <2> HIDE DEF A, a
  <2>3. SumFunctionOnSet(InAgent, A) <= SumFunctionOnSet(a, Backend)
    BY <1>0, <1>2, <1>3, <2>1, SumGroups
  <2> QED BY <1>4, <2>2, <2>3
<1>7. InWs(Run \ Scoped, m) <= Projected(m, "workspace", Backend)
  <2> DEFINE T == {r \in Run \ Scoped : mon[r] = m}
  <2>1. T \subseteq W
    OBVIOUS
  <2>2. InWs(Run \ Scoped, m) = SumFunctionOnSet(InWorkspace, T)
    BY DEF InWs
  <2> HIDE DEF T, W
  <2>3. /\ SumFunctionOnSet(InWorkspace, T) \in Nat
        /\ SumFunctionOnSet(InWorkspace, T) <= SumFunctionOnSet(InWorkspace, W)
    BY <1>2, <2>1, SumPart
  <2>4. SumFunctionOnSet(InWorkspace, W) \in Nat /\ Projected(m, "workspace", Backend) \in Nat
    BY <1>0, <1>2, <1>4, SumOf
  <2> QED BY <1>5, <2>2, <2>3, <2>4
<1>8. ASSUME NEW r \in Scoped PROVE InWs(Scoped, m) <= Projected(m, "workspace", {BackendOf[r]})
  <2> DEFINE b == BackendOf[r]
             T == {s \in Scoped : mon[s] = m}
             S == {s \in W : BackendOf[s] = b}
  <2>0. b \in Backend
    BY <1>0
  <2>1. T \subseteq S /\ S \subseteq W
    BY <1>0
  <2>2. InWs(Scoped, m) = SumFunctionOnSet(InWorkspace, T)
    BY DEF InWs
  <2>3. SumFunctionOnSet(InWorkspace, S) <= w[b]
    BY <1>3, <2>0
  <2>4. Projected(m, "workspace", {b}) = SumFunctionOnSet(w, {b})
    BY DEF Projected
  <2> HIDE DEF T, S, W, w, b
  <2>5. IsFiniteSet(S) /\ NatOn(InWorkspace, S)
    BY <1>2, <2>1, FS_Subset DEF NatOn
  <2>6. /\ SumFunctionOnSet(InWorkspace, T) \in Nat /\ SumFunctionOnSet(InWorkspace, S) \in Nat
        /\ SumFunctionOnSet(InWorkspace, T) <= SumFunctionOnSet(InWorkspace, S)
    BY <2>1, <2>5, SumPart, SumOf
  <2>7. SumFunctionOnSet(w, {b}) = w[b] /\ w[b] \in Nat
    <3>1. IsFiniteSet({b}) /\ NatOn(w, {b}) /\ {b} \ {b} = {} /\ b \in {b} /\ w[b] \in Nat
      BY <1>1, <2>0, FS_Singleton DEF NatOn
    <3>2. SumFunctionOnSet(w, {}) = 0 /\ SumFunctionOnSet(w, {b}) = w[b] + SumFunctionOnSet(w, {b} \ {b})
      BY <3>1, SumOf
    <3> QED BY <3>1, <3>2
  <2>8. InWs(Scoped, m) <= Projected(m, "workspace", {b})
    BY <2>2, <2>3, <2>4, <2>6, <2>7
  <2> QED BY <2>8 DEF b
<1> QED BY <1>6, <1>7, <1>8

\* One run moves: each sum changes by what that run draws.
LEMMA DrawsMove ==
  ASSUME TokenLedgerAssumption, LedgerTypeOK, LedgerTypeOK', NEW r \in Run,
         \A s \in Run \ {r} : /\ at'[s] = at[s] /\ spent'[s] = spent[s]
                              /\ mon'[s] = mon[s] /\ agentMon'[s] = agentMon[s],
         NEW m
  PROVE  /\ \A X \in SUBSET Run :
              /\ InWs(X, m) \in Nat /\ InWs(X, m)' \in Nat
              /\ InWs(X, m)' + (IF r \in X /\ mon[r] = m THEN InWorkspace[r] ELSE 0)
                   = InWs(X, m) + (IF r \in X /\ mon'[r] = m THEN InWorkspace'[r] ELSE 0)
         /\ InAg(m) \in Nat /\ InAg(m)' \in Nat
         /\ InAg(m)' + (IF agentMon[r] = m THEN InAgent[r] ELSE 0)
              = InAg(m) + (IF agentMon'[r] = m THEN InAgent'[r] ELSE 0)
<1>0. IsFiniteSet(Run) /\ \A s \in Run : Amount[s] \in Nat /\ spent[s] \in Nat /\ spent'[s] \in Nat
  <2>1. Actual \cup {0} \subseteq Nat
    BY DEF TokenLedgerAssumption
  <2> QED BY <2>1 DEF LedgerTypeOK, TokenLedgerAssumption
<1>1. \A s \in Run : /\ InWorkspace[s] \in Nat /\ InWorkspace'[s] \in Nat
                     /\ InAgent[s] \in Nat /\ InAgent'[s] \in Nat
  BY <1>0 DEF InWorkspace, InAgent, Drawn
<1>2. \A s \in Run \ {r} : InWorkspace'[s] = InWorkspace[s] /\ InAgent'[s] = InAgent[s]
  BY DEF InWorkspace, InAgent, Drawn
<1>3. ASSUME NEW X \in SUBSET Run
      PROVE  /\ InWs(X, m) \in Nat /\ InWs(X, m)' \in Nat
             /\ InWs(X, m)' + (IF r \in X /\ mon[r] = m THEN InWorkspace[r] ELSE 0)
                  = InWs(X, m) + (IF r \in X /\ mon'[r] = m THEN InWorkspace'[r] ELSE 0)
  <2> DEFINE f == InWorkspace
             h == InWorkspace'
             S == {s \in X : mon[s] = m}
             T == {s \in X : mon'[s] = m}
  <2>1. S \ {r} = T \ {r} /\ IsFiniteSet(S) /\ NatOn(f, S) /\ NatOn(h, T) /\ \A s \in S \ {r} : f[s] = h[s]
    BY <1>0, <1>1, <1>2, FS_Subset DEF NatOn
  <2>2. /\ Summand(f, S, r) = IF r \in X /\ mon[r] = m THEN f[r] ELSE 0
        /\ Summand(h, T, r) = IF r \in X /\ mon'[r] = m THEN h[r] ELSE 0
    BY DEF Summand
  <2>3. InWs(X, m) = SumFunctionOnSet(f, S) /\ InWs(X, m)' = SumFunctionOnSet(h, T)
    BY DEF InWs
  <2> HIDE DEF f, h, S, T
  <2>4. /\ SumFunctionOnSet(f, S) \in Nat /\ SumFunctionOnSet(h, T) \in Nat
        /\ SumFunctionOnSet(h, T) + Summand(f, S, r) = SumFunctionOnSet(f, S) + Summand(h, T, r)
    BY <2>1, SumMoves
  <2> QED BY <2>2, <2>3, <2>4 DEF f, h
<1>4. /\ InAg(m) \in Nat /\ InAg(m)' \in Nat
      /\ InAg(m)' + (IF agentMon[r] = m THEN InAgent[r] ELSE 0)
           = InAg(m) + (IF agentMon'[r] = m THEN InAgent'[r] ELSE 0)
  <2> DEFINE f == InAgent
             h == InAgent'
             S == {s \in Run : agentMon[s] = m}
             T == {s \in Run : agentMon'[s] = m}
  <2>1. S \ {r} = T \ {r} /\ IsFiniteSet(S) /\ NatOn(f, S) /\ NatOn(h, T) /\ \A s \in S \ {r} : f[s] = h[s]
    BY <1>0, <1>1, <1>2, FS_Subset DEF NatOn
  <2>2. /\ Summand(f, S, r) = IF agentMon[r] = m THEN f[r] ELSE 0
        /\ Summand(h, T, r) = IF agentMon'[r] = m THEN h[r] ELSE 0
    BY DEF Summand
  <2>3. InAg(m) = SumFunctionOnSet(f, S) /\ InAg(m)' = SumFunctionOnSet(h, T)
    BY DEF InAg
  <2> HIDE DEF f, h, S, T
  <2>4. /\ SumFunctionOnSet(f, S) \in Nat /\ SumFunctionOnSet(h, T) \in Nat
        /\ SumFunctionOnSet(h, T) + Summand(f, S, r) = SumFunctionOnSet(f, S) + Summand(h, T, r)
    BY <2>1, SumMoves
  <2> QED BY <2>2, <2>3, <2>4 DEF f, h
<1> QED BY <1>3, <1>4

\* What the lock is for: a reservation found to fit still fits.  Only its holder is
\* between a check and the insert, so what the others draw can only have become less.
FitsWorkspace(r) ==
  IF r \in Scoped THEN InWs(Scoped, mon[r]) + Amount[r] <= ProjectLimit
                  ELSE InWs(Run \ Scoped, mon[r]) + Amount[r] <= WorkspaceLimit
FitsAgent(r) == InAg(month) + Amount[r] <= AgentLimit

OneHolder == \A r \in Run : at[r] \in {"locked", "fits", "admitted"} => lock = r
NoFutureAgentRow == \A r \in Run : agentMon[r] <= month
StillFits ==
  crossed = {} =>
    \A r \in Run : /\ at[r] \in {"fits", "admitted"} => FitsWorkspace(r)
                   /\ at[r] = "admitted" => FitsAgent(r)
LimitInv == OneHolder /\ NoFutureAgentRow /\ StillFits /\ RunsWithinLimits

\* RunsWithinLimits, in terms of what the runs count for.
LEMMA WithinSays ==
  RunsWithinLimits <=> (crossed = {} => \A m \in Month : /\ InWs(Run \ Scoped, m) <= WorkspaceLimit
                                                         /\ InWs(Scoped, m) <= ProjectLimit
                                                         /\ InAg(m) <= AgentLimit)
BY DEF RunsWithinLimits, InWs, InAg

\* The limits and the amounts are numbers, and the runs within a project are runs.
LEMMA LimitTypes ==
  ASSUME TokenLedgerAssumption
  PROVE  /\ WorkspaceLimit \in Nat /\ ProjectLimit \in Nat /\ AgentLimit \in Nat
         /\ Scoped \in SUBSET Run /\ Run \ Scoped \in SUBSET Run
         /\ \A r \in Run : Amount[r] \in Nat /\ r # NoRun
BY DEF TokenLedgerAssumption

\* The lock has one holder.
LEMMA HolderStep ==
  ASSUME TokenLedgerAssumption, LedgerTypeOK, OneHolder, NEW r \in Run, RunTokens(r)
  PROVE  OneHolder'
<1> SUFFICES ASSUME NEW s \in Run, at'[s] \in {"locked", "fits", "admitted"} PROVE lock' = s
  BY DEF OneHolder
<1>0. NoRun \notin Run
  BY DEF TokenLedgerAssumption
<1>1. CASE Begin(r)
  BY <1>1 DEF Begin, GoesTo, LedgerTypeOK, OneHolder
<1>2. CASE Lock(r)
  BY <1>0, <1>2 DEF Lock, GoesTo, LedgerTypeOK, OneHolder
<1>3. CASE CheckWorkspace(r)
  BY <1>3 DEF CheckWorkspace, GoesTo, LedgerTypeOK, OneHolder
<1>4. CASE CheckAgent(r)
  BY <1>4 DEF CheckAgent, GoesTo, LedgerTypeOK, OneHolder
<1>5. CASE Reserve(r)
  BY <1>5 DEF Reserve, GoesTo, LedgerTypeOK, OneHolder
<1>6. CASE RollBack(r)
  BY <1>6 DEF RollBack, GoesTo, LedgerTypeOK, OneHolder
<1>7. CASE SettleAgent(r) \/ Tear(r) \/ \E n \in Actual : Settle(r, n)
  BY <1>7 DEF SettleAgent, Tear, Settle, GoesTo, LedgerTypeOK, OneHolder
<1> QED BY <1>1, <1>2, <1>3, <1>4, <1>5, <1>6, <1>7 DEF RunTokens

\* Every step of a run but its insert leaves the sums where they are or lowers them.
LEMMA OthersDrawNoMore ==
  ASSUME TokenLedgerAssumption, LedgerTypeOK, LedgerTypeOK', NEW r \in Run, RunTokens(r), ~ Reserve(r),
         NEW m
  PROVE  /\ \A X \in SUBSET Run : /\ InWs(X, m) \in Nat /\ InWs(X, m)' \in Nat
                                  /\ InWs(X, m)' <= InWs(X, m)
         /\ InAg(m) \in Nat /\ InAg(m)' \in Nat /\ InAg(m)' <= InAg(m)
<1>a. \A s \in Run \ {r} : /\ at'[s] = at[s] /\ spent'[s] = spent[s]
                           /\ mon'[s] = mon[s] /\ agentMon'[s] = agentMon[s]
  BY DEF LedgerTypeOK, RunTokens, Begin, Lock, CheckWorkspace, CheckAgent, Reserve, RollBack,
         SettleAgent, Tear, Settle, GoesTo
<1>b. \/ /\ {at[r], at'[r]} \cap {"held", "half", "torn", "done"} = {} /\ agentMon'[r] = agentMon[r]
      \/ /\ agentMon'[r] = agentMon[r] /\ mon'[r] = mon[r]
         /\ \/ at[r] = "held" /\ at'[r] = "half"
            \/ at[r] = "half" /\ at'[r] \in {"torn", "done"} /\ spent'[r] = spent[r]
  BY DEF LedgerTypeOK, RunTokens, Begin, Lock, CheckWorkspace, CheckAgent, Reserve, RollBack,
         SettleAgent, Tear, Settle, GoesTo
<1>c. Amount[r] \in Nat /\ spent[r] \in Nat /\ spent'[r] \in Nat
  <2>1. Actual \cup {0} \subseteq Nat
    BY DEF TokenLedgerAssumption
  <2> QED BY <2>1 DEF LedgerTypeOK, TokenLedgerAssumption
<1>1. /\ InWorkspace[r] \in Nat /\ InWorkspace'[r] \in Nat /\ InWorkspace'[r] <= InWorkspace[r]
      /\ InAgent[r] \in Nat /\ InAgent'[r] \in Nat /\ InAgent'[r] <= InAgent[r]
      /\ mon'[r] = mon[r] \/ (InWorkspace'[r] = 0 /\ InWorkspace[r] = 0)
      /\ agentMon'[r] = agentMon[r]
  <2>1. CASE {at[r], at'[r]} \cap {"held", "half", "torn", "done"} = {} /\ agentMon'[r] = agentMon[r]
    <3>1. InWorkspace[r] = 0 /\ InWorkspace'[r] = 0 /\ InAgent[r] = 0 /\ InAgent'[r] = 0
      BY <2>1 DEF InWorkspace, InAgent
    <3> QED BY <2>1, <3>1
  <2>2. CASE /\ agentMon'[r] = agentMon[r] /\ mon'[r] = mon[r] /\ at[r] = "held" /\ at'[r] = "half"
    BY <1>c, <2>2 DEF InWorkspace, InAgent, Drawn
  <2>3. CASE /\ agentMon'[r] = agentMon[r] /\ mon'[r] = mon[r]
             /\ at[r] = "half" /\ at'[r] \in {"torn", "done"} /\ spent'[r] = spent[r]
    BY <1>c, <2>3 DEF InWorkspace, InAgent, Drawn
  <2> QED BY <1>b, <2>1, <2>2, <2>3
<1>2. ASSUME NEW X \in SUBSET Run
      PROVE  InWs(X, m) \in Nat /\ InWs(X, m)' \in Nat /\ InWs(X, m)' <= InWs(X, m)
  <2>1. /\ InWs(X, m) \in Nat /\ InWs(X, m)' \in Nat
        /\ InWs(X, m)' + (IF r \in X /\ mon[r] = m THEN InWorkspace[r] ELSE 0)
             = InWs(X, m) + (IF r \in X /\ mon'[r] = m THEN InWorkspace'[r] ELSE 0)
    BY <1>a, DrawsMove
  <2> QED BY <1>1, <2>1
<1>3. InAg(m) \in Nat /\ InAg(m)' \in Nat /\ InAg(m)' <= InAg(m)
  <2>1. /\ InAg(m) \in Nat /\ InAg(m)' \in Nat
        /\ InAg(m)' + (IF agentMon[r] = m THEN InAgent[r] ELSE 0)
             = InAg(m) + (IF agentMon'[r] = m THEN InAgent'[r] ELSE 0)
    BY <1>a, DrawsMove
  <2> QED BY <1>1, <2>1
<1> QED BY <1>2, <1>3

\* The insert adds its own amount, to what its checks left room for.
LEMMA ReserveStaysWithin ==
  ASSUME TokenLedgerAssumption, LedgerInv, LedgerTypeOK', LimitInv, NEW r \in Run, Reserve(r)
  PROVE  LimitInv'
<1>0. LedgerTypeOK
  BY DEF LedgerInv
<1>1. /\ \A s \in Run \ {r} : /\ at'[s] = at[s] /\ spent'[s] = spent[s]
                              /\ mon'[s] = mon[s] /\ agentMon'[s] = agentMon[s]
      /\ at[r] = "admitted" /\ at'[r] = "held" /\ mon'[r] = mon[r] /\ agentMon'[r] = month
      /\ UNCHANGED <<crossed, month>> /\ month \in Nat
  <2>1. month \in Nat
    BY <1>0 DEF LedgerTypeOK, Month
  <2> QED BY <1>0, <2>1 DEF Reserve, GoesTo, LedgerTypeOK
<1>2. /\ InWorkspace[r] = 0 /\ InAgent[r] = 0
      /\ InWorkspace'[r] = Amount[r] /\ InAgent'[r] = Amount[r]
  BY <1>1 DEF InWorkspace, InAgent
<1>3. OneHolder'
  BY <1>0, HolderStep DEF LimitInv, RunTokens
<1>4. \A s \in Run : at'[s] \notin {"fits", "admitted"}
  <2>1. lock = r
    BY <1>1 DEF LimitInv, OneHolder
  <2> QED BY <1>1, <2>1 DEF LimitInv, OneHolder
<1>5. StillFits'
  BY <1>4 DEF StillFits
<1>6. NoFutureAgentRow'
  BY <1>1 DEF LimitInv, NoFutureAgentRow
<1>7. ASSUME crossed' = {}, NEW m \in Month
      PROVE  InWs(Run \ Scoped, m)' <= WorkspaceLimit /\ InWs(Scoped, m)' <= ProjectLimit
             /\ InAg(m)' <= AgentLimit
  <2>1. /\ InWs(Run \ Scoped, m) <= WorkspaceLimit /\ InWs(Scoped, m) <= ProjectLimit
        /\ InAg(m) <= AgentLimit /\ FitsWorkspace(r) /\ FitsAgent(r)
    BY <1>1, <1>7, WithinSays DEF LimitInv, StillFits
  <2>2. ASSUME NEW X \in SUBSET Run
        PROVE  InWs(X, m)' \in Nat /\ InWs(X, m) \in Nat
               /\ InWs(X, m)' = InWs(X, m) + (IF r \in X /\ mon[r] = m THEN Amount[r] ELSE 0)
    <3>1. /\ InWs(X, m) \in Nat /\ InWs(X, m)' \in Nat
          /\ InWs(X, m)' + (IF r \in X /\ mon[r] = m THEN InWorkspace[r] ELSE 0)
               = InWs(X, m) + (IF r \in X /\ mon'[r] = m THEN InWorkspace'[r] ELSE 0)
      BY <1>0, <1>1, DrawsMove
    <3> QED BY <1>1, <1>2, <3>1
  <2>3. InAg(m)' \in Nat /\ InAg(m) \in Nat /\ InAg(m)' = InAg(m) + (IF month = m THEN Amount[r] ELSE 0)
    <3>1. /\ InAg(m) \in Nat /\ InAg(m)' \in Nat
          /\ InAg(m)' + (IF agentMon[r] = m THEN InAgent[r] ELSE 0)
               = InAg(m) + (IF agentMon'[r] = m THEN InAgent'[r] ELSE 0)
      BY <1>0, <1>1, DrawsMove
    <3> QED BY <1>1, <1>2, <3>1
  <2>4. InAg(m)' <= AgentLimit
    BY <2>1, <2>3 DEF FitsAgent
  <2>5. /\ InWs(Scoped, m)' = InWs(Scoped, m) + (IF r \in Scoped /\ mon[r] = m THEN Amount[r] ELSE 0)
        /\ InWs(Run \ Scoped, m)' =
             InWs(Run \ Scoped, m) + (IF r \in Run \ Scoped /\ mon[r] = m THEN Amount[r] ELSE 0)
        /\ InWs(Scoped, m) \in Nat /\ InWs(Run \ Scoped, m) \in Nat
    BY <2>2, LimitTypes
  <2> QED BY <2>1, <2>4, <2>5 DEF FitsWorkspace
<1>8. RunsWithinLimits'
  <2>1. RunsWithinLimits' <=>
          (crossed' = {} => \A m \in Month : /\ InWs(Run \ Scoped, m)' <= WorkspaceLimit
                                             /\ InWs(Scoped, m)' <= ProjectLimit
                                             /\ InAg(m)' <= AgentLimit)
    BY DEF RunsWithinLimits, InWs, InAg
  <2> QED BY <1>7, <2>1
<1> QED BY <1>3, <1>5, <1>6, <1>8 DEF LimitInv

\* What a check adds up is a number.
LEMMA ProjectedNat ==
  ASSUME TokenLedgerAssumption, LedgerTypeOK, NEW m \in Month, NEW scope \in {"workspace", "agent"},
         NEW B \in SUBSET Backend
  PROVE  Projected(m, scope, B) \in Nat
<1> DEFINE f == [b \in Backend |-> used[<<m, scope, b>>] + reserved[<<m, scope, b>>]]
<1>1. \A b \in Backend : <<m, scope, b>> \in Key
  BY DEF Key
<1>2. IsFiniteSet(B) /\ NatOn(f, B)
  BY <1>1, FS_Subset DEF NatOn, LedgerTypeOK, TokenLedgerAssumption
<1>3. Projected(m, scope, B) = SumFunctionOnSet(f, B)
  BY DEF Projected
<1> HIDE DEF f
<1> QED BY <1>2, <1>3, SumOf

\* Any other step of a run: who is found to fit was checked against rows that cover
\* what the runs draw.
LEMMA RunStaysWithin ==
  ASSUME TokenLedgerAssumption, TokenGatewayAssumption, LedgerInv, LedgerTypeOK', LimitInv, NEW r \in Run,
         RunTokens(r), ~ Reserve(r)
  PROVE  LimitInv'
<1>0. LedgerTypeOK /\ month \in Month /\ \A s \in Run : mon[s] \in Month
  BY DEF LedgerInv, LedgerTypeOK
<1>1. /\ UNCHANGED <<month, agentMon>> /\ crossed \subseteq crossed'
      /\ \A s \in Run : at'[s] \in {"fits", "admitted"} => mon'[s] = mon[s]
      /\ \A s \in Run \ {r} : at'[s] = at[s]
      /\ at'[r] = "fits" => CheckWorkspace(r) /\ Fits(r)
      /\ at'[r] = "admitted" => /\ at[r] = "fits"
                                /\ Projected(month, "agent", Backend) + Amount[r] <= AgentLimit
  BY <1>0 DEF LedgerTypeOK, RunTokens, Begin, Lock, CheckWorkspace, CheckAgent, Reserve, RollBack,
         SettleAgent, Tear, Settle, GoesTo
<1>2. OneHolder'
  BY <1>0, HolderStep DEF LimitInv
<1>3. NoFutureAgentRow'
  BY <1>1 DEF LimitInv, NoFutureAgentRow
<1>4. ASSUME NEW m
      PROVE  /\ InWs(Run \ Scoped, m) \in Nat /\ InWs(Run \ Scoped, m)' \in Nat
             /\ InWs(Run \ Scoped, m)' <= InWs(Run \ Scoped, m)
             /\ InWs(Scoped, m) \in Nat /\ InWs(Scoped, m)' \in Nat /\ InWs(Scoped, m)' <= InWs(Scoped, m)
             /\ InAg(m) \in Nat /\ InAg(m)' \in Nat /\ InAg(m)' <= InAg(m)
  BY <1>0, LimitTypes, OthersDrawNoMore
<1>5. /\ WorkspaceLimit \in Nat /\ ProjectLimit \in Nat /\ AgentLimit \in Nat
      /\ \A s \in Run : Amount[s] \in Nat
  BY LimitTypes
<1>6. StillFits'
  <2> SUFFICES ASSUME crossed' = {}, NEW s \in Run
               PROVE  /\ at'[s] \in {"fits", "admitted"} => FitsWorkspace(s)'
                      /\ at'[s] = "admitted" => FitsAgent(s)'
    BY DEF StillFits
  <2>0. crossed = {}
    BY <1>1
  <2>1. ASSUME FitsWorkspace(s), mon'[s] = mon[s] PROVE FitsWorkspace(s)'
    <3>1. PICK m : m = mon[s] /\ m = mon'[s]
      BY <2>1
    <3>2. /\ FitsWorkspace(s)' <=>
               IF s \in Scoped THEN InWs(Scoped, m)' + Amount[s] <= ProjectLimit
                               ELSE InWs(Run \ Scoped, m)' + Amount[s] <= WorkspaceLimit
          /\ IF s \in Scoped THEN InWs(Scoped, m) + Amount[s] <= ProjectLimit
                             ELSE InWs(Run \ Scoped, m) + Amount[s] <= WorkspaceLimit
      BY <2>1, <3>1 DEF FitsWorkspace, InWs
    <3>3. /\ InWs(Run \ Scoped, m) \in Nat /\ InWs(Run \ Scoped, m)' \in Nat
          /\ InWs(Run \ Scoped, m)' <= InWs(Run \ Scoped, m)
          /\ InWs(Scoped, m) \in Nat /\ InWs(Scoped, m)' \in Nat /\ InWs(Scoped, m)' <= InWs(Scoped, m)
      BY <1>4
    <3> QED BY <1>5, <3>2, <3>3
  <2>2. ASSUME FitsAgent(s) PROVE FitsAgent(s)'
    <3>1. /\ FitsAgent(s)' <=> InAg(month)' + Amount[s] <= AgentLimit
          /\ InAg(month) + Amount[s] <= AgentLimit
      BY <2>2 DEF FitsAgent
    <3>2. InAg(month) \in Nat /\ InAg(month)' \in Nat /\ InAg(month)' <= InAg(month)
      <4> DEFINE m == month
      <4>1. InAg(m)' = InAg(month)'
        BY <1>1 DEF InAg
      <4> QED BY <1>0, <1>1, <1>4, <4>1 DEF InAg
    <3> QED BY <1>5, <3>1, <3>2
  <2>3. ASSUME at'[s] \in {"fits", "admitted"} PROVE FitsWorkspace(s)'
    <3>0. mon'[s] = mon[s]
      BY <1>1, <2>3
    <3>1. CASE at[s] \in {"fits", "admitted"}
      BY <2>0, <2>1, <3>0, <3>1 DEF LimitInv, StillFits
    <3>2. CASE at[s] \notin {"fits", "admitted"}
      <4>1. s = r /\ Fits(r)
        BY <1>1, <2>3, <3>2
      <4> DEFINE m == mon[r]
                 P == Projected(m, "workspace", Backend)
                 Q == Projected(m, "workspace", {BackendOf[r]})
      <4>2. /\ InWs(Run \ Scoped, m) <= P
            /\ r \in Scoped => InWs(Scoped, m) <= Q
        BY <1>0, <2>0, ProjectedCovers
      <4>3. P \in Nat /\ Q \in Nat
        BY <1>0, ProjectedNat DEF TokenLedgerAssumption
      <4>4. IF r \in Scoped THEN Q + Amount[r] <= ProjectLimit ELSE P + Amount[r] <= WorkspaceLimit
        BY <4>1 DEF Fits
      <4>5. InWs(Run \ Scoped, m) \in Nat /\ InWs(Scoped, m) \in Nat
        BY <1>4
      <4> HIDE DEF P, Q, m
      <4>6. IF r \in Scoped THEN InWs(Scoped, m) + Amount[r] <= ProjectLimit
                            ELSE InWs(Run \ Scoped, m) + Amount[r] <= WorkspaceLimit
        BY <1>5, <4>2, <4>3, <4>4, <4>5
      <4>7. FitsWorkspace(s)
        BY <4>1, <4>6 DEF FitsWorkspace, m
      <4> QED BY <2>1, <3>0, <4>7
    <3> QED BY <3>1, <3>2
  <2>4. ASSUME at'[s] = "admitted" PROVE FitsAgent(s)'
    <3>1. CASE at[s] = "admitted"
      BY <2>0, <2>2, <3>1 DEF LimitInv, StillFits
    <3>2. CASE at[s] # "admitted"
      <4>1. s = r /\ Projected(month, "agent", Backend) + Amount[r] <= AgentLimit
        BY <1>1, <2>4, <3>2
      <4>2. InAg(month) <= Projected(month, "agent", Backend)
        BY <1>0, <2>0, ProjectedCovers
      <4>3. Projected(month, "agent", Backend) \in Nat
        BY <1>0, ProjectedNat DEF TokenLedgerAssumption
      <4>4. InAg(month) \in Nat
        BY <1>4
      <4>5. FitsAgent(s)
        BY <1>5, <4>1, <4>2, <4>3, <4>4 DEF FitsAgent
      <4> QED BY <2>2, <4>5
    <3> QED BY <3>1, <3>2
  <2> QED BY <2>3, <2>4
<1>7. RunsWithinLimits'
  <2>1. RunsWithinLimits' <=>
          (crossed' = {} => \A m \in Month : /\ InWs(Run \ Scoped, m)' <= WorkspaceLimit
                                             /\ InWs(Scoped, m)' <= ProjectLimit
                                             /\ InAg(m)' <= AgentLimit)
    BY DEF RunsWithinLimits, InWs, InAg
  <2> SUFFICES ASSUME crossed' = {}, NEW m \in Month
               PROVE  /\ InWs(Run \ Scoped, m)' <= WorkspaceLimit
                      /\ InWs(Scoped, m)' <= ProjectLimit
                      /\ InAg(m)' <= AgentLimit
    BY <2>1
  <2>2. /\ InWs(Run \ Scoped, m) <= WorkspaceLimit /\ InWs(Scoped, m) <= ProjectLimit
        /\ InAg(m) <= AgentLimit
    BY <1>1, WithinSays DEF LimitInv
  <2>3. /\ InWs(Run \ Scoped, m) \in Nat /\ InWs(Run \ Scoped, m)' \in Nat
        /\ InWs(Run \ Scoped, m)' <= InWs(Run \ Scoped, m)
        /\ InWs(Scoped, m) \in Nat /\ InWs(Scoped, m)' \in Nat /\ InWs(Scoped, m)' <= InWs(Scoped, m)
        /\ InAg(m) \in Nat /\ InAg(m)' \in Nat /\ InAg(m)' <= InAg(m)
    BY <1>4
  <2> QED BY <1>5, <2>2, <2>3
<1> QED BY <1>2, <1>3, <1>6, <1>7 DEF LimitInv

\* The turn of the month: no run has a row of the new one yet.
LEMMA MonthStaysWithin ==
  ASSUME TokenLedgerAssumption, LedgerInv, LimitInv, NextMonth
  PROVE  LimitInv'
<1>0. LedgerTypeOK /\ month \in Nat /\ month' = month + 1 /\ month' \in Month
  BY DEF LedgerInv, LedgerTypeOK, Month, NextMonth, TokenLedgerAssumption
<1>1. UNCHANGED <<at, mon, agentMon, spent, crossed, lock>>
  BY DEF NextMonth
<1>2. OneHolder'
  BY <1>1 DEF LimitInv, OneHolder
<1>3. NoFutureAgentRow'
  <2>1. \A r \in Run : agentMon[r] \in Nat
    BY <1>0 DEF LedgerTypeOK, Month
  <2> QED BY <1>0, <1>1, <2>1 DEF LimitInv, NoFutureAgentRow
<1>4. /\ \A X, m : InWs(X, m)' = InWs(X, m)
      /\ \A m : InAg(m)' = InAg(m)
  BY <1>1 DEF InWs, InAg, InWorkspace, InAgent, Drawn
<1>5. RunsWithinLimits'
  BY <1>1 DEF LimitInv, RunsWithinLimits, InWorkspace, InAgent, Drawn
<1>6. StillFits'
  <2> SUFFICES ASSUME crossed' = {}, NEW r \in Run
               PROVE  /\ at'[r] \in {"fits", "admitted"} => FitsWorkspace(r)'
                      /\ at'[r] = "admitted" => FitsAgent(r)'
    BY DEF StillFits
  <2>1. at'[r] \in {"fits", "admitted"} => FitsWorkspace(r)'
    BY <1>1 DEF LimitInv, StillFits, FitsWorkspace, InWs, InWorkspace, Drawn
  <2>2. ASSUME at'[r] = "admitted" PROVE FitsAgent(r)'
    <3>1. {s \in Run : agentMon[s] = month'} = {}
      <4>1. \A s \in Run : agentMon[s] \in Nat /\ agentMon[s] <= month
        BY <1>0 DEF LedgerTypeOK, Month, LimitInv, NoFutureAgentRow
      <4> QED BY <1>0, <4>1
    <3>2. InAg(month)' = SumFunctionOnSet(InAgent', {s \in Run : agentMon[s] = month'})
      BY <1>1 DEF InAg
    <3>3. InAg(month)' = 0
      <4>1. IsFiniteSet({}) /\ NatOn(InAgent', {})
        BY FS_EmptySet DEF NatOn
      <4> QED BY <3>1, <3>2, <4>1, SumOf
    <3>4. InAg(month) + Amount[r] <= AgentLimit /\ InAg(month) \in Nat
      <4>1. FitsAgent(r)
        BY <1>1, <2>2 DEF LimitInv, StillFits
      <4>2. InAg(month) \in Nat
        <5> DEFINE S == {s \in Run : agentMon[s] = month}
        <5>1. IsFiniteSet(S) /\ NatOn(InAgent, S)
          BY <1>0, FS_Subset, WhatARunDraws DEF NatOn, TokenLedgerAssumption
        <5>2. InAg(month) = SumFunctionOnSet(InAgent, S)
          BY DEF InAg
        <5> HIDE DEF S
        <5> QED BY <5>1, <5>2, SumOf
      <4> QED BY <4>1, <4>2 DEF FitsAgent
    <3>5. Amount[r] \in Nat /\ AgentLimit \in Nat
      BY LimitTypes
    <3> QED BY <3>3, <3>4, <3>5 DEF FitsAgent
  <2> QED BY <2>1, <2>2
<1> QED BY <1>2, <1>3, <1>5, <1>6 DEF LimitInv

\* The limits' invariant, through every step of runs, calls and the calendar.
THEOREM LimitInvariance == GatewaySpec => []LimitInv
<1> USE TokenLedgerAssumption, TokenGatewayAssumption
<1>1. GatewayInit => LimitInv
  <2> SUFFICES ASSUME GatewayInit PROVE LimitInv
    OBVIOUS
  <2>1. \A r \in Run : at[r] = "new" /\ agentMon[r] = 1 /\ month = 1
    BY DEF GatewayInit, LedgerInit
  <2>2. OneHolder /\ StillFits /\ NoFutureAgentRow
    BY <2>1 DEF OneHolder, StillFits, NoFutureAgentRow
  <2>3. \A r \in Run : InWorkspace[r] = 0 /\ InAgent[r] = 0
    BY <2>1 DEF InWorkspace, InAgent
  <2>4. ASSUME NEW m PROVE InWs(Run \ Scoped, m) = 0 /\ InWs(Scoped, m) = 0 /\ InAg(m) = 0
    <3>1. Scoped \subseteq Run /\ IsFiniteSet(Run)
      BY DEF TokenLedgerAssumption
    <3>2. /\ IsFiniteSet({r \in Run \ Scoped : mon[r] = m}) /\ IsFiniteSet({r \in Scoped : mon[r] = m})
          /\ IsFiniteSet({r \in Run : agentMon[r] = m})
      BY <3>1, FS_Subset
    <3>3. /\ \A r \in {s \in Run \ Scoped : mon[s] = m} : InWorkspace[r] = 0
          /\ \A r \in {s \in Scoped : mon[s] = m} : InWorkspace[r] = 0
          /\ \A r \in {s \in Run : agentMon[s] = m} : InAgent[r] = 0
      BY <2>3, <3>1
    <3> QED BY <3>2, <3>3, SumNone DEF InWs, InAg
  <2>5. RunsWithinLimits
    <3>1. 0 <= WorkspaceLimit /\ 0 <= ProjectLimit /\ 0 <= AgentLimit
      BY LimitTypes
    <3> QED BY <2>4, <3>1, WithinSays
  <2> QED BY <2>2, <2>5 DEF LimitInv
<1>2. LedgerInv /\ LedgerInv' /\ LimitInv /\ [GatewayNext]_vars => LimitInv'
  <2> SUFFICES ASSUME LedgerInv, LedgerInv', LimitInv, [GatewayNext]_vars PROVE LimitInv'
    OBVIOUS
  <2>0. LedgerTypeOK'
    BY DEF LedgerInv
  <2>a. ASSUME UNCHANGED <<month, lock, at, mon, agentMon, spent, crossed>> PROVE LimitInv'
    BY <2>a DEF LimitInv, OneHolder, NoFutureAgentRow, StillFits, FitsWorkspace, FitsAgent, RunsWithinLimits,
                InWs, InAg, InWorkspace, InAgent, Drawn
  <2>1. ASSUME NEW c \in Call, Invoke(c) \/ InvokeThrows(c) \/ Break(c) \/ Goes(c) PROVE LimitInv'
    <3>1. UNCHANGED <<month, lock, at, mon, agentMon, spent, crossed>>
      BY <2>1 DEF Invoke, InvokeThrows, Break, Goes, CheckBudget, ReserveForCall, Enqueue, Answer, GiveUp,
                  Consume, ledgerVars
    <3> QED BY <2>a, <3>1
  <2>2. ASSUME NEW r \in Run, RunTokens(r) PROVE LimitInv'
    BY <2>0, <2>2, ReserveStaysWithin, RunStaysWithin
  <2>3. CASE NextMonth
    BY <2>3, MonthStaysWithin
  <2>4. CASE UNCHANGED vars
    BY <2>4, <2>a DEF vars, ledgerVars
  <2> QED BY <2>1, <2>2, <2>3, <2>4 DEF GatewayNext
<1> QED BY <1>1, <1>2, LedgerInvariance, PTL DEF GatewaySpec

\* Runs never draw more than a limit from a bucket.
THEOREM LimitsHold == GatewaySpec => []RunsWithinLimits
<1>1. LimitInv => RunsWithinLimits
  BY DEF LimitInv
<1> QED BY <1>1, LimitInvariance, PTL
=============================================================================

----------------------------- MODULE FoldFacts ------------------------------
(***************************************************************************)
(* Facts that the proofs about the components share: of numbers, of the    *)
(* sums, the flattening and the enumeration of the community modules, and  *)
(* of functions that are defined by recursion.                             *)
(*                                                                         *)
(* The library's induction theorems take operators, which the provers here *)
(* cannot instantiate; induction is restated over sets, from the existence *)
(* of least numbers and of minimal sets.  A recursive definition chooses a *)
(* function that satisfies its equation; that there is one has to be       *)
(* shown, and is: step by step, or from a rank that every step lowers.     *)
(***************************************************************************)
EXTENDS Integers, SequencesExt, FiniteSetTheorems, SequenceTheorems, WellFoundedInduction, TLAPS

\* A set of numbers that is not empty has a least one.
LEMMA NatLeast ==
  ASSUME NEW U \in SUBSET Nat, U # {}
  PROVE  \E m \in U : \A n \in U : m <= n
<1> DEFINE Less == OpToRel(<, Nat)
<1>1. IsWellFoundedOn(Less, Nat)
  BY NatLessThanWellFounded DEF OpToRel
<1>2. \A n, m \in Nat : n < m => <<n, m>> \in Less
  BY DEF OpToRel
<1> HIDE DEF Less
<1>3. PICK m \in U : \A n \in U : ~ (<<n, m>> \in Less)
  BY <1>1, WFMin
<1>4. \A n \in U : ~ (n < m)
  BY <1>2, <1>3
<1>5. \A n \in U : m <= n
  BY <1>4
<1> QED BY <1>5

\* A set of numbers that has 0 and, with each number, the next, has all of them.
LEMMA NatInduct ==
  ASSUME NEW T, 0 \in T, \A n \in Nat : n \in T => n + 1 \in T
  PROVE  Nat \subseteq T
<1> SUFFICES ASSUME Nat \ T # {} PROVE FALSE
  OBVIOUS
<1>1. PICK m \in Nat \ T : \A n \in Nat \ T : m <= n
  BY NatLeast
<1>2. m - 1 \in Nat /\ m - 1 \in T /\ m = (m - 1) + 1
  BY <1>1
<1> QED BY <1>2

\* Without one of its members, a set has one member less.
LEMMA LessOne ==
  ASSUME NEW T, IsFiniteSet(T), NEW x \in T
  PROVE  /\ IsFiniteSet(T \ {x}) /\ Cardinality(T \ {x}) \in Nat
         /\ \A n \in Nat : Cardinality(T) <= n + 1 => Cardinality(T \ {x}) <= n
         /\ \A n \in Nat : Cardinality(T) = n + 1 => Cardinality(T \ {x}) = n
<1>1. Cardinality(T) \in Nat /\ IsFiniteSet(T \ {x}) /\ Cardinality(T \ {x}) = Cardinality(T) - 1
  BY FS_RemoveElement, FS_CardinalityType
<1>2. Cardinality(T \ {x}) \in Nat
  BY <1>1, FS_CardinalityType
<1>3. \A c, n \in Nat : (c <= n + 1 => c - 1 <= n) /\ (c = n + 1 => c - 1 = n)
  OBVIOUS
<1> QED BY <1>1, <1>2, <1>3

\* A set of sets that has the empty one and, with each part of a finite set, the part
\* with one more member, has the whole.
LEMMA SetInduct ==
  ASSUME NEW S, IsFiniteSet(S), NEW P, {} \in P,
         \A T \in SUBSET S, x \in S : T \in P /\ x \notin T => T \cup {x} \in P
  PROVE  S \in P
<1> DEFINE N == {n \in Nat : \A T \in SUBSET S : IsFiniteSet(T) /\ Cardinality(T) = n => T \in P}
<1>1. 0 \in N
  BY FS_EmptySet
<1>2. ASSUME NEW n \in Nat, n \in N PROVE n + 1 \in N
  <2> SUFFICES ASSUME NEW T \in SUBSET S, IsFiniteSet(T), Cardinality(T) = n + 1 PROVE T \in P
    OBVIOUS
  <2>1. T # {}
    BY FS_EmptySet
  <2>2. PICK x \in T : TRUE
    BY <2>1
  <2>3. IsFiniteSet(T \ {x}) /\ Cardinality(T \ {x}) = n
    BY LessOne
  <2>4. T \ {x} \in P
    BY <1>2, <2>3
  <2>5. T = (T \ {x}) \cup {x}
    OBVIOUS
  <2>6. (T \ {x}) \cup {x} \in P
    BY <2>4
  <2> QED BY <2>5, <2>6
<1>3. Nat \subseteq N
  <2> HIDE DEF N
  <2> QED BY <1>1, <1>2, NatInduct
<1>4. Cardinality(S) \in N
  BY <1>3, FS_CardinalityType
<1> QED BY <1>4

-----------------------------------------------------------------------------
\* A set from which one member is taken, or to which one is added.
LEMMA OneMember ==
  ASSUME NEW S, NEW T, NEW x, IsFiniteSet(S), S \ {x} = T \ {x}
  PROVE  IsFiniteSet(T) /\ IsFiniteSet(S \ {x})
<1>1. IsFiniteSet(S \ {x})
  BY FS_RemoveElement
<1>2. IsFiniteSet((T \ {x}) \cup {x})
  BY <1>1, FS_AddElement
<1> QED BY <1>1, <1>2, FS_Subset

Pick(s) == CHOOSE x \in s : TRUE
SumRule(g, f, S) == g = [s \in SUBSET S |-> IF s = {} THEN 0 ELSE f[Pick(s)] + g[s \ {Pick(s)}]]

\* The library's fold, spelt out.
LEMMA SumDef ==
  ASSUME NEW f, NEW S
  PROVE  SumFunctionOnSet(f, S) = (CHOOSE g : SumRule(g, f, S))[S]
  BY DEF SumFunctionOnSet, FoldFunctionOnSet, MapThenFoldSet, SumRule, Pick

\* Its recursive function exists.
LEMMA SumExists ==
  ASSUME NEW f, NEW S, IsFiniteSet(S)
  PROVE  \E g : SumRule(g, f, S)
<1> DEFINE D(n) == {s \in SUBSET S : Cardinality(s) <= n}
<1>0. ASSUME NEW s \in SUBSET S
      PROVE  /\ IsFiniteSet(s) /\ Cardinality(s) \in Nat
             /\ s # {} => Pick(s) \in s
             /\ Cardinality(s) <= 0 => s = {}
  <2>1. IsFiniteSet(s) /\ Cardinality(s) \in Nat
    BY FS_Subset, FS_CardinalityType
  <2>2. s # {} => Pick(s) \in s
    BY DEF Pick
  <2>3. Cardinality(s) = 0 => s = {}
    BY <2>1, FS_EmptySet
  <2> QED BY <2>1, <2>2, <2>3
<1>a. /\ \A s \in D(0) : s = {}
      /\ \A n \in Nat : D(n) \subseteq D(n + 1)
      /\ \A n \in Nat : \A s \in D(n + 1) : s # {} => s \ {Pick(s)} \in D(n)
      /\ D(Cardinality(S)) = SUBSET S
  <2>1. \A s \in D(0) : s = {}
    BY <1>0
  <2>2. \A n \in Nat : D(n) \subseteq D(n + 1)
    <3>1. \A c, n \in Nat : c <= n => c <= n + 1
      OBVIOUS
    <3> QED BY <1>0, <3>1
  <2>3. ASSUME NEW n \in Nat, NEW s \in D(n + 1), s # {} PROVE s \ {Pick(s)} \in D(n)
    BY <1>0, <2>3, LessOne
  <2>4. D(Cardinality(S)) = SUBSET S
    BY FS_Subset
  <2> QED BY <2>1, <2>2, <2>3, <2>4
<1> HIDE DEF D
<1> DEFINE Rule(g, n) == g = [s \in D(n) |-> IF s = {} THEN 0 ELSE f[Pick(s)] + g[s \ {Pick(s)}]]
           N == {n \in Nat : \E g : Rule(g, n)}
<1>1. 0 \in N
  <2> DEFINE g == [s \in D(0) |-> 0]
  <2>2. Rule(g, 0)
    BY <1>a
  <2> QED BY <2>2
<1>2. ASSUME NEW n \in Nat, n \in N PROVE n + 1 \in N
  <2>1. PICK g : Rule(g, n)
    BY <1>2
  <2> DEFINE h == [s \in D(n + 1) |-> IF s = {} THEN 0 ELSE f[Pick(s)] + g[s \ {Pick(s)}]]
  <2>2. ASSUME NEW s \in D(n) PROVE h[s] = g[s]
    <3>1. s \in D(n + 1)
      BY <1>a
    <3>2. g[s] = IF s = {} THEN 0 ELSE f[Pick(s)] + g[s \ {Pick(s)}]
      BY <2>1
    <3> QED BY <3>1, <3>2
  <2>3. ASSUME NEW s \in D(n + 1), s # {} PROVE s \ {Pick(s)} \in D(n)
    BY <1>a, <2>3
  <2>4. ASSUME NEW s \in D(n + 1), s # {} PROVE h[s] = f[Pick(s)] + h[s \ {Pick(s)}]
    <3>1. h[s] = f[Pick(s)] + g[s \ {Pick(s)}]
      BY <2>4
    <3> HIDE DEF h
    <3> QED BY <2>2, <2>3, <2>4, <3>1
  <2>5. Rule(h, n + 1)
    <3>1. DOMAIN h = D(n + 1) /\ h = [s \in DOMAIN h |-> h[s]]
      OBVIOUS
    <3>2. ASSUME NEW s \in D(n + 1)
          PROVE  h[s] = IF s = {} THEN 0 ELSE f[Pick(s)] + h[s \ {Pick(s)}]
      <4>1. s = {} => h[s] = 0
        OBVIOUS
      <4> HIDE DEF h
      <4> QED BY <2>4, <4>1
    <3> HIDE DEF h
    <3> QED BY <3>1, <3>2
  <2> HIDE DEF h, Rule
  <2> QED BY <2>5
<1>3. Nat \subseteq N
  <2> HIDE DEF N
  <2> QED BY <1>1, <1>2, NatInduct
<1>4. PICK g : Rule(g, Cardinality(S))
  BY <1>3, FS_CardinalityType
<1> QED BY <1>a, <1>4 DEF SumRule

\* The fold takes its summands in an order of its own; any member may come first.
LEMMA SumAny ==
  ASSUME NEW f, NEW S, IsFiniteSet(S), \A x \in S : f[x] \in Nat, NEW g, SumRule(g, f, S)
  PROVE  /\ g[{}] = 0
         /\ \A s \in SUBSET S : g[s] \in Nat /\ \A x \in s : g[s] = f[x] + g[s \ {x}]
<1> DEFINE OfAny(s) == g[s] \in Nat /\ \A x \in s : g[s] = f[x] + g[s \ {x}]
           N == {n \in Nat : \A s \in SUBSET S : Cardinality(s) <= n => OfAny(s)}
<1>1. g[{}] = 0 /\ \A s \in SUBSET S : s # {} => g[s] = f[Pick(s)] + g[s \ {Pick(s)}]
  BY DEF SumRule
<1>0. OfAny({})
  BY <1>1
<1>2. \A s \in SUBSET S : IsFiniteSet(s) /\ Cardinality(s) \in Nat
  BY FS_Subset, FS_CardinalityType
<1>3. 0 \in N
  <2>1. \A c \in Nat : c <= 0 => c = 0
    OBVIOUS
  <2>2. ASSUME NEW s \in SUBSET S, Cardinality(s) <= 0 PROVE s = {}
    BY <1>2, <2>1, <2>2, FS_EmptySet
  <2> HIDE DEF OfAny
  <2> QED BY <1>0, <2>2
<1>4. ASSUME NEW n \in Nat, n \in N PROVE n + 1 \in N
  <2> HIDE DEF OfAny
  <2> SUFFICES ASSUME NEW s \in SUBSET S, Cardinality(s) <= n + 1, s # {} PROVE OfAny(s)
    BY <1>0
  <2> USE DEF OfAny
  <2> DEFINE y == Pick(s)
             t == s \ {y}
  <2>0. \A u \in SUBSET S : Cardinality(u) <= n => OfAny(u)
    BY <1>4
  <2>2. y \in s
    BY DEF Pick
  <2>3. \A x \in s : s \ {x} \in SUBSET S /\ OfAny(s \ {x})
    <3>1. \A x \in s : s \ {x} \in SUBSET S /\ Cardinality(s \ {x}) <= n
      BY <1>2, LessOne
    <3> HIDE DEF OfAny, N
    <3> QED BY <2>0, <3>1
  <2>4. g[s] = f[y] + g[t]
    BY <1>1
  <2>5. OfAny(t) /\ \A x \in s : f[x] \in Nat
    BY <2>2, <2>3
  <2> HIDE DEF y, N
  <2>6. g[s] \in Nat
    BY <2>2, <2>4, <2>5
  <2>7. ASSUME NEW x \in s PROVE g[s] = f[x] + g[s \ {x}]
    <3>1. CASE x = y
      BY <2>4, <3>1
    <3>2. CASE x # y
      <4> DEFINE u == t \ {x}
      <4>1. x \in t /\ y \in s \ {x} /\ (s \ {x}) \ {y} = u
        BY <2>2, <3>2
      <4>2. g[t] = f[x] + g[u]
        BY <2>5, <4>1
      <4>3. OfAny(s \ {x})
        BY <2>3
      <4>4. g[s \ {x}] = f[y] + g[u]
        BY <4>1, <4>3
      <4>5. f[x] \in Nat /\ f[y] \in Nat
        BY <2>2, <2>5
      <4>6. g[u] \in Nat
        <5>1. IsFiniteSet(t) /\ Cardinality(u) <= n
          <6>1. t \in SUBSET S /\ u \in SUBSET S
            OBVIOUS
          <6>2. Cardinality(t) <= n /\ Cardinality(t) \in Nat /\ Cardinality(u) \in Nat
            BY <1>2, <2>2, <6>1, LessOne
          <6>3. Cardinality(u) <= Cardinality(t)
            BY <1>2, <6>1, FS_Subset
          <6> HIDE DEF t, u
          <6> QED BY <1>2, <6>1, <6>2, <6>3
        <5>2. u \in SUBSET S
          OBVIOUS
        <5> HIDE DEF u
        <5> QED BY <2>0, <5>1, <5>2
      <4> HIDE DEF u, t
      <4> QED BY <2>4, <4>2, <4>4, <4>5, <4>6
    <3> QED BY <3>1, <3>2
  <2> QED BY <2>6, <2>7
<1>5. Nat \subseteq N
  <2> HIDE DEF N
  <2> QED BY <1>3, <1>4, NatInduct
<1>6. ASSUME NEW s \in SUBSET S PROVE OfAny(s)
  <2>1. Cardinality(s) \in N /\ Cardinality(s) <= Cardinality(s)
    <3> HIDE DEF N
    <3> QED BY <1>2, <1>5
  <2> HIDE DEF OfAny
  <2> QED BY <2>1
<1> QED BY <1>1, <1>6

\* What is summed are natural numbers.
NatOn(f, S) == \A x \in S : f[x] \in Nat

\* A sum of natural numbers is one, and each summand is added to the sum of the others.
LEMMA SumOf ==
  ASSUME NEW f, NEW S, IsFiniteSet(S), NatOn(f, S)
  PROVE  /\ SumFunctionOnSet(f, {}) = 0
         /\ SumFunctionOnSet(f, S) \in Nat
         /\ \A x \in S : SumFunctionOnSet(f, S) = f[x] + SumFunctionOnSet(f, S \ {x})
<1> DEFINE G(T) == CHOOSE g : SumRule(g, f, T)
<1>1. ASSUME NEW T \in SUBSET S
      PROVE  /\ IsFiniteSet(T) /\ SumRule(G(T), f, T) /\ SumFunctionOnSet(f, T) = G(T)[T]
             /\ G(T)[{}] = 0
             /\ \A s \in SUBSET T : G(T)[s] \in Nat /\ \A x \in s : G(T)[s] = f[x] + G(T)[s \ {x}]
  <2>1. IsFiniteSet(T) /\ \A x \in T : f[x] \in Nat
    BY FS_Subset DEF NatOn
  <2>2. SumRule(G(T), f, T)
    BY <2>1, SumExists
  <2>3. SumFunctionOnSet(f, T) = G(T)[T]
    BY SumDef
  <2> HIDE DEF G
  <2>4. PICK g : g = G(T)
    OBVIOUS
  <2>5. g[{}] = 0 /\ \A s \in SUBSET T : g[s] \in Nat /\ \A x \in s : g[s] = f[x] + g[s \ {x}]
    <3>1. SumRule(g, f, T)
      BY <2>2, <2>4
    <3>2. IsFiniteSet(T) /\ \A x \in T : f[x] \in Nat
      BY <2>1
    <3> QED BY <3>1, <3>2, SumAny
  <2> QED BY <2>1, <2>2, <2>3, <2>4, <2>5
<1> HIDE DEF G
<1>s. S \in SUBSET S
  OBVIOUS
<1>2. ASSUME NEW T \in SUBSET S PROVE G(T)[T] = G(S)[T]
  <2> DEFINE P == {s \in SUBSET T : G(T)[s] = G(S)[s]}
  <2>1. {} \in P
    BY <1>1, <1>s
  <2>2. ASSUME NEW s \in SUBSET T, NEW x \in T, s \in P, x \notin s PROVE s \cup {x} \in P
    <3>1. (s \cup {x}) \ {x} = s /\ s \cup {x} \in SUBSET T /\ s \cup {x} \in SUBSET S
      BY <2>2
    <3>2. x \in s \cup {x}
      OBVIOUS
    <3>3. G(T)[s \cup {x}] = f[x] + G(T)[(s \cup {x}) \ {x}]
      BY <1>1, <3>1, <3>2
    <3>4. G(S)[s \cup {x}] = f[x] + G(S)[(s \cup {x}) \ {x}]
      BY <1>1, <1>s, <3>1, <3>2
    <3> QED BY <2>2, <3>1, <3>3, <3>4
  <2>3. T \in P
    <3> HIDE DEF P
    <3> QED BY <1>1, <2>1, <2>2, SetInduct
  <2> QED BY <2>3
<1>3. SumFunctionOnSet(f, {}) = 0
  BY <1>1
<1>4. SumFunctionOnSet(f, S) \in Nat
  BY <1>1
<1>5. ASSUME NEW x \in S PROVE SumFunctionOnSet(f, S) = f[x] + SumFunctionOnSet(f, S \ {x})
  <2>1. S \ {x} \in SUBSET S
    OBVIOUS
  <2>2. SumFunctionOnSet(f, S) = G(S)[S] /\ SumFunctionOnSet(f, S \ {x}) = G(S)[S \ {x}]
    BY <1>1, <1>2, <1>s, <2>1
  <2>3. G(S)[S] = f[x] + G(S)[S \ {x}]
    BY <1>1, <1>s
  <2> QED BY <2>2, <2>3
<1> QED BY <1>3, <1>4, <1>5

\* The sum over two sets that share no member is the sum of their sums.
LEMMA SumUnion ==
  ASSUME NEW f, NEW S, NEW T, IsFiniteSet(S), IsFiniteSet(T), NatOn(f, S \cup T), S \cap T = {}
  PROVE  SumFunctionOnSet(f, S \cup T) = SumFunctionOnSet(f, S) + SumFunctionOnSet(f, T)
<1> DEFINE Tot(s) == SumFunctionOnSet(f, s)
           P == {t \in SUBSET T : Tot(S \cup t) = Tot(S) + Tot(t)}
<1>1. ASSUME NEW s \in SUBSET (S \cup T)
      PROVE  /\ IsFiniteSet(s) /\ Tot({}) = 0 /\ Tot(s) \in Nat
             /\ \A x \in s : Tot(s) = f[x] + Tot(s \ {x})
  <2>1. IsFiniteSet(s) /\ NatOn(f, s)
    <3>1. IsFiniteSet(S \cup T)
      BY FS_Union
    <3> QED BY <3>1, FS_Subset DEF NatOn
  <2> QED BY <2>1, SumOf
<1> HIDE DEF Tot
<1>2. {} \in P
  <2>1. S \cup {} = S /\ Tot(S) \in Nat /\ Tot({}) = 0
    BY <1>1
  <2> QED BY <2>1
<1>3. ASSUME NEW t \in SUBSET T, NEW x \in T, t \in P, x \notin t PROVE t \cup {x} \in P
  <2> DEFINE a == S \cup (t \cup {x})
             b == t \cup {x}
  <2>1. a \ {x} = S \cup t /\ b \ {x} = t /\ x \in a /\ x \in b
    BY <1>3
  <2>2. a \in SUBSET (S \cup T) /\ b \in SUBSET (S \cup T) /\ t \in SUBSET (S \cup T) /\ S \in SUBSET (S \cup T)
    OBVIOUS
  <2>3. Tot(a) = f[x] + Tot(S \cup t) /\ Tot(b) = f[x] + Tot(t)
    BY <1>1, <2>1, <2>2
  <2>4. f[x] \in Nat /\ Tot(S) \in Nat /\ Tot(t) \in Nat
    BY <1>1, <2>2 DEF NatOn
  <2>5. Tot(S \cup t) = Tot(S) + Tot(t)
    BY <1>3
  <2>6. Tot(a) = Tot(S) + Tot(b)
    <3> HIDE DEF a, b
    <3> QED BY <2>3, <2>4, <2>5
  <2> QED BY <2>6
<1>4. T \in P
  <2> HIDE DEF P
  <2> QED BY <1>2, <1>3, SetInduct
<1> QED BY <1>4 DEF Tot

\* Summand by summand at most as much makes at most as much.
LEMMA SumLess ==
  ASSUME NEW f, NEW h, NEW S, IsFiniteSet(S), NatOn(f, S), NatOn(h, S), \A x \in S : f[x] <= h[x]
  PROVE  SumFunctionOnSet(f, S) <= SumFunctionOnSet(h, S)
<1> DEFINE F(s) == SumFunctionOnSet(f, s)
           H(s) == SumFunctionOnSet(h, s)
           P == {s \in SUBSET S : F(s) <= H(s)}
<1>1. ASSUME NEW s \in SUBSET S
      PROVE  /\ F({}) = 0 /\ F(s) \in Nat /\ \A x \in s : F(s) = f[x] + F(s \ {x})
             /\ H({}) = 0 /\ H(s) \in Nat /\ \A x \in s : H(s) = h[x] + H(s \ {x})
  <2>1. IsFiniteSet(s) /\ NatOn(f, s) /\ NatOn(h, s)
    BY FS_Subset DEF NatOn
  <2> QED BY <2>1, SumOf
<1> HIDE DEF F, H
<1>2. {} \in P
  BY <1>1
<1>3. ASSUME NEW s \in SUBSET S, NEW x \in S, s \in P, x \notin s PROVE s \cup {x} \in P
  <2> DEFINE a == s \cup {x}
  <2>1. a \ {x} = s /\ a \in SUBSET S /\ x \in a
    BY <1>3
  <2>2. F(a) = f[x] + F(s) /\ H(a) = h[x] + H(s)
    BY <1>1, <2>1
  <2>3. F(s) \in Nat /\ H(s) \in Nat /\ f[x] \in Nat /\ h[x] \in Nat /\ f[x] <= h[x] /\ F(s) <= H(s)
    BY <1>1, <1>3 DEF NatOn
  <2>4. F(a) <= H(a)
    <3> HIDE DEF a
    <3> QED BY <2>2, <2>3
  <2> QED BY <2>1, <2>4
<1>4. S \in P
  <2> HIDE DEF P
  <2> QED BY <1>2, <1>3, SetInduct
<1> QED BY <1>4 DEF F, H

\* A part sums to at most the whole.
LEMMA SumPart ==
  ASSUME NEW f, NEW S, NEW T \in SUBSET S, IsFiniteSet(S), NatOn(f, S)
  PROVE  SumFunctionOnSet(f, T) \in Nat /\ SumFunctionOnSet(f, T) <= SumFunctionOnSet(f, S)
<1>1. IsFiniteSet(T) /\ IsFiniteSet(S \ T) /\ NatOn(f, T) /\ NatOn(f, S \ T)
  BY FS_Subset DEF NatOn
<1>2. T \cup (S \ T) = S /\ T \cap (S \ T) = {}
  OBVIOUS
<1>3. SumFunctionOnSet(f, S) = SumFunctionOnSet(f, T) + SumFunctionOnSet(f, S \ T)
  BY <1>1, <1>2, SumUnion
<1>4. SumFunctionOnSet(f, T) \in Nat /\ SumFunctionOnSet(f, S \ T) \in Nat
  BY <1>1, SumOf
<1> QED BY <1>3, <1>4

\* Equal summands make equal sums.
LEMMA SumSame ==
  ASSUME NEW f, NEW h, NEW S, IsFiniteSet(S), NatOn(f, S), \A x \in S : f[x] = h[x]
  PROVE  SumFunctionOnSet(f, S) = SumFunctionOnSet(h, S)
<1>1. NatOn(h, S) /\ \A x \in S : f[x] <= h[x] /\ h[x] <= f[x]
  BY DEF NatOn
<1>2. SumFunctionOnSet(f, S) <= SumFunctionOnSet(h, S) /\ SumFunctionOnSet(h, S) <= SumFunctionOnSet(f, S)
  BY <1>1, SumLess
<1>3. SumFunctionOnSet(f, S) \in Nat /\ SumFunctionOnSet(h, S) \in Nat
  BY <1>1, SumOf
<1> QED BY <1>2, <1>3

\* Summands that are all 0 sum to 0.
LEMMA SumNone ==
  ASSUME NEW f, NEW S, IsFiniteSet(S), \A x \in S : f[x] = 0
  PROVE  SumFunctionOnSet(f, S) = 0
<1> DEFINE F(s) == SumFunctionOnSet(f, s)
           P == {s \in SUBSET S : F(s) = 0}
<1>1. ASSUME NEW s \in SUBSET S PROVE F({}) = 0 /\ \A x \in s : F(s) = F(s \ {x}) /\ F(s) \in Nat
  <2>1. IsFiniteSet(s) /\ NatOn(f, s)
    BY FS_Subset DEF NatOn
  <2>2. F({}) = 0 /\ F(s) \in Nat /\ \A x \in s : F(s) = f[x] + F(s \ {x}) /\ f[x] = 0 /\ F(s \ {x}) \in Nat
    BY <2>1, SumOf, SumPart
  <2> HIDE DEF F
  <2> QED BY <2>2
<1> HIDE DEF F
<1>2. {} \in P
  BY <1>1
<1>3. ASSUME NEW T \in SUBSET S, NEW x \in S, T \in P, x \notin T PROVE T \cup {x} \in P
  <2>1. F(T \cup {x}) = F((T \cup {x}) \ {x}) /\ (T \cup {x}) \ {x} = T
    BY <1>1, <1>3
  <2> QED BY <1>3, <2>1
<1>4. S \in P
  <2> HIDE DEF P
  <2> QED BY <1>2, <1>3, SetInduct
<1> QED BY <1>4 DEF F

\* What one member contributes, if it is one.
Summand(f, S, x) == IF x \in S THEN f[x] ELSE 0

\* A sum of which one summand changes, comes or goes.
LEMMA SumMoves ==
  ASSUME NEW f, NEW h, NEW S, NEW T, NEW x, IsFiniteSet(S), S \ {x} = T \ {x},
         NatOn(f, S), NatOn(h, T), \A y \in S \ {x} : f[y] = h[y]
  PROVE  /\ SumFunctionOnSet(f, S) \in Nat /\ SumFunctionOnSet(h, T) \in Nat
         /\ Summand(f, S, x) \in Nat /\ Summand(h, T, x) \in Nat
         /\ SumFunctionOnSet(h, T) + Summand(f, S, x) = SumFunctionOnSet(f, S) + Summand(h, T, x)
<1> DEFINE R == S \ {x}
           F(s) == SumFunctionOnSet(f, s)
           H(s) == SumFunctionOnSet(h, s)
<1>1. IsFiniteSet(R) /\ IsFiniteSet(T) /\ NatOn(f, R)
  BY OneMember DEF NatOn
<1>2. F(R) = H(R) /\ F(R) \in Nat
  BY <1>1, SumSame, SumOf
<1>3. F(S) = F(R) + Summand(f, S, x) /\ Summand(f, S, x) \in Nat
  <2>1. CASE x \in S
    <3>1. F(S) = f[x] + F(R)
      BY <2>1, SumOf
    <3>2. f[x] \in Nat /\ Summand(f, S, x) = f[x]
      BY <2>1 DEF NatOn, Summand
    <3> HIDE DEF F, R
    <3> QED BY <1>2, <3>1, <3>2
  <2>2. CASE x \notin S
    <3>1. R = S /\ Summand(f, S, x) = 0
      BY <2>2 DEF Summand
    <3> HIDE DEF F, R
    <3> QED BY <1>2, <3>1
  <2> QED BY <2>1, <2>2
<1>4. H(T) = H(R) + Summand(h, T, x) /\ Summand(h, T, x) \in Nat
  <2>1. CASE x \in T
    <3>1. H(T) = h[x] + H(R)
      BY <1>1, <2>1, SumOf
    <3>2. h[x] \in Nat /\ Summand(h, T, x) = h[x]
      BY <2>1 DEF NatOn, Summand
    <3>3. H(R) \in Nat
      BY <1>2
    <3> HIDE DEF H, R
    <3> QED BY <3>1, <3>2, <3>3
  <2>2. CASE x \notin T
    <3>1. R = T /\ Summand(h, T, x) = 0
      BY <2>2 DEF Summand
    <3>2. H(R) \in Nat
      BY <1>2
    <3> HIDE DEF H, R
    <3> QED BY <3>1, <3>2
  <2> QED BY <2>1, <2>2
<1>5. F(S) \in Nat /\ H(T) \in Nat
  <2> HIDE DEF F, H, R
  <2> QED BY <1>2, <1>3, <1>4
<1>6. H(T) + Summand(f, S, x) = F(S) + Summand(h, T, x)
  <2> HIDE DEF F, H, R
  <2> QED BY <1>2, <1>3, <1>4, <1>5
<1> QED BY <1>3, <1>4, <1>5, <1>6

\* A sum covered in two parts, outside of which there is nothing.
LEMMA SumParts ==
  ASSUME NEW f, NEW g, NEW h, NEW S, IsFiniteSet(S), NatOn(f, S),
         NEW O \in SUBSET S, NEW D \in SUBSET S, O \cap D = {}, NatOn(g, O), NatOn(h, D),
         \A x \in O : f[x] <= g[x], \A x \in D : f[x] <= h[x], \A x \in S \ (O \cup D) : f[x] = 0
  PROVE  SumFunctionOnSet(f, S) <= SumFunctionOnSet(g, O) + SumFunctionOnSet(h, D)
<1> DEFINE R == S \ (O \cup D)
           F(s) == SumFunctionOnSet(f, s)
<1>1. /\ IsFiniteSet(O) /\ IsFiniteSet(D) /\ IsFiniteSet(R) /\ IsFiniteSet(O \cup D)
      /\ NatOn(f, O) /\ NatOn(f, D) /\ NatOn(f, R) /\ NatOn(f, O \cup D)
  BY FS_Subset DEF NatOn
<1>2. F(S) = F(O \cup D) + F(R)
  <2>1. S = (O \cup D) \cup R /\ (O \cup D) \cap R = {}
    OBVIOUS
  <2> HIDE DEF R
  <2> QED BY <1>1, <2>1, SumUnion
<1>3. F(O \cup D) = F(O) + F(D)
  BY <1>1, SumUnion
<1>4. F(R) = 0
  BY <1>1, SumNone
<1>5. F(O) <= SumFunctionOnSet(g, O) /\ F(D) <= SumFunctionOnSet(h, D)
  BY <1>1, SumLess
<1>6. F(O) \in Nat /\ F(D) \in Nat /\ SumFunctionOnSet(g, O) \in Nat /\ SumFunctionOnSet(h, D) \in Nat
  BY <1>1, SumOf
<1> HIDE DEF F
<1> QED BY <1>2, <1>3, <1>4, <1>5, <1>6 DEF F

\* If each bucket covers the sum of its own, the buckets cover the sum of all.
LEMMA SumGroups ==
  ASSUME NEW f, NEW g, NEW B, NEW R, NEW c, IsFiniteSet(B), IsFiniteSet(R),
         NatOn(f, B), NatOn(g, R), \A r \in R : c[r] \in B,
         \A b \in B : SumFunctionOnSet(g, {r \in R : c[r] = b}) <= f[b]
  PROVE  SumFunctionOnSet(g, R) <= SumFunctionOnSet(f, B)
<1> DEFINE Own(s) == {r \in R : c[r] \in s}
           F(s) == SumFunctionOnSet(f, s)
           G(s) == SumFunctionOnSet(g, s)
           P == {s \in SUBSET B : G(Own(s)) <= F(s)}
<1>1. ASSUME NEW s \in SUBSET B
      PROVE  /\ IsFiniteSet(Own(s)) /\ NatOn(g, Own(s)) /\ F({}) = 0 /\ F(s) \in Nat
             /\ \A b \in s : F(s) = f[b] + F(s \ {b})
  <2>1. IsFiniteSet(s) /\ NatOn(f, s)
    BY FS_Subset DEF NatOn
  <2>2. IsFiniteSet(Own(s)) /\ NatOn(g, Own(s))
    BY FS_Subset DEF NatOn
  <2> QED BY <2>1, <2>2, SumOf
<1>2. ASSUME NEW s \in SUBSET R PROVE IsFiniteSet(s) /\ NatOn(g, s) /\ G({}) = 0 /\ G(s) \in Nat
  <2>1. IsFiniteSet(s) /\ NatOn(g, s)
    BY FS_Subset DEF NatOn
  <2> QED BY <2>1, SumOf
<1>3. {} \in P
  <2>1. Own({}) = {}
    OBVIOUS
  <2>2. G(Own({})) = 0 /\ F({}) = 0
    BY <1>1, <1>2, <2>1
  <2> HIDE DEF G, F, Own
  <2> QED BY <2>2
<1>4. ASSUME NEW s \in SUBSET B, NEW b \in B, s \in P, b \notin s PROVE s \cup {b} \in P
  <2> DEFINE a == s \cup {b}
             O == {r \in R : c[r] = b}
  <2>1. a \ {b} = s /\ a \in SUBSET B /\ b \in a
    BY <1>4
  <2>2. Own(a) = Own(s) \cup O /\ Own(s) \cap O = {} /\ Own(s) \in SUBSET R /\ O \in SUBSET R
    BY <1>4
  <2>3. NatOn(g, Own(s) \cup O)
    BY DEF NatOn
  <2>4. G(Own(s) \cup O) = G(Own(s)) + G(O)
    <3>1. IsFiniteSet(Own(s)) /\ IsFiniteSet(O)
      BY <1>2, <2>2
    <3> HIDE DEF Own, O
    <3> QED BY <2>2, <2>3, <3>1, SumUnion
  <2>5. G(O) <= f[b] /\ f[b] \in Nat /\ G(O) \in Nat /\ G(Own(s)) \in Nat
    BY <1>2, <2>2 DEF NatOn
  <2>6. F(a) = f[b] + F(s) /\ F(s) \in Nat /\ G(Own(s)) <= F(s)
    BY <1>1, <1>4, <2>1
  <2>7. G(Own(a)) <= F(a)
    <3>1. G(Own(a)) = G(Own(s)) + G(O)
      BY <2>2, <2>4
    <3> HIDE DEF G, F, Own, O, a
    <3> QED BY <2>5, <2>6, <3>1
  <2> QED BY <2>1, <2>7
<1>5. B \in P
  <2> HIDE DEF P
  <2> QED BY <1>3, <1>4, SetInduct
<1>6. Own(B) = R
  OBVIOUS
<1> QED BY <1>5, <1>6

\* The library's Min is that least number.
LEMMA MinOfSome ==
  ASSUME NEW U \in SUBSET Nat, U # {}
  PROVE  Min(U) \in U /\ \A n \in U : Min(U) <= n
BY NatLeast DEF Min

-----------------------------------------------------------------------------
Steps(f, graph, start, stop, n) ==
  f = [i \in 0 .. n |-> IF i = 0 THEN start ELSE IF f[i - 1] \in DOMAIN graph THEN graph[f[i - 1]] ELSE stop]

\* A function of the steps so far, each made of the one before, as far as is asked for.
LEMMA StepsExist ==
  ASSUME NEW graph, NEW start, NEW stop, NEW n \in Nat
  PROVE  \E f : Steps(f, graph, start, stop, n)
<1> DEFINE Next(a) == IF a \in DOMAIN graph THEN graph[a] ELSE stop
           Rule(f, m) == f = [i \in 0 .. m |-> IF i = 0 THEN start ELSE Next(f[i - 1])]
           N == {m \in Nat : \E f : Rule(f, m)}
<1>1. 0 \in N
  <2> DEFINE f == [i \in 0 .. 0 |-> start]
  <2>1. Rule(f, 0)
    OBVIOUS
  <2> QED BY <2>1
<1>2. ASSUME NEW m \in Nat, m \in N PROVE m + 1 \in N
  <2>1. PICK f : Rule(f, m)
    BY <1>2
  <2> HIDE DEF Next
  <2> DEFINE g == [i \in 0 .. m + 1 |-> IF i = m + 1 THEN Next(f[m]) ELSE f[i]]
  <2>2. \A i \in 0 .. m : i \in 0 .. m + 1 /\ i # m + 1 /\ g[i] = f[i]
    OBVIOUS
  <2>3. ASSUME NEW i \in 0 .. m + 1 PROVE g[i] = IF i = 0 THEN start ELSE Next(g[i - 1])
    <3>1. CASE i = m + 1
      <4>1. g[i] = Next(f[m]) /\ i # 0 /\ m \in 0 .. m /\ i - 1 = m
        BY <3>1
      <4> HIDE DEF g
      <4> QED BY <2>2, <4>1
    <3>2. CASE i = 0
      <4>1. f[0] = start /\ 0 \in 0 .. m
        BY <2>1
      <4> HIDE DEF g
      <4> QED BY <2>2, <3>2, <4>1
    <3>3. CASE i # 0 /\ i # m + 1
      <4>1. i \in 0 .. m /\ i - 1 \in 0 .. m
        BY <3>3
      <4>2. f[i] = Next(f[i - 1])
        BY <2>1, <3>3, <4>1
      <4> HIDE DEF g
      <4> QED BY <2>2, <3>3, <4>1, <4>2
    <3> QED BY <3>1, <3>2, <3>3
  <2>4. g = [i \in 0 .. m + 1 |-> g[i]]
    OBVIOUS
  <2> HIDE DEF g
  <2>5. Rule(g, m + 1)
    BY <2>3, <2>4
  <2> QED BY <2>5
<1>3. Nat \subseteq N
  <2> HIDE DEF N
  <2> QED BY <1>1, <1>2, NatInduct
<1> QED BY <1>3 DEF Steps

-----------------------------------------------------------------------------
(***************************************************************************)
(* A sequence of sequences that is flattened: its blocks lie one after the *)
(* other, block n from off[n - 1] + 1 to off[n].                           *)
(***************************************************************************)
FlatRule(g, s) == g = [i \in 1 .. Len(s) |-> IF i = 1 THEN s[i] ELSE g[i - 1] \o s[i]]

\* Of the first m sequences of s.
Laid(off, s, flat, m) ==
  /\ Len(flat) = off[m]
  /\ \A n \in 1 .. m : off[n - 1] \in Nat /\ off[n] = off[n - 1] + Len(s[n])
  /\ \A n \in 1 .. m : \A i \in 1 .. Len(s[n]) :
       off[n - 1] + i \in 1 .. Len(flat) /\ flat[off[n - 1] + i] = s[n][i]
  /\ \A p \in 1 .. Len(flat) : \E n \in 1 .. m : \E i \in 1 .. Len(s[n]) : p = off[n - 1] + i
Blocks(off, s, flat) == off \in [0 .. Len(s) -> Nat] /\ off[0] = 0 /\ Laid(off, s, flat, Len(s))

\* The library's flattening, spelt out.
LEMMA FlatDef ==
  ASSUME NEW s
  PROVE  FlattenSeq(s) = IF Len(s) = 0 THEN s ELSE (CHOOSE g : FlatRule(g, s))[Len(s)]
BY DEF FlattenSeq, FlatRule

\* Its recursive function exists.
LEMMA FlatExists ==
  ASSUME NEW s, Len(s) \in Nat
  PROVE  \E g : FlatRule(g, s)
<1> DEFINE Join(a, i) == a \o s[i]
           Rule(f, m) == f = [i \in 1 .. m |-> IF i = 1 THEN s[i] ELSE Join(f[i - 1], i)]
           N == {m \in Nat : \E f : Rule(f, m)}
<1>1. 0 \in N
  <2> DEFINE f == [i \in 1 .. 0 |-> s[1]]
  <2>1. Rule(f, 0)
    OBVIOUS
  <2> QED BY <2>1
<1>2. ASSUME NEW m \in Nat, m \in N PROVE m + 1 \in N
  <2>1. PICK f : Rule(f, m)
    BY <1>2
  <2> HIDE DEF Join
  <2> DEFINE g == [i \in 1 .. m + 1 |-> IF i = 1 THEN s[1]
                                        ELSE IF i = m + 1 THEN Join(f[m], i) ELSE f[i]]
  <2>2. \A i \in 1 .. m : g[i] = f[i]
    <3>1. \A i \in 1 .. m : i \in 1 .. m + 1 /\ i # m + 1 /\ (i = 1 => f[i] = s[1])
      BY <2>1
    <3> QED BY <3>1
  <2>3. ASSUME NEW i \in 1 .. m + 1 PROVE g[i] = IF i = 1 THEN s[i] ELSE Join(g[i - 1], i)
    <3>1. CASE i = 1
      BY <3>1
    <3>2. CASE i # 1 /\ i = m + 1
      <4>1. g[i] = Join(f[m], i) /\ m \in 1 .. m /\ i - 1 = m
        BY <3>2
      <4> HIDE DEF g
      <4> QED BY <2>2, <3>2, <4>1
    <3>3. CASE i # 1 /\ i # m + 1
      <4>1. i \in 1 .. m /\ i - 1 \in 1 .. m
        BY <3>3
      <4>2. f[i] = Join(f[i - 1], i)
        BY <2>1, <3>3, <4>1
      <4> HIDE DEF g
      <4> QED BY <2>2, <3>3, <4>1, <4>2
    <3> QED BY <3>1, <3>2, <3>3
  <2>4. g = [i \in 1 .. m + 1 |-> g[i]]
    OBVIOUS
  <2> HIDE DEF g
  <2>5. Rule(g, m + 1)
    BY <2>3, <2>4
  <2> QED BY <2>5
<1>3. Nat \subseteq N
  <2> HIDE DEF N
  <2> QED BY <1>1, <1>2, NatInduct
<1> QED BY <1>3 DEF FlatRule

\* One more sequence, one more block.
LEMMA BlockAdded ==
  ASSUME NEW T, NEW off, NEW s, NEW m \in Nat, NEW a \in Seq(T), NEW b \in Seq(T), b = s[m + 1],
         Laid(off, s, a, m), off[m + 1] = Len(a \o b)
  PROVE  Laid(off, s, a \o b, m + 1)
<1>1. Len(a) \in Nat /\ Len(b) \in Nat
  OBVIOUS
<1>2. /\ a \o b \in Seq(T) /\ Len(a \o b) = Len(a) + Len(b)
      /\ \A i \in 1 .. Len(a) + Len(b) : (a \o b)[i] = IF i <= Len(a) THEN a[i] ELSE b[i - Len(a)]
  BY ConcatProperties
<1>3. PICK c : c = a \o b
  OBVIOUS
<1>4. off[m] = Len(a) /\ off[m + 1] = Len(a) + Len(b) /\ Len(c) = Len(a) + Len(b)
  BY <1>2, <1>3 DEF Laid
<1>5. \A i \in 1 .. Len(a) + Len(b) : c[i] = IF i <= Len(a) THEN a[i] ELSE b[i - Len(a)]
  BY <1>2, <1>3
<1>6. ASSUME NEW n \in 1 .. m + 1 PROVE n \in 1 .. m \/ n = m + 1
  OBVIOUS
<1>7. ASSUME NEW n \in 1 .. m + 1 PROVE off[n - 1] \in Nat /\ off[n] = off[n - 1] + Len(s[n])
  <2>1. CASE n = m + 1
    <3>1. n - 1 = m
      BY <2>1
    <3> QED BY <1>1, <1>4, <2>1, <3>1
  <2>2. CASE n \in 1 .. m
    BY <2>2 DEF Laid
  <2> QED BY <1>6, <2>1, <2>2
<1>8. ASSUME NEW n \in 1 .. m + 1, NEW i \in 1 .. Len(s[n])
      PROVE  off[n - 1] + i \in 1 .. Len(c) /\ c[off[n - 1] + i] = s[n][i]
  <2>1. CASE n = m + 1
    <3>1. i \in 1 .. Len(b) /\ off[n - 1] = Len(a) /\ s[n] = b
      <4>1. n - 1 = m
        BY <2>1
      <4> QED BY <1>4, <2>1, <4>1
    <3>2. Len(a) + i \in 1 .. Len(a) + Len(b) /\ ~ (Len(a) + i <= Len(a)) /\ (Len(a) + i) - Len(a) = i
      BY <1>1, <3>1
    <3>3. c[Len(a) + i] = b[i]
      BY <1>5, <3>2
    <3> QED BY <1>4, <3>1, <3>2, <3>3
  <2>2. CASE n \in 1 .. m
    <3>1. off[n - 1] + i \in 1 .. Len(a) /\ a[off[n - 1] + i] = s[n][i]
      BY <2>2 DEF Laid
    <3>2. PICK p : p = off[n - 1] + i
      OBVIOUS
    <3>3. p \in 1 .. Len(a) + Len(b) /\ p <= Len(a)
      BY <1>1, <3>1, <3>2
    <3>4. c[p] = a[p]
      BY <1>5, <3>3
    <3> QED BY <1>4, <3>1, <3>2, <3>3, <3>4
  <2> QED BY <1>6, <2>1, <2>2
<1>9. ASSUME NEW p \in 1 .. Len(c)
      PROVE  \E n \in 1 .. m + 1 : \E i \in 1 .. Len(s[n]) : p = off[n - 1] + i
  <2>1. CASE p <= Len(a)
    <3>1. p \in 1 .. Len(a)
      BY <1>1, <1>4, <2>1
    <3>2. PICK n \in 1 .. m : \E i \in 1 .. Len(s[n]) : p = off[n - 1] + i
      BY <3>1 DEF Laid
    <3>3. n \in 1 .. m + 1
      OBVIOUS
    <3> QED BY <3>2, <3>3
  <2>2. CASE ~ (p <= Len(a))
    <3>1. PICK i : i = p - Len(a)
      OBVIOUS
    <3>2. i \in 1 .. Len(b) /\ p = Len(a) + i /\ m + 1 \in 1 .. m + 1 /\ (m + 1) - 1 = m
      BY <1>1, <1>4, <2>2, <3>1
    <3>3. i \in 1 .. Len(s[m + 1]) /\ p = off[(m + 1) - 1] + i
      BY <1>4, <3>2
    <3> QED BY <3>2, <3>3
  <2> QED BY <2>1, <2>2
<1>10. Laid(off, s, c, m + 1)
  BY <1>4, <1>7, <1>8, <1>9 DEF Laid
<1> QED BY <1>3, <1>10

\* What is flattened has its blocks one after the other, and nothing else.
LEMMA FlatBlocks ==
  ASSUME NEW T, NEW s \in Seq(Seq(T))
  PROVE  /\ FlattenSeq(s) \in Seq(T)
         /\ \E off : Blocks(off, s, FlattenSeq(s))
<1>1. Len(s) \in Nat /\ \A n \in 1 .. Len(s) : s[n] \in Seq(T)
  OBVIOUS
<1>2. PICK g : g = CHOOSE f : FlatRule(f, s)
  OBVIOUS
<1>3. FlatRule(g, s)
  BY <1>1, <1>2, FlatExists
<1>4. PICK h : h = [n \in 0 .. Len(s) |-> IF n = 0 THEN <<>> ELSE g[n]]
  OBVIOUS
<1>5. h[0] = <<>> /\ \A n \in 1 .. Len(s) : h[n] = g[n]
  BY <1>1, <1>4
<1>6. ASSUME NEW n \in 1 .. Len(s), h[n - 1] \in Seq(T) PROVE h[n] = h[n - 1] \o s[n]
  <2>1. CASE n = 1
    <3>1. g[n] = s[n]
      BY <1>3, <2>1 DEF FlatRule
    <3>2. h[n - 1] = <<>>
      BY <1>5, <2>1
    <3>3. <<>> \o s[n] = s[n]
      BY <1>1, ConcatEmptySeq
    <3> QED BY <1>5, <3>1, <3>2, <3>3
  <2>2. CASE n # 1
    <3>1. g[n] = g[n - 1] \o s[n]
      BY <1>3, <2>2 DEF FlatRule
    <3>2. n - 1 \in 1 .. Len(s)
      BY <1>1, <2>2
    <3> QED BY <1>5, <3>1, <3>2
  <2> QED BY <2>1, <2>2
<1>7. FlattenSeq(s) = h[Len(s)]
  <2>1. CASE Len(s) = 0
    <3>1. s = <<>>
      BY <2>1
    <3> QED BY <1>5, <2>1, <3>1, FlatDef
  <2>2. CASE Len(s) # 0
    <3>1. FlattenSeq(s) = g[Len(s)]
      BY <1>2, <2>2, FlatDef
    <3>2. Len(s) \in 1 .. Len(s)
      BY <1>1, <2>2
    <3> QED BY <1>5, <3>1, <3>2
  <2> QED BY <2>1, <2>2
<1>8. PICK off : off = [n \in 0 .. Len(s) |-> Len(h[n])]
  OBVIOUS
<1>9. \A n \in 0 .. Len(s) : off[n] = Len(h[n])
  BY <1>8
<1> DEFINE Good(m) == h[m] \in Seq(T) /\ Laid(off, s, h[m], m)
           N == {m \in Nat : m <= Len(s) => Good(m)}
<1>10. 0 \in N
  <2>1. 0 \in 0 .. Len(s) /\ Len(<<>>) = 0 /\ <<>> \in Seq(T)
    BY <1>1
  <2>2. Laid(off, s, <<>>, 0)
    BY <1>5, <1>9, <2>1 DEF Laid
  <2> QED BY <1>5, <2>1, <2>2
<1>11. ASSUME NEW m \in Nat, m \in N PROVE m + 1 \in N
  <2>1. ASSUME m + 1 <= Len(s) PROVE Good(m + 1)
    <3>1. Good(m)
      <4>1. m <= Len(s)
        BY <1>1, <2>1
      <4> HIDE DEF Good
      <4> QED BY <1>11, <4>1
    <3>2. m + 1 \in 1 .. Len(s) /\ (m + 1) - 1 = m /\ m + 1 \in 0 .. Len(s)
      BY <1>1, <2>1
    <3>3. h[m + 1] = h[m] \o s[m + 1]
      BY <1>6, <3>1, <3>2
    <3>4. s[m + 1] \in Seq(T) /\ off[m + 1] = Len(h[m] \o s[m + 1])
      BY <1>1, <1>9, <3>2, <3>3
    <3>5. PICK a, b : a = h[m] /\ b = s[m + 1]
      OBVIOUS
    <3>6. a \in Seq(T) /\ b \in Seq(T) /\ Laid(off, s, a, m) /\ off[m + 1] = Len(a \o b)
      BY <3>1, <3>4, <3>5
    <3>7. Laid(off, s, a \o b, m + 1)
      BY <3>5, <3>6, BlockAdded
    <3>8. a \o b \in Seq(T)
      BY <3>6, ConcatProperties
    <3> QED BY <3>3, <3>5, <3>7, <3>8
  <2>2. m + 1 \in Nat
    OBVIOUS
  <2> HIDE DEF Good
  <2> QED BY <2>1, <2>2
<1>12. Nat \subseteq N
  <2> HIDE DEF N
  <2> QED BY <1>10, <1>11, NatInduct
<1>13. ASSUME NEW m \in 0 .. Len(s) PROVE Good(m)
  <2>1. m \in Nat /\ m <= Len(s)
    BY <1>1
  <2>2. m \in N
    <3> HIDE DEF N
    <3> QED BY <1>12, <2>1
  <2> HIDE DEF Good
  <2> QED BY <2>1, <2>2
<1>14. Len(s) \in 0 .. Len(s) /\ 0 \in 0 .. Len(s)
  BY <1>1
<1>15. off \in [0 .. Len(s) -> Nat] /\ off[0] = 0
  <2>1. ASSUME NEW m \in 0 .. Len(s) PROVE Len(h[m]) \in Nat
    <3>1. h[m] \in Seq(T)
      BY <1>13
    <3> QED BY <3>1
  <2>2. off[0] = 0
    BY <1>5, <1>9, <1>14
  <2> QED BY <1>8, <2>1, <2>2
<1>16. FlattenSeq(s) \in Seq(T) /\ Laid(off, s, FlattenSeq(s), Len(s))
  BY <1>7, <1>13, <1>14
<1> QED BY <1>15, <1>16 DEF Blocks

\* No position lies in two blocks.
LEMMA BlocksApart ==
  ASSUME NEW off, NEW s, NEW flat, Len(s) \in Nat, \A n \in 1 .. Len(s) : Len(s[n]) \in Nat,
         Blocks(off, s, flat)
  PROVE  /\ \A m, n \in 0 .. Len(s) : m <= n => off[m] <= off[n]
         /\ \A m, n \in 1 .. Len(s) : \A i \in 1 .. Len(s[m]), j \in 1 .. Len(s[n]) :
              off[m - 1] + i = off[n - 1] + j => m = n /\ i = j
<1> DEFINE N == {n \in Nat : n <= Len(s) => \A m \in 0 .. n : off[m] <= off[n]}
<1>1. /\ \A n \in 0 .. Len(s) : off[n] \in Nat
      /\ \A n \in 1 .. Len(s) : off[n] = off[n - 1] + Len(s[n])
  BY DEF Blocks, Laid
<1>2. 0 \in N
  BY <1>1
<1>3. ASSUME NEW n \in Nat, n \in N PROVE n + 1 \in N
  <2> SUFFICES ASSUME n + 1 <= Len(s), NEW m \in 0 .. n + 1 PROVE off[m] <= off[n + 1]
    OBVIOUS
  <2>1. n + 1 \in 1 .. Len(s) /\ (n + 1) - 1 = n /\ n \in 0 .. Len(s) /\ n <= Len(s) /\ m \in 0 .. Len(s)
    OBVIOUS
  <2>2. off[n + 1] = off[n] + Len(s[n + 1]) /\ off[n] \in Nat /\ Len(s[n + 1]) \in Nat /\ off[m] \in Nat
    BY <1>1, <2>1
  <2>3. CASE m = n + 1
    BY <2>2, <2>3
  <2>4. CASE m \in 0 .. n
    <3>1. off[m] <= off[n]
      BY <1>3, <2>1, <2>4
    <3> QED BY <2>2, <3>1
  <2> QED BY <2>3, <2>4
<1>4. Nat \subseteq N
  <2> HIDE DEF N
  <2> QED BY <1>2, <1>3, NatInduct
<1>5. ASSUME NEW m \in 0 .. Len(s), NEW n \in 0 .. Len(s), m <= n PROVE off[m] <= off[n]
  <2>1. n \in N /\ n <= Len(s) /\ m \in 0 .. n
    BY <1>4, <1>5
  <2> QED BY <2>1
<1>6. ASSUME NEW m \in 1 .. Len(s), NEW n \in 1 .. Len(s), m < n,
             NEW i \in 1 .. Len(s[m]), NEW j \in 1 .. Len(s[n])
      PROVE  off[m - 1] + i # off[n - 1] + j
  <2>1. off[m] <= off[n - 1]
    <3>1. m \in 0 .. Len(s) /\ n - 1 \in 0 .. Len(s) /\ m <= n - 1
      BY <1>6
    <3> QED BY <1>5, <3>1
  <2>2. off[m] = off[m - 1] + Len(s[m])
    BY <1>1
  <2>3. off[m] \in Nat /\ off[m - 1] \in Nat /\ off[n - 1] \in Nat
    <3>1. m \in 0 .. Len(s) /\ m - 1 \in 0 .. Len(s) /\ n - 1 \in 0 .. Len(s)
      OBVIOUS
    <3> QED BY <1>1, <3>1
  <2>4. i \in 1 .. Len(s[m]) /\ j \in Nat /\ j >= 1 /\ Len(s[m]) \in Nat
    OBVIOUS
  <2> QED BY <2>1, <2>2, <2>3, <2>4
<1>7. ASSUME NEW m \in 1 .. Len(s), NEW n \in 1 .. Len(s),
             NEW i \in 1 .. Len(s[m]), NEW j \in 1 .. Len(s[n]), off[m - 1] + i = off[n - 1] + j
      PROVE  m = n /\ i = j
  <2>1. ~ (m < n) /\ ~ (n < m)
    BY <1>6, <1>7
  <2>2. m = n
    BY <2>1
  <2>3. m - 1 \in 0 .. Len(s)
    OBVIOUS
  <2>4. off[m - 1] \in Nat /\ i \in Nat /\ j \in Nat
    BY <1>1, <2>3
  <2> QED BY <1>7, <2>2, <2>4
<1> QED BY <1>5, <1>7

\* A set as a sequence has each of its members at one place.
LEMMA SetToSeqHas ==
  ASSUME NEW S, IsFiniteSet(S)
  PROVE  /\ SetToSeq(S) \in Seq(S) /\ Len(SetToSeq(S)) = Cardinality(S) /\ Cardinality(S) \in Nat
         /\ \A i, j \in 1 .. Len(SetToSeq(S)) : SetToSeq(S)[i] = SetToSeq(S)[j] => i = j
         /\ \A x \in S : \E i \in 1 .. Len(SetToSeq(S)) : SetToSeq(S)[i] = x
<1>1. Cardinality(S) \in Nat /\ ExistsBijection(1 .. Cardinality(S), S)
  BY FS_CardinalityType
<1>2. PICK f \in [1 .. Cardinality(S) -> S] : IsInjective(f)
  <2>1. \E f \in [1 .. Cardinality(S) -> S] : \A a, b \in 1 .. Cardinality(S) : f[a] = f[b] => a = b
    BY <1>1 DEF ExistsBijection, Bijection, Injection, IsInjective
  <2> QED BY <2>1 DEF IsInjective
<1>3. PICK q : q = SetToSeq(S)
  OBVIOUS
<1>4. q \in [1 .. Cardinality(S) -> S] /\ IsInjective(q)
  BY <1>2, <1>3 DEF SetToSeq
<1>5. q \in Seq(S) /\ Len(q) = Cardinality(S)
  BY <1>1, <1>4
<1>6. q \in Injection(1 .. Cardinality(S), S)
  BY <1>4 DEF Injection, IsInjective
<1>7. q \in Surjection(1 .. Cardinality(S), S)
  <2>1. Cardinality(1 .. Cardinality(S)) = Cardinality(S)
    BY <1>1, FS_Interval
  <2> QED BY <1>6, <2>1, FS_Injection
<1>8. \A x \in S : \E i \in 1 .. Cardinality(S) : q[i] = x
  BY <1>7 DEF Surjection
<1>9. \A i, j \in 1 .. Cardinality(S) : q[i] = q[j] => i = j
  BY <1>4 DEF IsInjective
<1> QED BY <1>1, <1>3, <1>5, <1>8, <1>9

-----------------------------------------------------------------------------
\* Sums that are equal summand by summand, up to factors.
LEMMA SumLinear ==
  ASSUME NEW f, NEW g, NEW h, NEW b \in Nat, NEW c \in Nat, NEW S, IsFiniteSet(S),
         NatOn(f, S), NatOn(g, S), NatOn(h, S), \A x \in S : c * f[x] = b * g[x] + h[x]
  PROVE  c * SumFunctionOnSet(f, S) = b * SumFunctionOnSet(g, S) + SumFunctionOnSet(h, S)
<1> DEFINE F(s) == SumFunctionOnSet(f, s)
           G(s) == SumFunctionOnSet(g, s)
           H(s) == SumFunctionOnSet(h, s)
           P == {s \in SUBSET S : c * F(s) = b * G(s) + H(s)}
<1>1. ASSUME NEW s \in SUBSET S
      PROVE  /\ F({}) = 0 /\ F(s) \in Nat /\ \A x \in s : F(s) = f[x] + F(s \ {x})
             /\ G({}) = 0 /\ G(s) \in Nat /\ \A x \in s : G(s) = g[x] + G(s \ {x})
             /\ H({}) = 0 /\ H(s) \in Nat /\ \A x \in s : H(s) = h[x] + H(s \ {x})
  <2>1. IsFiniteSet(s) /\ NatOn(f, s) /\ NatOn(g, s) /\ NatOn(h, s)
    BY FS_Subset DEF NatOn
  <2> QED BY <2>1, SumOf
<1> HIDE DEF F, G, H
<1>2. {} \in P
  BY <1>1
<1>3. ASSUME NEW s \in SUBSET S, NEW x \in S, s \in P, x \notin s PROVE s \cup {x} \in P
  <2> DEFINE a == s \cup {x}
  <2>1. a \ {x} = s /\ a \in SUBSET S /\ x \in a
    BY <1>3
  <2>2. F(a) = f[x] + F(s) /\ G(a) = g[x] + G(s) /\ H(a) = h[x] + H(s)
    BY <1>1, <2>1
  <2>3. /\ F(s) \in Nat /\ G(s) \in Nat /\ H(s) \in Nat /\ c * F(s) = b * G(s) + H(s)
        /\ f[x] \in Nat /\ g[x] \in Nat /\ h[x] \in Nat /\ c * f[x] = b * g[x] + h[x]
    BY <1>1, <1>3 DEF NatOn
  <2>4. PICK p, q, r, t, u, v \in Nat :
          p = F(s) /\ q = G(s) /\ r = H(s) /\ t = f[x] /\ u = g[x] /\ v = h[x]
    BY <2>3
  <2>5. c * F(a) = b * G(a) + H(a)
    <3>1. c * p = b * q + r /\ c * t = b * u + v
      BY <2>3, <2>4
    <3>2. c * (t + p) = b * (u + q) + (v + r)
      BY <3>1
    <3> HIDE DEF a
    <3> QED BY <2>2, <2>4, <3>2
  <2> QED BY <2>1, <2>5
<1>4. S \in P
  <2> HIDE DEF P
  <2> QED BY <1>2, <1>3, SetInduct
<1> QED BY <1>4 DEF F, G, H

\* Summands of 1 count the members.
LEMMA SumCounts ==
  ASSUME NEW S, IsFiniteSet(S), NEW f, \A x \in S : f[x] = 1
  PROVE  SumFunctionOnSet(f, S) = Cardinality(S)
<1> DEFINE F(s) == SumFunctionOnSet(f, s)
           P == {s \in SUBSET S : F(s) = Cardinality(s)}
<1>1. ASSUME NEW s \in SUBSET S
      PROVE  IsFiniteSet(s) /\ F({}) = 0 /\ F(s) \in Nat /\ \A x \in s : F(s) = 1 + F(s \ {x})
  <2>1. IsFiniteSet(s) /\ NatOn(f, s)
    BY FS_Subset DEF NatOn
  <2> QED BY <2>1, SumOf
<1> HIDE DEF F
<1>2. {} \in P
  BY <1>1, FS_EmptySet
<1>3. ASSUME NEW s \in SUBSET S, NEW x \in S, s \in P, x \notin s PROVE s \cup {x} \in P
  <2> DEFINE a == s \cup {x}
  <2>1. a \ {x} = s /\ a \in SUBSET S /\ x \in a
    BY <1>3
  <2>2. F(a) = 1 + F(s) /\ F(s) = Cardinality(s) /\ F(s) \in Nat
    BY <1>1, <1>3, <2>1
  <2>3. Cardinality(a) = Cardinality(s) + 1
    BY <1>1, <1>3, FS_AddElement
  <2>4. F(a) = Cardinality(a)
    <3> HIDE DEF a
    <3> QED BY <2>2, <2>3
  <2> QED BY <2>1, <2>4
<1>4. S \in P
  <2> HIDE DEF P
  <2> QED BY <1>2, <1>3, SetInduct
<1> QED BY <1>4 DEF F

\* The sum of what is at most c is at most c for each member.
LEMMA SumAtMost ==
  ASSUME NEW S, IsFiniteSet(S), NEW f, NEW c \in Nat, NatOn(f, S), \A x \in S : f[x] <= c
  PROVE  SumFunctionOnSet(f, S) <= c * Cardinality(S)
<1> DEFINE one == [x \in S |-> 1]
           all == [x \in S |-> c]
           none == [x \in S |-> 0]
<1>1. NatOn(one, S) /\ NatOn(all, S) /\ NatOn(none, S) /\ \A x \in S : f[x] <= all[x]
  BY DEF NatOn
<1>2. SumFunctionOnSet(f, S) <= SumFunctionOnSet(all, S)
  <2> HIDE DEF all
  <2> QED BY <1>1, SumLess
<1>3. SumFunctionOnSet(one, S) = Cardinality(S)
  <2>1. \A x \in S : one[x] = 1
    OBVIOUS
  <2> HIDE DEF one
  <2> QED BY <2>1, SumCounts
<1>4. SumFunctionOnSet(none, S) = 0
  <2>1. \A x \in S : none[x] = 0
    OBVIOUS
  <2> HIDE DEF none
  <2> QED BY <2>1, SumNone
<1>5. 1 * SumFunctionOnSet(all, S) = c * SumFunctionOnSet(one, S) + SumFunctionOnSet(none, S)
  <2>1. \A x \in S : 1 * all[x] = c * one[x] + none[x]
    OBVIOUS
  <2> HIDE DEF all, one, none
  <2> QED BY <1>1, <2>1, SumLinear
<1>6. SumFunctionOnSet(all, S) \in Nat /\ Cardinality(S) \in Nat
  BY <1>1, SumOf, FS_CardinalityType
<1>7. SumFunctionOnSet(all, S) = c * Cardinality(S)
  <2> HIDE DEF all, one, none
  <2> QED BY <1>3, <1>4, <1>5, <1>6
<1> HIDE DEF all
<1> QED BY <1>2, <1>7

SumsUp(f, x, off, n) ==
  /\ off[0] = 0
  /\ \A m \in 1 .. n : f[x[m]] \in Nat /\ off[m] = off[m - 1] + f[x[m]]
  /\ \A i, j \in 1 .. n : x[i] = x[j] => i = j

\* A sum that is reached in steps, one member of the set at a time.
LEMMA SumInOrder ==
  ASSUME NEW f, NEW x, NEW off, NEW n \in Nat, SumsUp(f, x, off, n)
  PROVE  off[n] = SumFunctionOnSet(f, {x[m] : m \in 1 .. n})
<1> DEFINE Some(k) == {x[m] : m \in 1 .. k}
           F(s) == SumFunctionOnSet(f, s)
           N == {k \in Nat : k <= n => off[k] = F(Some(k))}
<1>s. /\ off[0] = 0
      /\ \A m \in 1 .. n : f[x[m]] \in Nat /\ off[m] = off[m - 1] + f[x[m]]
      /\ \A i, j \in 1 .. n : x[i] = x[j] => i = j
  BY DEF SumsUp
<1>1. ASSUME NEW k \in 0 .. n PROVE IsFiniteSet(Some(k)) /\ NatOn(f, Some(k))
  <2>1. IsFiniteSet(1 .. k)
    BY FS_Interval
  <2>2. IsFiniteSet(Some(k))
    <3>1. [m \in 1 .. k |-> x[m]] \in Surjection(1 .. k, Some(k))
      BY DEF Surjection
    <3> HIDE DEF Some
    <3> QED BY <2>1, <3>1, FS_Surjection
  <2>3. NatOn(f, Some(k))
    BY <1>s DEF NatOn
  <2> QED BY <2>2, <2>3
<1>2. 0 \in N
  <2>1. Some(0) = {} /\ IsFiniteSet(Some(0)) /\ NatOn(f, Some(0))
    BY <1>1
  <2>2. F({}) = 0
    BY <2>1, SumOf
  <2> HIDE DEF F, Some
  <2> QED BY <1>s, <2>1, <2>2
<1>3. ASSUME NEW k \in Nat, k \in N PROVE k + 1 \in N
  <2> SUFFICES ASSUME k + 1 <= n PROVE off[k + 1] = F(Some(k + 1))
    OBVIOUS
  <2>1. k + 1 \in 1 .. n /\ (k + 1) - 1 = k /\ k <= n /\ k + 1 \in 0 .. n /\ k \in 0 .. n
    OBVIOUS
  <2>2. x[k + 1] \in Some(k + 1) /\ Some(k + 1) \ {x[k + 1]} = Some(k)
    <3>1. \A m \in 1 .. k + 1 : m = k + 1 \/ m \in 1 .. k
      OBVIOUS
    <3>2. \A m \in 1 .. k : m \in 1 .. k + 1 /\ m # k + 1 /\ m \in 1 .. n
      BY <2>1
    <3>3. \A m \in 1 .. k : x[m] # x[k + 1]
      BY <1>s, <2>1, <3>2
    <3>4. k + 1 \in 1 .. k + 1
      OBVIOUS
    <3> QED BY <3>1, <3>2, <3>3, <3>4
  <2>3. F(Some(k + 1)) = f[x[k + 1]] + F(Some(k + 1) \ {x[k + 1]})
    <3>1. IsFiniteSet(Some(k + 1)) /\ NatOn(f, Some(k + 1))
      BY <1>1, <2>1
    <3> HIDE DEF Some
    <3> QED BY <2>2, <3>1, SumOf
  <2>4. F(Some(k)) \in Nat
    BY <1>1, <2>1, SumOf
  <2>5. off[k] = F(Some(k))
    <3> HIDE DEF F, Some
    <3> QED BY <1>3, <2>1
  <2>6. off[k + 1] = off[k] + f[x[k + 1]] /\ f[x[k + 1]] \in Nat
    BY <1>s, <2>1
  <2>7. F(Some(k + 1)) = f[x[k + 1]] + F(Some(k))
    <3> HIDE DEF F, Some
    <3> QED BY <2>2, <2>3
  <2> HIDE DEF F, Some
  <2>8. PICK a, b \in Nat : a = F(Some(k)) /\ b = f[x[k + 1]]
    BY <2>4, <2>6
  <2>9. a + b = b + a
    OBVIOUS
  <2> QED BY <2>5, <2>6, <2>7, <2>8, <2>9
<1>4. Nat \subseteq N
  <2> HIDE DEF N
  <2> QED BY <1>2, <1>3, NatInduct
<1> QED BY <1>4

-----------------------------------------------------------------------------
\* In a finite set that is strictly ordered, as many have fewer than m before them as m
\* says: the first m.
LEMMA FirstOfOrder ==
  ASSUME NEW D, IsFiniteSet(D), NEW R, NEW m \in Nat, m <= Cardinality(D),
         \A i \in D : <<i, i>> \notin R,
         \A i, j \in D : i # j => <<i, j>> \in R \/ <<j, i>> \in R,
         \A i, j, k \in D : <<i, j>> \in R /\ <<j, k>> \in R => <<i, k>> \in R
  PROVE  Cardinality({k \in D : Cardinality({j \in D : <<j, k>> \in R}) < m}) = m
<1> DEFINE before(k) == {j \in D : <<j, k>> \in R}
           n == Cardinality(D)
           first == {k \in D : Cardinality(before(k)) < m}
<1>1. n \in Nat
  BY FS_CardinalityType
<1>2. ASSUME NEW k \in D 
      PROVE  IsFiniteSet(before(k)) /\ Cardinality(before(k)) \in Nat /\ Cardinality(before(k)) \in 0 .. n - 1
  <2>1. before(k) \in SUBSET (D \ {k})
    OBVIOUS
  <2>2. IsFiniteSet(D \ {k}) /\ Cardinality(D \ {k}) = n - 1
    BY FS_RemoveElement
  <2>3. IsFiniteSet(before(k)) /\ Cardinality(before(k)) <= n - 1
    <3>1. PICK E : E = D \ {k}
      OBVIOUS
    <3>2. IsFiniteSet(E) /\ Cardinality(E) = n - 1 /\ before(k) \in SUBSET E
      BY <2>1, <2>2, <3>1
    <3> HIDE DEF before, n
    <3> QED BY <3>2, FS_Subset
  <2>4. Cardinality(before(k)) \in Nat
    BY <2>3, FS_CardinalityType
  <2> QED BY <1>1, <2>3, <2>4
<1>3. ASSUME NEW i \in D, NEW j \in D, <<i, j>> \in R PROVE Cardinality(before(i)) < Cardinality(before(j))
  <2>1. before(i) \cup {i} \in SUBSET before(j) /\ i \notin before(i)
    BY <1>3
  <2>2. Cardinality(before(i) \cup {i}) = Cardinality(before(i)) + 1
    BY <1>2, <2>1, FS_AddElement
  <2>3. Cardinality(before(i) \cup {i}) <= Cardinality(before(j))
    BY <1>2, <2>1, FS_Subset
  <2>4. Cardinality(before(i)) \in Nat /\ Cardinality(before(j)) \in Nat
    BY <1>2
  <2> HIDE DEF before, n
  <2> QED BY <2>2, <2>3, <2>4
<1> HIDE DEF before, n
<1> DEFINE rank == [k \in D |-> Cardinality(before(k))]
<1>4. rank \in Injection(D, 0 .. n - 1)
  <2>1. rank \in [D -> 0 .. n - 1]
    BY <1>2
  <2>2. ASSUME NEW i \in D, NEW j \in D, rank[i] = rank[j] PROVE i = j
    <3>1. rank[i] = Cardinality(before(i)) /\ rank[j] = Cardinality(before(j))
      OBVIOUS
    <3>2. Cardinality(before(i)) \in Nat /\ Cardinality(before(j)) \in Nat
      BY <1>1, <1>2
    <3>3. ~ (Cardinality(before(i)) < Cardinality(before(j))) /\ ~ (Cardinality(before(j)) < Cardinality(before(i)))
      BY <2>2, <3>1, <3>2
    <3>4. <<i, j>> \notin R /\ <<j, i>> \notin R
      BY <1>3, <3>3
    <3> QED BY <3>4
  <2> QED BY <2>1, <2>2 DEF Injection, IsInjective
<1>5. rank \in Surjection(D, 0 .. n - 1)
  <2>1. IsFiniteSet(0 .. n - 1) /\ Cardinality(0 .. n - 1) = n
    BY <1>1, FS_Interval
  <2> HIDE DEF rank
  <2> QED BY <1>4, <2>1, FS_Injection DEF n
<1> DEFINE f == [k \in first |-> rank[k]]
<1>6. f \in Bijection(first, 0 .. m - 1)
  <2>1. \A k \in first : k \in D /\ f[k] = Cardinality(before(k)) /\ f[k] = rank[k]
    OBVIOUS
  <2>2. f \in [first -> 0 .. m - 1]
    <3>1. \A k \in first : Cardinality(before(k)) \in 0 .. m - 1
      BY <1>2
    <3> QED BY <2>1, <3>1
  <2>3. \A i, j \in first : f[i] = f[j] => i = j
    <3> HIDE DEF f, rank, first
    <3> QED BY <1>4, <2>1 DEF Injection, IsInjective
  <2>4. ASSUME NEW c \in 0 .. m - 1 PROVE \E k \in first : f[k] = c
    <3>1. c \in 0 .. n - 1
      BY <1>1 DEF n
    <3>2. PICK k \in D : rank[k] = c
      <4> HIDE DEF rank
      <4> QED BY <1>5, <3>1 DEF Surjection
    <3>3. Cardinality(before(k)) < m
      BY <3>2
    <3>4. k \in first
      BY <3>3
    <3> HIDE DEF f, rank, first
    <3> QED BY <2>1, <3>2, <3>4
  <2> HIDE DEF f, first
  <2> QED BY <2>2, <2>3, <2>4 DEF Bijection, Injection, Surjection, IsInjective
<1>7. Cardinality(0 .. m - 1) = m
  BY FS_Interval
<1>8. IsFiniteSet(first)
  BY FS_Subset
<1>9. ExistsBijection(first, 0 .. m - 1)
  BY <1>6 DEF ExistsBijection
<1>10. Cardinality(first) = m
  <2> HIDE DEF first
  <2> QED BY <1>7, <1>8, <1>9, FS_Bijection
<1> QED BY <1>10 DEF before

CountIn(f, R) == Cardinality({i \in DOMAIN f : f[i] \in R})
SameIn(A, B, R) ==
  \A r \in R : Cardinality({i \in DOMAIN A : A[i] = r}) = Cardinality({i \in DOMAIN B : B[i] = r})

\* Two sequences that have each value as often have the values of a finite set as often.
LEMMA SameCountsOfSet ==
  ASSUME NEW A, NEW B, IsFiniteSet(DOMAIN A), IsFiniteSet(DOMAIN B), NEW R, IsFiniteSet(R),
         SameIn(A, B, R)
  PROVE  CountIn(A, R) = CountIn(B, R)
<1> DEFINE of(f, S) == {i \in DOMAIN f : f[i] \in S}
           P == {S \in SUBSET R : Cardinality(of(A, S)) = Cardinality(of(B, S))}
<1>1. {} \in P
  <2>1. of(A, {}) = {} /\ of(B, {}) = {}
    OBVIOUS
  <2> HIDE DEF of
  <2> QED BY <2>1
<1>2. ASSUME NEW f, IsFiniteSet(DOMAIN f), NEW S, NEW r, r \notin S
      PROVE  Cardinality(of(f, S \cup {r})) = Cardinality(of(f, S)) + Cardinality({i \in DOMAIN f : f[i] = r})
  <2> DEFINE own == {i \in DOMAIN f : f[i] = r}
  <2>1. of(f, S \cup {r}) = of(f, S) \cup own /\ of(f, S) \cap own = {}
    BY <1>2
  <2>2. IsFiniteSet(of(f, S)) /\ IsFiniteSet(own)
    BY <1>2, FS_Subset
  <2>3. Cardinality(of(f, S)) \in Nat /\ Cardinality(own) \in Nat
    BY <2>2, FS_CardinalityType
  <2>4. Cardinality(of(f, S) \cup own) = Cardinality(of(f, S)) + Cardinality(own) - Cardinality(of(f, S) \cap own)
    BY <2>2, FS_Union
  <2>5. Cardinality(of(f, S) \cap own) = 0
    BY <2>1, FS_EmptySet
  <2> HIDE DEF of, own
  <2>6. PICK a, b \in Nat : a = Cardinality(of(f, S)) /\ b = Cardinality(own)
    BY <2>3
  <2>7. a + b - 0 = a + b
    OBVIOUS
  <2>8. Cardinality(of(f, S \cup {r})) = Cardinality(of(f, S)) + Cardinality(own)
    BY <2>1, <2>4, <2>5, <2>6, <2>7
  <2> QED BY <2>8 DEF own
<1>3. ASSUME NEW S \in SUBSET R, NEW r \in R, S \in P, r \notin S PROVE S \cup {r} \in P
  <2>1. Cardinality(of(A, S)) = Cardinality(of(B, S))
    BY <1>3
  <2>2. Cardinality(of(A, S \cup {r})) = Cardinality(of(B, S \cup {r}))
    <3>1. Cardinality({i \in DOMAIN A : A[i] = r}) = Cardinality({i \in DOMAIN B : B[i] = r})
      BY DEF SameIn
    <3>2. Cardinality(of(A, S \cup {r})) = Cardinality(of(A, S)) + Cardinality({i \in DOMAIN A : A[i] = r})
      BY <1>2, <1>3
    <3>3. Cardinality(of(B, S \cup {r})) = Cardinality(of(B, S)) + Cardinality({i \in DOMAIN B : B[i] = r})
      BY <1>2, <1>3
    <3> HIDE DEF of
    <3> QED BY <2>1, <3>1, <3>2, <3>3
  <2> HIDE DEF of
  <2> QED BY <2>2
<1>4. R \in P
  <2> HIDE DEF P
  <2> QED BY <1>1, <1>3, SetInduct
<1> QED BY <1>4 DEF CountIn

-----------------------------------------------------------------------------
\* A function that stops, or adds something to what it is of the next argument.
Solves(f, D, stop, base, add, next) ==
  \A x \in D : f[x] = IF x \in stop THEN base[x] ELSE add[x] + f[next[x]]
LowerRank(D, stop, next, rank) ==
  \A x \in D : x \notin stop => next[x] \in D /\ rank[next[x]] < rank[x]

\* There is one if the rank of the next argument is less.
LEMMA Recursion ==
  ASSUME NEW D, NEW stop, NEW next, NEW base \in [D -> Nat], NEW add \in [D -> Nat],
         NEW rank \in [D -> Nat], LowerRank(D, stop, next, rank)
  PROVE  \E f \in [D -> Nat] : Solves(f, D, stop, base, add, next)
<1> DEFINE Upto(m) == {x \in D : rank[x] <= m}
           Part(f, m) == f \in [Upto(m) -> Nat] /\ Solves(f, Upto(m), stop, base, add, next)
           N == {m \in Nat : \E f : Part(f, m)}
<1>1. ASSUME NEW m \in Nat, NEW x \in Upto(m + 1), x \notin stop PROVE next[x] \in Upto(m)
  <2>1. next[x] \in D /\ rank[next[x]] < rank[x]
    BY <1>1 DEF LowerRank
  <2>2. rank[next[x]] \in Nat /\ rank[x] \in Nat /\ rank[x] <= m + 1
    BY <2>1
  <2> QED BY <2>1, <2>2
<1>2. \A x \in Upto(0) : x \in stop
  <2> SUFFICES ASSUME NEW x \in Upto(0), x \notin stop PROVE FALSE
    OBVIOUS
  <2>1. next[x] \in D /\ rank[next[x]] < rank[x]
    BY DEF LowerRank
  <2>2. rank[next[x]] \in Nat /\ rank[x] \in Nat /\ rank[x] <= 0
    BY <2>1
  <2> QED BY <2>1, <2>2
<1>3. \A m \in Nat : Upto(m) \subseteq Upto(m + 1) /\ Upto(m) \subseteq D
  <2>1. \A x \in D : rank[x] \in Nat
    OBVIOUS
  <2>2. \A c, m \in Nat : c <= m => c <= m + 1
    OBVIOUS
  <2> QED BY <2>1, <2>2
<1>4. 0 \in N
  <2> DEFINE f == [x \in Upto(0) |-> base[x]]
  <2>1. f \in [Upto(0) -> Nat]
    OBVIOUS
  <2>2. \A x \in Upto(0) : f[x] = base[x]
    OBVIOUS
  <2> HIDE DEF f
  <2>3. Part(f, 0)
    BY <1>2, <2>1, <2>2 DEF Solves
  <2> QED BY <2>3
<1> HIDE DEF Upto
<1>5. ASSUME NEW m \in Nat, m \in N PROVE m + 1 \in N
  <2>1. PICK f : Part(f, m)
    BY <1>5
  <2> DEFINE g == [x \in Upto(m + 1) |-> IF x \in stop THEN base[x] ELSE add[x] + f[next[x]]]
  <2>2. ASSUME NEW x \in Upto(m + 1) PROVE g[x] \in Nat
    <3>1. x \notin stop => f[next[x]] \in Nat
      BY <1>1, <2>1
    <3>2. base[x] \in Nat /\ add[x] \in Nat
      BY <1>3
    <3> QED BY <3>1, <3>2
  <2>3. \A x \in Upto(m) : g[x] = f[x]
    <3>1. \A x \in Upto(m) : x \in Upto(m + 1)
      BY <1>3
    <3> QED BY <2>1, <3>1 DEF Solves
  <2>4. ASSUME NEW x \in Upto(m + 1)
        PROVE  g[x] = IF x \in stop THEN base[x] ELSE add[x] + g[next[x]]
    <3>1. g[x] = IF x \in stop THEN base[x] ELSE add[x] + f[next[x]]
      OBVIOUS
    <3> HIDE DEF g
    <3> QED BY <1>1, <2>3, <3>1
  <2>5. g \in [Upto(m + 1) -> Nat]
    BY <2>2
  <2> HIDE DEF g
  <2>6. Part(g, m + 1)
    BY <2>4, <2>5 DEF Solves
  <2> QED BY <2>6
<1>6. Nat \subseteq N
  <2> HIDE DEF N
  <2> QED BY <1>4, <1>5, NatInduct
\* Two of the parts say the same where both are defined.
<1>7. ASSUME NEW m \in Nat, NEW k \in Nat, NEW f, NEW g, Part(f, m), Part(g, k)
      PROVE  \A x \in D : rank[x] <= m /\ rank[x] <= k => f[x] = g[x]
  <2> DEFINE T == {c \in Nat : \A x \in D : rank[x] <= m /\ rank[x] <= k /\ rank[x] <= c => f[x] = g[x]}
  <2>1. \A x \in D : rank[x] \in Nat
    OBVIOUS
  <2>2. ASSUME NEW c \in Nat, NEW x \in D, rank[x] <= m, rank[x] <= k, rank[x] <= c,
               x \in stop \/ f[next[x]] = g[next[x]]
        PROVE  f[x] = g[x]
    <3>1. x \in Upto(m) /\ x \in Upto(k)
      BY <2>2 DEF Upto
    <3> QED BY <1>7, <2>2, <3>1 DEF Solves
  <2>3. 0 \in T
    <3> SUFFICES ASSUME NEW x \in D, rank[x] <= m, rank[x] <= k, rank[x] <= 0 PROVE f[x] = g[x]
      OBVIOUS
    <3>1. x \in stop
      BY <1>2 DEF Upto
    <3> QED BY <2>2, <3>1
  <2>4. ASSUME NEW c \in Nat, c \in T PROVE c + 1 \in T
    <3> SUFFICES ASSUME NEW x \in D, rank[x] <= m, rank[x] <= k, rank[x] <= c + 1 PROVE f[x] = g[x]
      OBVIOUS
    <3>1. CASE x \in stop
      BY <2>2, <3>1
    <3>2. CASE x \notin stop
      <4>1. next[x] \in D /\ rank[next[x]] < rank[x] /\ rank[next[x]] \in Nat /\ rank[x] \in Nat
        BY <2>1, <3>2 DEF LowerRank
      <4>2. rank[next[x]] <= m /\ rank[next[x]] <= k /\ rank[next[x]] <= c
        BY <4>1
      <4>3. f[next[x]] = g[next[x]]
        BY <2>4, <4>1, <4>2
      <4> QED BY <2>2, <4>3
    <3> QED BY <3>1, <3>2
  <2>5. Nat \subseteq T
    <3> HIDE DEF T
    <3> QED BY <2>3, <2>4, NatInduct
  <2> QED BY <2>1, <2>5
<1> DEFINE Of(m) == CHOOSE f : Part(f, m)
<1>8. \A m \in Nat : Part(Of(m), m)
  <2> SUFFICES ASSUME NEW m \in Nat PROVE Part(Of(m), m)
    OBVIOUS
  <2>1. \E f : Part(f, m)
    BY <1>6
  <2> HIDE DEF Part
  <2> QED BY <2>1
<1> HIDE DEF Of, N
<1> DEFINE h == [x \in D |-> Of(rank[x])[x]]
<1>9. \A x \in D : rank[x] \in Nat /\ x \in Upto(rank[x])
  BY DEF Upto
<1>10. h \in [D -> Nat]
  <2>1. \A x \in D : Of(rank[x])[x] \in Nat
    BY <1>8, <1>9
  <2> QED BY <2>1
<1>11. ASSUME NEW x \in D PROVE h[x] = IF x \in stop THEN base[x] ELSE add[x] + h[next[x]]
  <2>1. h[x] = Of(rank[x])[x]
    OBVIOUS
  <2>2. Of(rank[x])[x] = IF x \in stop THEN base[x] ELSE add[x] + Of(rank[x])[next[x]]
    BY <1>8, <1>9 DEF Solves
  <2>3. ASSUME x \notin stop PROVE h[next[x]] = Of(rank[x])[next[x]]
    <3>1. next[x] \in D /\ rank[next[x]] < rank[x]
      BY <2>3 DEF LowerRank
    <3>2. h[next[x]] = Of(rank[next[x]])[next[x]]
      BY <3>1
    <3> HIDE DEF h, Part
    <3>3. /\ Part(Of(rank[x]), rank[x]) /\ Part(Of(rank[next[x]]), rank[next[x]])
          /\ rank[x] \in Nat /\ rank[next[x]] \in Nat
      BY <1>8, <1>9, <3>1
    <3>4. rank[next[x]] <= rank[x] /\ rank[next[x]] <= rank[next[x]]
      BY <3>1, <3>3
    <3>5. Of(rank[next[x]])[next[x]] = Of(rank[x])[next[x]]
      BY <1>7, <3>1, <3>3, <3>4
    <3> QED BY <3>2, <3>5
  <2> HIDE DEF h
  <2> QED BY <2>1, <2>2, <2>3
<1> HIDE DEF h
<1> QED BY <1>10, <1>11 DEF Solves

\* What holds where such a function stops, and of an argument if of the next one, holds
\* of all.
LEMMA RankInduct ==
  ASSUME NEW D, NEW stop, NEW next, NEW rank \in [D -> Nat], LowerRank(D, stop, next, rank),
         NEW T, \A x \in D : x \in stop \/ next[x] \in T => x \in T
  PROVE  D \subseteq T
<1> SUFFICES ASSUME NEW y \in D, y \notin T PROVE FALSE
  OBVIOUS
<1> DEFINE U == {rank[x] : x \in {z \in D : z \notin T}}
<1>1. U \in SUBSET Nat /\ U # {}
  OBVIOUS
<1>2. PICK m \in U : \A n \in U : m <= n
  <2> HIDE DEF U
  <2> QED BY <1>1, NatLeast
<1>3. PICK x \in D : x \notin T /\ m = rank[x]
  BY <1>2
<1>4. x \notin stop /\ next[x] \notin T
  BY <1>3
<1>5. next[x] \in D /\ rank[next[x]] < rank[x]
  BY <1>4 DEF LowerRank
<1>6. rank[next[x]] \in U
  BY <1>4, <1>5
<1>7. m <= rank[next[x]]
  BY <1>2, <1>6
<1>8. rank[x] \in Nat /\ rank[next[x]] \in Nat
  BY <1>5
<1> QED BY <1>3, <1>5, <1>7, <1>8
=============================================================================

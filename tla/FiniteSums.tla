------------------------------ MODULE FiniteSums -----------------------------
(***************************************************************************)
(* The sum of a function over a finite set, as MapThenSumSet computes it:    *)
(* one element is chosen, the others are summed.  The sum exists, is a       *)
(* number, and does not depend on which element is taken first.              *)
(***************************************************************************)
EXTENDS Naturals, FiniteSets, FiniteSetTheorems, TLAPS

\* The recursion of MapThenSumSet: an element is chosen, the others are summed.
Choice(s) == CHOOSE x \in s : TRUE
SumsUp(f, S, g) ==
    g = [s \in SUBSET S |-> IF s = {} THEN 0 ELSE f[Choice(s)] + g[s \ {Choice(s)}]]
TotalOf(f, S) == (CHOOSE g : SumsUp(f, S, g))[S]

\* A set of numbers that is not empty has a least one.
LEMMA LeastNumber ==
    ASSUME NEW N \in SUBSET Nat, N # {}
    PROVE  \E n \in N : \A m \in N : ~(m < n)
  <1>. DEFINE R == {ss \in Nat \X Nat : ss[1] < ss[2]}
  <1>1. IsWellFoundedOn(R, Nat)
    BY NatLessThanWellFounded DEF OpToRel
  <1>2. PICK n \in N : \A m \in N : ~(<<m, n>> \in R)
    BY <1>1, WFMin
  <1>. QED BY <1>2

\* A set has one element more than it has without one of them.
LEMMA Without ==
    ASSUME NEW S, IsFiniteSet(S), S # {}
    PROVE  /\ Choice(S) \in S
           /\ \A x \in S : /\ IsFiniteSet(S \ {x})
                           /\ Cardinality(S \ {x}) \in Nat
                           /\ Cardinality(S \ {x}) < Cardinality(S)
  <1>1. Cardinality(S) \in Nat
    BY FS_CardinalityType
  <1>2. ASSUME NEW x \in S
        PROVE  /\ IsFiniteSet(S \ {x})
               /\ Cardinality(S \ {x}) \in Nat
               /\ Cardinality(S \ {x}) < Cardinality(S)
    <2>1. IsFiniteSet(S \ {x}) /\ Cardinality(S \ {x}) = Cardinality(S) - 1
      BY FS_RemoveElement
    <2>2. Cardinality(S \ {x}) \in Nat
      BY <2>1, FS_CardinalityType
    <2>. QED BY <1>1, <2>1, <2>2
  <1>. QED BY <1>2 DEF Choice

\* What is true of a set if it is true of all smaller ones is true of all.
LEMMA SetInduction ==
    ASSUME NEW U, IsFiniteSet(U), NEW Good \in SUBSET (SUBSET U),
           \A S \in SUBSET U :
              (\A T \in SUBSET U : Cardinality(T) < Cardinality(S) => T \in Good) => S \in Good
    PROVE  SUBSET U \subseteq Good
  <1>. DEFINE N == {n \in Nat : \E S \in SUBSET U : Cardinality(S) = n /\ S \notin Good}
  <1>1. \A S \in SUBSET U : Cardinality(S) \in Nat
    BY FS_Subset, FS_CardinalityType
  <1>2. ASSUME N # {} PROVE FALSE
    <2>1. PICK n \in N : \A m \in N : ~(m < n)
      BY <1>2, LeastNumber
    <2>2. PICK S \in SUBSET U : Cardinality(S) = n /\ S \notin Good
      BY <2>1
    <2>3. ASSUME NEW T \in SUBSET U, Cardinality(T) < Cardinality(S)
          PROVE  T \in Good
      BY <1>1, <2>1, <2>2, <2>3
    <2>. QED BY <2>2, <2>3
  <1>. QED BY <1>1, <1>2

\* Sums of the same function agree where both are defined.
LEMMA SumsAgree ==
    ASSUME NEW f, NEW A, NEW B, NEW g, NEW h, SumsUp(f, A, g), SumsUp(f, B, h),
           NEW U, U \subseteq A, U \subseteq B, IsFiniteSet(U)
    PROVE  \A T \in SUBSET U : g[T] = h[T]
  <1>. DEFINE Good == {T \in SUBSET U : g[T] = h[T]}
  <1>1. ASSUME NEW S \in SUBSET U,
               \A T \in SUBSET U : Cardinality(T) < Cardinality(S) => T \in Good
        PROVE  S \in Good
    <2>1. /\ g[S] = IF S = {} THEN 0 ELSE f[Choice(S)] + g[S \ {Choice(S)}]
          /\ h[S] = IF S = {} THEN 0 ELSE f[Choice(S)] + h[S \ {Choice(S)}]
      <3>1. S \in SUBSET A /\ S \in SUBSET B
        OBVIOUS
      <3>. QED BY <3>1 DEF SumsUp
    <2>2. CASE S = {}
      BY <2>1, <2>2
    <2>3. CASE S # {}
      <3>1. IsFiniteSet(S)
        BY FS_Subset
      <3>2. S \ {Choice(S)} \in SUBSET U /\ Cardinality(S \ {Choice(S)}) < Cardinality(S)
        BY <2>3, <3>1, Without
      <3>3. S \ {Choice(S)} \in Good
        BY <1>1, <3>2
      <3>. QED BY <2>1, <3>3
    <2>. QED BY <2>2, <2>3
  <1>2. SUBSET U \subseteq Good
    <2>. HIDE DEF Good
    <2>1. Good \in SUBSET (SUBSET U)
      BY DEF Good
    <2>. QED BY <1>1, <2>1, SetInduction
  <1>. QED BY <1>2

\* The recursion defines a function.
LEMMA SumExists ==
    ASSUME NEW f, NEW U, IsFiniteSet(U)
    PROVE  \A S \in SUBSET U : \E g : SumsUp(f, S, g)
  <1>. DEFINE Good == {S \in SUBSET U : \E g : SumsUp(f, S, g)}
              G(t) == CHOOSE g : SumsUp(f, t, g)
  <1>1. ASSUME NEW S \in SUBSET U,
               \A T \in SUBSET U : Cardinality(T) < Cardinality(S) => T \in Good
        PROVE  S \in Good
    <2>. DEFINE rest(t) == t \ {Choice(t)}
                g == [t \in SUBSET S |-> IF t = {} THEN 0 ELSE f[Choice(t)] + G(rest(t))[rest(t)]]
    <2>1. ASSUME NEW t \in SUBSET S, t # S
          PROVE  SumsUp(f, t, G(t))
      <3>1. IsFiniteSet(S)
        BY FS_Subset
      <3>2. Cardinality(t) < Cardinality(S)
        BY <2>1, <3>1, FS_Subset, FS_CardinalityType
      <3>3. t \in Good
        BY <1>1, <3>2
      <3>. QED BY <3>3
    <2>2. ASSUME NEW t \in SUBSET S, t # {}
          PROVE  /\ rest(t) \in SUBSET S /\ rest(t) # S /\ Choice(t) \in t
                 /\ IsFiniteSet(rest(t)) /\ rest(t) \subseteq t
      <3>1. IsFiniteSet(t)
        BY FS_Subset
      <3>2. Choice(t) \in t /\ IsFiniteSet(rest(t))
        BY <2>2, <3>1, Without
      <3>. QED BY <3>2
    <2>3. ASSUME NEW t \in SUBSET S, t # {}
          PROVE  g[rest(t)] = G(rest(t))[rest(t)]
      <3>. DEFINE u == rest(t)
      <3>1. u \in SUBSET S /\ SumsUp(f, u, G(u)) /\ IsFiniteSet(u)
        BY <2>1, <2>2, <2>3
      <3>2. CASE u = {}
        <4>1. G(u)[u] = 0
          BY <3>1, <3>2 DEF SumsUp
        <4>. QED BY <3>2, <4>1
      <3>3. CASE u # {}
        <4>1. G(u)[u] = f[Choice(u)] + G(u)[rest(u)]
          BY <3>1, <3>3 DEF SumsUp
        <4>2. /\ rest(u) \in SUBSET S /\ rest(u) # S /\ rest(u) \subseteq u
              /\ IsFiniteSet(rest(u))
          BY <2>2, <3>1, <3>3
        <4>3. SumsUp(f, rest(u), G(rest(u)))
          BY <2>1, <4>2
        <4>4. G(u)[rest(u)] = G(rest(u))[rest(u)]
          <5>. HIDE DEF G, rest, u
          <5>1. \A T \in SUBSET rest(u) : G(u)[T] = G(rest(u))[T]
            BY <3>1, <4>2, <4>3, SumsAgree
          <5>. QED BY <5>1
        <4>5. g[u] = f[Choice(u)] + G(rest(u))[rest(u)]
          BY <3>1, <3>3
        <4>. QED BY <4>1, <4>4, <4>5
      <3>. QED BY <3>2, <3>3
    <2>4. SumsUp(f, S, g)
      <3>1. ASSUME NEW t \in SUBSET S
            PROVE  g[t] = IF t = {} THEN 0 ELSE f[Choice(t)] + g[rest(t)]
        <4>1. g[t] = IF t = {} THEN 0 ELSE f[Choice(t)] + G(rest(t))[rest(t)]
          OBVIOUS
        <4>2. CASE t = {}
          BY <4>1, <4>2
        <4>3. CASE t # {}
          <5>1. g[rest(t)] = G(rest(t))[rest(t)]
            BY <2>3, <4>3
          <5>. HIDE DEF g, G, rest
          <5>. QED BY <4>1, <4>3, <5>1
        <4>. QED BY <4>2, <4>3
      <3>2. g = [t \in SUBSET S |-> g[t]]
        OBVIOUS
      <3>. HIDE DEF g
      <3>3. g = [t \in SUBSET S |-> IF t = {} THEN 0 ELSE f[Choice(t)] + g[rest(t)]]
        BY <3>1, <3>2
      <3>. QED BY <3>3 DEF SumsUp
    <2>. QED BY <2>4
  <1>2. SUBSET U \subseteq Good
    <2>. HIDE DEF Good
    <2>1. Good \in SUBSET (SUBSET U)
      BY DEF Good
    <2>. QED BY <1>1, <2>1, SetInduction
  <1>. QED BY <1>2

\* So there is one sum, whatever function satisfies the recursion.
LEMMA TotalIsSum ==
    ASSUME NEW f, NEW S, IsFiniteSet(S)
    PROVE  /\ SumsUp(f, S, CHOOSE g : SumsUp(f, S, g))
           /\ \A g : SumsUp(f, S, g) => g[S] = TotalOf(f, S)
  <1>1. \E g : SumsUp(f, S, g)
    BY SumExists
  <1>2. SumsUp(f, S, CHOOSE g : SumsUp(f, S, g))
    BY <1>1
  <1>3. ASSUME NEW g, SumsUp(f, S, g)
        PROVE  g[S] = TotalOf(f, S)
    <2>. DEFINE h == CHOOSE g0 : SumsUp(f, S, g0)
    <2>. HIDE DEF h
    <2>1. SumsUp(f, S, h)
      BY <1>2 DEF h
    <2>2. \A T \in SUBSET S : g[T] = h[T]
      BY <1>3, <2>1, SumsAgree
    <2>. QED BY <2>2 DEF TotalOf, h
  <1>. QED BY <1>2, <1>3

\* The recursion, a set at a time.
LEMMA TotalStep ==
    ASSUME NEW f, NEW S, IsFiniteSet(S)
    PROVE  TotalOf(f, S) = IF S = {} THEN 0 ELSE f[Choice(S)] + TotalOf(f, S \ {Choice(S)})
  <1>. DEFINE g == CHOOSE h : SumsUp(f, S, h)
              T == S \ {Choice(S)}
  <1>1. SumsUp(f, S, g) /\ TotalOf(f, S) = g[S]
    BY TotalIsSum DEF TotalOf
  <1>2. CASE S = {}
    BY <1>1, <1>2 DEF SumsUp
  <1>3. CASE S # {}
    <2>. HIDE DEF g
    <2>1. T \in SUBSET S /\ IsFiniteSet(T)
      BY <1>3, Without
    <2>. DEFINE h == CHOOSE x : SumsUp(f, T, x)
    <2>2. SumsUp(f, T, h) /\ TotalOf(f, T) = h[T]
      BY <2>1, TotalIsSum DEF TotalOf
    <2>. HIDE DEF h
    <2>3. \A U \in SUBSET T : g[U] = h[U]
      BY <1>1, <2>1, <2>2, SumsAgree
    <2>4. g[S] = f[Choice(S)] + g[T]
      BY <1>1, <1>3 DEF SumsUp
    <2>. QED BY <1>1, <1>3, <2>2, <2>3, <2>4
  <1>. QED BY <1>2, <1>3

\* Nothing adds up to nothing, and numbers to a number.
LEMMA TotalOfNone ==
    ASSUME NEW f
    PROVE  TotalOf(f, {}) = 0
  <1>1. IsFiniteSet({})
    BY FS_EmptySet
  <1>2. TotalOf(f, {}) = IF {} = {} THEN 0 ELSE f[Choice({})] + TotalOf(f, {} \ {Choice({})})
    BY <1>1, TotalStep
  <1>. QED BY <1>2

LEMMA TotalType ==
    ASSUME NEW f, NEW U, IsFiniteSet(U), \A x \in U : f[x] \in Nat
    PROVE  \A S \in SUBSET U : TotalOf(f, S) \in Nat
  <1>. DEFINE Good == {S \in SUBSET U : TotalOf(f, S) \in Nat}
  <1>1. ASSUME NEW S \in SUBSET U,
               \A T \in SUBSET U : Cardinality(T) < Cardinality(S) => T \in Good
        PROVE  S \in Good
    <2>1. IsFiniteSet(S)
      BY FS_Subset
    <2>2. CASE S = {}
      <3>1. TotalOf(f, S) = IF S = {} THEN 0 ELSE f[Choice(S)] + TotalOf(f, S \ {Choice(S)})
        BY <2>1, TotalStep
      <3>2. TotalOf(f, S) = 0
        BY <2>2, <3>1
      <3>. QED BY <3>2
    <2>3. CASE S # {}
      <3>1. Choice(S) \in S /\ S \ {Choice(S)} \in Good
        BY <1>1, <2>1, <2>3, Without
      <3>2. TotalOf(f, S) = f[Choice(S)] + TotalOf(f, S \ {Choice(S)})
        BY <2>1, <2>3, TotalStep
      <3>. QED BY <3>1, <3>2
    <2>. QED BY <2>2, <2>3
  <1>2. SUBSET U \subseteq Good
    <2>. HIDE DEF Good
    <2>1. Good \in SUBSET (SUBSET U)
      BY DEF Good
    <2>. QED BY <1>1, <2>1, SetInduction
  <1>. QED BY <1>2

\* Any element may be taken out of a sum first.
LEMMA TotalWithout ==
    ASSUME NEW f, NEW U, IsFiniteSet(U), \A x \in U : f[x] \in Nat
    PROVE  \A S \in SUBSET U : \A y \in S : TotalOf(f, S) = f[y] + TotalOf(f, S \ {y})
  <1>. DEFINE Good == {S \in SUBSET U : \A y \in S : TotalOf(f, S) = f[y] + TotalOf(f, S \ {y})}
  <1>1. ASSUME NEW S \in SUBSET U,
               \A T \in SUBSET U : Cardinality(T) < Cardinality(S) => T \in Good
        PROVE  S \in Good
    <2>. SUFFICES ASSUME NEW y \in S
                  PROVE  TotalOf(f, S) = f[y] + TotalOf(f, S \ {y})
      OBVIOUS
    <2>. DEFINE z == Choice(S)
    <2>1. IsFiniteSet(S) /\ z \in S /\ \A x \in S : IsFiniteSet(S \ {x}) /\ S \ {x} \in Good
      <3>1. IsFiniteSet(S)
        BY FS_Subset
      <3>. QED BY <1>1, <3>1, Without
    <2>2. TotalOf(f, S) = f[z] + TotalOf(f, S \ {z})
      BY <2>1, TotalStep
    <2>. HIDE DEF z
    <2>3. CASE y = z
      BY <2>2, <2>3
    <2>4. CASE y # z
      <3>1. TotalOf(f, S \ {z}) = f[y] + TotalOf(f, (S \ {z}) \ {y})
        BY <2>1, <2>4
      <3>2. TotalOf(f, S \ {y}) = f[z] + TotalOf(f, (S \ {y}) \ {z})
        BY <2>1, <2>4
      <3>3. (S \ {z}) \ {y} = (S \ {y}) \ {z}
        OBVIOUS
      <3>4. f[y] \in Nat /\ f[z] \in Nat /\ TotalOf(f, (S \ {y}) \ {z}) \in Nat
        BY <2>1, TotalType
      <3>. QED BY <2>2, <3>1, <3>2, <3>3, <3>4
    <2>. QED BY <2>3, <2>4
  <1>2. SUBSET U \subseteq Good
    <2>. HIDE DEF Good
    <2>1. Good \in SUBSET (SUBSET U)
      BY DEF Good
    <2>. QED BY <1>1, <2>1, SetInduction
  <1>. QED BY <1>2

\* The sum says nothing of other elements.
LEMMA TotalOfSame ==
    ASSUME NEW f, NEW h, NEW S, IsFiniteSet(S), \A x \in S : f[x] = h[x]
    PROVE  TotalOf(f, S) = TotalOf(h, S)
  <1>. DEFINE g == CHOOSE x : SumsUp(f, S, x)
  <1>1. SumsUp(f, S, g) /\ TotalOf(f, S) = g[S]
    BY TotalIsSum DEF TotalOf
  <1>. HIDE DEF g
  <1>2. \A s \in SUBSET S : s # {} => Choice(s) \in S
    <2>1. ASSUME NEW s \in SUBSET S, s # {} PROVE Choice(s) \in S
      <3>1. IsFiniteSet(s)
        BY FS_Subset
      <3>. QED BY <2>1, <3>1, Without
    <2>. QED BY <2>1
  <1>3. SumsUp(h, S, g)
    BY <1>1, <1>2 DEF SumsUp
  <1>. QED BY <1>1, <1>3, TotalIsSum

\* Elements that count nothing may be left out of a sum.
LEMMA ZerosAddNothing ==
    ASSUME NEW f, NEW U, IsFiniteSet(U), \A x \in U : f[x] \in Nat,
           NEW S \in SUBSET U, \A x \in U \ S : f[x] = 0
    PROVE  TotalOf(f, U) = TotalOf(f, S)
  <1>. DEFINE Good == {T \in SUBSET U : S \subseteq T => TotalOf(f, T) = TotalOf(f, S)}
  <1>1. ASSUME NEW T \in SUBSET U,
               \A V \in SUBSET U : Cardinality(V) < Cardinality(T) => V \in Good
        PROVE  T \in Good
    <2>. SUFFICES ASSUME S \subseteq T, T # S
                  PROVE  TotalOf(f, T) = TotalOf(f, S)
      OBVIOUS
    <2>1. PICK y \in T : y \notin S
      OBVIOUS
    <2>2. IsFiniteSet(T) /\ IsFiniteSet(T \ {y}) /\ Cardinality(T \ {y}) < Cardinality(T)
      <3>1. IsFiniteSet(T)
        BY FS_Subset
      <3>. QED BY <2>1, <3>1, Without
    <2>3. T \ {y} \in Good /\ S \subseteq T \ {y}
      BY <1>1, <2>1, <2>2
    <2>4. TotalOf(f, T) = f[y] + TotalOf(f, T \ {y})
      BY <2>1, TotalWithout
    <2>5. f[y] = 0 /\ TotalOf(f, S) \in Nat
      BY <2>1, TotalType
    <2>. QED BY <2>3, <2>4, <2>5
  <1>2. SUBSET U \subseteq Good
    <2>. HIDE DEF Good
    <2>1. Good \in SUBSET (SUBSET U)
      BY DEF Good
    <2>. QED BY <1>1, <2>1, SetInduction
  <1>. QED BY <1>2

\* A sum of larger numbers is no smaller.
LEMMA TotalMonotone ==
    ASSUME NEW f, NEW h, NEW U, IsFiniteSet(U),
           \A x \in U : f[x] \in Nat /\ h[x] \in Nat /\ f[x] <= h[x]
    PROVE  \A S \in SUBSET U : TotalOf(f, S) <= TotalOf(h, S)
  <1>. DEFINE Good == {S \in SUBSET U : TotalOf(f, S) <= TotalOf(h, S)}
  <1>1. ASSUME NEW S \in SUBSET U,
               \A T \in SUBSET U : Cardinality(T) < Cardinality(S) => T \in Good
        PROVE  S \in Good
    <2>. DEFINE y == Choice(S)
                T == S \ {y}
    <2>1. IsFiniteSet(S)
      BY FS_Subset
    <2>2. CASE S = {}
      <3>1. TotalOf(f, {}) = 0 /\ TotalOf(h, {}) = 0
        BY TotalOfNone
      <3>. QED BY <2>2, <3>1
    <2>3. CASE S # {}
      <3>1. y \in S /\ T \in SUBSET U /\ Cardinality(T) < Cardinality(S)
        BY <2>1, <2>3, Without
      <3>2. TotalOf(f, T) <= TotalOf(h, T)
        BY <1>1, <3>1
      <3>3. TotalOf(f, S) = f[y] + TotalOf(f, T) /\ TotalOf(h, S) = h[y] + TotalOf(h, T)
        BY <2>1, <2>3, TotalStep
      <3>4. TotalOf(f, T) \in Nat /\ TotalOf(h, T) \in Nat
        BY <3>1, TotalType
      <3>5. f[y] \in Nat /\ h[y] \in Nat /\ f[y] <= h[y]
        BY <3>1
      <3>. HIDE DEF y, T
      <3>. QED BY <3>2, <3>3, <3>4, <3>5
    <2>. QED BY <2>2, <2>3
  <1>2. SUBSET U \subseteq Good
    <2>. HIDE DEF Good
    <2>1. Good \in SUBSET (SUBSET U)
      BY DEF Good
    <2>. QED BY <1>1, <2>1, SetInduction
  <1>. QED BY <1>2

=============================================================================

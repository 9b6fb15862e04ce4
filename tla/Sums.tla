-------------------------------- MODULE Sums --------------------------------
(***************************************************************************)
(* Lemmas about SumFunctionOnSet(f, S), the sum of f[x] over a finite set: *)
(* the library defines it by recursion over subsets with a choice of the   *)
(* next element, and proofs need that the choice does not matter.          *)
(***************************************************************************)
EXTENDS Integers, FiniteSets, Functions, FiniteSetTheorems, NaturalsInduction, TLAPS

\* Every nonempty set of numbers has a least element.
LEMMA LeastNumber ==
  ASSUME NEW S \in SUBSET Nat, S # {}
  PROVE  \E x \in S : \A y \in S : x <= y
<1> DEFINE R == OpToRel(<, Nat)
<1>1. IsWellFoundedOn(R, Nat)
  BY NatLessThanWellFounded
<1>2. \A x, y \in Nat : <<y, x>> \in R <=> y < x
  BY DEF OpToRel
<1>3. PICK x \in S : \A y \in S : ~(<<y, x>> \in R)
  <2> HIDE DEF R
  <2> QED BY <1>1, WFMin
<1> HIDE DEF R
<1>4. \A y \in S : ~(y < x)
  BY <1>2, <1>3
<1> QED BY <1>4

\* Induction over the subsets of a finite set, about membership in a set.
LEMMA SubsetInduction ==
  ASSUME NEW S, IsFiniteSet(S), NEW Good,
         \A T \in SUBSET S : (\A U \in SUBSET T : U # T => U \in Good) => T \in Good
  PROVE  S \in Good
<1> DEFINE Bad == {n \in Nat : \E T \in SUBSET S : T \notin Good /\ Cardinality(T) = n}
<1>1. SUFFICES ASSUME S \notin Good PROVE FALSE
  OBVIOUS
<1>2. Cardinality(S) \in Bad
  BY <1>1, FS_CardinalityType
<1>3. PICK n \in Bad : \A m \in Bad : n <= m
  BY <1>2, LeastNumber
<1>4. PICK T \in SUBSET S : T \notin Good /\ Cardinality(T) = n
  BY <1>3
<1>5. PICK U \in SUBSET T : U # T /\ U \notin Good
  BY <1>4
<1>6. IsFiniteSet(T) /\ Cardinality(U) \in Nat /\ Cardinality(U) <= n /\ Cardinality(U) # n
  BY <1>4, <1>5, FS_Subset, FS_CardinalityType
<1>7. Cardinality(U) \in Bad
  BY <1>5, <1>6
<1> QED BY <1>3, <1>6, <1>7
-----------------------------------------------------------------------------
Elem(s) == CHOOSE x \in s : TRUE

\* g sums f over every subset of S.
SumsUp(f, S, g) ==
  g = [s \in SUBSET S |-> IF s = {} THEN 0 ELSE f[Elem(s)] + g[s \ {Elem(s)}]]

SumTable(f, S) == CHOOSE g : SumsUp(f, S, g)

LEMMA SumIsTabled ==
  ASSUME NEW f, NEW S
  PROVE  SumFunctionOnSet(f, S) = SumTable(f, S)[S]
  BY Zenon DEF SumFunctionOnSet, FoldFunctionOnSet, MapThenFoldSet, SumTable, SumsUp, Elem

\* Two functions that sum f over all subsets agree wherever both are defined.
LEMMA SumsAgree ==
  ASSUME NEW f, NEW S, NEW T, NEW g, NEW h, SumsUp(f, S, g), SumsUp(f, T, h),
         NEW U, U \subseteq S, U \subseteq T, IsFiniteSet(U)
  PROVE  g[U] = h[U]
<1> DEFINE Same == {V \in SUBSET U : g[V] = h[V]}
<1>1. ASSUME NEW V \in SUBSET U, \A W \in SUBSET V : W # V => W \in Same
      PROVE  V \in Same
  <2>1. V \in SUBSET S /\ V \in SUBSET T
    OBVIOUS
  <2>2. g[V] = IF V = {} THEN 0 ELSE f[Elem(V)] + g[V \ {Elem(V)}]
    BY <2>1 DEF SumsUp
  <2>3. h[V] = IF V = {} THEN 0 ELSE f[Elem(V)] + h[V \ {Elem(V)}]
    BY <2>1 DEF SumsUp
  <2>4. CASE V = {}
    BY <2>2, <2>3, <2>4
  <2>5. CASE V # {}
    <3>1. Elem(V) \in V
      BY <2>5 DEF Elem
    <3>2. V \ {Elem(V)} \in Same
      BY <1>1, <3>1
    <3> QED BY <2>2, <2>3, <2>5, <3>2
  <2> QED BY <2>4, <2>5
<1> HIDE DEF Same
<1>2. U \in Same
  BY <1>1, SubsetInduction
<1> QED BY <1>2 DEF Same

\* Such a function exists for every finite set, and the one that is chosen is one.
LEMMA SumsExist ==
  ASSUME NEW f, NEW S, IsFiniteSet(S)
  PROVE  SumsUp(f, S, SumTable(f, S))
<1> DEFINE Summed == {T \in SUBSET S : SumsUp(f, T, SumTable(f, T))}
<1>1. ASSUME NEW T \in SUBSET S, \A U \in SUBSET T : U # T => U \in Summed
      PROVE  T \in Summed
  <2> DEFINE rest(s) == s \ {Elem(s)}
             g == [s \in SUBSET T |->
                     IF s = {} THEN 0 ELSE f[Elem(s)] + SumTable(f, rest(s))[rest(s)]]
  <2>1. ASSUME NEW s \in SUBSET T, s # {}
        PROVE  rest(s) \in SUBSET T /\ rest(s) # T /\ SumsUp(f, rest(s), SumTable(f, rest(s)))
    <3>1. Elem(s) \in s
      BY <2>1 DEF Elem
    <3>2. rest(s) \in SUBSET T /\ rest(s) # T
      BY <3>1
    <3> QED BY <1>1, <3>2
  <2>2. ASSUME NEW s \in SUBSET T, s # {}
        PROVE  g[rest(s)] = SumTable(f, rest(s))[rest(s)]
    <3> DEFINE u == rest(s)
    <3>1. u \in SUBSET T /\ SumsUp(f, u, SumTable(f, u))
      BY <2>1, <2>2
    <3>2. SumTable(f, u)[u] = IF u = {} THEN 0 ELSE f[Elem(u)] + SumTable(f, u)[rest(u)]
      <4> HIDE DEF u
      <4> QED BY <3>1 DEF SumsUp
    <3>3. g[u] = IF u = {} THEN 0 ELSE f[Elem(u)] + SumTable(f, rest(u))[rest(u)]
      <4> HIDE DEF u
      <4> QED BY <3>1
    <3>4. ASSUME u # {}
          PROVE  SumTable(f, u)[rest(u)] = SumTable(f, rest(u))[rest(u)]
      <4>1. rest(u) \subseteq u /\ SumsUp(f, rest(u), SumTable(f, rest(u)))
        BY <2>1, <3>1, <3>4
      <4>2. IsFiniteSet(rest(u))
        BY <3>1, <4>1, FS_Subset
      <4> HIDE DEF u, rest
      <4> QED BY <3>1, <4>1, <4>2, SumsAgree
    <3> HIDE DEF g, u, rest
    <3>5. g[u] = SumTable(f, u)[u]
      BY <3>2, <3>3, <3>4
    <3> QED BY <3>5 DEF u
  <2>3. SumsUp(f, T, g)
    <3>1. g = [s \in SUBSET T |-> IF s = {} THEN 0 ELSE f[Elem(s)] + g[rest(s)]]
      BY <2>2
    <3> QED BY <3>1 DEF SumsUp
  <2> HIDE DEF g
  <2>4. SumsUp(f, T, SumTable(f, T))
    BY <2>3 DEF SumTable
  <2> QED BY <2>4
<1> HIDE DEF Summed
<1>2. S \in Summed
  BY <1>1, SubsetInduction
<1> QED BY <1>2 DEF Summed
-----------------------------------------------------------------------------
LEMMA SumEmpty ==
  ASSUME NEW f
  PROVE  SumFunctionOnSet(f, {}) = 0
<1>1. SumsUp(f, {}, SumTable(f, {}))
  BY SumsExist, FS_EmptySet
<1>2. SumTable(f, {})[{}] = 0
  BY <1>1 DEF SumsUp
<1> QED BY <1>2, SumIsTabled

\* The recursion of the library's definition.
LEMMA SumUnfold ==
  ASSUME NEW f, NEW S, IsFiniteSet(S), S # {}
  PROVE  /\ Elem(S) \in S
         /\ SumFunctionOnSet(f, S) = f[Elem(S)] + SumFunctionOnSet(f, S \ {Elem(S)})
<1> DEFINE rest == S \ {Elem(S)}
<1>1. Elem(S) \in S
  BY DEF Elem
<1>2. IsFiniteSet(rest)
  BY FS_RemoveElement
<1>3. SumsUp(f, S, SumTable(f, S)) /\ SumsUp(f, rest, SumTable(f, rest))
  BY <1>2, SumsExist
<1>4. SumTable(f, S)[S] = f[Elem(S)] + SumTable(f, S)[rest]
  BY <1>3 DEF SumsUp
<1>5. SumTable(f, S)[rest] = SumTable(f, rest)[rest]
  <2> HIDE DEF rest
  <2>1. rest \subseteq S
    BY DEF rest
  <2> QED BY <1>2, <1>3, <2>1, SumsAgree
<1> QED BY <1>1, <1>4, <1>5, SumIsTabled

\* A sum of integers is an integer ...
LEMMA SumType ==
  ASSUME NEW f, NEW S, IsFiniteSet(S), \A x \in S : f[x] \in Int
  PROVE  SumFunctionOnSet(f, S) \in Int
<1> DEFINE Typed == {T \in SUBSET S : SumFunctionOnSet(f, T) \in Int}
<1>1. ASSUME NEW T \in SUBSET S, \A U \in SUBSET T : U # T => U \in Typed
      PROVE  T \in Typed
  <2>1. CASE T = {}
    BY <2>1, SumEmpty
  <2>2. CASE T # {}
    <3>1. IsFiniteSet(T)
      BY FS_Subset
    <3>2. Elem(T) \in T
      BY <2>2, <3>1, SumUnfold
    <3>3. SumFunctionOnSet(f, T) = f[Elem(T)] + SumFunctionOnSet(f, T \ {Elem(T)})
      BY <2>2, <3>1, SumUnfold
    <3>4. T \ {Elem(T)} \in Typed
      BY <1>1, <3>2
    <3> QED BY <3>2, <3>3, <3>4
  <2> QED BY <2>1, <2>2
<1> HIDE DEF Typed
<1>2. S \in Typed
  BY <1>1, SubsetInduction
<1> QED BY <1>2 DEF Typed

\* ... and does not depend on the order: any element may be taken out first.
LEMMA SumRemove ==
  ASSUME NEW f, NEW S, IsFiniteSet(S), \A x \in S : f[x] \in Int, NEW a \in S
  PROVE  SumFunctionOnSet(f, S) = f[a] + SumFunctionOnSet(f, S \ {a})
<1> DEFINE Any == {T \in SUBSET S : \A x \in T :
                     SumFunctionOnSet(f, T) = f[x] + SumFunctionOnSet(f, T \ {x})}
<1>1. ASSUME NEW T \in SUBSET S, \A U \in SUBSET T : U # T => U \in Any
      PROVE  T \in Any
  <2>1. SUFFICES ASSUME NEW x \in T
                 PROVE  SumFunctionOnSet(f, T) = f[x] + SumFunctionOnSet(f, T \ {x})
    OBVIOUS
  <2> DEFINE e == Elem(T)
  <2>2. IsFiniteSet(T)
    BY FS_Subset
  <2>3. e \in T /\ SumFunctionOnSet(f, T) = f[e] + SumFunctionOnSet(f, T \ {e})
    BY <2>2, SumUnfold
  <2> HIDE DEF e
  <2>4. CASE x = e
    BY <2>3, <2>4
  <2>5. CASE x # e
    <3>1. T \ {e} \in Any /\ T \ {x} \in Any /\ x \in T \ {e} /\ e \in T \ {x}
      BY <1>1, <2>3, <2>5
    <3>2. /\ SumFunctionOnSet(f, T \ {e}) = f[x] + SumFunctionOnSet(f, (T \ {e}) \ {x})
          /\ SumFunctionOnSet(f, T \ {x}) = f[e] + SumFunctionOnSet(f, (T \ {x}) \ {e})
      BY <3>1
    <3>3. (T \ {e}) \ {x} = (T \ {x}) \ {e}
      OBVIOUS
    <3>4. IsFiniteSet((T \ {x}) \ {e}) /\ \A y \in (T \ {x}) \ {e} : f[y] \in Int
      BY <2>2, FS_RemoveElement
    <3>5. SumFunctionOnSet(f, (T \ {x}) \ {e}) \in Int /\ f[x] \in Int /\ f[e] \in Int
      BY <2>3, <3>4, SumType
    <3> DEFINE rest == SumFunctionOnSet(f, (T \ {x}) \ {e})
    <3>6. SumFunctionOnSet(f, T \ {e}) = f[x] + rest /\ SumFunctionOnSet(f, T \ {x}) = f[e] + rest
      BY Zenon, <3>2, <3>3
    <3>7. rest \in Int
      BY <3>5
    <3> HIDE DEF Any, rest
    <3> QED BY <2>3, <3>5, <3>6, <3>7
  <2> QED BY <2>4, <2>5
<1> HIDE DEF Any
<1>2. S \in Any
  BY <1>1, SubsetInduction
<1> QED BY <1>2 DEF Any

LEMMA SumAdd ==
  ASSUME NEW f, NEW S, IsFiniteSet(S), NEW a, a \notin S, \A x \in S \cup {a} : f[x] \in Int
  PROVE  SumFunctionOnSet(f, S \cup {a}) = f[a] + SumFunctionOnSet(f, S)
<1>1. IsFiniteSet(S \cup {a}) /\ (S \cup {a}) \ {a} = S
  BY FS_AddElement
<1> QED BY <1>1, SumRemove

\* A sum depends on the values of its elements only.
LEMMA SumSame ==
  ASSUME NEW f, NEW g, NEW S, IsFiniteSet(S), \A x \in S : f[x] = g[x]
  PROVE  SumFunctionOnSet(f, S) = SumFunctionOnSet(g, S)
<1> DEFINE Same == {T \in SUBSET S : SumFunctionOnSet(f, T) = SumFunctionOnSet(g, T)}
<1>1. ASSUME NEW T \in SUBSET S, \A U \in SUBSET T : U # T => U \in Same
      PROVE  T \in Same
  <2>1. CASE T = {}
    BY <2>1, SumEmpty
  <2>2. CASE T # {}
    <3>1. IsFiniteSet(T)
      BY FS_Subset
    <3>2. /\ Elem(T) \in T
          /\ SumFunctionOnSet(f, T) = f[Elem(T)] + SumFunctionOnSet(f, T \ {Elem(T)})
          /\ SumFunctionOnSet(g, T) = g[Elem(T)] + SumFunctionOnSet(g, T \ {Elem(T)})
      BY <2>2, <3>1, SumUnfold
    <3>3. T \ {Elem(T)} \in Same /\ f[Elem(T)] = g[Elem(T)]
      BY <1>1, <3>2
    <3> QED BY <3>2, <3>3
  <2> QED BY <2>1, <2>2
<1> HIDE DEF Same
<1>2. S \in Same
  BY <1>1, SubsetInduction
<1> QED BY <1>2 DEF Same

\* When one value changes, the sum changes by as much.
LEMMA SumChange ==
  ASSUME NEW f, NEW g, NEW S, IsFiniteSet(S), NEW a \in S,
         \A x \in S : f[x] \in Int /\ g[x] \in Int,
         \A x \in S \ {a} : f[x] = g[x]
  PROVE  SumFunctionOnSet(g, S) = SumFunctionOnSet(f, S) + (g[a] - f[a])
<1>1. IsFiniteSet(S \ {a})
  BY FS_RemoveElement
<1>2. SumFunctionOnSet(f, S \ {a}) = SumFunctionOnSet(g, S \ {a})
  BY <1>1, SumSame
<1>3. SumFunctionOnSet(f, S \ {a}) \in Int
  BY <1>1, SumType
<1>4. /\ SumFunctionOnSet(f, S) = f[a] + SumFunctionOnSet(f, S \ {a})
      /\ SumFunctionOnSet(g, S) = g[a] + SumFunctionOnSet(g, S \ {a})
  BY SumRemove
<1>5. f[a] \in Int /\ g[a] \in Int
  OBVIOUS
<1> QED BY <1>2, <1>3, <1>4, <1>5

LEMMA SumZero ==
  ASSUME NEW f, NEW S, IsFiniteSet(S), \A x \in S : f[x] = 0
  PROVE  SumFunctionOnSet(f, S) = 0
<1> DEFINE Zero == {T \in SUBSET S : SumFunctionOnSet(f, T) = 0}
<1>1. ASSUME NEW T \in SUBSET S, \A U \in SUBSET T : U # T => U \in Zero
      PROVE  T \in Zero
  <2>1. CASE T = {}
    BY <2>1, SumEmpty
  <2>2. CASE T # {}
    <3>1. IsFiniteSet(T)
      BY FS_Subset
    <3>2. /\ Elem(T) \in T
          /\ SumFunctionOnSet(f, T) = f[Elem(T)] + SumFunctionOnSet(f, T \ {Elem(T)})
      BY <2>2, <3>1, SumUnfold
    <3>3. T \ {Elem(T)} \in Zero /\ f[Elem(T)] = 0
      BY <1>1, <3>2
    <3> QED BY <3>2, <3>3
  <2> QED BY <2>1, <2>2
<1> HIDE DEF Zero
<1>2. S \in Zero
  BY <1>1, SubsetInduction
<1> QED BY <1>2 DEF Zero

\* Larger values have a larger sum.
LEMMA SumMonotone ==
  ASSUME NEW f, NEW g, NEW S, IsFiniteSet(S), \A x \in S : f[x] \in Int /\ g[x] \in Int /\ f[x] <= g[x]
  PROVE  SumFunctionOnSet(f, S) <= SumFunctionOnSet(g, S)
<1> DEFINE Less == {T \in SUBSET S : SumFunctionOnSet(f, T) <= SumFunctionOnSet(g, T)}
<1>1. ASSUME NEW T \in SUBSET S, \A U \in SUBSET T : U # T => U \in Less
      PROVE  T \in Less
  <2>1. CASE T = {}
    BY <2>1, SumEmpty
  <2>2. CASE T # {}
    <3>1. IsFiniteSet(T)
      BY FS_Subset
    <3> DEFINE rest == T \ {Elem(T)}
    <3>2. /\ Elem(T) \in T
          /\ SumFunctionOnSet(f, T) = f[Elem(T)] + SumFunctionOnSet(f, rest)
          /\ SumFunctionOnSet(g, T) = g[Elem(T)] + SumFunctionOnSet(g, rest)
      BY <2>2, <3>1, SumUnfold
    <3>3. rest \in Less
      BY <1>1, <3>2
    <3>4. IsFiniteSet(rest) /\ \A x \in rest : f[x] \in Int /\ g[x] \in Int
      BY <3>1, FS_RemoveElement
    <3>5. SumFunctionOnSet(f, rest) \in Int /\ SumFunctionOnSet(g, rest) \in Int
      BY <3>4, SumType
    <3>6. f[Elem(T)] \in Int /\ g[Elem(T)] \in Int /\ f[Elem(T)] <= g[Elem(T)]
      BY <3>2
    <3> HIDE DEF rest
    <3> QED BY <3>2, <3>3, <3>5, <3>6
  <2> QED BY <2>1, <2>2
<1> HIDE DEF Less
<1>2. S \in Less
  BY <1>1, SubsetInduction
<1> QED BY <1>2 DEF Less

LEMMA SumNat ==
  ASSUME NEW f, NEW S, IsFiniteSet(S), \A x \in S : f[x] \in Nat
  PROVE  SumFunctionOnSet(f, S) \in Nat
<1> DEFINE zero == [x \in S |-> 0]
<1>1. SumFunctionOnSet(zero, S) = 0
  BY SumZero
<1>2. \A x \in S : zero[x] \in Int /\ f[x] \in Int /\ zero[x] <= f[x]
  OBVIOUS
<1> HIDE DEF zero
<1>3. SumFunctionOnSet(zero, S) <= SumFunctionOnSet(f, S) /\ SumFunctionOnSet(f, S) \in Int
  BY <1>2, SumMonotone, SumType
<1> QED BY <1>1, <1>3

-----------------------------------------------------------------------------
(***************************************************************************)
(* Recursion over the natural numbers.                                     *)
(***************************************************************************)

\* Induction for a set of numbers.
LEMMA Induction ==
  ASSUME NEW Good, 0 \in Good, \A n \in Nat : n \in Good => n + 1 \in Good
  PROVE  \A n \in Nat : n \in Good
<1> DEFINE Bad == Nat \ Good
<1>1. SUFFICES ASSUME Bad # {} PROVE FALSE
  OBVIOUS
<1>2. PICK least \in Bad : \A n \in Bad : least <= n
  BY <1>1, LeastNumber
<1>3. least # 0 /\ least - 1 \in Nat /\ least - 1 \notin Bad
  BY <1>2
<1> QED BY <1>3

\* The first k values of a sequence that starts with a and goes on by step.
GoesOn(a, step, k, g) ==
  /\ DOMAIN g = 0..k /\ g[0] = a
  /\ \A i \in 0..(k - 1) : g[i + 1] = step[i][g[i]]

\* The whole sequence.
Iterates(S, a, step, f) ==
  f \in [Nat -> S] /\ f[0] = a /\ \A n \in Nat : f[n + 1] = step[n][f[n]]

\* A recursive definition over the natural numbers has a solution.
LEMMA Recursion ==
  ASSUME NEW S, NEW a, NEW step, a \in S, step \in [Nat -> [S -> S]]
  PROVE  \E f : Iterates(S, a, step, f)
<1> DEFINE Begun == {k \in Nat : \E g \in [0..k -> S] : GoesOn(a, step, k, g)}
<1>1. 0 \in Begun
  <2>1. [i \in 0..0 |-> a] \in [0..0 -> S] /\ GoesOn(a, step, 0, [i \in 0..0 |-> a])
    BY DEF GoesOn
  <2> QED BY <2>1
<1>2. ASSUME NEW k \in Nat, k \in Begun PROVE k + 1 \in Begun
  <2>1. PICK g \in [0..k -> S] : GoesOn(a, step, k, g)
    BY <1>2
  <2>2. PICK h : h = [i \in 0..(k + 1) |-> IF i = k + 1 THEN step[k][g[k]] ELSE g[i]]
    OBVIOUS
  <2>3. h \in [0..(k + 1) -> S]
    BY <2>2
  <2>4. /\ h[0] = a /\ h[k + 1] = step[k][g[k]] /\ h[k] = g[k]
        /\ \A i \in 0..k : h[i] = g[i]
    BY <2>1, <2>2 DEF GoesOn
  <2>5. ASSUME NEW i \in 0..((k + 1) - 1) PROVE h[i + 1] = step[i][h[i]]
    <3>1. CASE i = k
      BY <2>4, <3>1
    <3>2. CASE i # k
      <4>1. i \in 0..(k - 1) /\ i + 1 \in 0..k /\ i \in 0..k
        BY <3>2
      <4> QED BY <2>1, <2>4, <4>1 DEF GoesOn
    <3> QED BY <3>1, <3>2
  <2>6. GoesOn(a, step, k + 1, h)
    BY <2>2, <2>4, <2>5 DEF GoesOn
  <2> QED BY <2>3, <2>6
<1>3. \A k \in Nat : k \in Begun
  <2> HIDE DEF Begun
  <2> QED BY <1>1, <1>2, Induction
<1>4. ASSUME NEW k \in Nat, NEW l \in Nat, NEW g, NEW h,
             GoesOn(a, step, k, g), GoesOn(a, step, l, h), NEW i \in Nat, i <= k, i <= l
      PROVE  g[i] = h[i]
  <2> DEFINE Same == {n \in Nat : n <= k /\ n <= l => g[n] = h[n]}
  <2>1. 0 \in Same
    BY <1>4 DEF GoesOn
  <2>2. ASSUME NEW n \in Nat, n \in Same PROVE n + 1 \in Same
    <3>1. SUFFICES ASSUME n + 1 <= k, n + 1 <= l PROVE g[n + 1] = h[n + 1]
      OBVIOUS
    <3>2. n \in 0..(k - 1) /\ n \in 0..(l - 1) /\ g[n] = h[n]
      BY <2>2, <3>1
    <3> QED BY <1>4, <3>2 DEF GoesOn
  <2>3. \A n \in Nat : n \in Same
    <3> HIDE DEF Same
    <3> QED BY <2>1, <2>2, Induction
  <2> QED BY <1>4, <2>3
<1> DEFINE part(k) == CHOOSE g \in [0..k -> S] : GoesOn(a, step, k, g)
<1>5. \A k \in Nat : part(k) \in [0..k -> S] /\ GoesOn(a, step, k, part(k))
  BY <1>3
<1>6. PICK f : f = [k \in Nat |-> part(k)[k]]
  OBVIOUS
<1> HIDE DEF part
<1>7. f \in [Nat -> S]
  BY <1>5, <1>6
<1>8. f[0] = a
  BY <1>5, <1>6 DEF GoesOn
<1>9. ASSUME NEW n \in Nat PROVE f[n + 1] = step[n][f[n]]
  <2>1. part(n + 1)[n + 1] = step[n][part(n + 1)[n]]
    BY <1>5 DEF GoesOn
  <2>2. part(n + 1)[n] = part(n)[n]
    BY <1>4, <1>5
  <2> QED BY <1>6, <2>1, <2>2
<1> QED BY <1>7, <1>8, <1>9 DEF Iterates
=============================================================================

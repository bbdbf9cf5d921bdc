------------------------------ MODULE NatSets ------------------------------
(* Induction on the natural numbers in a form that quantifies over a set,   *)
(* and what follows from it about functions defined by recursion on 0..n,    *)
(* about the largest element of a finite set and about the sum of a function *)
(* over one (SumFunctionOnSet of the community modules).                    *)
EXTENDS Integers, Functions, FiniteSetTheorems, WellFoundedInduction, TLAPS

\* A set of naturals that holds zero and the successor of each of its members
\* holds every natural.
LEMMA SetInduction ==
  ASSUME NEW S \in SUBSET Nat, 0 \in S, \A n \in S : n + 1 \in S
  PROVE  Nat \subseteq S
<1> DEFINE T == Nat \ S
           R == {ss \in Nat \X Nat : ss[1] < ss[2]}
<1>1. IsWellFoundedOn(R, Nat)
  BY NatLessThanWellFounded DEF OpToRel
<1>2. SUFFICES ASSUME T # {} PROVE FALSE
  OBVIOUS
<1>3. PICK x \in T : \A y \in T : ~(<<y, x>> \in R)
  <2> HIDE DEF R, T
  <2>1. T \subseteq Nat
    BY DEF T
  <2> QED BY <1>1, <1>2, <2>1, WFMin
<1>4. x - 1 \in Nat
  BY <1>3
<1>5. x - 1 \notin T
  <2>1. <<x - 1, x>> \in R
    <3>1. <<x - 1, x>> \in Nat \X Nat
      BY <1>3, <1>4
    <3>2. x - 1 < x
      BY <1>3
    <3> QED BY <3>1, <3>2
  <2> HIDE DEF R, T
  <2> QED BY <1>3, <2>1
<1> QED BY <1>3, <1>4, <1>5

\* Some function on 0..n into X starts at x0 and obeys the recurrence step.
Solvable(n, X, x0, step) ==
  \E f \in [0..n -> X] : f[0] = x0 /\ \A i \in 1..n : f[i] = step[<<f[i-1], i>>]

\* A recurrence over 1..n whose step maps X to X has a solution.
LEMMA RecurrenceHasSolution ==
  ASSUME NEW n \in Nat, NEW X, NEW x0 \in X, NEW step \in [X \X (1..n) -> X]
  PROVE  Solvable(n, X, x0, step)
<1> DEFINE Solves(f, m) ==
             f[0] = x0 /\ \A i \in 1..m : f[i] = step[<<f[i-1], i>>]
           S == {m \in Nat : m <= n => \E f \in [0..m -> X] : Solves(f, m)}
<1>1. 0 \in S
  <2>1. [i \in 0..0 |-> x0] \in [0..0 -> X] /\ Solves([i \in 0..0 |-> x0], 0)
    OBVIOUS
  <2> QED BY <2>1
<1>2. ASSUME NEW m \in S PROVE m + 1 \in S
  <2>1. SUFFICES ASSUME m + 1 <= n
                 PROVE  \E f \in [0..(m+1) -> X] : Solves(f, m+1)
    OBVIOUS
  <2>2. PICK f \in [0..m -> X] : Solves(f, m)
    BY <2>1
  <2> DEFINE g == [i \in 0..(m+1) |-> IF i = m+1 THEN step[<<f[m], m+1>>] ELSE f[i]]
  <2>3. g \in [0..(m+1) -> X]
    <3>1. <<f[m], m+1>> \in X \X (1..n)
      BY <2>1, <2>2
    <3> QED BY <3>1, <2>2
  <2>4. g[0] = x0
    BY <2>2
  <2>5. ASSUME NEW i \in 1..(m+1) PROVE g[i] = step[<<g[i-1], i>>]
    <3>1. CASE i = m + 1
      <4>1. g[i-1] = f[m] /\ g[i] = step[<<f[m], m+1>>]
        BY <3>1
      <4>2. i = m + 1
        BY <3>1
      <4> HIDE DEF g
      <4> QED BY <4>1, <4>2
    <3>2. CASE i \in 1..m
      BY <3>2, <2>2
    <3> QED BY <3>1, <3>2
  <2> QED BY <2>3, <2>4, <2>5
<1>3. n \in S
  <2>1. S \in SUBSET Nat
    OBVIOUS
  <2> HIDE DEF S
  <2> QED BY <1>1, <1>2, <2>1, SetInduction
<1> QED BY <1>3 DEF Solvable

\* f and g agree at each place of 1..n where they agree just before.
StepAlike(f, g, n) == \A i \in 1..n : f[i-1] = g[i-1] => f[i] = g[i]

Agree(f, g, n) == \A i \in 0..n : f[i] = g[i]

\* Two functions that start alike and obey the same recurrence are equal.
LEMMA RecurrenceUnique ==
  ASSUME NEW n \in Nat, NEW f, NEW g, f[0] = g[0], StepAlike(f, g, n)
  PROVE  Agree(f, g, n)
<1> DEFINE S == {m \in Nat : m <= n => f[m] = g[m]}
<1>1. 0 \in S
  OBVIOUS
<1>2. ASSUME NEW m \in S PROVE m + 1 \in S
  <2>1. SUFFICES ASSUME m + 1 <= n PROVE f[m+1] = g[m+1]
    OBVIOUS
  <2>2. f[m] = g[m] /\ m + 1 \in 1..n /\ (m + 1) - 1 = m
    BY <2>1
  <2> QED BY <2>2 DEF StepAlike
<1>3. Nat \subseteq S
  <2>1. S \in SUBSET Nat
    OBVIOUS
  <2> HIDE DEF S
  <2> QED BY <1>1, <1>2, <2>1, SetInduction
<1> QED BY <1>3 DEF Agree

\* A finite set of integers that is not empty has a largest element.
LEMMA FiniteSetHasMax ==
  ASSUME NEW S \in SUBSET Int, IsFiniteSet(S), S # {}
  PROVE  \E m \in S : \A y \in S : m >= y
<1> DEFINE HasMax(T) == \E m \in T : \A y \in T : m >= y
           N == {n \in Nat : \A T \in SUBSET Int :
                               IsFiniteSet(T) /\ Cardinality(T) = n + 1 => HasMax(T)}
<1>1. 0 \in N
  <2>1. ASSUME NEW T \in SUBSET Int, IsFiniteSet(T), Cardinality(T) = 1 PROVE HasMax(T)
    <3>1. PICK x : T = {x}
      BY <2>1, FS_Singleton
    <3> QED BY <3>1
  <2> HIDE DEF HasMax
  <2> QED BY <2>1
<1>2. ASSUME NEW n \in N PROVE n + 1 \in N
  <2>1. ASSUME NEW T \in SUBSET Int, IsFiniteSet(T), Cardinality(T) = n + 2 PROVE HasMax(T)
    <3>1. T # {}
      BY <2>1, FS_EmptySet
    <3>2. PICK x \in T : TRUE
      BY <3>1
    <3>3. IsFiniteSet(T \ {x}) /\ Cardinality(T \ {x}) = n + 1
      BY <2>1, FS_RemoveElement
    <3>4. HasMax(T \ {x})
      <4> HIDE DEF HasMax
      <4> QED BY <3>3
    <3>5. PICK m \in T \ {x} : \A y \in T \ {x} : m >= y
      BY <3>4
    <3>6. CASE m >= x
      BY <3>5, <3>6
    <3>7. CASE x >= m
      BY <3>5, <3>7
    <3> QED BY <3>6, <3>7
  <2> HIDE DEF HasMax
  <2> QED BY <2>1
<1>3. Nat \subseteq N
  <2>1. N \in SUBSET Nat
    OBVIOUS
  <2> HIDE DEF N
  <2> QED BY <1>1, <1>2, <2>1, SetInduction
<1>4. Cardinality(S) \in Nat /\ Cardinality(S) # 0
  BY FS_CardinalityType, FS_EmptySet
<1>5. Cardinality(S) - 1 \in N
  BY <1>3, <1>4
<1> HIDE DEF HasMax
<1>6. HasMax(S)
  BY <1>4, <1>5
<1> QED BY <1>6 DEF HasMax

-----------------------------------------------------------------------------
(* Sums. *)

\* A set of subsets of S that holds the empty one, and with each of its members every
\* extension by one element of S, holds S itself if S is finite.
LEMMA FiniteInduction ==
  ASSUME NEW S, IsFiniteSet(S), NEW F \in SUBSET SUBSET S, {} \in F,
         \A T \in F : \A x \in S \ T : T \cup {x} \in F
  PROVE  S \in F
<1> DEFINE N == {n \in Nat : \A T \in SUBSET S : IsFiniteSet(T) /\ Cardinality(T) = n => T \in F}
<1>1. 0 \in N
  BY FS_EmptySet
<1>2. ASSUME NEW n \in N PROVE n + 1 \in N
  <2>1. ASSUME NEW T \in SUBSET S, IsFiniteSet(T), Cardinality(T) = n + 1 PROVE T \in F
    <3>1. PICK x \in T : TRUE
      BY <2>1, FS_EmptySet
    <3>2. IsFiniteSet(T \ {x}) /\ Cardinality(T \ {x}) = n
      <4>1. n \in Nat
        OBVIOUS
      <4>2. IsFiniteSet(T \ {x}) /\ Cardinality(T \ {x}) = Cardinality(T) - 1
        BY <2>1, FS_RemoveElement
      <4> HIDE DEF N
      <4> QED BY <2>1, <4>1, <4>2
    <3>3. T \ {x} \in F
      BY <3>2
    <3>4. T = (T \ {x}) \cup {x} /\ x \in S \ (T \ {x})
      BY <3>1
    <3> QED BY <3>3, <3>4
  <2> QED BY <2>1
<1>3. Nat \subseteq N
  <2>1. N \in SUBSET Nat
    OBVIOUS
  <2> HIDE DEF N
  <2> QED BY <1>1, <1>2, <2>1, SetInduction
<1>4. Cardinality(S) \in Nat
  BY FS_CardinalityType
<1> QED BY <1>3, <1>4

\* The recursion that SumFunctionOnSet stands for.
Sums(g, f, S) ==
  g = [s \in SUBSET S |-> IF s = {} THEN 0 ELSE LET x == CHOOSE x \in s : TRUE IN f[x] + g[s \ {x}]]

SumIter(f, S) == CHOOSE g : Sums(g, f, S)

\* The recursion has a solution.
LEMMA SumsExist ==
  ASSUME NEW S, IsFiniteSet(S), NEW f, \A x \in S : f[x] \in Int
  PROVE  \E g : Sums(g, f, S)
<1> DEFINE Any(s) == CHOOSE x \in s : TRUE
           Body(g, s) == IF s = {} THEN 0 ELSE f[Any(s)] + g[s \ {Any(s)}]
           N == {n \in Nat : \E g \in [SUBSET S -> Int] :
                   \A s \in SUBSET S : Cardinality(s) <= n => g[s] = Body(g, s)}
<1>0. ASSUME NEW s \in SUBSET S
      PROVE  /\ Cardinality(s) \in Nat
             /\ s # {} => /\ Any(s) \in S /\ s \ {Any(s)} \in SUBSET S
                          /\ Cardinality(s \ {Any(s)}) = Cardinality(s) - 1
             /\ Cardinality(s) = 0 <=> s = {}
  <2>1. IsFiniteSet(s)
    BY FS_Subset
  <2>2. s # {} => Any(s) \in s
    OBVIOUS
  <2> HIDE DEF Any
  <2> QED BY <2>1, <2>2, FS_CardinalityType, FS_RemoveElement, FS_EmptySet
<1>1. 0 \in N
  <2> DEFINE g == [s \in SUBSET S |-> 0]
  <2>1. g \in [SUBSET S -> Int]
    OBVIOUS
  <2>2. ASSUME NEW s \in SUBSET S, Cardinality(s) <= 0 PROVE g[s] = Body(g, s)
    <3>1. s = {}
      <4>1. Cardinality(s) \in Nat /\ (Cardinality(s) = 0 <=> s = {})
        BY <1>0
      <4> QED BY <2>2, <4>1
    <3> QED BY <3>1
  <2> HIDE DEF g, Body
  <2> QED BY <2>1, <2>2
<1>2. ASSUME NEW n \in N PROVE n + 1 \in N
  <2>1. PICK g \in [SUBSET S -> Int] : \A s \in SUBSET S : Cardinality(s) <= n => g[s] = Body(g, s)
    OBVIOUS
  <2> DEFINE h == [s \in SUBSET S |-> IF Cardinality(s) <= n THEN g[s] ELSE Body(g, s)]
  <2>2. ASSUME NEW s \in SUBSET S PROVE Body(g, s) \in Int
    <3>1. s # {} => Any(s) \in S /\ s \ {Any(s)} \in SUBSET S
      BY <1>0
    <3> HIDE DEF Any
    <3>2. s # {} => f[Any(s)] \in Int /\ g[s \ {Any(s)}] \in Int
      BY <2>1, <3>1
    <3> QED BY <3>2
  <2>3. h \in [SUBSET S -> Int]
    <3> HIDE DEF Body
    <3> QED BY <2>1, <2>2
  <2>4. ASSUME NEW s \in SUBSET S, Cardinality(s) <= n + 1 PROVE h[s] = Body(h, s)
    <3>1. h[s] = Body(g, s)
      <4> HIDE DEF Body
      <4> QED BY <2>1
    <3>2. s # {} => h[s \ {Any(s)}] = g[s \ {Any(s)}]
      <4> HIDE DEF Any, Body
      <4> QED BY <1>0, <2>4
    <3> HIDE DEF h, Any
    <3> QED BY <3>1, <3>2
  <2> HIDE DEF h, Body
  <2>5. n + 1 \in Nat
    OBVIOUS
  <2> QED BY <2>3, <2>4, <2>5
<1>3. Nat \subseteq N
  <2>1. N \in SUBSET Nat
    OBVIOUS
  <2> HIDE DEF N
  <2> QED BY <1>1, <1>2, <2>1, SetInduction
<1>4. PICK g \in [SUBSET S -> Int] : \A s \in SUBSET S : Cardinality(s) <= Cardinality(S) => g[s] = Body(g, s)
  <2>1. Cardinality(S) \in N
    <3> HIDE DEF N
    <3> QED BY <1>3, FS_CardinalityType
  <2> HIDE DEF Body
  <2> QED BY <2>1
<1>5. \A s \in SUBSET S : Cardinality(s) <= Cardinality(S)
  BY FS_Subset
<1>6. g = [s \in SUBSET S |-> Body(g, s)]
  <2> HIDE DEF Body
  <2> QED BY <1>4, <1>5
<1> QED BY <1>6 DEF Sums

\* Any two solutions agree on the sets both know, which they map to integers.
LEMMA SumsAgree ==
  ASSUME NEW S, IsFiniteSet(S), NEW f, \A x \in S : f[x] \in Int, NEW R \in SUBSET S,
         NEW g, Sums(g, f, S), NEW h, Sums(h, f, R)
  PROVE  g[R] = h[R] /\ h[R] \in Int
<1> DEFINE Any(s) == CHOOSE x \in s : TRUE
           N == {n \in Nat : \A s \in SUBSET R : Cardinality(s) = n => g[s] = h[s] /\ h[s] \in Int}
<1>0. /\ \A s \in SUBSET R : g[s] = IF s = {} THEN 0 ELSE f[Any(s)] + g[s \ {Any(s)}]
      /\ \A s \in SUBSET R : h[s] = IF s = {} THEN 0 ELSE f[Any(s)] + h[s \ {Any(s)}]
  BY DEF Sums
<1>1. 0 \in N
  <2>1. \A s \in SUBSET R : Cardinality(s) = 0 => s = {}
    BY FS_Subset, FS_EmptySet
  <2> QED BY <1>0, <2>1
<1>2. ASSUME NEW n \in N PROVE n + 1 \in N
  <2>1. ASSUME NEW s \in SUBSET R, Cardinality(s) = n + 1 PROVE g[s] = h[s] /\ h[s] \in Int
    <3>1. s # {} /\ IsFiniteSet(s)
      BY <2>1, FS_Subset, FS_EmptySet
    <3>2. Any(s) \in s
      BY <3>1
    <3>3. Cardinality(s \ {Any(s)}) = n /\ s \ {Any(s)} \in SUBSET R /\ f[Any(s)] \in Int
      <4>1. n \in Nat
        OBVIOUS
      <4> HIDE DEF Any, N
      <4>2. Cardinality(s \ {Any(s)}) = Cardinality(s) - 1
        BY <3>1, <3>2, FS_RemoveElement
      <4> QED BY <2>1, <3>2, <4>1, <4>2
    <3>4. g[s \ {Any(s)}] = h[s \ {Any(s)}] /\ h[s \ {Any(s)}] \in Int
      <4> HIDE DEF Any
      <4> QED BY <3>3
    <3>5. g[s] = f[Any(s)] + g[s \ {Any(s)}] /\ h[s] = f[Any(s)] + h[s \ {Any(s)}]
      BY <1>0, <3>1
    <3> HIDE DEF Any
    <3> QED BY <3>3, <3>4, <3>5
  <2> QED BY <2>1
<1>3. Nat \subseteq N
  <2>1. N \in SUBSET Nat
    OBVIOUS
  <2> HIDE DEF N
  <2> QED BY <1>1, <1>2, <2>1, SetInduction
<1>4. Cardinality(R) \in N
  <2> HIDE DEF N
  <2> QED BY <1>3, FS_Subset, FS_CardinalityType
<1> QED BY <1>4

\* The order in which the elements are chosen does not matter: any one can come first.
LEMMA SumsAdd ==
  ASSUME NEW S, IsFiniteSet(S), NEW f, \A x \in S : f[x] \in Int, NEW g, Sums(g, f, S),
         NEW T \in SUBSET S, NEW a \in T
  PROVE  g[T] = f[a] + g[T \ {a}]
<1> DEFINE Any(s) == CHOOSE x \in s : TRUE
           N == {n \in Nat : \A s \in SUBSET S : Cardinality(s) = n => \A b \in s : g[s] = f[b] + g[s \ {b}]}
<1>0. \A s \in SUBSET S : g[s] = IF s = {} THEN 0 ELSE f[Any(s)] + g[s \ {Any(s)}]
  BY DEF Sums
<1>i. \A s \in SUBSET S : g[s] \in Int
  <2>1. ASSUME NEW s \in SUBSET S PROVE g[s] \in Int
    <3>1. IsFiniteSet(s) /\ \A x \in s : f[x] \in Int
      BY FS_Subset
    <3>2. PICK h : Sums(h, f, s)
      BY <3>1, SumsExist
    <3> QED BY <3>1, <3>2, SumsAgree
  <2> QED BY <2>1
<1>1. 0 \in N
  <2>1. \A s \in SUBSET S : Cardinality(s) = 0 => s = {}
    BY FS_Subset, FS_EmptySet
  <2> QED BY <2>1
<1>2. ASSUME NEW n \in N PROVE n + 1 \in N
  <2>1. ASSUME NEW s \in SUBSET S, Cardinality(s) = n + 1, NEW b \in s PROVE g[s] = f[b] + g[s \ {b}]
    <3>0. n \in Nat /\ IsFiniteSet(s)
      BY FS_Subset
    <3>1. PICK a1 : a1 = Any(s) /\ a1 \in s
      BY <2>1
    <3>2. g[s] = f[a1] + g[s \ {a1}]
      <4> HIDE DEF Any
      <4> QED BY <1>0, <3>1
    <3>3. CASE a1 = b
      BY <3>2, <3>3
    <3>4. CASE a1 # b
      <4>1. Cardinality(s \ {a1}) = n /\ Cardinality(s \ {b}) = n
        <5>1. Cardinality(s \ {a1}) = Cardinality(s) - 1 /\ Cardinality(s \ {b}) = Cardinality(s) - 1
          BY <3>0, <3>1, <2>1, FS_RemoveElement
        <5> HIDE DEF N, Any
        <5> QED BY <2>1, <3>0, <5>1
      <4>2. g[s \ {a1}] = f[b] + g[(s \ {a1}) \ {b}]
        BY <2>1, <3>4, <4>1
      <4>3. g[s \ {b}] = f[a1] + g[(s \ {b}) \ {a1}]
        BY <3>1, <3>4, <4>1
      <4>4. (s \ {a1}) \ {b} = (s \ {b}) \ {a1}
        OBVIOUS
      <4>5. f[a1] \in Int /\ f[b] \in Int /\ g[(s \ {b}) \ {a1}] \in Int
        <5> HIDE DEF N, Any
        <5> QED BY <1>i, <2>1, <3>1
      <4>6. PICK z \in Int : z = g[(s \ {b}) \ {a1}]
        BY <4>5
      <4>7. g[s \ {a1}] = f[b] + z /\ g[s \ {b}] = f[a1] + z
        BY <4>2, <4>3, <4>4, <4>6
      <4> HIDE DEF N, Any
      <4>8. f[a1] + (f[b] + z) = f[b] + (f[a1] + z)
        BY <4>5
      <4> QED BY <3>2, <4>7, <4>8
    <3> QED BY <3>3, <3>4
  <2> QED BY <2>1
<1>3. Nat \subseteq N
  <2>1. N \in SUBSET Nat
    OBVIOUS
  <2> HIDE DEF N
  <2> QED BY <1>1, <1>2, <2>1, SetInduction
<1>4. Cardinality(T) \in N
  <2> HIDE DEF N
  <2> QED BY <1>3, FS_Subset, FS_CardinalityType
<1> QED BY <1>4

\* SumFunctionOnSet is such a sum.
LEMMA SumIsSums ==
  ASSUME NEW S, IsFiniteSet(S), NEW f, \A x \in S : f[x] \in Int
  PROVE  \E g : Sums(g, f, S) /\ SumFunctionOnSet(f, S) = g[S]
<1>1. SumFunctionOnSet(f, S) = SumIter(f, S)[S]
  BY DEF SumFunctionOnSet, FoldFunctionOnSet, MapThenFoldSet, SumIter, Sums
<1>2. Sums(SumIter(f, S), f, S)
  BY SumsExist DEF SumIter
<1> QED BY <1>1, <1>2

\* The sum over no element, over one more element, and its type.
LEMMA SumFacts ==
  ASSUME NEW S, IsFiniteSet(S), NEW f, \A x \in S : f[x] \in Int
  PROVE  /\ SumFunctionOnSet(f, S) \in Int
         /\ S = {} => SumFunctionOnSet(f, S) = 0
         /\ \A a \in S : SumFunctionOnSet(f, S) = f[a] + SumFunctionOnSet(f, S \ {a})
<1>1. PICK g : Sums(g, f, S) /\ SumFunctionOnSet(f, S) = g[S]
  BY SumIsSums
<1>2. g[S] \in Int
  BY <1>1, SumsAgree
<1>3. S = {} => g[S] = 0
  BY <1>1 DEF Sums
<1>4. ASSUME NEW a \in S PROVE g[S] = f[a] + SumFunctionOnSet(f, S \ {a})
  <2>1. IsFiniteSet(S \ {a}) /\ \A x \in S \ {a} : f[x] \in Int
    BY FS_Subset
  <2>2. PICK h : Sums(h, f, S \ {a}) /\ SumFunctionOnSet(f, S \ {a}) = h[S \ {a}]
    BY <2>1, SumIsSums
  <2>3. g[S \ {a}] = h[S \ {a}]
    BY <1>1, <2>2, SumsAgree
  <2>4. g[S] = f[a] + g[S \ {a}]
    BY <1>1, SumsAdd
  <2> QED BY <2>2, <2>3, <2>4
<1> QED BY <1>1, <1>2, <1>3, <1>4

\* A sum of numbers that are larger one by one, over a set that is larger, is larger.
LEMMA SumMonotone ==
  ASSUME NEW S, IsFiniteSet(S), NEW R \in SUBSET S, NEW f, NEW h,
         \A x \in R : f[x] \in Int, \A x \in S : h[x] \in Nat, \A x \in R : f[x] <= h[x]
  PROVE  SumFunctionOnSet(f, R) <= SumFunctionOnSet(h, S)
<1> DEFINE F == {T \in SUBSET S : SumFunctionOnSet(f, T \cap R) <= SumFunctionOnSet(h, T)}
<1>1. {} \in F
  <2>1. SumFunctionOnSet(f, {}) = 0 /\ SumFunctionOnSet(h, {}) = 0
    BY FS_EmptySet, SumFacts
  <2>2. {} \cap R = {}
    OBVIOUS
  <2> QED BY <2>1, <2>2
<1>2. ASSUME NEW T \in F, NEW x \in S \ T PROVE T \cup {x} \in F
  <2> DEFINE U == T \cup {x}
  <2>1. IsFiniteSet(U) /\ IsFiniteSet(U \cap R) /\ U \in SUBSET S /\ T \in SUBSET S /\ U \ {x} = T /\ x \in U
    BY FS_Subset
  <2>2. SumFunctionOnSet(h, U) = h[x] + SumFunctionOnSet(h, T) /\ SumFunctionOnSet(h, T) \in Int
    <3>1. \A y \in U : h[y] \in Int
      BY <2>1
    <3>2. SumFunctionOnSet(h, U) = h[x] + SumFunctionOnSet(h, U \ {x})
      <4> HIDE DEF U
      <4> QED BY <2>1, <3>1, SumFacts
    <3>3. SumFunctionOnSet(h, T) \in Int
      <4>1. IsFiniteSet(T) /\ \A y \in T : h[y] \in Int
        BY <2>1, FS_Subset
      <4> QED BY <4>1, SumFacts
    <3> HIDE DEF U
    <3> QED BY <2>1, <3>2, <3>3
  <2>3. SumFunctionOnSet(f, T \cap R) <= SumFunctionOnSet(h, T) /\ SumFunctionOnSet(f, T \cap R) \in Int
    <3>1. IsFiniteSet(T \cap R) /\ \A y \in T \cap R : f[y] \in Int
      BY <2>1, FS_Subset
    <3> QED BY <3>1, SumFacts
  <2>4. CASE x \notin R
    <3>1. U \cap R = T \cap R
      BY <2>4
    <3> HIDE DEF F
    <3>2. SumFunctionOnSet(f, U \cap R) <= SumFunctionOnSet(h, U)
      <4>1. PICK m \in Int, n \in Int : m = SumFunctionOnSet(f, T \cap R) /\ n = SumFunctionOnSet(h, T) /\ m <= n
        BY <2>2, <2>3
      <4>2. h[x] \in Nat
        OBVIOUS
      <4>3. m <= h[x] + n
        BY <4>1, <4>2
      <4> HIDE DEF U
      <4> QED BY <2>2, <3>1, <4>1, <4>3
    <3> QED BY <2>1, <3>2 DEF F
  <2>5. CASE x \in R
    <3>1. (U \cap R) \ {x} = T \cap R /\ x \in U \cap R /\ \A y \in U \cap R : f[y] \in Int
      BY <2>5
    <3>2. SumFunctionOnSet(f, U \cap R) = f[x] + SumFunctionOnSet(f, (U \cap R) \ {x})
      <4> HIDE DEF U
      <4> QED BY <2>1, <3>1, SumFacts
    <3>3. h[x] \in Nat /\ f[x] \in Int /\ f[x] <= h[x]
      BY <2>5
    <3> HIDE DEF F
    <3>4. SumFunctionOnSet(f, U \cap R) <= SumFunctionOnSet(h, U)
      <4>1. PICK m \in Int, n \in Int : m = SumFunctionOnSet(f, T \cap R) /\ n = SumFunctionOnSet(h, T) /\ m <= n
        BY <2>2, <2>3
      <4>2. f[x] + m <= h[x] + n
        BY <3>3, <4>1
      <4> HIDE DEF U
      <4> QED BY <2>2, <3>1, <3>2, <4>1, <4>2
    <3> QED BY <2>1, <3>4 DEF F
  <2> QED BY <2>4, <2>5
<1>3. S \in F
  <2>1. F \in SUBSET SUBSET S
    OBVIOUS
  <2> HIDE DEF F
  <2> QED BY <1>1, <1>2, <2>1, FiniteInduction
<1>4. S \cap R = R
  OBVIOUS
<1> QED BY <1>3, <1>4

\* Multiplication distributes.
LEMMA Distributes == \A a, b, c \in Int : a * b \in Int /\ a * (b + c) = a * b + a * c
OBVIOUS

\* Sums of numbers that are in a linear relation one by one are in that relation.
LEMMA SumScaled ==
  ASSUME NEW S, IsFiniteSet(S), NEW f, NEW h, \A x \in S : f[x] \in Int /\ h[x] \in Int,
         NEW a \in Int, NEW b \in Int, \A x \in S : a * f[x] <= b * h[x]
  PROVE  a * SumFunctionOnSet(f, S) <= b * SumFunctionOnSet(h, S)
<1> DEFINE F == {T \in SUBSET S : a * SumFunctionOnSet(f, T) <= b * SumFunctionOnSet(h, T)}
<1>1. {} \in F
  <2>1. SumFunctionOnSet(f, {}) = 0 /\ SumFunctionOnSet(h, {}) = 0
    BY FS_EmptySet, SumFacts
  <2>2. a * 0 <= b * 0
    OBVIOUS
  <2> QED BY <2>1, <2>2
<1>2. ASSUME NEW T \in F, NEW x \in S \ T PROVE T \cup {x} \in F
  <2> DEFINE U == T \cup {x}
  <2>1. IsFiniteSet(U) /\ IsFiniteSet(T) /\ U \in SUBSET S /\ T \in SUBSET S /\ U \ {x} = T /\ x \in U
    BY FS_Subset
  <2>2. /\ SumFunctionOnSet(f, U) = f[x] + SumFunctionOnSet(f, T)
        /\ SumFunctionOnSet(h, U) = h[x] + SumFunctionOnSet(h, T)
    <3> HIDE DEF U
    <3> QED BY <2>1, SumFacts
  <2>3. SumFunctionOnSet(f, T) \in Int /\ SumFunctionOnSet(h, T) \in Int
    BY <2>1, SumFacts
  <2>4. a * SumFunctionOnSet(f, T) <= b * SumFunctionOnSet(h, T)
    OBVIOUS
  <2>5. PICK m \in Int, n \in Int, p \in Int, q \in Int :
          /\ m = SumFunctionOnSet(f, T) /\ n = SumFunctionOnSet(h, T) /\ p = f[x] /\ q = h[x]
    BY <2>3
  <2>6. a * (p + m) <= b * (q + n)
    <3>1. a * p <= b * q /\ a * m <= b * n
      BY <2>4, <2>5
    <3>2. a * (p + m) = a * p + a * m /\ b * (q + n) = b * q + b * n
      BY Distributes
    <3>3. a * p \in Int /\ b * q \in Int /\ a * m \in Int /\ b * n \in Int
      BY Distributes
    <3> QED BY <3>1, <3>2, <3>3
  <2>7. a * SumFunctionOnSet(f, U) <= b * SumFunctionOnSet(h, U)
    <3> HIDE DEF U
    <3> QED BY <2>2, <2>5, <2>6
  <2> QED BY <2>1, <2>7
<1>3. S \in F
  <2>1. F \in SUBSET SUBSET S
    OBVIOUS
  <2> HIDE DEF F
  <2> QED BY <1>1, <1>2, <2>1, FiniteInduction
<1> QED BY <1>3

\* Functions that agree on a set have one sum over it.
LEMMA SumAgrees ==
  ASSUME NEW S, IsFiniteSet(S), NEW f, NEW h, \A x \in S : f[x] \in Int /\ f[x] = h[x]
  PROVE  SumFunctionOnSet(f, S) = SumFunctionOnSet(h, S)
<1>1. \A x \in S : 1 * f[x] <= 1 * h[x] /\ 1 * h[x] <= 1 * f[x]
  OBVIOUS
<1>2. /\ 1 * SumFunctionOnSet(f, S) <= 1 * SumFunctionOnSet(h, S)
      /\ 1 * SumFunctionOnSet(h, S) <= 1 * SumFunctionOnSet(f, S)
  <2>1. 1 \in Int /\ \A x \in S : f[x] \in Int /\ h[x] \in Int
    OBVIOUS
  <2>2. 1 * SumFunctionOnSet(f, S) <= 1 * SumFunctionOnSet(h, S)
    BY <1>1, <2>1, SumScaled
  <2>3. 1 * SumFunctionOnSet(h, S) <= 1 * SumFunctionOnSet(f, S)
    BY <1>1, <2>1, SumScaled
  <2> QED BY <2>2, <2>3
<1>3. SumFunctionOnSet(f, S) \in Int /\ SumFunctionOnSet(h, S) \in Int
  BY SumFacts
<1> QED BY <1>2, <1>3

\* A sum of numbers each raised by one.
LEMMA SumOfSuccessors ==
  ASSUME NEW S, IsFiniteSet(S), NEW f, NEW h, \A x \in S : f[x] \in Int /\ h[x] = f[x] + 1
  PROVE  SumFunctionOnSet(h, S) = SumFunctionOnSet(f, S) + Cardinality(S)
<1> DEFINE F == {T \in SUBSET S : SumFunctionOnSet(h, T) = SumFunctionOnSet(f, T) + Cardinality(T)}
<1>1. {} \in F
  <2>1. SumFunctionOnSet(f, {}) = 0 /\ SumFunctionOnSet(h, {}) = 0
    BY FS_EmptySet, SumFacts
  <2> QED BY <2>1, FS_EmptySet
<1>2. ASSUME NEW T \in F, NEW x \in S \ T PROVE T \cup {x} \in F
  <2> DEFINE U == T \cup {x}
  <2>1. IsFiniteSet(U) /\ IsFiniteSet(T) /\ U \in SUBSET S /\ T \in SUBSET S /\ U \ {x} = T /\ x \in U
    BY FS_Subset
  <2>2. \A y \in S : f[y] \in Int /\ h[y] \in Int
    OBVIOUS
  <2>3. /\ SumFunctionOnSet(f, U) = f[x] + SumFunctionOnSet(f, T)
        /\ SumFunctionOnSet(h, U) = h[x] + SumFunctionOnSet(h, T)
    <3> HIDE DEF U
    <3> QED BY <2>1, <2>2, SumFacts
  <2>4. SumFunctionOnSet(f, T) \in Int
    BY <2>1, SumFacts
  <2>5. Cardinality(U) = Cardinality(T) + 1 /\ Cardinality(T) \in Nat
    BY <2>1, FS_AddElement, FS_CardinalityType
  <2>6. PICK m \in Int, n \in Int, k \in Nat :
          m = SumFunctionOnSet(f, T) /\ n = f[x] /\ k = Cardinality(T)
    BY <2>4, <2>5
  <2>7. h[x] = n + 1 /\ SumFunctionOnSet(h, T) = m + k
    BY <2>6
  <2>8. SumFunctionOnSet(h, U) = SumFunctionOnSet(f, U) + Cardinality(U)
    <3> HIDE DEF U
    <3> QED BY <2>3, <2>5, <2>6, <2>7
  <2> QED BY <2>1, <2>8
<1>3. S \in F
  <2>1. F \in SUBSET SUBSET S
    OBVIOUS
  <2> HIDE DEF F
  <2> QED BY <1>1, <1>2, <2>1, FiniteInduction
<1> QED BY <1>3
=============================================================================

---------------------------------- MODULE Sums ----------------------------------
(***************************************************************************)
(* Sums over finite sets, as MapThenSumSet of the community modules        *)
(* defines them: by taking one element away at a time.                     *)
(*                                                                         *)
(* The library's induction theorems take an operator; the facts here use   *)
(* what they rest on instead: strict inclusion is well founded on the      *)
(* subsets of a finite set, so a set of counterexamples has a minimal one. *)
(***************************************************************************)
EXTENDS Integers, FiniteSets, FiniteSetsExt, FiniteSetTheorems, WellFoundedInduction, TLAPS

\* The sum of the function g over S.
SumOf(g, S) == MapThenSumSet(LAMBDA x : g[x], S)

Pick(s) == CHOOSE x \in s : TRUE

\* it sums g over every subset of S.
Sums(g, S, it) == it = [s \in SUBSET S |-> IF s = {} THEN 0 ELSE g[Pick(s)] + it[s \ {Pick(s)}]]

\* Any set of subsets of a finite set has a minimal member.
LEMMA Minimal ==
  ASSUME NEW S, IsFiniteSet(S), NEW B, B \subseteq SUBSET S, B # {}
  PROVE  \E T \in B : \A U \in B : U \subseteq T => U = T
<1>1. IsWellFoundedOn(StrictSubsetOrdering(S), SUBSET S)
  BY FS_StrictSubsetOrderingWellFounded, FS_FiniteSubsetsOfFinite
<1>2. \E x \in B : \A y \in B : ~ (<<y, x>> \in StrictSubsetOrdering(S))
  BY <1>1, WFMin
<1> QED BY <1>2 DEF StrictSubsetOrdering

\* A finite set of integers has a least one, and Min is it.
LEMMA LeastIs ==
  ASSUME NEW S, S \subseteq Int, IsFiniteSet(S), S # {}
  PROVE  Min(S) \in S /\ \A y \in S : Min(S) =< y
<1> DEFINE below(x) == {y \in S : y =< x}
           B == {below(x) : x \in S}
<1>1. B \subseteq SUBSET S /\ B # {} OBVIOUS
<1>2. PICK T \in B : \A U \in B : U \subseteq T => U = T
  <2>1. IsFiniteSet(S) OBVIOUS
  <2> HIDE DEF below, B
  <2> QED BY ONLY <1>1, <2>1, Minimal
<1>3. PICK x \in S : T = below(x) BY <1>2
<1>4. ASSUME NEW z \in S, ~(x =< z) PROVE FALSE
  <2>1. z < x /\ x \in Int /\ z \in Int BY <1>4
  <2>2. \A y \in Int : y =< z => y =< x BY <2>1
  <2>3. below(z) \subseteq below(x) BY <2>2
  <2>4. x \notin below(z) /\ x \in below(x) BY <2>1
  <2>5. below(z) \in B OBVIOUS
  <2> HIDE DEF below, B
  <2> QED BY <1>2, <1>3, <2>3, <2>4, <2>5
<1>5. \A y \in S : x =< y BY <1>4
<1> QED BY <1>5 DEF Min

\* The sum is what the recursion of MapThenSumSet yields for the whole set.
LEMMA SumDef ==
  ASSUME NEW g, NEW S
  PROVE  SumOf(g, S) = (CHOOSE it : Sums(g, S, it))[S]
BY Zenon DEF SumOf, MapThenSumSet, MapThenFoldSet, Sums, Pick

\* The element taken away is one of the set.
LEMMA PickIn == ASSUME NEW s, s # {} PROVE Pick(s) \in s
BY DEF Pick

\* The recursion has one solution at most.
LEMMA SumsUnique ==
  ASSUME NEW S, IsFiniteSet(S), NEW g, NEW f, NEW h, Sums(g, S, f), Sums(g, S, h)
  PROVE  f = h
<1> DEFINE B == {T \in SUBSET S : f[T] # h[T]}
<1>1. CASE B # {}
  <2>0. B \subseteq SUBSET S OBVIOUS
  <2>1. PICK T \in B : \A U \in B : U \subseteq T => U = T
    <3> HIDE DEF B
    <3> QED BY <1>1, <2>0, Minimal
  <2>2. T # {} BY <2>1 DEF Sums
  <2>3. Pick(T) \in T /\ T \ {Pick(T)} \in SUBSET S BY <2>2, PickIn
  <2>4. f[T \ {Pick(T)}] = h[T \ {Pick(T)}] BY <2>1, <2>3
  <2> QED BY <2>1, <2>2, <2>4 DEF Sums
<1>2. CASE B = {}
  <2>1. \A T \in SUBSET S : f[T] = h[T] BY <1>2
  <2> QED BY <2>1 DEF Sums
<1> QED BY <1>1, <1>2

\* The recursion has a solution: a smallest set without one would get one from
\* those of its subsets.
LEMMA SumsExist ==
  ASSUME NEW S, IsFiniteSet(S), NEW g
  PROVE  \E it : Sums(g, S, it)
<1> DEFINE B == {T \in SUBSET S : ~ \E it : Sums(g, T, it)}
<1>1. ASSUME B # {} PROVE FALSE
  <2>0. B \subseteq SUBSET S OBVIOUS
  <2>1. PICK T \in B : \A U \in B : U \subseteq T => U = T
    <3> HIDE DEF B
    <3> QED BY <1>1, <2>0, Minimal
  <2>2. \A U \in SUBSET T : U # T => \E it : Sums(g, U, it) BY <2>1
  <2> DEFINE sol(U) == CHOOSE it : Sums(g, U, it)
             f == [s \in SUBSET T |-> IF s = {} THEN 0 ELSE g[Pick(s)] + sol(s \ {Pick(s)})[s \ {Pick(s)}]]
  <2>3. \A U \in SUBSET T : U # T => Sums(g, U, sol(U)) BY <2>2
  <2>4. ASSUME NEW U \in SUBSET T, U # T, NEW V \in SUBSET U
        PROVE  sol(U)[V] = sol(V)[V]
    <3> HIDE DEF sol
    <3>1. Sums(g, U, sol(U)) /\ Sums(g, V, sol(V)) BY <2>3, <2>4
    <3>2. Sums(g, V, [s \in SUBSET V |-> sol(U)[s]])
      <4>1. \A s \in SUBSET V : s # {} => s \ {Pick(s)} \in SUBSET V BY PickIn
      <4> QED BY <2>4, <3>1, <4>1 DEF Sums
    <3>3. IsFiniteSet(V) BY <2>1, <2>4, FS_Subset
    <3>4. sol(V) = [s \in SUBSET V |-> sol(U)[s]] BY <3>1, <3>2, <3>3, SumsUnique
    <3> QED BY <3>4
  <2>5. ASSUME NEW s \in SUBSET T, s # T PROVE f[s] = sol(s)[s]
    <3>1. Sums(g, s, sol(s)) BY <2>3, <2>5
    <3>2. CASE s = {}
      <4> HIDE DEF sol
      <4> QED BY <3>1, <3>2 DEF Sums
    <3>3. CASE s # {}
      <4> HIDE DEF sol
      <4>1. Pick(s) \in s /\ s \ {Pick(s)} \in SUBSET s BY <3>3, PickIn
      <4>2. sol(s)[s] = g[Pick(s)] + sol(s)[s \ {Pick(s)}] BY <3>1, <3>3 DEF Sums
      <4>3. sol(s)[s \ {Pick(s)}] = sol(s \ {Pick(s)})[s \ {Pick(s)}] BY <2>4, <2>5, <4>1
      <4> QED BY <3>3, <4>2, <4>3
    <3> QED BY <3>2, <3>3
  <2>6. Sums(g, T, f)
    <3>1. f = [s \in SUBSET T |-> f[s]] /\ f[{}] = 0 OBVIOUS
    <3>2. ASSUME NEW s \in SUBSET T, s # {}
          PROVE  f[s] = g[Pick(s)] + f[s \ {Pick(s)}]
      <4>1. Pick(s) \in s BY <3>2, PickIn
      <4>2. s \ {Pick(s)} \in SUBSET T /\ s \ {Pick(s)} # T BY <4>1
      <4>3. f[s \ {Pick(s)}] = sol(s \ {Pick(s)})[s \ {Pick(s)}] BY <2>5, <4>2
      <4> HIDE DEF sol
      <4> QED BY <3>2, <4>3
    <3> HIDE DEF f
    <3> QED BY <3>1, <3>2 DEF Sums
  <2> QED BY <2>1, <2>6
<1>2. S \in SUBSET S OBVIOUS
<1> QED BY <1>1, <1>2

\* The chosen solution, and what it says of the parts of the set.
LEMMA SumRec ==
  ASSUME NEW S, IsFiniteSet(S), NEW g
  PROVE  /\ SumOf(g, {}) = 0
         /\ S # {} => SumOf(g, S) = g[Pick(S)] + SumOf(g, S \ {Pick(S)})
<1> DEFINE sol(U) == CHOOSE it : Sums(g, U, it)
<1>1. \A U \in SUBSET S : Sums(g, U, sol(U)) /\ IsFiniteSet(U) BY SumsExist, FS_Subset
<1>2. \A U : SumOf(g, U) = sol(U)[U] BY SumDef
<1> HIDE DEF sol
<1>3. Sums(g, {}, sol({})) BY <1>1
<1>4. sol({})[{}] = 0 BY <1>3 DEF Sums
<1>5. ASSUME S # {} PROVE sol(S)[S] = g[Pick(S)] + sol(S \ {Pick(S)})[S \ {Pick(S)}]
  <2> DEFINE V == S \ {Pick(S)}
  <2>1. V \in SUBSET S OBVIOUS
  <2> HIDE DEF V
  <2>2. Sums(g, V, [s \in SUBSET V |-> sol(S)[s]])
    <3>1. \A s \in SUBSET V : s # {} => s \ {Pick(s)} \in SUBSET V BY PickIn
    <3>2. Sums(g, S, sol(S)) BY <1>1
    <3> QED BY <2>1, <3>1, <3>2 DEF Sums
  <2>3. sol(V) = [s \in SUBSET V |-> sol(S)[s]] BY <1>1, <2>1, <2>2, SumsUnique
  <2>4. sol(V)[V] = sol(S)[V] BY <2>3
  <2>5. sol(S)[S] = g[Pick(S)] + sol(S)[S \ {Pick(S)}] BY <1>1, <1>5 DEF Sums
  <2> QED BY <2>4, <2>5 DEF V
<1> QED BY <1>2, <1>4, <1>5

\* Integers add up to an integer.
LEMMA SumInt ==
  ASSUME NEW S, IsFiniteSet(S), NEW g, \A x \in S : g[x] \in Int
  PROVE  SumOf(g, S) \in Int
<1> DEFINE B == {T \in SUBSET S : SumOf(g, T) \notin Int}
<1>1. ASSUME B # {} PROVE FALSE
  <2>0. B \subseteq SUBSET S OBVIOUS
  <2>1. PICK T \in B : \A U \in B : U \subseteq T => U = T
    <3> HIDE DEF B
    <3> QED BY <1>1, <2>0, Minimal
  <2>2. IsFiniteSet(T) BY <2>1, FS_Subset
  <2>3. T # {}
    <3>1. SumOf(g, {}) = 0 BY <2>2, SumRec
    <3>2. SumOf(g, T) \notin Int BY <2>1
    <3> QED BY <3>1, <3>2
  <2>4. Pick(T) \in T /\ T \ {Pick(T)} \in SUBSET S BY <2>1, <2>3, PickIn
  <2>5. SumOf(g, T \ {Pick(T)}) \in Int BY <2>1, <2>4
  <2>6. SumOf(g, T) = g[Pick(T)] + SumOf(g, T \ {Pick(T)}) BY <2>2, <2>3, SumRec
  <2>7. g[Pick(T)] \in Int BY <2>1, <2>4
  <2> QED BY <2>1, <2>5, <2>6, <2>7
<1>2. S \in SUBSET S OBVIOUS
<1> QED BY <1>1, <1>2

\* Any element may be taken away first.
LEMMA SumSplit ==
  ASSUME NEW S, IsFiniteSet(S), NEW g, \A x \in S : g[x] \in Int, NEW x \in S
  PROVE  SumOf(g, S) = g[x] + SumOf(g, S \ {x})
<1> DEFINE B == {T \in SUBSET S : \E y \in T : SumOf(g, T) # g[y] + SumOf(g, T \ {y})}
<1>1. ASSUME B # {} PROVE FALSE
  <2>0. B \subseteq SUBSET S OBVIOUS
  <2>1. PICK T \in B : \A U \in B : U \subseteq T => U = T
    <3> HIDE DEF B
    <3> QED BY <1>1, <2>0, Minimal
  <2>2. PICK y \in T : SumOf(g, T) # g[y] + SumOf(g, T \ {y}) BY <2>1
  <2>3. PICK p \in T : p = Pick(T) BY <2>2, PickIn
  <2>4. SumOf(g, T) = g[p] + SumOf(g, T \ {p}) BY <2>1, <2>2, <2>3, FS_Subset, SumRec
  <2>5. p # y BY <2>2, <2>4
  <2>6. y \in T \ {p} /\ p \in T \ {y} /\ (T \ {p}) \ {y} = (T \ {y}) \ {p} BY <2>5
  <2>7. T \ {p} \notin B /\ T \ {y} \notin B BY <2>1, <2>3, <2>2
  <2>8. T \ {p} \in SUBSET S /\ T \ {y} \in SUBSET S BY <2>1
  <2>9. SumOf(g, T \ {p}) = g[y] + SumOf(g, (T \ {p}) \ {y})
    BY <2>6, <2>7, <2>8
  <2>10. SumOf(g, T \ {y}) = g[p] + SumOf(g, (T \ {p}) \ {y})
    BY <2>6, <2>7, <2>8
  <2>11. SumOf(g, (T \ {p}) \ {y}) \in Int
    <3>1. IsFiniteSet((T \ {p}) \ {y}) BY <2>1, FS_Subset
    <3>2. \A z \in (T \ {p}) \ {y} : g[z] \in Int BY <2>1
    <3> QED BY <3>1, <3>2, SumInt
  <2>12. g[p] \in Int /\ g[y] \in Int BY <2>1
  <2> QED BY <2>2, <2>4, <2>9, <2>10, <2>11, <2>12
<1>2. S \in SUBSET S OBVIOUS
<1> QED BY <1>1, <1>2

\* A new element adds its value.
LEMMA SumAdd ==
  ASSUME NEW S, IsFiniteSet(S), NEW g, NEW x, x \notin S, \A y \in S \cup {x} : g[y] \in Int
  PROVE  SumOf(g, S \cup {x}) = g[x] + SumOf(g, S)
<1>1. IsFiniteSet(S \cup {x}) BY FS_AddElement
<1>2. (S \cup {x}) \ {x} = S OBVIOUS
<1>3. x \in S \cup {x} OBVIOUS
<1> QED BY <1>1, <1>2, <1>3, SumSplit

\* Functions that agree on the set have the same sum.
LEMMA SumSame ==
  ASSUME NEW S, IsFiniteSet(S), NEW g, NEW h, \A x \in S : g[x] = h[x]
  PROVE  SumOf(g, S) = SumOf(h, S)
<1> DEFINE B == {T \in SUBSET S : SumOf(g, T) # SumOf(h, T)}
<1>1. ASSUME B # {} PROVE FALSE
  <2>0. B \subseteq SUBSET S OBVIOUS
  <2>1. PICK T \in B : \A U \in B : U \subseteq T => U = T
    <3> HIDE DEF B
    <3> QED BY <1>1, <2>0, Minimal
  <2>2. IsFiniteSet(T) BY <2>1, FS_Subset
  <2>3. T # {} BY <2>1, <2>2, SumRec
  <2>4. Pick(T) \in T /\ T \ {Pick(T)} \in SUBSET S BY <2>1, <2>3, PickIn
  <2>5. SumOf(g, T \ {Pick(T)}) = SumOf(h, T \ {Pick(T)}) BY <2>1, <2>4
  <2>6. SumOf(g, T) = g[Pick(T)] + SumOf(g, T \ {Pick(T)}) BY <2>2, <2>3, SumRec
  <2>7. SumOf(h, T) = h[Pick(T)] + SumOf(h, T \ {Pick(T)}) BY <2>2, <2>3, SumRec
  <2> QED BY <2>1, <2>4, <2>5, <2>6, <2>7
<1>2. S \in SUBSET S OBVIOUS
<1> QED BY <1>1, <1>2

\* One value changes, and the sum by as much.
LEMMA SumChange ==
  ASSUME NEW S, IsFiniteSet(S), NEW g, NEW h, NEW x \in S,
         \A y \in S : g[y] \in Int /\ h[y] \in Int,
         \A y \in S \ {x} : h[y] = g[y]
  PROVE  SumOf(h, S) = SumOf(g, S) + (h[x] - g[x])
<1>1. SumOf(g, S) = g[x] + SumOf(g, S \ {x}) BY SumSplit
<1>2. SumOf(h, S) = h[x] + SumOf(h, S \ {x}) BY SumSplit
<1>3. IsFiniteSet(S \ {x}) /\ SumOf(g, S \ {x}) \in Int BY FS_RemoveElement, SumInt
<1>4. SumOf(g, S \ {x}) = SumOf(h, S \ {x}) BY <1>3, SumSame
<1> QED BY <1>1, <1>2, <1>3, <1>4

\* What is not negative does not add up to less than nothing.
LEMMA SumNonNegative ==
  ASSUME NEW S, IsFiniteSet(S), NEW g, \A x \in S : g[x] \in Nat
  PROVE  SumOf(g, S) \in Nat
<1> DEFINE B == {T \in SUBSET S : SumOf(g, T) \notin Nat}
<1>1. ASSUME B # {} PROVE FALSE
  <2>0. B \subseteq SUBSET S OBVIOUS
  <2>1. PICK T \in B : \A U \in B : U \subseteq T => U = T
    <3> HIDE DEF B
    <3> QED BY <1>1, <2>0, Minimal
  <2>2. IsFiniteSet(T) BY <2>1, FS_Subset
  <2>3. T # {}
    <3>1. SumOf(g, {}) = 0 BY <2>2, SumRec
    <3>2. SumOf(g, T) \notin Nat BY <2>1
    <3> QED BY <3>1, <3>2
  <2>4. Pick(T) \in T /\ T \ {Pick(T)} \in SUBSET S BY <2>1, <2>3, PickIn
  <2>5. SumOf(g, T \ {Pick(T)}) \in Nat BY <2>1, <2>4
  <2>6. SumOf(g, T) = g[Pick(T)] + SumOf(g, T \ {Pick(T)}) BY <2>2, <2>3, SumRec
  <2>7. g[Pick(T)] \in Nat BY <2>1, <2>4
  <2> QED BY <2>1, <2>5, <2>6, <2>7
<1>2. S \in SUBSET S OBVIOUS
<1> QED BY <1>1, <1>2

\* Two parts without a common element add up to the whole.
LEMMA SumDisjoint ==
  ASSUME NEW A, IsFiniteSet(A), NEW C, IsFiniteSet(C), A \cap C = {},
         NEW g, \A x \in A \cup C : g[x] \in Int
  PROVE  SumOf(g, A \cup C) = SumOf(g, A) + SumOf(g, C)
<1> DEFINE B == {T \in SUBSET C : SumOf(g, A \cup T) # SumOf(g, A) + SumOf(g, T)}
<1>1. ASSUME B # {} PROVE FALSE
  <2>0. B \subseteq SUBSET C OBVIOUS
  <2>1. PICK T \in B : \A U \in B : U \subseteq T => U = T
    <3> HIDE DEF B
    <3> QED BY <1>1, <2>0, Minimal
  <2>2. T \in SUBSET C /\ SumOf(g, A \cup T) # SumOf(g, A) + SumOf(g, T) BY <2>1
  <2>3. SumOf(g, A) \in Int /\ SumOf(g, {}) = 0 BY SumInt, SumRec
  <2>4. T # {}
    <3>0. SumOf(g, A) + 0 = SumOf(g, A) BY <2>3
    <3>1. A \cup {} = A OBVIOUS
    <3> QED BY <3>0, <3>1, <2>2, <2>3
  <2>5. PICK p \in T : TRUE BY <2>4
  <2> DEFINE U == T \ {p}
  <2>6. U \in SUBSET C /\ U \notin B BY <2>1, <2>2, <2>5
  <2>7. SumOf(g, A \cup U) = SumOf(g, A) + SumOf(g, U) BY <2>6
  <2>8. A \cup U = (A \cup T) \ {p} /\ p \in A \cup T BY <2>2, <2>5
  <2>9. IsFiniteSet(A \cup T) /\ IsFiniteSet(T) /\ IsFiniteSet(U) BY <2>2, FS_Subset, FS_Union
  <2>10. SumOf(g, A \cup T) = g[p] + SumOf(g, A \cup U)
    <3>1. \A x \in A \cup T : g[x] \in Int BY <2>2
    <3> HIDE DEF U
    <3> QED BY <3>1, <2>8, <2>9, SumSplit
  <2>11. SumOf(g, T) = g[p] + SumOf(g, U) BY <2>2, <2>9, SumSplit
  <2>12. SumOf(g, U) \in Int /\ g[p] \in Int
    <3>1. \A x \in U : g[x] \in Int BY <2>6
    <3>2. g[p] \in Int BY <2>2
    <3> HIDE DEF U
    <3> QED BY <3>1, <3>2, <2>9, SumInt
  <2> HIDE DEF U
  <2> QED BY <2>2, <2>3, <2>7, <2>10, <2>11, <2>12
<1>2. C \in SUBSET C OBVIOUS
<1> QED BY <1>1, <1>2

\* Element by element at most, and so in sum.
LEMMA SumMono ==
  ASSUME NEW S, IsFiniteSet(S), NEW g, NEW h,
         \A x \in S : g[x] \in Int /\ h[x] \in Int /\ g[x] =< h[x]
  PROVE  SumOf(g, S) =< SumOf(h, S)
<1> DEFINE B == {T \in SUBSET S : ~ (SumOf(g, T) =< SumOf(h, T))}
<1>1. ASSUME B # {} PROVE FALSE
  <2>0. B \subseteq SUBSET S OBVIOUS
  <2>1. PICK T \in B : \A U \in B : U \subseteq T => U = T
    <3> HIDE DEF B
    <3> QED BY <1>1, <2>0, Minimal
  <2>2. T \in SUBSET S /\ ~ (SumOf(g, T) =< SumOf(h, T)) BY <2>1
  <2>3. T # {}
    <3>1. SumOf(g, {}) = 0 /\ SumOf(h, {}) = 0 BY SumRec
    <3> QED BY <3>1, <2>2
  <2>4. PICK p \in T : TRUE BY <2>3
  <2> DEFINE U == T \ {p}
  <2>5. U \in SUBSET S /\ U \notin B BY <2>1, <2>2, <2>4
  <2>6. SumOf(g, U) =< SumOf(h, U) BY <2>5
  <2>7. IsFiniteSet(T) /\ IsFiniteSet(U) BY <2>2, FS_Subset
  <2>8. SumOf(g, T) = g[p] + SumOf(g, U) /\ SumOf(h, T) = h[p] + SumOf(h, U)
    BY <2>2, <2>7, SumSplit
  <2>9. SumOf(g, U) \in Int /\ SumOf(h, U) \in Int
    <3>1. \A x \in U : g[x] \in Int /\ h[x] \in Int BY <2>5
    <3> HIDE DEF U
    <3> QED BY <3>1, <2>7, SumInt
  <2>10. g[p] \in Int /\ h[p] \in Int /\ g[p] =< h[p] BY <2>2
  <2> HIDE DEF U
  <2> QED BY <2>2, <2>6, <2>8, <2>9, <2>10
<1>2. S \in SUBSET S OBVIOUS
<1> QED BY <1>1, <1>2

\* Zeros add up to zero.
LEMMA SumZero ==
  ASSUME NEW S, IsFiniteSet(S), NEW g, \A x \in S : g[x] = 0
  PROVE  SumOf(g, S) = 0
<1> DEFINE B == {T \in SUBSET S : SumOf(g, T) # 0}
<1>1. ASSUME B # {} PROVE FALSE
  <2>0. B \subseteq SUBSET S OBVIOUS
  <2>1. PICK T \in B : \A U \in B : U \subseteq T => U = T
    <3> HIDE DEF B
    <3> QED BY <1>1, <2>0, Minimal
  <2>2. T \in SUBSET S /\ SumOf(g, T) # 0 BY <2>1
  <2>3. IsFiniteSet(T) BY <2>2, FS_Subset
  <2>4. T # {} BY <2>2, <2>3, SumRec
  <2>5. Pick(T) \in T BY <2>4, PickIn
  <2>6. T \ {Pick(T)} \in SUBSET S /\ T \ {Pick(T)} \notin B BY <2>1, <2>2, <2>5
  <2>7. SumOf(g, T \ {Pick(T)}) = 0 /\ g[Pick(T)] = 0 BY <2>2, <2>5, <2>6
  <2>8. SumOf(g, T) = g[Pick(T)] + SumOf(g, T \ {Pick(T)}) BY <2>3, <2>4, SumRec
  <2> QED BY <2>2, <2>7, <2>8
<1>2. S \in SUBSET S OBVIOUS
<1> QED BY <1>1, <1>2

\* Nothing and a single element.
LEMMA SumFew ==
  ASSUME NEW g, NEW x, g[x] \in Int
  PROVE  SumOf(g, {}) = 0 /\ SumOf(g, {x}) = g[x]
<1>1. IsFiniteSet({}) /\ IsFiniteSet({x}) BY FS_EmptySet, FS_Singleton
<1>2. SumOf(g, {}) = 0 BY <1>1, SumRec
<1>3. {x} \ {x} = {} OBVIOUS
<1>4. SumOf(g, {x}) = g[x] + SumOf(g, {x} \ {x}) BY <1>1, SumSplit
<1> QED BY <1>2, <1>3, <1>4

=============================================================================

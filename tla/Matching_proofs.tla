--------------------------- MODULE Matching_proofs ---------------------------
(***************************************************************************)
(* Facts about one command of Market, for any accounts, orders, fees,      *)
(* configurations and bounds: what the folds compute, what a posting, a    *)
(* level and a fill change, and what the matching loop and the settlement  *)
(* loop do together.  A match works on the book and the settlement on the  *)
(* rows, so the invariant of the loop (Flight) says that the book after n  *)
(* turns holds the rows after the fills of these turns.                    *)
(***************************************************************************)
EXTENDS Market, Sums, SequenceTheorems

-----------------------------------------------------------------------------
(* Folds.  The model folds four operators over sequences; Turn is one     *)
(* step of any of them, so that what a fold computes is proved once.       *)

Turn(kind, c, v, e) ==
  CASE kind = "match"  -> MatchStep(v)
    [] kind = "settle" -> SettleTrade(v, e, c)
    [] kind = "insert" -> InsertOrder(v, e)
    [] kind = "add"    -> v + e.remaining

\* it is the recursion of FoldLeft over the positions S of q.
Iters(kind, c, base, q, S, it) ==
  it = [s \in SUBSET S |-> IF s = {} THEN base ELSE Turn(kind, c, it[s \ {Max(s)}], q[Max(s)])]

Fold(kind, c, base, q) == (CHOOSE it : Iters(kind, c, base, q, DOMAIN q, it))[DOMAIN q]

\* A set of naturals has a least member.
LEMMA Least ==
  ASSUME NEW B, B \subseteq Nat, B # {}
  PROVE  \E n \in B : \A m \in B : n =< m
<1> DEFINE R == {ss \in Nat \X Nat : ss[1] < ss[2]}
<1>1. IsWellFoundedOn(R, Nat) BY NatLessThanWellFounded DEF OpToRel
<1>2. IsWellFoundedOn(R, B) BY <1>1, IsWellFoundedOnSubset
<1>3. PICK n \in B : \A m \in B : ~ (<<m, n>> \in R)
  <2> HIDE DEF R
  <2> QED BY <1>2, WFMin
<1>4. \A m \in B : ~ (m < n) BY <1>3
<1>5. \A m \in B : m \in Int /\ n \in Int OBVIOUS
<1> QED BY <1>4, <1>5

\* The greatest of some positions.
LEMMA MaxIn ==
  ASSUME NEW n \in Nat, NEW s, s \subseteq 1..n, s # {}
  PROVE  Max(s) \in s /\ \A y \in s : Max(s) >= y
<1> DEFINE B == {n - y : y \in s}
<1>0. B \subseteq Nat /\ B # {}
  <2>1. \A y \in s : n - y \in Nat OBVIOUS
  <2> QED BY <2>1
<1>1. PICK m \in B : \A k \in B : m =< k
  <2> HIDE DEF B
  <2> QED BY <1>0, Least
<1>2. PICK x \in s : m = n - x BY <1>1
<1>3. \A y \in s : n - x =< n - y BY <1>1, <1>2
<1>4. \A y \in s : x >= y BY <1>3
<1> QED BY <1>4 DEF Max

\* There is one such recursion.
LEMMA ItersUnique ==
  ASSUME NEW kind, NEW c, NEW base, NEW q, NEW n \in Nat, NEW S, S \subseteq 1..n,
         NEW f, NEW h, Iters(kind, c, base, q, S, f), Iters(kind, c, base, q, S, h)
  PROVE  f = h
<1>0. IsFiniteSet(S)
  <2>1. IsFiniteSet(1..n) BY FS_Interval
  <2> QED BY <2>1, FS_Subset
<1> DEFINE B == {T \in SUBSET S : f[T] # h[T]}
<1>1. CASE B # {}
  <2>0. B \subseteq SUBSET S OBVIOUS
  <2>1. PICK T \in B : \A U \in B : U \subseteq T => U = T
    <3> HIDE DEF B
    <3> QED BY ONLY <1>0, <1>1, <2>0, Minimal
  <2>2. T # {} BY <2>1 DEF Iters
  <2>3. Max(T) \in T /\ T \ {Max(T)} \in SUBSET S BY <2>1, <2>2, MaxIn
  <2>4. f[T \ {Max(T)}] = h[T \ {Max(T)}] BY <2>1, <2>3
  <2> QED BY ZenonT(60), <2>1, <2>2, <2>4 DEF Iters
<1>2. CASE B = {}
  <2>1. \A T \in SUBSET S : f[T] = h[T] BY <1>2
  <2> QED BY <2>1 DEF Iters
<1> QED BY <1>1, <1>2

\* The part of a solution below a set solves that set.
LEMMA ItersPart ==
  ASSUME NEW kind, NEW c, NEW base, NEW q, NEW n \in Nat, NEW S, S \subseteq 1..n,
         NEW f, Iters(kind, c, base, q, S, f), NEW V, V \subseteq S
  PROVE  Iters(kind, c, base, q, V, [s \in SUBSET V |-> f[s]])
<1>1. \A s \in SUBSET V : s # {} => s \ {Max(s)} \in SUBSET V OBVIOUS
<1> QED BY <1>1 DEF Iters

\* There is such a recursion.
LEMMA ItersExist ==
  ASSUME NEW kind, NEW c, NEW base, NEW q, NEW n \in Nat, NEW S, S \subseteq 1..n
  PROVE  \E it : Iters(kind, c, base, q, S, it)
<1>0. IsFiniteSet(S)
  <2>1. IsFiniteSet(1..n) BY FS_Interval
  <2> QED BY <2>1, FS_Subset
<1> DEFINE Sol(U, it) == Iters(kind, c, base, q, U, it)
           B == {T \in SUBSET S : ~ \E it : Sol(T, it)}
<1>1. ASSUME B # {} PROVE FALSE
  <2>0. B \subseteq SUBSET S OBVIOUS
  <2>1. PICK T \in B : \A U \in B : U \subseteq T => U = T
    <3> HIDE DEF B
    <3> QED BY ONLY <1>0, <1>1, <2>0, Minimal
  <2>2. \A U \in SUBSET T : U # T => \E it : Sol(U, it) BY <2>1
  <2> DEFINE sol(U) == CHOOSE it : Sol(U, it)
             less(s) == s \ {Max(s)}
             f == [s \in SUBSET T |-> IF s = {} THEN base ELSE Turn(kind, c, sol(less(s))[less(s)], q[Max(s)])]
  <2>3. \A U \in SUBSET T : U # T => Sol(U, sol(U)) BY <2>2
  <2>4. ASSUME NEW U \in SUBSET T, U # T, NEW V \in SUBSET U
        PROVE  sol(U)[V] = sol(V)[V]
    <3> HIDE DEF sol
    <3>1. Sol(U, sol(U)) /\ Sol(V, sol(V)) BY <2>3, <2>4
    <3>2. U \subseteq 1..n /\ V \subseteq 1..n BY <2>1, <2>4
    <3>3. Sol(V, [s \in SUBSET V |-> sol(U)[s]]) BY ZenonT(60), <3>1, <3>2, ItersPart
    <3>4. sol(V) = [s \in SUBSET V |-> sol(U)[s]] BY <3>1, <3>2, <3>3, ItersUnique
    <3> QED BY <3>4
  <2>5. ASSUME NEW s \in SUBSET T, s # T PROVE f[s] = sol(s)[s]
    <3>1. Sol(s, sol(s)) BY <2>3, <2>5
    <3>2. CASE s = {}
      <4> HIDE DEF sol
      <4> QED BY <3>1, <3>2 DEF Iters
    <3>3. CASE s # {}
      <4> HIDE DEF sol
      <4>0. s \subseteq 1..n BY <2>1, <2>5
      <4>1. Max(s) \in s /\ less(s) \in SUBSET s BY <4>0, <3>3, MaxIn
      <4>2. sol(s)[s] = Turn(kind, c, sol(s)[less(s)], q[Max(s)]) BY <3>1, <3>3 DEF Iters
      <4>3. sol(s)[less(s)] = sol(less(s))[less(s)] BY <2>4, <2>5, <4>1
      <4> QED BY <3>3, <4>2, <4>3
    <3> QED BY <3>2, <3>3
  <2>6. Sol(T, f)
    <3>1. f = [s \in SUBSET T |-> f[s]] /\ f[{}] = base OBVIOUS
    <3>2. ASSUME NEW s \in SUBSET T, s # {}
          PROVE  f[s] = Turn(kind, c, f[less(s)], q[Max(s)])
      <4>1. Max(s) \in s
        <5>1. s \subseteq 1..n BY <2>1, <3>2
        <5> QED BY <5>1, <3>2, MaxIn
      <4>2. less(s) \in SUBSET T /\ less(s) # T BY <4>1
      <4>3. f[less(s)] = sol(less(s))[less(s)] BY <2>5, <4>2
      <4> HIDE DEF sol
      <4> QED BY <3>2, <4>3
    <3> HIDE DEF f
    <3> QED BY <3>1, <3>2 DEF Iters
  <2> QED BY <2>1, <2>6
<1>2. S \in SUBSET S OBVIOUS
<1> QED BY <1>1, <1>2

\* Sequences that agree on the positions have the same recursions.
LEMMA ItersSame ==
  ASSUME NEW kind, NEW c, NEW base, NEW q, NEW r, NEW n \in Nat, NEW S, S \subseteq 1..n,
         \A i \in S : q[i] = r[i]
  PROVE  (CHOOSE it : Iters(kind, c, base, q, S, it)) = (CHOOSE it : Iters(kind, c, base, r, S, it))
<1> DEFINE f == CHOOSE it : Iters(kind, c, base, q, S, it)
           h == CHOOSE it : Iters(kind, c, base, r, S, it)
<1>1. Iters(kind, c, base, q, S, f) /\ Iters(kind, c, base, r, S, h) BY ItersExist
<1> HIDE DEF f, h
<1>2. \A s \in SUBSET S : s # {} => q[Max(s)] = r[Max(s)]
  <2> SUFFICES ASSUME NEW s \in SUBSET S, s # {} PROVE q[Max(s)] = r[Max(s)] OBVIOUS
  <2>1. s \subseteq 1..n OBVIOUS
  <2> QED BY <2>1, MaxIn
<1>3. Iters(kind, c, base, q, S, h)
  <2>1. [s \in SUBSET S |-> IF s = {} THEN base ELSE Turn(kind, c, h[s \ {Max(s)}], q[Max(s)])]
          = [s \in SUBSET S |-> IF s = {} THEN base ELSE Turn(kind, c, h[s \ {Max(s)}], r[Max(s)])]
    BY <1>2
  <2> QED BY <1>1, <2>1 DEF Iters
<1>4. f = h BY <1>1, <1>3, ItersUnique
<1> QED BY <1>4 DEF f, h

\* Nothing folds to the base.
LEMMA FoldNone ==
  ASSUME NEW kind, NEW c, NEW base, NEW q, DOMAIN q = {}
  PROVE  Fold(kind, c, base, q) = base
<1>1. DOMAIN q \subseteq 1..0 BY SMT
<1>2. Iters(kind, c, base, q, DOMAIN q, CHOOSE it : Iters(kind, c, base, q, DOMAIN q, it)) BY <1>1, ItersExist
<1> QED BY <1>2 DEF Fold, Iters

\* The last element is folded last.
LEMMA FoldLast ==
  ASSUME NEW kind, NEW c, NEW base, NEW q, NEW r, NEW n \in Nat, DOMAIN q = 1..n + 1, DOMAIN r = 1..n,
         \A i \in 1..n : q[i] = r[i]
  PROVE  Fold(kind, c, base, q) = Turn(kind, c, Fold(kind, c, base, r), q[n + 1])
<1> DEFINE D == 1..n + 1
           E == 1..n
           f == CHOOSE it : Iters(kind, c, base, q, D, it)
           g == CHOOSE it : Iters(kind, c, base, q, E, it)
           h == CHOOSE it : Iters(kind, c, base, r, E, it)
<1>0. D \subseteq 1..n + 1 /\ n + 1 \in Nat /\ E \subseteq D /\ E \subseteq 1..n /\ D # {} OBVIOUS
<1>1. Max(D) = n + 1
  <2>1. Max(D) \in D /\ \A y \in D : Max(D) >= y BY <1>0, MaxIn
  <2>2. n + 1 \in D OBVIOUS
  <2> QED BY <2>1, <2>2
<1>2. D \ {n + 1} = E OBVIOUS
<1>3. \A i \in E : q[i] = r[i] OBVIOUS
<1> HIDE DEF D, E
<1>9. Iters(kind, c, base, q, D, f) BY <1>0, ItersExist
<1>10. Iters(kind, c, base, q, E, g) BY <1>0, ItersExist
<1>5. g = h BY <1>0, <1>3, ItersSame
<1>6. Fold(kind, c, base, q) = f[D] /\ Fold(kind, c, base, r) = h[E] BY DEF Fold, D, E
<1> HIDE DEF f, g, h
<1>7. f[D] = Turn(kind, c, f[E], q[n + 1]) BY <1>0, <1>1, <1>2, <1>9 DEF Iters
<1>8. \A s \in SUBSET E : s # {} => s \ {Max(s)} \in SUBSET E OBVIOUS
<1>11. Iters(kind, c, base, q, E, [s \in SUBSET E |-> f[s]]) BY <1>0, <1>8, <1>9 DEF Iters
<1>12. g = [s \in SUBSET E |-> f[s]] BY <1>0, <1>10, <1>11, ItersUnique
<1> QED BY <1>5, <1>6, <1>7, <1>12

MatchIters(base, S, it) ==
  it = [s \in SUBSET S |-> IF s = {} THEN base ELSE MatchStep(it[s \ {Max(s)}])]

\* The fold of Match, turn by turn.
LEMMA MatchFold ==
  ASSUME NEW base, NEW q, NEW n \in Nat, DOMAIN q = 1..n
  PROVE  FoldLeft(LAMBDA st, turn : MatchStep(st), base, q) = Fold("match", 0, base, q)
<1> DEFINE D == DOMAIN q
           f == CHOOSE it : MatchIters(base, D, it)
           g == CHOOSE it : Iters("match", 0, base, q, D, it)
<1>1. FoldLeft(LAMBDA st, turn : MatchStep(st), base, q) = f[D]
  BY Zenon DEF FoldLeft, MapThenFoldSet, MatchIters
<1>2. ASSUME NEW it PROVE MatchIters(base, D, it) <=> Iters("match", 0, base, q, D, it)
  BY DEF MatchIters, Iters, Turn
<1>3. D \subseteq 1..n OBVIOUS
<1> HIDE DEF D
<1>4. Iters("match", 0, base, q, D, g) BY <1>3, ItersExist
<1>5. MatchIters(base, D, g) BY <1>2, <1>4
<1>6. MatchIters(base, D, f) BY <1>5
<1>7. Iters("match", 0, base, q, D, f) BY <1>2, <1>6
<1>8. f = g BY <1>3, <1>4, <1>7, ItersUnique
<1> QED BY <1>1, <1>8 DEF Fold, D

SettleIters(c, base, q, S, it) ==
  it = [s \in SUBSET S |-> IF s = {} THEN base ELSE SettleTrade(it[s \ {Max(s)}], q[Max(s)], c)]

\* The fold of Outcome, fill by fill.
LEMMA SettleFold ==
  ASSUME NEW c, NEW base, NEW q, NEW n \in Nat, DOMAIN q = 1..n
  PROVE  FoldLeft(LAMBDA acc, t : SettleTrade(acc, t, c), base, q) = Fold("settle", c, base, q)
<1> DEFINE D == DOMAIN q
           f == CHOOSE it : SettleIters(c, base, q, D, it)
           g == CHOOSE it : Iters("settle", c, base, q, D, it)
<1>1. FoldLeft(LAMBDA acc, t : SettleTrade(acc, t, c), base, q) = f[D]
  BY Zenon DEF FoldLeft, MapThenFoldSet, SettleIters
<1>2. ASSUME NEW it PROVE SettleIters(c, base, q, D, it) <=> Iters("settle", c, base, q, D, it)
  BY DEF SettleIters, Iters, Turn
<1>3. D \subseteq 1..n OBVIOUS
<1> HIDE DEF D
<1>4. Iters("settle", c, base, q, D, g) BY <1>3, ItersExist
<1>5. SettleIters(c, base, q, D, g) BY <1>2, <1>4
<1>6. SettleIters(c, base, q, D, f) BY <1>5
<1>7. Iters("settle", c, base, q, D, f) BY <1>2, <1>6
<1>8. f = g BY <1>3, <1>4, <1>7, ItersUnique
<1> QED BY <1>1, <1>8 DEF Fold, D

InsertIters(base, q, S, it) ==
  it = [s \in SUBSET S |-> IF s = {} THEN base ELSE InsertOrder(it[s \ {Max(s)}], q[Max(s)])]

\* The fold of Restore, order by order.
LEMMA InsertFold ==
  ASSUME NEW base, NEW q, NEW n \in Nat, DOMAIN q = 1..n
  PROVE  FoldLeft(InsertOrder, base, q) = Fold("insert", 0, base, q)
<1> DEFINE D == DOMAIN q
           f == CHOOSE it : InsertIters(base, q, D, it)
           g == CHOOSE it : Iters("insert", 0, base, q, D, it)
<1>1. FoldLeft(InsertOrder, base, q) = f[D]
  BY Zenon DEF FoldLeft, MapThenFoldSet, InsertIters
<1>2. ASSUME NEW it PROVE InsertIters(base, q, D, it) <=> Iters("insert", 0, base, q, D, it)
  BY DEF InsertIters, Iters, Turn
<1>3. D \subseteq 1..n OBVIOUS
<1> HIDE DEF D
<1>4. Iters("insert", 0, base, q, D, g) BY <1>3, ItersExist
<1>5. InsertIters(base, q, D, g) BY <1>2, <1>4
<1>6. InsertIters(base, q, D, f) BY <1>5
<1>7. Iters("insert", 0, base, q, D, f) BY <1>2, <1>6
<1>8. f = g BY <1>3, <1>4, <1>7, ItersUnique
<1> QED BY <1>1, <1>8 DEF Fold, D

AddIters(base, q, S, it) ==
  it = [s \in SUBSET S |-> IF s = {} THEN base ELSE it[s \ {Max(s)}] + q[Max(s)].remaining]

\* The fold of LevelQty, order by order.
LEMMA AddFold ==
  ASSUME NEW base, NEW q, NEW n \in Nat, DOMAIN q = 1..n
  PROVE  FoldLeft(LAMBDA acc, o : acc + o.remaining, base, q) = Fold("add", 0, base, q)
<1> DEFINE D == DOMAIN q
           f == CHOOSE it : AddIters(base, q, D, it)
           g == CHOOSE it : Iters("add", 0, base, q, D, it)
<1>1. FoldLeft(LAMBDA acc, o : acc + o.remaining, base, q) = f[D]
  BY Zenon DEF FoldLeft, MapThenFoldSet, AddIters
<1>2. ASSUME NEW it PROVE AddIters(base, q, D, it) <=> Iters("add", 0, base, q, D, it)
  BY DEF AddIters, Iters, Turn
<1>3. D \subseteq 1..n OBVIOUS
<1> HIDE DEF D
<1>4. Iters("add", 0, base, q, D, g) BY <1>3, ItersExist
<1>5. AddIters(base, q, D, g) BY <1>2, <1>4
<1>6. AddIters(base, q, D, f) BY <1>5
<1>7. Iters("add", 0, base, q, D, f) BY <1>2, <1>6
<1>8. f = g BY <1>3, <1>4, <1>7, ItersUnique
<1> QED BY <1>1, <1>8 DEF Fold, D

-----------------------------------------------------------------------------
(* Sequences without repetition.                                           *)

Distinct(s) == \A i, j \in DOMAIN s : s[i] = s[j] => i = j

\* The parts of a sequence.
LEMMA SeqParts ==
  ASSUME NEW X, NEW s \in Seq(X)
  PROVE  /\ Len(s) \in Nat /\ DOMAIN s = 1..Len(s) /\ ToSet(s) \subseteq X
         /\ s = << >> <=> ToSet(s) = {}
         /\ s # << >> => Head(s) = s[1] /\ Head(s) \in ToSet(s)
<1>1. Len(s) \in Nat /\ DOMAIN s = 1..Len(s) OBVIOUS
<1>2. ToSet(s) \subseteq X BY DEF ToSet
<1>3. ASSUME s = << >> PROVE ToSet(s) = {}
  <2>1. DOMAIN s = {} BY <1>3
  <2> QED BY <2>1 DEF ToSet
<1>4. ASSUME s # << >> PROVE Head(s) = s[1] /\ Head(s) \in ToSet(s)
  <2>1. Len(s) > 0 BY <1>1, <1>4, EmptySeq
  <2>2. 1 \in DOMAIN s /\ Head(s) = s[1] BY <1>1, <1>4, <2>1
  <2> QED BY <2>2 DEF ToSet
<1> QED BY <1>1, <1>2, <1>3, <1>4

\* The tail without the head.
LEMMA TailParts ==
  ASSUME NEW X, NEW s \in Seq(X), s # << >>, Distinct(s)
  PROVE  Tail(s) \in Seq(X) /\ Distinct(Tail(s)) /\ ToSet(Tail(s)) = ToSet(s) \ {Head(s)}
<1> DEFINE t == Tail(s)
           n == Len(s)
<1>1. n \in Nat /\ n > 0 /\ DOMAIN s = 1..n BY EmptySeq
<1>2. t \in Seq(X) /\ Len(t) = n - 1 /\ (\A i \in 1..n - 1 : t[i] = s[i + 1]) /\ DOMAIN t = 1..n - 1
  BY HeadTailProperties
<1>3. Head(s) = s[1] OBVIOUS
<1> HIDE DEF t, n
<1>4. Distinct(t)
  <2> SUFFICES ASSUME NEW i \in 1..n - 1, NEW j \in 1..n - 1, t[i] = t[j] PROVE i = j BY <1>2 DEF Distinct
  <2>1. i + 1 \in DOMAIN s /\ j + 1 \in DOMAIN s /\ s[i + 1] = s[j + 1] BY <1>1, <1>2
  <2>2. i + 1 = j + 1 BY <2>1 DEF Distinct
  <2> QED BY <1>1, <2>2
<1>5. ToSet(t) \subseteq ToSet(s) \ {Head(s)}
  <2> SUFFICES ASSUME NEW i \in 1..n - 1 PROVE t[i] \in ToSet(s) /\ t[i] # s[1] BY <1>2, <1>3 DEF ToSet
  <2>1. i + 1 \in DOMAIN s /\ 1 \in DOMAIN s /\ i + 1 # 1 /\ t[i] = s[i + 1] BY <1>1, <1>2
  <2> QED BY <2>1 DEF ToSet, Distinct
<1>6. ToSet(s) \ {Head(s)} \subseteq ToSet(t)
  <2> SUFFICES ASSUME NEW i \in DOMAIN s, s[i] # s[1] PROVE s[i] \in ToSet(t) BY <1>3 DEF ToSet
  <2>1. i - 1 \in 1..n - 1 /\ (i - 1) + 1 = i BY <1>1
  <2>2. t[i - 1] = s[i] BY <1>2, <2>1
  <2> QED BY <1>2, <2>1, <2>2 DEF ToSet
<1> QED BY <1>2, <1>4, <1>5, <1>6 DEF t

\* Another head.
LEMMA NewHead ==
  ASSUME NEW X, NEW s \in Seq(X), s # << >>, Distinct(s), NEW e \in X, e \notin ToSet(Tail(s))
  PROVE  LET r == <<e>> \o Tail(s) IN
         /\ r \in Seq(X) /\ r # << >> /\ Distinct(r) /\ Tail(r) = Tail(s)
         /\ ToSet(r) = (ToSet(s) \ {Head(s)}) \cup {e}
<1> DEFINE t == Tail(s)
           r == <<e>> \o t
           n == Len(t)
<1>1. t \in Seq(X) /\ Distinct(t) /\ ToSet(t) = ToSet(s) \ {Head(s)} BY TailParts
<1> HIDE DEF t
<1>2. n \in Nat /\ DOMAIN t = 1..n BY <1>1
<1>3. r \in Seq(X) /\ Len(r) = n + 1 /\ DOMAIN r = 1..n + 1 /\ r[1] = e /\ \A i \in 1..n : r[i + 1] = t[i]
  <2>1. <<e>> \in Seq(X) /\ Len(<<e>>) = 1 /\ <<e>>[1] = e OBVIOUS
  <2>2. r \in Seq(X) /\ Len(r) = n + 1 BY <1>1, <2>1, ConcatProperties
  <2>3. \A i \in 1..n + 1 : r[i] = IF i =< 1 THEN <<e>>[i] ELSE t[i - 1] BY <1>1, <1>2, <2>1, ConcatProperties
  <2>4. ASSUME NEW i \in 1..n PROVE r[i + 1] = t[i]
    <3>1. i + 1 \in 1..n + 1 /\ ~(i + 1 =< 1) /\ (i + 1) - 1 = i BY <1>2
    <3> HIDE DEF r
    <3> QED BY <2>3, <3>1
  <2>5. r[1] = e
    <3>1. 1 \in 1..n + 1 BY <1>2
    <3> HIDE DEF r
    <3> QED BY <2>1, <2>3, <3>1
  <2> QED BY <1>2, <2>2, <2>4, <2>5
<1> HIDE DEF r, n
<1>4. \A i \in 1..n + 1 : i = 1 \/ (i - 1 \in 1..n /\ r[i] = t[i - 1])
  <2> SUFFICES ASSUME NEW i \in 1..n + 1, i # 1 PROVE i - 1 \in 1..n /\ r[i] = t[i - 1] OBVIOUS
  <2>1. i - 1 \in 1..n /\ (i - 1) + 1 = i BY <1>2
  <2> QED BY <1>3, <2>1
<1>5. \A i \in 1..n : t[i] # e BY <1>2 DEF ToSet, t
<1>6. Distinct(r)
  <2> SUFFICES ASSUME NEW i \in 1..n + 1, NEW j \in 1..n + 1, r[i] = r[j] PROVE i = j BY <1>3 DEF Distinct
  <2>1. CASE i = 1 \/ j = 1 BY <1>3, <1>4, <1>5, <2>1
  <2>2. CASE i # 1 /\ j # 1
    <3>1. i - 1 \in DOMAIN t /\ j - 1 \in DOMAIN t /\ t[i - 1] = t[j - 1] BY <1>2, <1>4, <2>2
    <3>2. i - 1 = j - 1 BY <1>1, <3>1 DEF Distinct
    <3> QED BY <1>2, <3>2
  <2> QED BY <2>1, <2>2
<1>7. ToSet(r) = ToSet(t) \cup {e}
  <2>1. ToSet(r) \subseteq ToSet(t) \cup {e} BY <1>2, <1>3, <1>4 DEF ToSet
  <2>2. 1 \in DOMAIN r /\ \A i \in 1..n : i + 1 \in DOMAIN r BY <1>2, <1>3
  <2>3. ToSet(t) \cup {e} \subseteq ToSet(r) BY SMTT(60), <1>2, <1>3, <2>2 DEF ToSet
  <2> QED BY <2>1, <2>3
<1>8. r # << >> BY <1>2, <1>3
<1>9. Tail(r) = t
  <2>1. Tail(r) \in Seq(X) /\ Len(Tail(r)) = n /\ \A i \in 1..n : Tail(r)[i] = r[i + 1]
    BY <1>2, <1>3, <1>8, HeadTailProperties
  <2>2. DOMAIN Tail(r) = 1..n BY <2>1
  <2> QED BY <1>1, <1>2, <1>3, <2>1, <2>2, SeqEqual DEF n
<1> QED BY <1>1, <1>3, <1>6, <1>7, <1>8, <1>9 DEF r, t

\* One more at the end.
LEMMA AppendParts ==
  ASSUME NEW X, NEW s \in Seq(X), Distinct(s), NEW e \in X, e \notin ToSet(s)
  PROVE  LET r == Append(s, e) IN
         /\ r \in Seq(X) /\ r # << >> /\ Distinct(r) /\ ToSet(r) = ToSet(s) \cup {e}
<1> DEFINE r == Append(s, e)
           n == Len(s)
<1>1. n \in Nat /\ DOMAIN s = 1..n OBVIOUS
<1>2. r \in Seq(X) /\ Len(r) = n + 1 /\ DOMAIN r = 1..n + 1 /\ r[n + 1] = e /\ \A i \in 1..n : r[i] = s[i]
  BY AppendProperties
<1> HIDE DEF r, n
<1>3. \A i \in 1..n + 1 : i = n + 1 \/ i \in 1..n BY <1>1
<1>4. \A i \in 1..n : s[i] # e BY <1>1 DEF ToSet
<1>5. Distinct(r)
  <2> SUFFICES ASSUME NEW i \in 1..n + 1, NEW j \in 1..n + 1, r[i] = r[j] PROVE i = j BY <1>2 DEF Distinct
  <2>1. CASE i = n + 1 \/ j = n + 1 BY <1>2, <1>3, <1>4, <2>1
  <2>2. CASE i \in 1..n /\ j \in 1..n BY <1>1, <1>2, <2>2 DEF Distinct
  <2> QED BY <1>3, <2>1, <2>2
<1>6. ToSet(r) = ToSet(s) \cup {e}
  <2>1. n + 1 \in DOMAIN r /\ \A i \in 1..n : i \in DOMAIN r BY <1>1, <1>2
  <2>2. ToSet(r) \subseteq ToSet(s) \cup {e} BY <1>1, <1>2, <1>3 DEF ToSet
  <2>3. ToSet(s) \cup {e} \subseteq ToSet(r) BY <1>1, <1>2, <2>1 DEF ToSet
  <2> QED BY <2>2, <2>3
<1>7. r # << >> BY <1>1, <1>2
<1> QED BY <1>2, <1>5, <1>6, <1>7 DEF r

\* The pieces of a sequence before and after a position.
LEMMA Pieces ==
  ASSUME NEW X, NEW s \in Seq(X), NEW k \in 1..Len(s) + 1, NEW m \in k..Len(s) + 1
  PROVE  LET a == SubSeq(s, 1, k - 1)
             b == SubSeq(s, m, Len(s))
         IN  /\ a \in Seq(X) /\ Len(a) = k - 1 /\ (\A i \in 1..k - 1 : a[i] = s[i])
             /\ b \in Seq(X) /\ Len(b) = Len(s) - m + 1 /\ (\A i \in 1..Len(s) - m + 1 : b[i] = s[m + i - 1])
<1> DEFINE n == Len(s)
           j == k - 1
<1>1. n \in Nat /\ DOMAIN s = 1..n /\ k \in 1..n + 1 /\ m \in k..n + 1 OBVIOUS
<1>2. j \in Nat /\ j =< n /\ m \in Int /\ 1 =< m BY <1>1
<1>3. \A i \in 1..n : s[i] \in X OBVIOUS
<1> HIDE DEF n, j
<1>4. \A i \in 1..j : s[i] \in X BY <1>1, <1>2, <1>3
<1>5. \A i \in m..n : s[i] \in X BY <1>1, <1>2, <1>3
<1> DEFINE a == SubSeq(s, 1, j)
           b == SubSeq(s, m, n)
<1>6. /\ a \in Seq(X) /\ Len(a) = (IF 1 =< j THEN j - 1 + 1 ELSE 0) /\ \A i \in 1..j - 1 + 1 : a[i] = s[1 + i - 1]
  BY <1>2, <1>4, SubSeqProperties
<1>7. /\ b \in Seq(X) /\ Len(b) = (IF m =< n THEN n - m + 1 ELSE 0) /\ \A i \in 1..n - m + 1 : b[i] = s[m + i - 1]
  BY <1>1, <1>2, <1>5, SubSeqProperties
<1> HIDE DEF a, b
<1>8. Len(a) = j /\ \A i \in 1..j : a[i] = s[i]
  <2>1. Len(a) = j /\ j - 1 + 1 = j BY <1>2, <1>6
  <2>2. ASSUME NEW i \in 1..j PROVE a[i] = s[i]
    <3>1. i \in 1..j - 1 + 1 /\ 1 + i - 1 = i BY <1>2
    <3> QED BY <1>6, <3>1
  <2> QED BY <2>1, <2>2
<1>9. Len(b) = n - m + 1 BY <1>1, <1>2, <1>7
<1> QED BY <1>6, <1>7, <1>8, <1>9 DEF a, b, j, n

\* Two sequences in a row.
JoinedIs(X, a, b, la, lb, r) ==
  /\ r \in Seq(X) /\ Len(r) = la + lb /\ DOMAIN r = 1..la + lb
  /\ \A i \in 1..la : r[i] = a[i]
  /\ \A i \in la + 1..la + lb : r[i] = b[i - la]

\* What a concatenation is, index by index.
LEMMA Joined ==
  ASSUME NEW X, NEW a, NEW b, a \in Seq(X), b \in Seq(X), NEW la, NEW lb, la = Len(a), lb = Len(b),
         NEW r, r = a \o b
  PROVE  JoinedIs(X, a, b, la, lb, r)
<1>0. la \in Nat /\ lb \in Nat OBVIOUS
<1>1. /\ r \in Seq(X) /\ Len(r) = la + lb
      /\ \A i \in 1..la + lb : r[i] = IF i =< la THEN a[i] ELSE b[i - la]
  BY ConcatProperties
<1>2. \A i \in 1..la : i \in 1..la + lb /\ i =< la BY <1>0
<1>3. \A i \in la + 1..la + lb : i \in 1..la + lb /\ ~(i =< la) BY <1>0
<1>4. DOMAIN r = 1..la + lb BY <1>1
<1> QED BY <1>1, <1>2, <1>3, <1>4 DEF JoinedIs

\* A sequence without its element at k.
LEMMA RemoveIndex ==
  ASSUME NEW X, NEW s \in Seq(X), Distinct(s), NEW k \in DOMAIN s
  PROVE  LET r == RemoveFirst(s, s[k]) IN
         /\ r \in Seq(X) /\ DOMAIN r = 1..Len(s) - 1
         /\ \A i \in 1..Len(s) - 1 : r[i] = IF i < k THEN s[i] ELSE s[i + 1]
<1> DEFINE n == Len(s)
           I == {i \in 1..n : s[i] = s[k]}
           r == RemoveFirst(s, s[k])
           m == k + 1
           a == SubSeq(s, 1, k - 1)
           b == SubSeq(s, m, n)
<1>1. n \in Nat /\ DOMAIN s = 1..n /\ k \in 1..n OBVIOUS
<1>2. I = {k} BY <1>1 DEF Distinct
<1>3. Min(I) = k
  <2>1. \A x \in {k} : x = k /\ x =< x BY <1>1
  <2> QED BY <1>2, <2>1 DEF Min
<1>4. r = RemoveAt(s, k)
  <2>1. SelectInSeq(s, LAMBDA v : v = s[k]) = IF I # {} THEN Min(I) ELSE 0 BY DEF SelectInSeq
  <2>2. SelectInSeq(s, LAMBDA v : v = s[k]) = k BY <1>2, <1>3, <2>1
  <2>3. \E i \in 1..Len(s) : s[i] = s[k] BY <1>1
  <2> QED BY <2>2, <2>3 DEF RemoveFirst
<1>5. r = a \o b BY <1>4 DEF RemoveAt
<1>6. k \in 1..Len(s) + 1 /\ m \in k..Len(s) + 1 BY <1>1
<1> HIDE DEF m, r
<1>7. /\ a \in Seq(X) /\ Len(a) = k - 1 /\ (\A i \in 1..k - 1 : a[i] = s[i])
      /\ b \in Seq(X) /\ Len(b) = n - m + 1 /\ (\A i \in 1..n - m + 1 : b[i] = s[m + i - 1])
  BY <1>6, Pieces
<1> DEFINE la == k - 1
           lb == n - m + 1
<1>8. la \in Nat /\ lb \in Nat /\ la + lb = n - 1 BY <1>1 DEF m
<1> HIDE DEF a, b, n
<1>9. /\ r \in Seq(X) /\ DOMAIN r = 1..la + lb
      /\ (\A i \in 1..la : r[i] = a[i]) /\ (\A i \in la + 1..la + lb : r[i] = b[i - la])
  <2> HIDE DEF la, lb
  <2>1. la = Len(a) /\ lb = Len(b) BY <1>7 DEF la, lb
  <2>2. JoinedIs(X, a, b, la, lb, r)
    <3>1. a \in Seq(X) /\ b \in Seq(X) BY <1>7
    <3>2. JoinedIs(X, a, b, la, lb, r) BY ONLY <1>5, <2>1, <3>1, Joined
    <3> QED BY <3>2
  <2> QED BY <2>2 DEF JoinedIs
<1>10. ASSUME NEW i \in 1..n - 1 PROVE r[i] = IF i < k THEN s[i] ELSE s[i + 1]
  <2>1. CASE i < k
    <3>1. i \in 1..la BY <1>1, <2>1
    <3> HIDE DEF la, lb
    <3>2. r[i] = a[i] BY <1>9, <3>1
    <3> QED BY <1>7, <2>1, <3>1, <3>2 DEF la
  <2>2. CASE ~(i < k)
    <3>1. i \in la + 1..la + lb /\ i - la \in 1..n - m + 1 /\ m + (i - la) - 1 = i + 1 BY <1>1, <2>2 DEF m
    <3> HIDE DEF la, lb
    <3>2. r[i] = b[i - la] BY <1>9, <3>1
    <3> QED BY <1>7, <2>2, <3>1, <3>2
  <2> QED BY <2>1, <2>2
<1> QED BY <1>8, <1>9, <1>10 DEF r, n

\* A sequence without one of its elements.
LEMMA RemoveParts ==
  ASSUME NEW X, NEW s \in Seq(X), Distinct(s), NEW e \in ToSet(s)
  PROVE  LET r == RemoveFirst(s, e) IN
         r \in Seq(X) /\ Distinct(r) /\ ToSet(r) = ToSet(s) \ {e}
<1> DEFINE r == RemoveFirst(s, e)
           n == Len(s)
<1>1. PICK k \in DOMAIN s : s[k] = e BY DEF ToSet
<1>2. n \in Nat /\ DOMAIN s = 1..n /\ k \in 1..n OBVIOUS
<1>3. /\ r \in Seq(X) /\ DOMAIN r = 1..n - 1
      /\ \A i \in 1..n - 1 : r[i] = IF i < k THEN s[i] ELSE s[i + 1]
  <2>1. e = s[k] BY <1>1
  <2> QED BY <2>1, RemoveIndex
<1> HIDE DEF r, n
<1> DEFINE at(i) == IF i < k THEN i ELSE i + 1
<1>4. \A i \in 1..n - 1 : at(i) \in 1..n /\ at(i) # k /\ r[i] = s[at(i)] BY <1>2, <1>3
<1>5. \A i, j \in 1..n - 1 : at(i) = at(j) => i = j BY <1>2
<1>6. \A j \in 1..n : j # k => \E i \in 1..n - 1 : at(i) = j
  <2> SUFFICES ASSUME NEW j \in 1..n, j # k PROVE \E i \in 1..n - 1 : at(i) = j OBVIOUS
  <2>1. CASE j < k
    <3>1. j \in 1..n - 1 /\ at(j) = j BY <1>2, <2>1
    <3> QED BY <3>1
  <2>2. CASE ~(j < k)
    <3>1. j - 1 \in 1..n - 1 /\ at(j - 1) = j BY <1>2, <2>2
    <3> QED BY <3>1
  <2> QED BY <2>1, <2>2
<1> HIDE DEF at
<1>7. Distinct(r) BY <1>2, <1>3, <1>4, <1>5 DEF Distinct
<1>8. ToSet(r) \subseteq ToSet(s) \ {e}
  <2> SUFFICES ASSUME NEW i \in 1..n - 1 PROVE r[i] \in ToSet(s) /\ r[i] # e BY <1>3 DEF ToSet
  <2> QED BY <1>1, <1>2, <1>4 DEF ToSet, Distinct
<1>9. ToSet(s) \ {e} \subseteq ToSet(r)
  <2> SUFFICES ASSUME NEW j \in 1..n, s[j] # e PROVE s[j] \in ToSet(r) BY <1>2 DEF ToSet
  <2>1. PICK i \in 1..n - 1 : at(i) = j BY <1>1, <1>6
  <2> QED BY <1>3, <1>4, <2>1 DEF ToSet
<1> QED BY <1>3, <1>7, <1>8, <1>9 DEF r

\* One more at position k.
SpreadIs(X, s, k, e, r) ==
  /\ r \in Seq(X) /\ DOMAIN r = 1..Len(s) + 1
  /\ \A i \in 1..Len(s) + 1 : r[i] = IF i < k THEN s[i] ELSE IF i = k THEN e ELSE s[i - 1]

\* What InsertAt leaves at each index.
LEMMA InsertIndex ==
  ASSUME NEW X, NEW s \in Seq(X), NEW e \in X, NEW k \in 1..Len(s) + 1
  PROVE  SpreadIs(X, s, k, e, InsertAt(s, k, e))
<1> DEFINE n == Len(s)
           r == InsertAt(s, k, e)
           a == SubSeq(s, 1, k - 1)
           b == SubSeq(s, k, n)
           la == k - 1
           lb == n - k + 1
           c == a \o <<e>>
<1>1. n \in Nat /\ k \in 1..n + 1 /\ k \in k..Len(s) + 1 OBVIOUS
<1>2. /\ a \in Seq(X) /\ Len(a) = la /\ (\A i \in 1..la : a[i] = s[i])
      /\ b \in Seq(X) /\ Len(b) = lb /\ (\A i \in 1..lb : b[i] = s[k + i - 1])
  BY <1>1, Pieces
<1>3. la \in Nat /\ lb \in Nat /\ la + 1 = k /\ k + lb = n + 1 BY <1>1
<1>4. r = c \o b BY DEF InsertAt
<1>5. <<e>> \in Seq(X) /\ Len(<<e>>) = 1 /\ <<e>>[1] = e OBVIOUS
<1> HIDE DEF n, a, b, r, la, lb
<1>6. /\ c \in Seq(X) /\ Len(c) = la + 1
      /\ (\A i \in 1..la : c[i] = a[i]) /\ (\A i \in la + 1..la + 1 : c[i] = <<e>>[i - la])
  <2> DEFINE one == <<e>>
             l1 == 1
  <2>1. one \in Seq(X) /\ l1 = Len(one) /\ l1 \in Nat BY <1>5
  <2> HIDE DEF one, l1
  <2>2. c = a \o one BY DEF one
  <2> HIDE DEF c
  <2>3. JoinedIs(X, a, one, la, l1, c) BY <1>2, <2>1, <2>2, Joined
  <2> QED BY <2>3 DEF JoinedIs, one, l1
<1>7. Len(c) = k /\ c[k] = e /\ \A i \in 1..la : c[i] = s[i]
  <2>1. k \in la + 1..la + 1 /\ k - la = 1 BY <1>1, <1>3
  <2> QED BY <1>2, <1>3, <1>5, <1>6, <2>1
<1> HIDE DEF c
<1>8. /\ r \in Seq(X) /\ DOMAIN r = 1..k + lb
      /\ (\A i \in 1..k : r[i] = c[i]) /\ (\A i \in k + 1..k + lb : r[i] = b[i - k])
  BY SMTT(60), <1>2, <1>4, <1>6, <1>7, Joined DEF JoinedIs
<1>9. ASSUME NEW i \in 1..n + 1 PROVE r[i] = IF i < k THEN s[i] ELSE IF i = k THEN e ELSE s[i - 1]
  <2>1. CASE i < k
    <3>1. i \in 1..la /\ i \in 1..k BY <1>1, <1>3, <2>1
    <3> QED BY <1>7, <1>8, <2>1, <3>1
  <2>2. CASE i = k
    <3>1. k \in 1..k BY <1>1
    <3> QED BY <1>7, <1>8, <2>2, <3>1
  <2>3. CASE i > k
    <3>1. i \in k + 1..k + lb /\ i - k \in 1..lb /\ k + (i - k) - 1 = i - 1 BY <1>1, <1>3, <2>3
    <3> QED BY SMTT(60), <1>1, <1>2, <1>8, <2>3, <3>1
  <2> QED BY <1>1, <2>1, <2>2, <2>3
<1>10. k + lb = Len(s) + 1 /\ n = Len(s) BY <1>3 DEF n
<1>11. SpreadIs(X, s, k, e, r) BY ONLY <1>8, <1>9, <1>10 DEF SpreadIs
<1> QED BY ONLY <1>11 DEF r

\* InsertAt puts one element more into a sequence.
LEMMA InsertParts ==
  ASSUME NEW X, NEW s \in Seq(X), Distinct(s), NEW e \in X, e \notin ToSet(s), NEW k \in 1..Len(s) + 1
  PROVE  LET r == InsertAt(s, k, e) IN
         r \in Seq(X) /\ Distinct(r) /\ ToSet(r) = ToSet(s) \cup {e}
<1> DEFINE n == Len(s)
           r == InsertAt(s, k, e)
<1>1. n \in Nat /\ k \in 1..n + 1 /\ DOMAIN s = 1..n OBVIOUS
<1>2. /\ r \in Seq(X) /\ DOMAIN r = 1..n + 1
      /\ \A i \in 1..n + 1 : r[i] = IF i < k THEN s[i] ELSE IF i = k THEN e ELSE s[i - 1]
  <2> HIDE DEF r
  <2>1. SpreadIs(X, s, k, e, r) BY InsertIndex DEF r
  <2>2. n = Len(s) OBVIOUS
  <2> HIDE DEF n
  <2> QED BY ONLY <2>1, <2>2 DEF SpreadIs
<1> HIDE DEF n, r
<1>3. \A i \in 1..n : s[i] # e BY <1>1 DEF ToSet
<1> DEFINE from(i) == IF i < k THEN i ELSE i - 1
           to(j) == IF j < k THEN j ELSE j + 1
<1>4. \A i \in 1..n + 1 : i # k => from(i) \in 1..n /\ r[i] = s[from(i)] BY <1>1, <1>2
<1>5. \A i, j \in 1..n + 1 : i # k /\ j # k /\ from(i) = from(j) => i = j BY <1>1
<1>6. \A j \in 1..n : to(j) \in 1..n + 1 /\ to(j) # k /\ from(to(j)) = j BY <1>1
<1>7. r[k] = e BY <1>1, <1>2
<1> HIDE DEF from, to
<1>8. Distinct(r)
  <2> SUFFICES ASSUME NEW i \in 1..n + 1, NEW j \in 1..n + 1, r[i] = r[j] PROVE i = j BY <1>2 DEF Distinct
  <2>1. CASE i = k \/ j = k BY <1>3, <1>4, <1>7, <2>1
  <2>2. CASE i # k /\ j # k BY <1>1, <1>4, <1>5, <2>2 DEF Distinct
  <2> QED BY <2>1, <2>2
<1>9. ToSet(r) \subseteq ToSet(s) \cup {e}
  <2> SUFFICES ASSUME NEW i \in 1..n + 1, i # k PROVE r[i] \in ToSet(s) BY <1>2, <1>7 DEF ToSet
  <2> QED BY <1>1, <1>4 DEF ToSet
<1>10. ToSet(s) \cup {e} \subseteq ToSet(r)
  <2>1. \A j \in 1..n : s[j] = r[to(j)] /\ to(j) \in DOMAIN r BY <1>2, <1>4, <1>6
  <2>2. k \in DOMAIN r BY <1>1, <1>2
  <2> QED BY <1>1, <1>7, <2>1, <2>2 DEF ToSet
<1> QED BY <1>2, <1>8, <1>9, <1>10 DEF r

\* Where a price goes.
LEMMA SearchIn ==
  ASSUME NEW side, NEW prices \in Seq(Nat), NEW p \in Nat
  PROVE  Search(side, prices, p) \in 1..Len(prices) + 1
<1> DEFINE W == Worse(side, prices, p)
           n == Len(prices)
<1>1. n \in Nat /\ W \subseteq 1..n BY DEF Worse
<1>2. CASE W = {} BY <1>1, <1>2 DEF Search
<1>3. CASE W # {}
  <2>1. W \subseteq Nat BY <1>1
  <2>2. PICK m \in W : \A y \in W : m =< y
    <3> HIDE DEF W
    <3> QED BY <1>3, <2>1, Least
  <2>3. Min(W) \in W BY <2>2 DEF Min
  <2> QED BY <1>1, <1>3, <2>3 DEF Search
<1> QED BY <1>2, <1>3

-----------------------------------------------------------------------------
(* Sequences in an order: prices best first, a level oldest first.         *)

InOrder(L, s) == \A i, j \in DOMAIN s : i < j => <<s[i], s[j]>> \in L

\* Of two prices of a side the better one is ahead.
Ahead(side) == {pq \in Nat \X Nat : Better(side, pq[1], pq[2])}

\* The tail of a sequence in order, and its head before it.
LEMMA TailOrder ==
  ASSUME NEW X, NEW s \in Seq(X), s # << >>, NEW L, InOrder(L, s)
  PROVE  InOrder(L, Tail(s)) /\ \A x \in ToSet(Tail(s)) : <<Head(s), x>> \in L
<1> DEFINE t == Tail(s)
           n == Len(s)
<1>1. n \in Nat /\ n > 0 /\ DOMAIN s = 1..n BY EmptySeq
<1>2. (\A i \in 1..n - 1 : t[i] = s[i + 1]) /\ DOMAIN t = 1..n - 1
  <2>1. t \in Seq(X) /\ Len(t) = n - 1 /\ (\A i \in 1..n - 1 : t[i] = s[i + 1]) BY HeadTailProperties
  <2> QED BY <2>1
<1>3. Head(s) = s[1] OBVIOUS
<1> HIDE DEF t, n
<1>4. InOrder(L, t)
  <2> SUFFICES ASSUME NEW i \in 1..n - 1, NEW j \in 1..n - 1, i < j PROVE <<t[i], t[j]>> \in L BY <1>2 DEF InOrder
  <2>1. i + 1 \in DOMAIN s /\ j + 1 \in DOMAIN s /\ i + 1 < j + 1 BY <1>1
  <2> QED BY <1>2, <2>1 DEF InOrder
<1>5. ASSUME NEW x \in ToSet(t) PROVE <<s[1], x>> \in L
  <2>1. PICK i \in 1..n - 1 : x = t[i] BY <1>2 DEF ToSet
  <2>2. 1 \in DOMAIN s /\ i + 1 \in DOMAIN s /\ 1 < i + 1 BY <1>1
  <2> QED BY <1>2, <2>1, <2>2 DEF InOrder
<1> QED BY <1>3, <1>4, <1>5 DEF t

\* A head before a sequence in order.
LEMMA HeadOrder ==
  ASSUME NEW X, NEW t \in Seq(X), NEW e \in X, NEW L, InOrder(L, t), \A x \in ToSet(t) : <<e, x>> \in L
  PROVE  InOrder(L, <<e>> \o t)
<1> DEFINE one == <<e>>
           r == one \o t
           n == Len(t)
           l1 == 1
<1>1. n \in Nat /\ DOMAIN t = 1..n OBVIOUS
<1>2. one \in Seq(X) /\ l1 = Len(one) /\ one[1] = e OBVIOUS
<1> HIDE DEF one, n
<1>3. JoinedIs(X, one, t, l1, n, r)
  <2> HIDE DEF l1
  <2>1. one \in Seq(X) /\ l1 = Len(one) BY <1>2
  <2>2. n = Len(t) BY DEF n
  <2>3. r = one \o t OBVIOUS
  <2> HIDE DEF r
  <2> QED BY <2>1, <2>2, <2>3, Joined
<1> HIDE DEF r
<1>4. DOMAIN r = 1..n + 1 /\ r[1] = e /\ \A i \in 2..n + 1 : i - 1 \in 1..n /\ r[i] = t[i - 1]
  <2>1. DOMAIN r = 1..1 + n /\ (\A i \in 1..1 : r[i] = one[i]) /\ (\A i \in 1 + 1..1 + n : r[i] = t[i - 1])
    BY <1>3 DEF JoinedIs
  <2>2. 1..1 + n = 1..n + 1 /\ 1 + 1..1 + n = 2..n + 1 /\ 1 \in 1..1 BY <1>1
  <2> QED BY <1>1, <1>2, <2>1, <2>2
<1>5. ASSUME NEW i \in 1..n + 1, NEW j \in 1..n + 1, i < j PROVE <<r[i], r[j]>> \in L
  <2>1. j \in 2..n + 1 BY <1>1, <1>5
  <2>2. CASE i = 1
    <3>1. t[j - 1] \in ToSet(t) BY <1>1, <1>4, <2>1 DEF ToSet
    <3> QED BY <1>4, <2>1, <2>2, <3>1
  <2>3. CASE i # 1
    <3>1. i \in 2..n + 1 /\ i - 1 < j - 1 BY <1>1, <1>5, <2>3
    <3>2. i - 1 \in DOMAIN t /\ j - 1 \in DOMAIN t BY <1>1, <1>4, <2>1, <3>1
    <3> QED BY <1>4, <2>1, <3>1, <3>2 DEF InOrder
  <2> QED BY <2>2, <2>3
<1> QED BY <1>4, <1>5 DEF InOrder, r, one

\* One more after all the others.
LEMMA AppendOrder ==
  ASSUME NEW X, NEW s \in Seq(X), NEW e \in X, NEW L, InOrder(L, s), \A x \in ToSet(s) : <<x, e>> \in L
  PROVE  InOrder(L, Append(s, e))
<1> DEFINE r == Append(s, e)
           n == Len(s)
<1>1. n \in Nat /\ DOMAIN s = 1..n OBVIOUS
<1>2. DOMAIN r = 1..n + 1 /\ r[n + 1] = e /\ \A i \in 1..n : r[i] = s[i] BY AppendProperties
<1> HIDE DEF r, n
<1> SUFFICES ASSUME NEW i \in 1..n + 1, NEW j \in 1..n + 1, i < j PROVE <<r[i], r[j]>> \in L BY <1>2 DEF InOrder, r
<1>3. i \in 1..n /\ s[i] \in ToSet(s) BY <1>1 DEF ToSet
<1>4. CASE j = n + 1 BY <1>2, <1>3, <1>4
<1>5. CASE j \in 1..n BY <1>1, <1>2, <1>3, <1>5 DEF InOrder
<1> QED BY <1>1, <1>4, <1>5

\* One element less.
LEMMA RemoveOrder ==
  ASSUME NEW X, NEW s \in Seq(X), Distinct(s), NEW e \in ToSet(s), NEW L, InOrder(L, s)
  PROVE  InOrder(L, RemoveFirst(s, e))
<1> DEFINE r == RemoveFirst(s, e)
           n == Len(s)
<1>1. PICK k \in DOMAIN s : s[k] = e BY DEF ToSet
<1>2. n \in Nat /\ DOMAIN s = 1..n /\ k \in 1..n OBVIOUS
<1>3. DOMAIN r = 1..n - 1 /\ \A i \in 1..n - 1 : r[i] = IF i < k THEN s[i] ELSE s[i + 1]
  <2>1. e = s[k] BY <1>1
  <2> QED BY <2>1, RemoveIndex
<1> HIDE DEF r, n
<1> DEFINE at(i) == IF i < k THEN i ELSE i + 1
<1>4. \A i \in 1..n - 1 : at(i) \in 1..n /\ r[i] = s[at(i)] BY <1>2, <1>3
<1>5. \A i, j \in 1..n - 1 : i < j => at(i) < at(j) BY <1>2
<1> HIDE DEF at
<1>6. \A i, j \in 1..n - 1 : i < j => <<s[at(i)], s[at(j)]>> \in L BY <1>2, <1>4, <1>5 DEF InOrder
<1> QED BY <1>3, <1>4, <1>6 DEF InOrder, r

\* A new price goes where the order wants it.
LEMMA InsertPriceOrder ==
  ASSUME NEW side, NEW s \in Seq(Nat), NEW p \in Nat, p \notin ToSet(s), InOrder(Ahead(side), s)
  PROVE  InOrder(Ahead(side), InsertPrice(side, s, p))
<1> DEFINE k == Search(side, s, p)
           W == Worse(side, s, p)
           n == Len(s)
           r == InsertAt(s, k, p)
<1>1. n \in Nat /\ DOMAIN s = 1..n /\ \A i \in 1..n : s[i] \in Nat /\ s[i] # p BY DEF ToSet
<1>2. k \in 1..n + 1 BY SearchIn
<1>3. SpreadIs(Nat, s, k, p, r)
  <2> HIDE DEF k
  <2> QED BY <1>2, InsertIndex
<1>4. \A i, j \in 1..n : i < j => Better(side, s[i], s[j]) BY <1>1 DEF InOrder, Ahead
<1>5. \A i \in 1..n : i < k => Better(side, s[i], p)
  <2>1. W \subseteq 1..n BY <1>1 DEF Worse
  <2>2. \A i \in 1..n : i < k => i \notin W
    <3>1. CASE W = {} BY <3>1
    <3>2. CASE W # {}
      <4>1. k = Min(W) BY <3>2 DEF Search
      <4>2. IsFiniteSet(W) /\ W \subseteq Int
        <5>1. IsFiniteSet(1..n) BY <1>1, FS_Interval
        <5>2. 1..n \subseteq Int BY <1>1
        <5> HIDE DEF W
        <5> QED BY <2>1, <5>1, <5>2, FS_Subset
      <4>3. \A y \in W : Min(W) =< y
        <5> HIDE DEF W
        <5> QED BY <3>2, <4>2, LeastIs
      <4> HIDE DEF W
      <4> QED BY <1>1, <1>2, <4>1, <4>3
    <3> QED BY <3>1, <3>2
  <2>3. \A i \in 1..n : i \notin W => Better(side, s[i], p) BY <1>1 DEF Worse, Better
  <2> HIDE DEF W, k
  <2> QED BY <2>2, <2>3
<1>6. k \in 1..n => Better(side, p, s[k])
  <2>1. W \subseteq 1..n BY <1>1 DEF Worse
  <2>2. k \in 1..n => k \in W
    <3>1. CASE W = {} BY <1>1, <3>1 DEF Search
    <3>2. CASE W # {}
      <4>1. k = Min(W) BY <3>2 DEF Search
      <4>2. IsFiniteSet(W) /\ W \subseteq Int
        <5>1. IsFiniteSet(1..n) BY <1>1, FS_Interval
        <5>2. 1..n \subseteq Int BY <1>1
        <5> HIDE DEF W
        <5> QED BY <2>1, <5>1, <5>2, FS_Subset
      <4>3. Min(W) \in W
        <5> HIDE DEF W
        <5> QED BY <3>2, <4>2, LeastIs
      <4> QED BY <4>1, <4>3
    <3> QED BY <3>1, <3>2
  <2> HIDE DEF k
  <2> QED BY <2>2 DEF Worse
<1>7. InsertPrice(side, s, p) = r BY DEF InsertPrice
<1> HIDE DEF W, k, r, n
<1>8. DOMAIN r = 1..n + 1 /\ \A i \in 1..n + 1 : r[i] = IF i < k THEN s[i] ELSE IF i = k THEN p ELSE s[i - 1]
  BY <1>3 DEF SpreadIs, n
<1>9. \A i \in 1..n : k =< i => Better(side, p, s[i])
  <2> SUFFICES ASSUME NEW i \in 1..n, k =< i PROVE Better(side, p, s[i]) OBVIOUS
  <2>1. k \in 1..n /\ s[k] \in Nat /\ s[i] \in Nat BY <1>1, <1>2
  <2>2. CASE i = k BY <1>6, <2>1, <2>2
  <2>3. CASE i # k
    <3>1. Better(side, s[k], s[i]) BY <1>2, <1>4, <2>1, <2>3
    <3> QED BY <1>6, <2>1, <3>1 DEF Better
  <2> QED BY <2>2, <2>3
<1>10. \A i \in 1..n + 1 : r[i] \in Nat
  <2> SUFFICES ASSUME NEW i \in 1..n + 1 PROVE r[i] \in Nat OBVIOUS
  <2>1. i < k => i \in 1..n BY <1>1, <1>2
  <2>2. i > k => i - 1 \in 1..n BY <1>1, <1>2
  <2> QED BY <1>1, <1>2, <1>8, <2>1, <2>2
<1>11. ASSUME NEW i \in 1..n + 1, NEW j \in 1..n + 1, i < j PROVE Better(side, r[i], r[j])
  <2>1. CASE j < k
    <3>1. i \in 1..n /\ j \in 1..n /\ i < k BY <1>1, <1>2, <1>11, <2>1
    <3> QED BY <1>4, <1>8, <1>11, <2>1, <3>1
  <2>2. CASE j = k
    <3>1. i \in 1..n /\ i < k /\ ~(j < k) BY <1>1, <1>2, <1>11, <2>2
    <3> QED BY <1>5, <1>8, <2>2, <3>1
  <2>3. CASE j > k
    <3>0. j - 1 \in 1..n /\ r[j] = s[j - 1] /\ k =< j - 1 BY <1>1, <1>2, <1>8, <2>3
    <3>1. CASE i < k
      <4>1. i \in 1..n /\ (i < j - 1 \/ i = j - 1) BY <1>1, <1>2, <1>11, <2>3, <3>1
      <4>2. i \in 1..n /\ i < j - 1 BY <1>1, <1>2, <2>3, <3>1, <4>1
      <4> QED BY SMTT(60), <1>4, <1>8, <3>0, <3>1, <4>2
    <3>2. CASE i = k BY <1>8, <1>9, <3>0, <3>2, <1>2
    <3>3. CASE i > k
      <4>1. i - 1 \in 1..n /\ r[i] = s[i - 1] /\ i - 1 < j - 1 BY <1>1, <1>2, <1>8, <1>11, <3>3
      <4> QED BY <1>4, <3>0, <4>1
    <3> QED BY <1>2, <3>1, <3>2, <3>3
  <2> QED BY <1>2, <2>1, <2>2, <2>3
<1> QED BY <1>7, <1>8, <1>10, <1>11 DEF InOrder, Ahead

\* What is ahead is not behind.
Asymmetric(X, L) == \A x, y \in X : <<x, y>> \in L => <<y, x>> \notin L

\* No price is better than one that is better than it.
LEMMA AheadAsymmetric == ASSUME NEW side PROVE Asymmetric(Nat, Ahead(side))
BY DEF Asymmetric, Ahead, Better

\* An element of a sequence in order stands where it stands in another one that
\* agrees with it before.
LEMMA LaterInOrder ==
  ASSUME NEW X, NEW s \in Seq(X), NEW t \in Seq(X), NEW L, Asymmetric(X, L), InOrder(L, s), InOrder(L, t),
         ToSet(s) = ToSet(t), NEW i \in DOMAIN s, i \in DOMAIN t,
         \A j \in DOMAIN s : j < i => j \in DOMAIN t /\ s[j] = t[j]
  PROVE  s[i] = t[i] \/ <<t[i], s[i]>> \in L
<1>1. PICK j \in DOMAIN t : t[j] = s[i]
  <2>1. s[i] \in ToSet(t) BY DEF ToSet
  <2> QED BY <2>1 DEF ToSet
<1>2. DOMAIN s = 1..Len(s) /\ DOMAIN t = 1..Len(t) /\ Len(s) \in Nat /\ Len(t) \in Nat OBVIOUS
<1>3. CASE j < i
  <2>1. j \in DOMAIN s /\ s[j] = t[j] BY <1>2, <1>3
  <2>2. <<s[i], s[i]>> \in L BY <1>1, <1>3, <2>1 DEF InOrder
  <2>3. s[i] \in X OBVIOUS
  <2> QED BY <2>2, <2>3 DEF Asymmetric
<1>4. CASE j = i BY <1>1, <1>4
<1>5. CASE j > i BY <1>1, <1>5 DEF InOrder
<1> QED BY <1>2, <1>3, <1>4, <1>5

\* A set has one sequence in order.
LEMMA SameOrder ==
  ASSUME NEW X, NEW s \in Seq(X), NEW t \in Seq(X), NEW L, Asymmetric(X, L), InOrder(L, s), InOrder(L, t),
         ToSet(s) = ToSet(t)
  PROVE  s = t
<1> DEFINE n == Len(s)
           m == Len(t)
           B == {i \in 1..n : i \in 1..m => s[i] # t[i]}
           C == {i \in 1..m : i \in 1..n => s[i] # t[i]}
<1>1. n \in Nat /\ m \in Nat /\ DOMAIN s = 1..n /\ DOMAIN t = 1..m OBVIOUS
<1>2. \A i \in 1..n : s[i] \in X
  OBVIOUS
<1>3. \A i \in 1..m : t[i] \in X OBVIOUS
<1> HIDE DEF n, m
<1>4. ASSUME B # {} PROVE FALSE
  <2>1. B \subseteq Nat BY <1>1
  <2>2. PICK i \in B : \A k \in B : i =< k
    <3> HIDE DEF B
    <3> QED BY <1>4, <2>1, Least
  <2>3. i \in 1..n /\ (i \in 1..m => s[i] # t[i]) OBVIOUS
  <2>4. \A j \in 1..n : j < i => j \in 1..m /\ s[j] = t[j] BY <1>1, <2>2, <2>3
  <2>5. CASE i \in 1..m
    <3>1. <<t[i], s[i]>> \in L BY SMTT(60), <1>1, <2>3, <2>4, <2>5, LaterInOrder
    <3>2. \A j \in 1..m : j < i => j \in 1..n /\ t[j] = s[j] BY <1>1, <2>3, <2>4
    <3>3. <<s[i], t[i]>> \in L BY <1>1, <2>3, <2>5, <3>2, LaterInOrder
    <3> QED BY <1>2, <1>3, <2>3, <2>5, <3>1, <3>3 DEF Asymmetric
  <2>6. CASE i \notin 1..m
    <3>1. PICK j \in 1..m : t[j] = s[i]
      <4>1. s[i] \in ToSet(t) BY <1>1, <2>3 DEF ToSet
      <4> QED BY <1>1, <4>1 DEF ToSet
    <3>2. j < i BY <1>1, <2>3, <2>6
    <3>3. j \in 1..n /\ s[j] = s[i] BY <1>1, <2>3, <2>4, <3>1, <3>2
    <3>4. <<s[i], s[i]>> \in L BY <1>1, <2>3, <3>2, <3>3 DEF InOrder
    <3> QED BY <1>2, <2>3, <3>4 DEF Asymmetric
  <2> QED BY <2>5, <2>6
<1>5. ASSUME B = {}, C # {} PROVE FALSE
  <2>1. PICK i \in 1..m : i \in 1..n => s[i] # t[i] BY <1>5
  <2>2. i \notin 1..n BY <1>5, <2>1
  <2>3. PICK j \in 1..n : s[j] = t[i]
    <3>1. t[i] \in ToSet(s) BY <1>1 DEF ToSet
    <3> QED BY <1>1, <3>1 DEF ToSet
  <2>4. j < i BY <1>1, <2>2
  <2>5. j \in 1..m /\ t[j] = t[i] BY <1>1, <1>5, <2>3
  <2>6. <<t[i], t[i]>> \in L BY <1>1, <2>4, <2>5 DEF InOrder
  <2> QED BY <1>3, <2>6 DEF Asymmetric
<1>6. B = {} /\ C = {} BY <1>4, <1>5
<1>7. n = m
  <2>1. \A i \in 1..n : i \in 1..m BY <1>6
  <2>2. \A i \in 1..m : i \in 1..n BY <1>6
  <2>3. n # 0 => n \in 1..m BY <1>1, <2>1
  <2>4. m # 0 => m \in 1..n BY <1>1, <2>2
  <2> QED BY <1>1, <2>3, <2>4
<1>8. \A i \in 1..n : s[i] = t[i] BY <1>6, <1>7
<1> QED BY <1>1, <1>7, <1>8, SeqEqual DEF n, m

-----------------------------------------------------------------------------
(* What is kept of the rows, the book and the money.                       *)

Sides == {"buy", "sell"}
RowStatuses == {"new", "rejected", "open", "partially_filled", "filled", "cancelled"}
Reasons == {"", "market_not_active", "account_frozen", "insufficient_balance", "invalid_price_tick",
            "invalid_qty_step", "above_max_qty", "below_min_notional", "duplicate_order_id",
            "empty_book", "quote_qty_too_small", "price_protection", "self_trade", "ioc", "user"}

Row == [id : Nat, acct : Accounts, side : Sides, type : {"limit", "market"}, tif : {"gtc", "ioc"},
        price : Nat, qty : Nat, quoteQty : Nat, status : RowStatuses, reason : Reasons,
        remaining : Nat, filledQty : Nat, filledQuote : Nat,
        holdAmount : Nat, holdRemaining : Int, seq : Nat]

\* What the book keeps of a row.
RestRow == [id : Nat, acct : Accounts, side : Sides, price : Nat, qty : Nat, remaining : Nat,
            filledQty : Nat, filledQuote : Nat, seq : Nat]

\* The rows of the market: numbered; open ones are limit orders with something
\* left, of different sequences up to s.
OpenIn(rows) == {i \in DOMAIN rows : Open(rows[i])}
RowsInv(rows, s) ==
  /\ rows \in Seq(Row)
  /\ \A i \in DOMAIN rows : rows[i].id = i
  /\ \A i \in OpenIn(rows) :
       rows[i].type = "limit" /\ rows[i].price > 0 /\ rows[i].remaining > 0 /\ rows[i].seq =< s
  /\ \A i, j \in OpenIn(rows) : rows[i].seq = rows[j].seq => i = j

\* What an order may still hold.
Covered(o) ==
  o.holdRemaining = IF ~Open(o) THEN 0 ELSE IF o.side = "buy" THEN o.price * o.remaining ELSE o.remaining

\* The rows of ids that rest on one side, and those at one price.
OfSide(rows, ids, side) == {i \in ids : rows[i].side = side}
At(rows, ids, side, p) == {i \in ids : rows[i].side = side /\ rows[i].price = p}

\* Of two rows of a level the one with the smaller sequence is ahead.
Older == {ab \in RestRow \X RestRow : ab[1].seq < ab[2].seq}

\* What rows have left together.
Left(rows, A) == SumOf([i \in A |-> rows[i].remaining], A)

\* A level holds the rows of its price, each once, the oldest first, and knows
\* what they have left.
LevelInv(side, p, lvl, rows, ids) ==
  /\ lvl = [orders |-> lvl.orders, qty |-> lvl.qty]
  /\ lvl.orders \in Seq(RestRow) /\ Distinct(lvl.orders) /\ InOrder(Older, lvl.orders)
  /\ ToSet(lvl.orders) = {RestingRow(rows[i]) : i \in At(rows, ids, side, p)}
  /\ lvl.qty = Left(rows, At(rows, ids, side, p))

\* A side lists the prices of its rows, each once and the best first, and has
\* their levels.
SideInv(side, s, rows, ids) ==
  /\ s = [prices |-> s.prices, levels |-> s.levels]
  /\ s.prices \in Seq(Nat) /\ Distinct(s.prices) /\ InOrder(Ahead(side), s.prices)
  /\ ToSet(s.prices) = {rows[i].price : i \in OfSide(rows, ids, side)}
  /\ s.levels = [p \in ToSet(s.prices) |-> s.levels[p]]
  /\ \A p \in ToSet(s.prices) : LevelInv(side, p, s.levels[p], rows, ids)

\* The book holds the rows of ids.
BookInv(b, rows, ids) ==
  /\ b.cfg \in Configs
  /\ b = [cfg |-> b.cfg, buy |-> b.buy, sell |-> b.sell, byID |-> ids, lastSeq |-> b.lastSeq]
  /\ SideInv("buy", b.buy, rows, ids) /\ SideInv("sell", b.sell, rows, ids)

Balances == [Accounts -> [Assets -> [avail : Int, hold : Int]]]
Revenues == [base : Int, quote : Int]

\* What the rows of an account hold in an asset.
HeldBy(rows, a, x) ==
  [i \in DOMAIN rows |-> IF rows[i].acct = a /\ HoldAsset(rows[i]) = x THEN rows[i].holdRemaining ELSE 0]
HoldsInv(rows, b) ==
  \A a \in Accounts, x \in Assets : b[a][x].hold = SumOf(HeldBy(rows, a, x), DOMAIN rows)

\* An asset wherever it is.
Owned(b, x) == [a \in Accounts |-> b[a][x].avail + b[a][x].hold]
Total(b, rev, x) == SumOf(Owned(b, x), Accounts) + rev[x]
Deposited(x) == SumOf([a \in Accounts |-> Funds[a][x]], Accounts)

Solvent(b) == \A a \in Accounts, x \in Assets : b[a][x].avail >= 0

-----------------------------------------------------------------------------
(* Money.                                                                  *)

\* One bucket of one account changes.
LEMMA MoveAt ==
  ASSUME NEW b \in Balances, NEW a \in Accounts, NEW x \in Assets, NEW v \in Int, NEW h \in Int
  PROVE  LET m == Move(b, a, x, v, h) IN
         /\ m \in Balances
         /\ \A c \in Accounts, y \in Assets :
              m[c][y] = IF c = a /\ y = x THEN [avail |-> b[a][x].avail + v, hold |-> b[a][x].hold + h]
                        ELSE b[c][y]
<1> DEFINE m == Move(b, a, x, v, h)
           q == b[a][x]
           new == [avail |-> q.avail + v, hold |-> q.hold + h]
<1>1. /\ b = [c \in Accounts |-> b[c]] /\ \A c \in Accounts : b[c] = [y \in Assets |-> b[c][y]]
      /\ \A c \in Accounts, y \in Assets : b[c][y] \in [avail : Int, hold : Int]
  BY DEF Balances
<1>2. q = [avail |-> q.avail, hold |-> q.hold] /\ q.avail \in Int /\ q.hold \in Int
  <2>1. q \in [avail : Int, hold : Int] BY <1>1
  <2> HIDE DEF q
  <2> QED BY <2>1
<1>3. m = [b EXCEPT ![a] = [b[a] EXCEPT ![x] = new]]
  <2>1. m = [b EXCEPT ![a] = [b[a] EXCEPT ![x] = [[q EXCEPT !.avail = @ + v] EXCEPT !.hold = @ + h]]]
    BY <1>1, ZenonT(60) DEF Move
  <2>2. [[q EXCEPT !.avail = @ + v] EXCEPT !.hold = @ + h] = new
    <3> DEFINE qa == q.avail
               qh == q.hold
               q1 == [q EXCEPT !.avail = @ + v]
               na == qa + v
               nh == qh + h
    <3>1. q = [avail |-> qa, hold |-> qh] BY <1>2
    <3>2. new = [avail |-> na, hold |-> nh] OBVIOUS
    <3> HIDE DEF q, qa, qh, new
    <3>3. q.avail = qa /\ q.hold = qh BY <3>1
    <3>4. q1 = [q EXCEPT !.avail = na] BY <3>3
    <3> HIDE DEF na, nh, q1
    <3>5. q1 = [avail |-> na, hold |-> qh] BY <3>1, <3>4
    <3>6. q1.hold = qh BY <3>5
    <3>7. [q1 EXCEPT !.hold = @ + h] = [q1 EXCEPT !.hold = nh] BY <3>6 DEF nh
    <3>8. [q1 EXCEPT !.hold = nh] = [avail |-> na, hold |-> nh] BY <3>5
    <3> QED BY <3>2, <3>7, <3>8 DEF q1
  <2> DEFINE e == [[q EXCEPT !.avail = @ + v] EXCEPT !.hold = @ + h]
  <2>3. m = [b EXCEPT ![a] = [b[a] EXCEPT ![x] = e]] BY ONLY <2>1
  <2>4. e = new BY ONLY <2>2
  <2> HIDE DEF e, m, new, q
  <2> QED BY ONLY SMTT(60), <2>3, <2>4
<1>4. new \in [avail : Int, hold : Int]
  <2> HIDE DEF q
  <2> QED BY ONLY <1>2
<1> HIDE DEF m, q, new
<1>5. \A c \in Accounts, y \in Assets : m[c][y] = IF c = a /\ y = x THEN new ELSE b[c][y] BY <1>1, <1>3
<1>6. m = [c \in Accounts |-> m[c]] /\ \A c \in Accounts : m[c] = [y \in Assets |-> m[c][y]] BY <1>1, <1>3
<1>7. \A c \in Accounts, y \in Assets : m[c][y] \in [avail : Int, hold : Int] BY <1>1, <1>4, <1>5
<1>8. m \in Balances BY <1>6, <1>7 DEF Balances
<1> QED BY <1>5, <1>8 DEF m, new, q

\* What is counted.
LEMMA OwnedInt ==
  ASSUME NEW b \in Balances, NEW x \in Assets
  PROVE  \A a \in Accounts : Owned(b, x)[a] = b[a][x].avail + b[a][x].hold /\ Owned(b, x)[a] \in Int
<1>1. \A a \in Accounts : b[a][x] \in [avail : Int, hold : Int] BY DEF Balances
<1>2. \A q \in [avail : Int, hold : Int] : q.avail + q.hold \in Int OBVIOUS
<1> QED BY <1>1, <1>2 DEF Owned

\* A posting changes what its asset adds up to by what it posts.
LEMMA MoveTotal ==
  ASSUME NEW b \in Balances, NEW a \in Accounts, NEW x \in Assets, NEW v \in Int, NEW h \in Int,
         NEW rev \in Revenues, NEW y \in Assets
  PROVE  /\ Total(b, rev, y) \in Int
         /\ Total(Move(b, a, x, v, h), rev, y) = Total(b, rev, y) + (IF y = x THEN v + h ELSE 0)
<1> DEFINE m == Move(b, a, x, v, h)
           f == Owned(b, y)
           g == Owned(m, y)
           r == rev[y]
<1>1. /\ m \in Balances
      /\ \A c \in Accounts, z \in Assets :
           m[c][z] = IF c = a /\ z = x THEN [avail |-> b[a][x].avail + v, hold |-> b[a][x].hold + h] ELSE b[c][z]
  BY MoveAt
<1>2. IsFiniteSet(Accounts) BY FundsAssumption
<1> HIDE DEF m
<1>3. \A c \in Accounts : f[c] = b[c][y].avail + b[c][y].hold /\ f[c] \in Int BY OwnedInt
<1>4. \A c \in Accounts : g[c] = m[c][y].avail + m[c][y].hold /\ g[c] \in Int BY <1>1, OwnedInt
<1>5. r \in Int BY DEF Revenues, Assets
<1>6. \A c \in Accounts \ {a} : g[c] = f[c] BY <1>1, <1>3, <1>4
<1>7. g[a] = f[a] + (IF y = x THEN v + h ELSE 0)
  <2>1. CASE y # x BY <1>1, <1>3, <1>4, <2>1
  <2>2. CASE y = x
    <3>1. b[a][x] \in [avail : Int, hold : Int] BY SMTT(60) DEF Balances
    <3>2. b[a][x].avail \in Int /\ b[a][x].hold \in Int BY <3>1
    <3>3. m[a][x].avail = b[a][x].avail + v /\ m[a][x].hold = b[a][x].hold + h BY <1>1
    <3> QED BY <1>3, <1>4, <2>2, <3>2, <3>3
  <2> QED BY <2>1, <2>2
<1> DEFINE d == IF y = x THEN v + h ELSE 0
<1>8. d \in Int OBVIOUS
<1>9. Total(b, rev, y) = SumOf(f, Accounts) + r /\ Total(m, rev, y) = SumOf(g, Accounts) + r BY DEF Total
<1> HIDE DEF f, g, r, d
<1>10. SumOf(f, Accounts) \in Int BY <1>2, <1>3, SumInt
<1>11. SumOf(g, Accounts) = SumOf(f, Accounts) + (g[a] - f[a]) BY <1>2, <1>3, <1>4, <1>6, SumChange
<1>12. g[a] = f[a] + d /\ f[a] \in Int BY <1>3, <1>7 DEF d
<1>13. Total(m, rev, y) = Total(b, rev, y) + d BY ONLY <1>5, <1>8, <1>9, <1>10, <1>11, <1>12
<1> QED BY <1>5, <1>9, <1>10, <1>13 DEF m, d

\* Fees booked to the exchange.
RevenueIs(b, rev, f, g, r) ==
  /\ r \in Revenues
  /\ \A y \in Assets : Total(b, r, y) = Total(b, rev, y) + (IF y = "base" THEN f ELSE g)

\* The fees booked add to what the assets add up to.
LEMMA RevenueTotal ==
  ASSUME NEW b \in Balances, NEW rev \in Revenues, NEW f \in Int, NEW g \in Int,
         NEW r, r = [rev EXCEPT !.base = @ + f, !.quote = @ + g]
  PROVE  RevenueIs(b, rev, f, g, r)
<1>1. rev.base \in Int /\ rev.quote \in Int BY DEF Revenues
<1>2. r \in Revenues /\ r.base = rev.base + f /\ r.quote = rev.quote + g
  <2>1. rev = [base |-> rev.base, quote |-> rev.quote] BY DEF Revenues
  <2> DEFINE p == rev.base
             q == rev.quote
             p2 == p + f
             q2 == q + g
             r1 == [rev EXCEPT !.base = p2]
  <2>2. p2 \in Int /\ q2 \in Int BY <1>1
  <2>3. r = [r1 EXCEPT !.quote = q2]
    <3>1. r = [[rev EXCEPT !.base = rev.base + f] EXCEPT !.quote = rev.quote + g] BY <2>1
    <3> QED BY <3>1
  <2>4. p2 = rev.base + f /\ q2 = rev.quote + g OBVIOUS
  <2>5. rev = [base |-> p, quote |-> q] BY <2>1
  <2> HIDE DEF p, q, p2, q2
  <2>6. r1 = [base |-> p2, quote |-> q] BY <2>5
  <2> HIDE DEF r1
  <2>7. r = [base |-> p2, quote |-> q2] BY <2>3, <2>6
  <2> QED BY <2>2, <2>4, <2>7 DEF Revenues
<1>3. IsFiniteSet(Accounts) BY FundsAssumption
<1>4. ASSUME NEW y \in Assets PROVE Total(b, r, y) = Total(b, rev, y) + (IF y = "base" THEN f ELSE g)
  <2> DEFINE s == SumOf(Owned(b, y), Accounts)
  <2>1. s \in Int BY <1>3, OwnedInt, SumInt
  <2>2. Total(b, r, y) = s + r[y] /\ Total(b, rev, y) = s + rev[y] BY DEF Total
  <2>3. y = "base" \/ y = "quote" BY DEF Assets
  <2> HIDE DEF s
  <2>4. f \in Int /\ g \in Int OBVIOUS
  <2>5. CASE y = "base" BY ONLY <1>1, <1>2, <2>1, <2>2, <2>4, <2>5
  <2>6. CASE y = "quote" BY ONLY <1>1, <1>2, <2>1, <2>2, <2>4, <2>6
  <2> QED BY <2>3, <2>5, <2>6
<1> QED BY <1>2, <1>4 DEF RevenueIs

\* What a row holds is a number.
LEMMA HeldInt ==
  ASSUME NEW rows \in Seq(Row), NEW a, NEW x
  PROVE  /\ IsFiniteSet(DOMAIN rows)
         /\ \A i \in DOMAIN rows :
              /\ HeldBy(rows, a, x)[i] = (IF rows[i].acct = a /\ HoldAsset(rows[i]) = x THEN rows[i].holdRemaining ELSE 0)
              /\ HeldBy(rows, a, x)[i] \in Int
<1>1. DOMAIN rows = 1..Len(rows) /\ Len(rows) \in Nat OBVIOUS
<1>2. \A i \in DOMAIN rows : rows[i] \in Row OBVIOUS
<1>3. \A o \in Row : o.holdRemaining \in Int BY DEF Row
<1> QED BY <1>1, <1>2, <1>3, FS_Interval DEF HeldBy

\* One term of a sum changes.
ChangesAt(g, h, S, x) ==
  /\ IsFiniteSet(S) /\ x \in S /\ \A y \in S : g[y] \in Int /\ h[y] \in Int
  /\ \A y \in S \ {x} : h[y] = g[y]

\* A sum whose terms differ at one place.
LEMMA SumStep ==
  ASSUME NEW S, NEW g, NEW h, NEW x, ChangesAt(g, h, S, x)
  PROVE  SumOf(h, S) = SumOf(g, S) + (h[x] - g[x])
BY SumChange DEF ChangesAt

\* A row and its account's hold change by the same amount: they stay in step.
LEMMA HoldsMove ==
  ASSUME NEW rows \in Seq(Row), NEW next \in Seq(Row), NEW b \in Balances, HoldsInv(rows, b),
         DOMAIN next = DOMAIN rows, NEW i \in DOMAIN rows,
         next[i].acct = rows[i].acct, next[i].side = rows[i].side,
         \A j \in DOMAIN rows \ {i} : next[j].acct = rows[j].acct /\ next[j].side = rows[j].side
                                      /\ next[j].holdRemaining = rows[j].holdRemaining,
         NEW v \in Int, NEW h \in Int, next[i].holdRemaining = rows[i].holdRemaining + h
  PROVE  HoldsInv(next, Move(b, rows[i].acct, HoldAsset(rows[i]), v, h))
<1> DEFINE a == rows[i].acct
           x == HoldAsset(rows[i])
           m == Move(b, a, x, v, h)
<1>1. rows[i] \in Row OBVIOUS
<1>2. a \in Accounts /\ x \in Assets /\ rows[i].holdRemaining \in Int
  <2> DEFINE o == rows[i]
  <2>1. o \in Row BY <1>1
  <2>2. a = o.acct /\ x = HoldAsset(o) OBVIOUS
  <2> HIDE DEF o, a, x
  <2>3. a \in Accounts /\ x \in Assets /\ o.holdRemaining \in Int BY <2>1, <2>2 DEF Row, HoldAsset, Assets
  <2> QED BY <2>3 DEF o
<1>3. HoldAsset(next[i]) = x BY DEF HoldAsset
<1>4. \A j \in DOMAIN rows \ {i} : HoldAsset(next[j]) = HoldAsset(rows[j]) BY DEF HoldAsset
<1> HIDE DEF x, a, m
<1>5. \A c \in Accounts, y \in Assets :
        m[c][y] = IF c = a /\ y = x THEN [avail |-> b[a][x].avail + v, hold |-> b[a][x].hold + h] ELSE b[c][y]
  BY <1>2, MoveAt DEF m
<1>6. ASSUME NEW c \in Accounts, NEW y \in Assets PROVE m[c][y].hold = SumOf(HeldBy(next, c, y), DOMAIN next)
  <2> DEFINE f == HeldBy(rows, c, y)
             g == HeldBy(next, c, y)
             D == DOMAIN rows
  <2>1. IsFiniteSet(D) /\ \A j \in D :
          f[j] = (IF rows[j].acct = c /\ HoldAsset(rows[j]) = y THEN rows[j].holdRemaining ELSE 0) /\ f[j] \in Int
    BY HeldInt
  <2>2. \A j \in D :
          g[j] = (IF next[j].acct = c /\ HoldAsset(next[j]) = y THEN next[j].holdRemaining ELSE 0) /\ g[j] \in Int
    BY HeldInt
  <2> HIDE DEF f, g
  <2>3. \A j \in D \ {i} : g[j] = f[j] BY <1>4, <2>1, <2>2
  <2>4. SumOf(g, D) = SumOf(f, D) + (g[i] - f[i])
    <3>1. i \in D OBVIOUS
    <3> HIDE DEF D
    <3>2. IsFiniteSet(D) /\ \A j \in D : f[j] \in Int /\ g[j] \in Int BY <2>1, <2>2
    <3>3. ChangesAt(f, g, D, i) BY <2>3, <3>1, <3>2 DEF ChangesAt
    <3> QED BY ONLY <3>3, SumStep
  <2>5. SumOf(f, D) = b[c][y].hold BY DEF HoldsInv, f
  <2>6. b[c][y].hold \in Int
    <3>1. b[c][y] \in [avail : Int, hold : Int] BY DEF Balances
    <3> QED BY <3>1
  <2>7. CASE c = a /\ y = x
    <3>1. f[i] = rows[i].holdRemaining /\ g[i] = rows[i].holdRemaining + h BY <1>3, <2>1, <2>2, <2>7 DEF a, x
    <3>2. m[c][y].hold = b[c][y].hold + h BY <1>5, <2>7
    <3>3. SumOf(g, D) = b[c][y].hold + h BY ONLY <1>2, <2>4, <2>5, <2>6, <3>1, h \in Int
    <3> QED BY <3>2, <3>3 DEF g
  <2>8. CASE ~(c = a /\ y = x)
    <3>1. f[i] = 0 /\ g[i] = 0 BY <1>3, <2>1, <2>2, <2>8 DEF a, x
    <3>2. m[c][y] = b[c][y] BY <1>5, <2>8
    <3> QED BY <2>4, <2>5, <2>6, <3>1, <3>2 DEF g
  <2> QED BY <2>7, <2>8
<1> QED BY <1>6 DEF HoldsInv, m, a, x

\* A posting to available changes no hold.
LEMMA HoldsStay ==
  ASSUME NEW rows, NEW b \in Balances, HoldsInv(rows, b), NEW a \in Accounts, NEW x \in Assets, NEW v \in Int
  PROVE  HoldsInv(rows, Move(b, a, x, v, 0))
<1> DEFINE m == Move(b, a, x, v, 0)
           z == 0
<1>1. \A c \in Accounts, y \in Assets :
        m[c][y] = IF c = a /\ y = x THEN [avail |-> b[a][x].avail + v, hold |-> b[a][x].hold + 0] ELSE b[c][y]
  BY MoveAt
<1>2. \A c \in Accounts, y \in Assets : b[c][y] \in [avail : Int, hold : Int] BY DEF Balances
<1>3. \A q \in [avail : Int, hold : Int] : q.hold + 0 = q.hold OBVIOUS
<1> HIDE DEF m
<1>4. \A c \in Accounts, y \in Assets : m[c][y].hold = b[c][y].hold BY <1>1, <1>2, <1>3
<1> QED BY <1>4 DEF HoldsInv, m

\* A row that holds nothing changes no sum of holds.
LEMMA HoldsAppend ==
  ASSUME NEW rows \in Seq(Row), NEW b \in Balances, HoldsInv(rows, b), NEW o \in Row, o.holdRemaining = 0
  PROVE  HoldsInv(Append(rows, o), b)
<1> DEFINE next == Append(rows, o)
           n == Len(rows)
           D == 1..n
<1>1. n \in Nat /\ DOMAIN rows = D OBVIOUS
<1>2. next \in Seq(Row) /\ DOMAIN next = 1..n + 1 /\ next[n + 1] = o /\ \A i \in D : next[i] = rows[i]
  BY AppendProperties
<1>3. n + 1 \notin D /\ 1..n + 1 = D \cup {n + 1} BY <1>1
<1> HIDE DEF next, n, D
<1>4. ASSUME NEW c \in Accounts, NEW y \in Assets PROVE SumOf(HeldBy(next, c, y), DOMAIN next) = b[c][y].hold
  <2> DEFINE f == HeldBy(rows, c, y)
             g == HeldBy(next, c, y)
             k == n + 1
  <2>1. IsFiniteSet(D) /\ \A j \in D :
          f[j] = (IF rows[j].acct = c /\ HoldAsset(rows[j]) = y THEN rows[j].holdRemaining ELSE 0) /\ f[j] \in Int
    BY <1>1, HeldInt
  <2>2. \A j \in D \cup {k} :
          g[j] = (IF next[j].acct = c /\ HoldAsset(next[j]) = y THEN next[j].holdRemaining ELSE 0) /\ g[j] \in Int
    BY <1>2, <1>3, HeldInt
  <2> HIDE DEF f, g, k
  <2>3. \A j \in D : g[j] = f[j] BY <1>2, <2>1, <2>2
  <2>4. g[k] = 0 BY <1>2, <2>2 DEF k
  <2>5. SumOf(g, D \cup {k}) = g[k] + SumOf(g, D) BY <1>3, <2>1, <2>2, SumAdd DEF k
  <2>6. SumOf(g, D) = SumOf(f, D) BY <2>1, <2>3, SumSame
  <2>7. SumOf(f, D) \in Int BY <2>1, SumInt
  <2>8. SumOf(f, D) = b[c][y].hold BY <1>1 DEF HoldsInv, f
  <2>9. SumOf(g, D \cup {k}) = b[c][y].hold BY <2>4, <2>5, <2>6, <2>7, <2>8
  <2> QED BY <1>2, <1>3, <2>9 DEF g, k
<1> QED BY <1>4 DEF HoldsInv, next

\* A fee is a natural number.
LEMMA FeeNat ==
  ASSUME NEW amount \in Nat, NEW bps \in Nat
  PROVE  ComputeFee(amount, bps) \in Nat
<1>1. amount * bps \in Nat BY Z3
<1> DEFINE p == amount * bps
<1> HIDE DEF p
<1>2. p \in Nat BY <1>1 DEF p
<1>3. (p + 9999) \div 10000 \in Nat BY <1>2
<1> QED BY <1>3 DEF ComputeFee, p

\* No balance goes below zero by adding to what is available.
LEMMA MoveSolvent ==
  ASSUME NEW b, b \in Balances, Solvent(b), NEW a, a \in Accounts, NEW x, x \in Assets,
         NEW v, v \in Int, v >= 0, NEW h, h \in Int
  PROVE  Solvent(Move(b, a, x, v, h))
<1> DEFINE m == Move(b, a, x, v, h)
<1>1. \A c \in Accounts, y \in Assets :
        m[c][y] = IF c = a /\ y = x THEN [avail |-> b[a][x].avail + v, hold |-> b[a][x].hold + h] ELSE b[c][y]
  BY MoveAt
<1>2. \A c \in Accounts, y \in Assets : b[c][y].avail \in Int BY DEF Balances
<1>3. \A c \in Accounts, y \in Assets : b[c][y].avail >= 0 BY DEF Solvent
<1> HIDE DEF m
<1>4. ASSUME NEW c \in Accounts, NEW y \in Assets PROVE m[c][y].avail >= 0
  <2>1. CASE c = a /\ y = x
    <3>1. m[c][y].avail = b[a][x].avail + v BY <1>1, <2>1
    <3>2. b[a][x].avail \in Int /\ b[a][x].avail >= 0 BY <1>2, <1>3
    <3> QED BY ONLY <3>1, <3>2, v \in Int, v >= 0
  <2>2. CASE ~(c = a /\ y = x) BY <1>1, <1>3, <2>2
  <2> QED BY <2>1, <2>2
<1> QED BY <1>4 DEF Solvent, m

\* One element of a sequence replaced.
LEMMA ReplaceRow ==
  ASSUME NEW X, NEW rows, rows \in Seq(X), NEW i, i \in DOMAIN rows, NEW o, o \in X
  PROVE  LET r == [rows EXCEPT ![i] = o] IN
         /\ r \in Seq(X) /\ DOMAIN r = DOMAIN rows /\ Len(r) = Len(rows) /\ r[i] = o
         /\ \A j \in DOMAIN rows \ {i} : r[j] = rows[j]
OBVIOUS

\* The four postings of a fill.
Paid(b, buyer, seller, quote, q, release, buyerFee, sellerFee) ==
  LET b1 == Move(b, buyer, "quote", release, -(quote + release))
      b2 == Move(b1, seller, "quote", quote - sellerFee, 0)
      b3 == Move(b2, seller, "base", 0, -q)
  IN  Move(b3, buyer, "base", q - buyerFee, 0)
FillGiven(rows, b, rev, i, j, quote, q, release, buyerFee, sellerFee, o, p) ==
  /\ rows \in Seq(Row) /\ b \in Balances /\ HoldsInv(rows, b) /\ rev \in Revenues
  /\ i \in DOMAIN rows /\ j \in DOMAIN rows /\ i # j
  /\ quote \in Nat /\ q \in Nat /\ release \in Nat /\ buyerFee \in Nat /\ sellerFee \in Nat
  /\ o \in Row /\ rows[i].side = "buy" /\ o.side = "buy" /\ o.acct = rows[i].acct
  /\ o.holdRemaining = rows[i].holdRemaining - (quote + release)
  /\ p \in Row /\ rows[j].side = "sell" /\ p.side = "sell" /\ p.acct = rows[j].acct
  /\ p.holdRemaining = rows[j].holdRemaining - q
FillKeeps(rows, b, rev, i, j, quote, q, release, buyerFee, sellerFee, o, p) ==
  LET c == Paid(b, rows[i].acct, rows[j].acct, quote, q, release, buyerFee, sellerFee)
      r == [rev EXCEPT !.base = @ + buyerFee, !.quote = @ + sellerFee]
  IN  /\ c \in Balances /\ r \in Revenues /\ HoldsInv([[rows EXCEPT ![i] = o] EXCEPT ![j] = p], c)
      /\ \A z \in Assets : Total(c, r, z) = Total(b, rev, z)
      /\ Solvent(b) /\ buyerFee < q /\ sellerFee < quote => Solvent(c)

\* The postings of one fill: the rows and the holds stay in step, every asset adds
\* up to what it did, and nobody overdraws unless a fee eats the fill.
LEMMA FillMoney ==
  ASSUME NEW rows, NEW b, NEW rev, NEW i, NEW j, NEW quote, NEW q, NEW release, NEW buyerFee, NEW sellerFee,
         NEW o, NEW p, FillGiven(rows, b, rev, i, j, quote, q, release, buyerFee, sellerFee, o, p)
  PROVE  FillKeeps(rows, b, rev, i, j, quote, q, release, buyerFee, sellerFee, o, p)
<1>1. /\ rows \in Seq(Row) /\ b \in Balances /\ HoldsInv(rows, b) /\ rev \in Revenues
      /\ i \in DOMAIN rows /\ j \in DOMAIN rows /\ i # j
      /\ quote \in Nat /\ q \in Nat /\ release \in Nat /\ buyerFee \in Nat /\ sellerFee \in Nat
      /\ o \in Row /\ rows[i].side = "buy" /\ o.side = "buy" /\ o.acct = rows[i].acct
      /\ o.holdRemaining = rows[i].holdRemaining - (quote + release)
      /\ p \in Row /\ rows[j].side = "sell" /\ p.side = "sell" /\ p.acct = rows[j].acct
      /\ p.holdRemaining = rows[j].holdRemaining - q
  BY DEF FillGiven
<1> DEFINE buyer == rows[i].acct
           seller == rows[j].acct
           d1 == -(quote + release)
           v2 == quote - sellerFee
           d3 == -q
           v4 == q - buyerFee
           b1 == Move(b, buyer, "quote", release, d1)
           b2 == Move(b1, seller, "quote", v2, 0)
           b3 == Move(b2, seller, "base", 0, d3)
           c == Move(b3, buyer, "base", v4, 0)
           r == [rev EXCEPT !.base = @ + buyerFee, !.quote = @ + sellerFee]
           rows1 == [rows EXCEPT ![i] = o]
           rows2 == [rows1 EXCEPT ![j] = p]
<1>2. rows[i] \in Row /\ rows[j] \in Row BY <1>1
<1>3. /\ buyer \in Accounts /\ seller \in Accounts /\ "quote" \in Assets /\ "base" \in Assets
      /\ rows[i].holdRemaining \in Int /\ rows[j].holdRemaining \in Int
  <2>1. \A z \in Row : z.acct \in Accounts /\ z.holdRemaining \in Int BY DEF Row
  <2> QED BY <1>2, <2>1 DEF Assets
<1>4. d1 \in Int /\ v2 \in Int /\ d3 \in Int /\ v4 \in Int /\ release \in Int /\ 0 \in Int BY <1>1
<1>5. o.holdRemaining = rows[i].holdRemaining + d1 /\ p.holdRemaining = rows[j].holdRemaining + d3 BY <1>1, <1>3
<1>6. HoldAsset(rows[i]) = "quote" /\ HoldAsset(rows[j]) = "base" BY <1>1 DEF HoldAsset
<1> HIDE DEF d1, v2, d3, v4
<1>7. c = Paid(b, buyer, seller, quote, q, release, buyerFee, sellerFee) BY DEF Paid, d1, v2, d3, v4
<1>8. /\ rows1 \in Seq(Row) /\ DOMAIN rows1 = DOMAIN rows /\ rows1[i] = o
      /\ \A k \in DOMAIN rows \ {i} : rows1[k] = rows[k]
  BY <1>1, ReplaceRow
<1> HIDE DEF rows1
<1>9. /\ rows2 \in Seq(Row) /\ DOMAIN rows2 = DOMAIN rows /\ rows2[j] = p
      /\ \A k \in DOMAIN rows \ {j} : rows2[k] = rows1[k]
  BY <1>1, <1>8, ReplaceRow
<1> HIDE DEF rows2, c, b3, b2, b1, buyer, seller
<1>10. b1 \in Balances /\ HoldsInv(rows1, b1)
  <2>1. b1 \in Balances BY <1>1, <1>3, <1>4, MoveAt DEF b1
  <2>2. HoldsInv(rows1, Move(b, rows[i].acct, HoldAsset(rows[i]), release, d1))
    <3>1. rows1[i].acct = rows[i].acct /\ rows1[i].side = rows[i].side
          /\ rows1[i].holdRemaining = rows[i].holdRemaining + d1
      BY <1>1, <1>5, <1>8
    <3>2. \A k \in DOMAIN rows \ {i} : rows1[k].acct = rows[k].acct /\ rows1[k].side = rows[k].side
                                        /\ rows1[k].holdRemaining = rows[k].holdRemaining
      BY <1>8
    <3> QED BY <1>1, <1>4, <1>8, <3>1, <3>2, HoldsMove
  <2> QED BY <1>6, <2>1, <2>2 DEF b1, buyer
<1>11. b2 \in Balances /\ HoldsInv(rows1, b2)
  BY <1>3, <1>4, <1>10, MoveAt, HoldsStay DEF b2
<1>12. b3 \in Balances /\ HoldsInv(rows2, b3)
  <2>1. b3 \in Balances BY <1>3, <1>4, <1>11, MoveAt DEF b3
  <2>2. rows1[j] = rows[j] /\ j \in DOMAIN rows1 /\ DOMAIN rows2 = DOMAIN rows1 BY <1>1, <1>8, <1>9
  <2>3. HoldsInv(rows2, Move(b2, rows1[j].acct, HoldAsset(rows1[j]), 0, d3))
    <3>1. rows2[j].acct = rows1[j].acct /\ rows2[j].side = rows1[j].side
          /\ rows2[j].holdRemaining = rows1[j].holdRemaining + d3
      BY <1>1, <1>5, <1>9, <2>2
    <3>2. \A k \in DOMAIN rows1 \ {j} : rows2[k].acct = rows1[k].acct /\ rows2[k].side = rows1[k].side
                                        /\ rows2[k].holdRemaining = rows1[k].holdRemaining
      BY <1>8, <1>9
    <3> QED BY <1>4, <1>8, <1>9, <1>11, <2>2, <3>1, <3>2, HoldsMove
  <2> QED BY <1>6, <2>1, <2>2, <2>3 DEF b3, seller
<1>13. c \in Balances /\ HoldsInv(rows2, c)
  BY <1>3, <1>4, <1>12, MoveAt, HoldsStay DEF c
<1>14. /\ r \in Revenues
       /\ \A z \in Assets : Total(c, r, z) = Total(c, rev, z) + (IF z = "base" THEN buyerFee ELSE sellerFee)
  <2>1. r = [rev EXCEPT !.base = @ + buyerFee, !.quote = @ + sellerFee] OBVIOUS
  <2>2. buyerFee \in Int /\ sellerFee \in Int /\ rev \in Revenues BY <1>1
  <2> HIDE DEF r
  <2>3. RevenueIs(c, rev, buyerFee, sellerFee, r) BY <1>13, <2>1, <2>2, RevenueTotal
  <2> QED BY <2>3 DEF RevenueIs
<1> HIDE DEF r
<1>15. ASSUME NEW z \in Assets PROVE Total(c, r, z) = Total(b, rev, z)
  <2> DEFINE t0 == Total(b, rev, z)
             t1 == Total(b1, rev, z)
             t2 == Total(b2, rev, z)
             t3 == Total(b3, rev, z)
             t4 == Total(c, rev, z)
  <2>1. t0 \in Int /\ t1 = t0 + (IF z = "quote" THEN release + d1 ELSE 0)
    BY SMTT(60), <1>1, <1>3, <1>4, MoveTotal DEF b1
  <2>2. t1 \in Int /\ t2 = t1 + (IF z = "quote" THEN v2 + 0 ELSE 0)
    BY SMTT(60), <1>1, <1>3, <1>4, <1>10, MoveTotal DEF b2
  <2>3. t2 \in Int /\ t3 = t2 + (IF z = "base" THEN 0 + d3 ELSE 0)
    BY SMTT(60), <1>1, <1>3, <1>4, <1>11, MoveTotal DEF b3
  <2>4. t3 \in Int /\ t4 = t3 + (IF z = "base" THEN v4 + 0 ELSE 0)
    BY SMTT(60), <1>1, <1>3, <1>4, <1>12, MoveTotal DEF c
  <2>5. z = "quote" \/ z = "base" BY DEF Assets
  <2>6. Total(c, r, z) = t4 + (IF z = "base" THEN buyerFee ELSE sellerFee) BY <1>14
  <2> HIDE DEF t0, t1, t2, t3, t4
  <2>7. /\ quote \in Nat /\ q \in Nat /\ release \in Nat /\ buyerFee \in Nat /\ sellerFee \in Nat
        /\ d1 = -(quote + release) /\ v2 = quote - sellerFee /\ d3 = -q /\ v4 = q - buyerFee
    BY <1>1 DEF d1, v2, d3, v4
  <2>8. Total(c, r, z) = t0
    <3>1. CASE z = "quote" BY ONLY <2>1, <2>2, <2>3, <2>4, <2>6, <2>7, <3>1
    <3>2. CASE z = "base" BY ONLY <2>1, <2>2, <2>3, <2>4, <2>6, <2>7, <3>2
    <3> QED BY <2>5, <3>1, <3>2
  <2> QED BY <2>8 DEF t0
<1>16. ASSUME Solvent(b), buyerFee < q, sellerFee < quote PROVE Solvent(c)
  <2>1. release >= 0 /\ v2 >= 0 /\ v4 >= 0 /\ 0 >= 0 BY <1>1, <1>16 DEF v2, v4
  <2>2. Solvent(b1) BY <1>1, <1>3, <1>4, <1>16, <2>1, MoveSolvent DEF b1
  <2>3. Solvent(b2) BY <1>3, <1>4, <1>10, <2>1, <2>2, MoveSolvent DEF b2
  <2>4. Solvent(b3) BY <1>3, <1>4, <1>11, <2>1, <2>3, MoveSolvent DEF b3
  <2> QED BY <1>3, <1>4, <1>12, <2>1, <2>4, MoveSolvent DEF c
<1> QED BY <1>7, <1>13, <1>14, <1>15, <1>16 DEF FillKeeps, r, rows1, rows2, buyer, seller

-----------------------------------------------------------------------------
(* One settlement.                                                         *)

\* The rows with the taker in flight in its place.
Live(x) == [x.rows EXCEPT ![x.taker.id] = x.taker]

\* What a fill takes of the taker's hold, and its rows after it.
Spent(taker, p, q) ==
  IF taker.side = "sell" THEN q ELSE IF taker.type = "limit" THEN taker.price * q ELSE p * q
TakerSpent(taker, p, q) == [taker EXCEPT !.holdRemaining = @ - Spent(taker, p, q)]
Filled(row, m) ==
  [row EXCEPT !.filledQty = m.filledQty, !.filledQuote = m.filledQuote, !.remaining = m.remaining,
              !.holdRemaining = IF row.side = "buy" THEN row.price * m.remaining ELSE m.remaining,
              !.status = IF m.remaining = 0 THEN "filled" ELSE "partially_filled"]

\* Nothing moves.
LEMMA MoveNone ==
  ASSUME NEW b, b \in Balances, NEW a, a \in Accounts, NEW x, x \in Assets
  PROVE  Move(b, a, x, 0, 0) = b
<1> DEFINE m == Move(b, a, x, 0, 0)
           z == 0
<1>1. m \in Balances /\ \A c \in Accounts, y \in Assets :
        m[c][y] = IF c = a /\ y = x THEN [avail |-> b[a][x].avail + z, hold |-> b[a][x].hold + z] ELSE b[c][y]
  <2>1. z \in Int OBVIOUS
  <2>2. m = Move(b, a, x, z, z) OBVIOUS
  <2> HIDE DEF z, m
  <2> QED BY <2>1, <2>2, MoveAt
<1>2. \A q \in [avail : Int, hold : Int] : [avail |-> q.avail + z, hold |-> q.hold + z] = q OBVIOUS
<1>3. b[a][x] \in [avail : Int, hold : Int] BY DEF Balances
<1> HIDE DEF m, z
<1>4. \A c \in Accounts, y \in Assets : m[c][y] = b[c][y] BY <1>1, <1>2, <1>3
<1>5. m = b
  <2>1. \A c \in Accounts : m[c] = [y \in Assets |-> m[c][y]] /\ b[c] = [y \in Assets |-> b[c][y]]
    BY <1>1 DEF Balances
  <2>2. \A c \in Accounts : m[c] = b[c] BY ZenonT(60), <1>4, <2>1
  <2>3. m = [c \in Accounts |-> m[c]] /\ b = [c \in Accounts |-> b[c]] BY <1>1 DEF Balances
  <2> QED BY <2>2, <2>3
<1> QED BY <1>5 DEF m

\* The release of a row that holds nothing.
LEMMA ReleaseNone ==
  ASSUME NEW b, b \in Balances, NEW o, o \in Row, o.holdRemaining = 0
  PROVE  Release(b, o) = b
<1>1. o.acct \in Accounts /\ HoldAsset(o) \in Assets BY DEF Row, HoldAsset, Assets
<1> DEFINE h == o.holdRemaining
           m == -h
<1>2. h \in Int /\ h = 0 BY DEF Row
<1>4. m \in Int /\ h + m = 0 BY <1>2
<1>5. Release(b, o) = Move(b, o.acct, HoldAsset(o), h, m) BY DEF Release
<1> HIDE DEF h, m
<1>6. m = 0 BY <1>2, <1>4
<1>3. Release(b, o) = Move(b, o.acct, HoldAsset(o), 0, 0) BY <1>2, <1>5, <1>6
<1> QED BY <1>1, <1>3, MoveNone

\* Fees are natural numbers.
SettlementIs(t, taker, maker, set) ==
  /\ set.buyerFee \in Nat /\ set.sellerFee \in Nat
  /\ set.release = LET buyer == IF taker.side = "buy" THEN taker ELSE maker IN
                   IF buyer.type = "limit" THEN (buyer.price - t.price) * t.qty ELSE 0

\* What BuildSettleEntry computes for a fill.
LEMMA SettlementParts ==
  ASSUME NEW t, t.qty \in Nat, t.quote \in Nat, NEW taker, NEW maker
  PROVE  SettlementIs(t, taker, maker, Settlement(t, taker, maker))
<1> DEFINE bb == IF taker.side = "buy" THEN TakerBps ELSE MakerBps
           sb == IF taker.side = "buy" THEN MakerBps ELSE TakerBps
<1>1. bb \in Nat /\ sb \in Nat BY ONLY SMTT(60), MarketAssumption
<1> HIDE DEF bb, sb
<1>2. ComputeFee(t.qty, bb) \in Nat /\ ComputeFee(t.quote, sb) \in Nat BY <1>1, FeeNat
<1> QED BY SMTT(60), <1>2 DEF SettlementIs, Settlement, bb, sb

\* Products over differences.
LEMMA Distribute ==
  ASSUME NEW a \in Int, NEW b \in Int, NEW c \in Int
  PROVE  /\ a * b \in Int /\ a * (b - c) = a * b - a * c /\ (b - c) * a = b * a - c * a
         /\ b * a = a * b
BY Z3

\* A filled row.
FilledIs(row, m, f) ==
  /\ f \in Row /\ f.id = row.id /\ f.acct = row.acct /\ f.side = row.side /\ f.type = row.type
  /\ f.price = row.price /\ f.qty = row.qty /\ f.seq = row.seq
  /\ f.filledQty = m.filledQty /\ f.filledQuote = m.filledQuote /\ f.remaining = m.remaining
  /\ f.holdRemaining = (IF row.side = "buy" THEN row.price * m.remaining ELSE m.remaining)
  /\ f.status = (IF m.remaining = 0 THEN "filled" ELSE "partially_filled")

\* What a filled row keeps of the row.
LEMMA FilledRow ==
  ASSUME NEW row, row \in Row, NEW m, m.filledQty \in Nat, m.filledQuote \in Nat, m.remaining \in Nat
  PROVE  FilledIs(row, m, Filled(row, m))
<1> DEFINE fq == m.filledQty
           fv == m.filledQuote
           rem == m.remaining
           hold == IF row.side = "buy" THEN row.price * m.remaining ELSE m.remaining
           stt == IF m.remaining = 0 THEN "filled" ELSE "partially_filled"
           f == [row EXCEPT !.filledQty = fq, !.filledQuote = fv, !.remaining = rem, !.holdRemaining = hold, !.status = stt]
<1>1. fq \in Nat /\ fv \in Nat /\ rem \in Nat /\ stt \in RowStatuses BY DEF RowStatuses
<1>2. hold \in Int
  <2>1. row.price \in Int /\ m.remaining \in Int BY DEF Row
  <2>2. row.price * m.remaining \in Int BY <2>1, Distribute
  <2> QED BY <2>1, <2>2
<1>3. Filled(row, m) = f BY DEF Filled
<1> HIDE DEF fq, fv, rem, hold, stt
<1>4. f \in Row BY ONLY row \in Row, <1>1, <1>2 DEF Row
<1>5. /\ f.id = row.id /\ f.acct = row.acct /\ f.side = row.side /\ f.type = row.type
      /\ f.price = row.price /\ f.qty = row.qty /\ f.seq = row.seq
      /\ f.filledQty = fq /\ f.filledQuote = fv /\ f.remaining = rem /\ f.holdRemaining = hold /\ f.status = stt
  BY ONLY row \in Row DEF Row
<1> HIDE DEF f
<1> QED BY <1>3, <1>4, <1>5 DEF FilledIs, fq, fv, rem, hold, stt

\* The maker's row as the settlement writes it.
MakerIs(row, t, set, f) == MakerRow(row, t, set) = f /\ Residue(f) = f

\* The maker's row after a fill is the row filled, with the hold its rest needs.
LEMMA MakerIsFilled ==
  ASSUME NEW row, row \in Row, NEW t, NEW set, NEW q, q \in Nat, t.qty = q, set.release = 0,
         row.side = "buy" => t.quote = row.price * q,
         t.maker.filledQty \in Nat, t.maker.filledQuote \in Nat, t.maker.remaining \in Nat,
         t.maker.remaining = row.remaining - q, Covered(row), Open(row)
  PROVE  MakerIs(row, t, set, Filled(row, t.maker))
<1> DEFINE m == t.maker
           f == Filled(row, m)
           spent == IF row.side = "buy" THEN t.quote + set.release ELSE t.qty
           left == IF row.side = "buy" THEN row.price * m.remaining ELSE m.remaining
<1>1. row.price \in Int /\ row.remaining \in Int /\ q \in Int BY DEF Row
<1>2. row.holdRemaining - spent = left
  <2>1. row.holdRemaining = IF row.side = "buy" THEN row.price * row.remaining ELSE row.remaining BY DEF Covered
  <2>2. CASE row.side = "buy"
    <3> DEFINE u == row.price * row.remaining
               v == row.price * q
    <3>1. row.price * (row.remaining - q) = u - v /\ u \in Int /\ v \in Int
      <4> DEFINE x == row.price
                 y == row.remaining
      <4>1. x \in Int /\ y \in Int /\ q \in Int BY <1>1
      <4> HIDE DEF x, y
      <4>2. x * (y - q) = x * y - x * q /\ x * y \in Int /\ x * q \in Int BY <4>1, Distribute
      <4> QED BY <4>2 DEF x, y
    <3>2. left = row.price * (row.remaining - q) BY <2>2
    <3>3. spent = v + 0 BY <2>2
    <3>4. row.holdRemaining = u BY <2>1, <2>2
    <3> HIDE DEF u, v, left, spent
    <3> QED BY ONLY <3>1, <3>2, <3>3, <3>4
  <2>3. CASE row.side # "buy" BY <1>1, <2>1, <2>3
  <2> QED BY <2>2, <2>3
<1>3. FilledIs(row, m, f) BY FilledRow
<1>4. MakerRow(row, t, set) = f
  <2> DEFINE h == row.holdRemaining - spent
  <2>1. MakerRow(row, t, set)
          = [row EXCEPT !.filledQty = m.filledQty, !.filledQuote = m.filledQuote,
                        !.remaining = m.remaining, !.holdRemaining = h,
                        !.status = IF m.remaining = 0 THEN "filled" ELSE "partially_filled"]
    BY DEF MakerRow
  <2>2. h = left BY <1>2
  <2> HIDE DEF h
  <2> QED BY <2>1, <2>2 DEF Filled
<1>5. Residue(f) = f
  <2> HIDE DEF f
  <2>1. f \in Row /\ (f.status = "filled" => m.remaining = 0)
        /\ f.holdRemaining = (IF row.side = "buy" THEN row.price * m.remaining ELSE m.remaining)
    BY <1>3 DEF FilledIs
  <2>2. f.status = "filled" => f.holdRemaining = 0 BY <1>1, <2>1
  <2>3. [f EXCEPT !.holdRemaining = f.holdRemaining] = f BY ONLY <2>1 DEF Row
  <2> QED BY <2>2, <2>3 DEF Residue
<1> HIDE DEF f, m
<1> QED BY <1>4, <1>5 DEF MakerIs, f, m

\* The taker's row after a fill.
SpentIs(o, k, s) ==
  /\ k \in Row /\ k.id = o.id /\ k.acct = o.acct /\ k.side = o.side /\ k.type = o.type /\ k.price = o.price
  /\ k.qty = o.qty /\ k.quoteQty = o.quoteQty /\ k.seq = o.seq /\ k.status = o.status
  /\ k.holdRemaining = o.holdRemaining - s

\* What the taker's row keeps when its hold is spent.
LEMMA SpentRow ==
  ASSUME NEW o, o \in Row, NEW s, s \in Int
  PROVE  SpentIs(o, [o EXCEPT !.holdRemaining = @ - s], s)
<1> DEFINE h == o.holdRemaining - s
           k == [o EXCEPT !.holdRemaining = h]
<1>1. h \in Int BY DEF Row
<1>2. [o EXCEPT !.holdRemaining = @ - s] = k OBVIOUS
<1> HIDE DEF h
<1>3. k \in Row BY ONLY o \in Row, <1>1 DEF Row
<1>4. /\ k.id = o.id /\ k.acct = o.acct /\ k.side = o.side /\ k.type = o.type /\ k.price = o.price
      /\ k.qty = o.qty /\ k.quoteQty = o.quoteQty /\ k.seq = o.seq /\ k.status = o.status /\ k.holdRemaining = h
  BY ONLY o \in Row DEF Row
<1> HIDE DEF k
<1> QED BY <1>2, <1>3, <1>4 DEF SpentIs, h

\* Two elements of a sequence replaced, one of them twice.
LEMMA ReplaceTwo ==
  ASSUME NEW X, NEW rows, rows \in Seq(X), NEW i, i \in DOMAIN rows, NEW j, j \in DOMAIN rows, i # j,
         NEW o, NEW m, NEW k
  PROVE  /\ [[[rows EXCEPT ![j] = o] EXCEPT ![i] = m] EXCEPT ![j] = k] = [[rows EXCEPT ![i] = m] EXCEPT ![j] = k]
         /\ [[[rows EXCEPT ![j] = o] EXCEPT ![j] = k] EXCEPT ![i] = m] = [[rows EXCEPT ![i] = m] EXCEPT ![j] = k]
OBVIOUS

\* The money follows the rows.
MoneyInv(rows, b, rev) ==
  b \in Balances /\ rev \in Revenues /\ HoldsInv(rows, b) /\ \A z \in Assets : Total(b, rev, z) = Deposited(z)

\* One fill of the command in flight, settled.
SettleGiven(x, t, i, q) ==
  /\ x.rows \in Seq(Row) /\ x.taker \in Row /\ x.taker.id \in DOMAIN x.rows
  /\ MoneyInv(Live(x), x.bal, x.revenue) /\ (x.failed \/ Solvent(x.bal))
  /\ i \in DOMAIN x.rows /\ i # x.taker.id /\ t.maker.id = i /\ x.rows[i].id = i
  /\ x.rows[i].type = "limit" /\ Open(x.rows[i]) /\ Covered(x.rows[i]) /\ x.rows[i].side = Opposite(x.taker.side)
  /\ q \in Nat /\ q =< x.rows[i].remaining /\ t.qty = q /\ t.price = x.rows[i].price
  /\ t.quote = x.rows[i].price * q
  /\ t.maker.remaining = x.rows[i].remaining - q /\ t.maker.filledQty \in Nat /\ t.maker.filledQuote \in Nat
  /\ x.taker.side = "buy" /\ x.taker.type = "limit" => x.taker.price >= x.rows[i].price
SettleKeeps(x, t, s, i, q) ==
  LET y == SettleTrade(x, t, s) IN
  /\ y.rows = [x.rows EXCEPT ![i] = Filled(x.rows[i], t.maker)]
  /\ y.taker = TakerSpent(x.taker, x.rows[i].price, q)
  /\ MoneyInv(Live(y), y.bal, y.revenue) /\ (y.failed \/ Solvent(y.bal))

\* One turn of the settlement loop: rows, holds and assets stay in step.
LEMMA SettleStep ==
  ASSUME NEW x, NEW t, NEW s, NEW i, NEW q, SettleGiven(x, t, i, q)
  PROVE  SettleKeeps(x, t, s, i, q)
<1> DEFINE rows == x.rows
           o == x.taker
           j == o.id
           row == rows[i]
           set == Settlement(t, o, row)
           bf == set.buyerFee
           sf == set.sellerFee
           rel == set.release
           m == Filled(row, t.maker)
           spent == IF o.side = "buy" THEN t.quote + rel ELSE q
           k == [o EXCEPT !.holdRemaining = @ - spent]
           buys == o.side = "buy"
           buyer == IF buys THEN o ELSE row
           seller == IF buys THEN row ELSE o
           b4 == Paid(x.bal, buyer.acct, seller.acct, t.quote, q, rel, bf, sf)
           rev == [x.revenue EXCEPT !.base = @ + bf, !.quote = @ + sf]
           y == SettleTrade(x, t, s)
<1>1. /\ rows \in Seq(Row) /\ o \in Row /\ j \in DOMAIN rows
      /\ MoneyInv(Live(x), x.bal, x.revenue) /\ (x.failed \/ Solvent(x.bal))
      /\ i \in DOMAIN rows /\ i # j /\ t.maker.id = i /\ row.id = i
      /\ row.type = "limit" /\ Open(row) /\ Covered(row) /\ row.side = Opposite(o.side)
      /\ q \in Nat /\ q =< row.remaining /\ t.qty = q /\ t.price = row.price /\ t.quote = row.price * q
      /\ t.maker.remaining = row.remaining - q /\ t.maker.filledQty \in Nat /\ t.maker.filledQuote \in Nat
      /\ (o.side = "buy" /\ o.type = "limit" => o.price >= row.price)
  BY DEF SettleGiven
<1>2. row \in Row BY <1>1
<1> HIDE DEF row, o, rows
<1>3. /\ row.price \in Nat /\ row.remaining \in Nat /\ o.price \in Nat /\ o.side \in {"buy", "sell"}
      /\ o.holdRemaining \in Int /\ row.holdRemaining \in Int
  BY <1>1, <1>2 DEF Row, Sides
<1>4. t.quote \in Nat /\ t.maker.remaining \in Nat
  <2>1. \A u \in Nat, v \in Nat : u * v \in Nat BY Z3
  <2>2. t.quote = row.price * q /\ q \in Nat /\ q =< row.remaining /\ t.maker.remaining = row.remaining - q BY <1>1
  <2> QED BY ONLY <1>3, <2>1, <2>2
<1>5. SettlementIs(t, o, row, set) BY <1>1, <1>4, SettlementParts
<1> HIDE DEF set
<1>6. bf \in Nat /\ sf \in Nat /\ rel = IF buyer.type = "limit" THEN (buyer.price - t.price) * t.qty ELSE 0
  BY <1>5 DEF SettlementIs
<1>7. (buys <=> o.side = "buy") /\ (~buys => o.side = "sell") /\ (buys => row.side = "sell") /\ (~buys => row.side = "buy")
  BY <1>1, <1>3 DEF Opposite
<1>8. /\ rel \in Nat /\ spent = Spent(o, row.price, q) /\ spent \in Int
      /\ (~buys => rel = 0)
  <2>1. CASE ~buys
    <3>1. rel = (row.price - row.price) * q BY <1>1, <1>6, <2>1
    <3>2. row.price - row.price = 0 BY <1>3
    <3>3. 0 * q = 0 BY <1>1
    <3> QED BY <1>1, <1>7, <2>1, <3>1, <3>2, <3>3 DEF Spent
  <2>2. CASE buys /\ o.type = "limit"
    <3> DEFINE u == o.price
               p == row.price
    <3>1. u \in Nat /\ p \in Nat /\ u - p \in Nat /\ u \in Int /\ p \in Int /\ q \in Int BY SMTT(60), <1>1, <1>3, <1>7, <2>2
    <3>2. rel = (u - p) * q /\ spent = p * q + rel BY <1>1, <1>6, <1>7, <2>2
    <3>3. Spent(o, row.price, q) = u * q BY <1>7, <2>2 DEF Spent
    <3> HIDE DEF u, p, rel, spent, buys
    <3>4. (u - p) * q = u * q - p * q /\ u * q \in Int /\ p * q \in Int
      BY ONLY <3>1, Distribute
    <3>5. \A c \in Nat, d \in Nat : c * d \in Nat BY Z3
    <3>6. rel \in Nat BY ONLY <1>1, <3>1, <3>2, <3>5
    <3>7. spent = u * q BY ONLY <3>2, <3>4
    <3> QED BY <2>2, <3>3, <3>4, <3>6, <3>7
  <2>3. CASE buys /\ o.type # "limit"
    <3>1. rel = 0 BY <1>6, <2>3
    <3>2. Spent(o, row.price, q) = row.price * q BY <1>7, <2>3 DEF Spent
    <3>3. spent = t.quote + 0 BY <1>7, <2>3, <3>1
    <3> QED BY <1>1, <1>4, <2>3, <3>1, <3>2, <3>3
  <2> QED BY <2>1, <2>2, <2>3
<1>9. MakerIs(row, t, set, m) 
  <2> DEFINE set2 == [release |-> 0]
  <2>1. CASE ~buys
    <3>1. set.release = 0 BY <1>8, <2>1
    <3> QED BY <1>1, <1>2, <1>4, <3>1, MakerIsFilled
  <2>2. CASE buys
    <3>1. row.side # "buy" BY <1>7, <2>2
    <3>2. MakerIs(row, t, set2, m)
      <4>1. set2.release = 0 OBVIOUS
      <4> HIDE DEF set2
      <4> QED BY <1>1, <1>2, <1>4, <3>1, <4>1, MakerIsFilled
    <3>3. MakerRow(row, t, set) = MakerRow(row, t, set2) BY <3>1 DEF MakerRow
    <3> QED BY <3>2, <3>3 DEF MakerIs
  <2> QED BY <2>1, <2>2
<1>10. MakerRow(row, t, set) = m /\ Residue(m) = m BY <1>9 DEF MakerIs
<1>11. FilledIs(row, t.maker, m) BY <1>1, <1>2, <1>4, FilledRow
<1> HIDE DEF m
<1>12. SpentIs(o, k, spent) BY <1>1, <1>8, SpentRow
<1>13. k = TakerSpent(o, row.price, q) BY <1>8 DEF TakerSpent
<1> HIDE DEF k, spent, rel, bf, sf, b4, rev, y
<1>14. /\ y.rows = [rows EXCEPT ![i] = m] /\ y.bal = (IF m.status = "filled" THEN Release(b4, m) ELSE b4)
       /\ y.revenue = rev /\ y.taker = k /\ y.failed = (x.failed \/ FeeEatsFill(t, set))
  BY <1>1, <1>7, <1>10 DEF SettleTrade, Paid, y, b4, rev, k, spent, o, row, rows, set, rel, bf, sf
<1> HIDE DEF buyer, seller, j
<1>15. /\ m \in Row /\ m.acct = row.acct /\ m.side = row.side /\ m.id = i
       /\ (m.status = "filled" => m.holdRemaining = 0)
       /\ m.holdRemaining = row.holdRemaining - (IF buys THEN q ELSE t.quote + rel)
  <2>1. m.holdRemaining = (IF row.side = "buy" THEN row.price * (row.remaining - q) ELSE row.remaining - q)
    BY <1>1, <1>11 DEF FilledIs
  <2>2. row.holdRemaining = (IF row.side = "buy" THEN row.price * row.remaining ELSE row.remaining)
    BY <1>1 DEF Covered
  <2>3. m.status = "filled" => m.holdRemaining = 0
    <3>1. m.status = "filled" => t.maker.remaining = 0 BY <1>11 DEF FilledIs
    <3>2. row.price * 0 = 0 BY <1>3
    <3> QED BY <1>1, <1>11, <3>1, <3>2 DEF FilledIs
  <2>4. m.holdRemaining = row.holdRemaining - (IF buys THEN q ELSE t.quote + rel)
    <3>1. CASE buys BY <1>1, <1>3, <1>7, <2>1, <2>2, <3>1
    <3>2. CASE ~buys
      <4> DEFINE a == row.price
                 c == row.remaining
      <4>1. a \in Int /\ c \in Int /\ q \in Int BY <1>1, <1>3
      <4>2. m.holdRemaining = a * (c - q) /\ row.holdRemaining = a * c /\ t.quote = a * q /\ rel = 0
        BY <1>1, <1>7, <1>8, <2>1, <2>2, <3>2
      <4> HIDE DEF a, c, buys
      <4>3. a * (c - q) = a * c - a * q /\ a * c \in Int /\ a * q \in Int BY ONLY <4>1, Distribute
      <4> QED BY <3>2, <4>2, <4>3
    <3> QED BY <3>1, <3>2
  <2> QED BY <1>1, <1>11, <2>3, <2>4 DEF FilledIs
<1>16. /\ k \in Row /\ k.acct = o.acct /\ k.side = o.side /\ k.id = j
       /\ k.holdRemaining = o.holdRemaining - (IF buys THEN t.quote + rel ELSE q)
  <2>1. spent = IF buys THEN t.quote + rel ELSE q BY DEF spent
  <2> QED BY <1>12, <2>1 DEF SpentIs, j
<1> DEFINE live == [rows EXCEPT ![j] = o]
           next == [[rows EXCEPT ![i] = m] EXCEPT ![j] = k]
<1>17. live = Live(x) BY DEF Live, rows, o, j
<1>18. live \in Seq(Row) /\ DOMAIN live = DOMAIN rows /\ live[j] = o /\ live[i] = row
  <2>1. live \in Seq(Row) /\ DOMAIN live = DOMAIN rows /\ live[j] = o
        /\ \A n \in DOMAIN rows \ {j} : live[n] = rows[n]
    BY <1>1, ReplaceRow
  <2> QED BY <1>1, <2>1 DEF row
<1>19. /\ [[live EXCEPT ![i] = m] EXCEPT ![j] = k] = next
       /\ [[live EXCEPT ![j] = k] EXCEPT ![i] = m] = next
  BY <1>1, ReplaceTwo
<1>20. Live(y) = next BY <1>14, <1>16 DEF Live, rows, o, j
<1>21. b4 \in Balances /\ rev \in Revenues /\ HoldsInv(next, b4)
       /\ (\A z \in Assets : Total(b4, rev, z) = Total(x.bal, x.revenue, z))
       /\ (Solvent(x.bal) /\ bf < q /\ sf < t.quote => Solvent(b4))
  <2>1. /\ x.bal \in Balances /\ x.revenue \in Revenues /\ HoldsInv(live, x.bal)
    BY <1>1, <1>17 DEF MoneyInv
  <2> HIDE DEF live, next
  <2>2. CASE buys
    <3>1. FillGiven(live, x.bal, x.revenue, j, i, t.quote, q, rel, bf, sf, k, m)
      BY <1>1, <1>4, <1>6, <1>7, <1>8, <1>15, <1>16, <1>18, <2>1, <2>2 DEF FillGiven
    <3>2. FillKeeps(live, x.bal, x.revenue, j, i, t.quote, q, rel, bf, sf, k, m) BY <3>1, FillMoney
    <3>3. buyer = o /\ seller = row BY <2>2 DEF buyer, seller
    <3>4. b4 = Paid(x.bal, live[j].acct, live[i].acct, t.quote, q, rel, bf, sf) BY <1>18, <3>3 DEF b4
    <3> QED BY <1>19, <3>2, <3>4 DEF FillKeeps, rev
  <2>3. CASE ~buys
    <3>1. FillGiven(live, x.bal, x.revenue, i, j, t.quote, q, rel, bf, sf, m, k)
      BY <1>1, <1>4, <1>6, <1>7, <1>8, <1>15, <1>16, <1>18, <2>1, <2>3 DEF FillGiven
    <3>2. FillKeeps(live, x.bal, x.revenue, i, j, t.quote, q, rel, bf, sf, m, k) BY <3>1, FillMoney
    <3>3. buyer = row /\ seller = o BY <2>3 DEF buyer, seller
    <3>4. b4 = Paid(x.bal, live[i].acct, live[j].acct, t.quote, q, rel, bf, sf) BY <1>18, <3>3 DEF b4
    <3> QED BY <1>19, <3>2, <3>4 DEF FillKeeps, rev
  <2> QED BY <2>2, <2>3
<1>22. y.bal = b4 BY <1>14, <1>15, <1>21, ReleaseNone
<1>23. MoneyInv(Live(y), y.bal, y.revenue)
  <2>1. \A z \in Assets : Total(x.bal, x.revenue, z) = Deposited(z) BY <1>1 DEF MoneyInv
  <2> HIDE DEF next
  <2> QED BY <1>14, <1>20, <1>21, <1>22, <2>1 DEF MoneyInv
<1>24. y.failed \/ Solvent(y.bal)
  <2> SUFFICES ASSUME ~y.failed PROVE Solvent(y.bal) OBVIOUS
  <2>1. ~x.failed /\ ~FeeEatsFill(t, set) BY <1>14
  <2>2. bf < q /\ sf < t.quote BY SMTT(60), <1>1, <1>4, <1>6, <2>1 DEF FeeEatsFill, bf, sf
  <2> QED BY <1>1, <1>21, <1>22, <2>1, <2>2
<1> QED BY <1>13, <1>14, <1>23, <1>24 DEF SettleKeeps, y, m, row, rows, o

-----------------------------------------------------------------------------
(* The book.                                                               *)

\* The rows of some numbers.
RowsAre(rows, ids) == IsFiniteSet(ids) /\ \A i \in ids : rows[i] \in Row /\ rows[i].id = i

\* What rows have left depends on them alone.
LEMMA LeftSame ==
  ASSUME NEW A, IsFiniteSet(A), NEW rows, NEW next, \A i \in A : next[i].remaining = rows[i].remaining
  PROVE  Left(next, A) = Left(rows, A)
<1> DEFINE g == [i \in A |-> rows[i].remaining]
           h == [i \in A |-> next[i].remaining]
<1>1. \A i \in A : g[i] = h[i] OBVIOUS
<1> HIDE DEF g, h
<1>2. SumOf(g, A) = SumOf(h, A) BY <1>1, SumSame
<1> QED BY <1>2 DEF Left, g, h

\* One row more.
LEMMA LeftMore ==
  ASSUME NEW A, IsFiniteSet(A), NEW rows, NEW i, i \notin A, \A j \in A \cup {i} : rows[j].remaining \in Nat
  PROVE  Left(rows, A) \in Nat /\ Left(rows, A \cup {i}) = Left(rows, A) + rows[i].remaining
<1> DEFINE g == [j \in A |-> rows[j].remaining]
           h == [j \in A \cup {i} |-> rows[j].remaining]
           B == A \cup {i}
<1>1. \A j \in A : g[j] = h[j] /\ g[j] \in Nat OBVIOUS
<1>2. \A j \in B : h[j] \in Int OBVIOUS
<1>3. h[i] = rows[i].remaining OBVIOUS
<1> HIDE DEF g, h
<1>4. SumOf(g, A) = SumOf(h, A) BY <1>1, SumSame
<1>5. SumOf(g, A) \in Nat BY <1>1, SumNonNegative
<1>6. SumOf(h, B) = h[i] + SumOf(h, A) BY <1>2, SumAdd
<1>7. h[i] \in Nat BY <1>3
<1> QED BY <1>3, <1>4, <1>5, <1>6, <1>7 DEF Left, g, h

\* The rows at a price are finitely many.
LEMMA AtFinite ==
  ASSUME NEW rows, NEW ids, RowsAre(rows, ids), NEW side, NEW p
  PROVE  IsFiniteSet(At(rows, ids, side, p)) /\ At(rows, ids, side, p) \subseteq ids
<1>1. At(rows, ids, side, p) \subseteq ids BY DEF At
<1>2. IsFiniteSet(ids) BY DEF RowsAre
<1> QED BY <1>1, <1>2, FS_Subset

\* What the book keeps of a row.
LEMMA RestingParts ==
  ASSUME NEW o
  PROVE  LET r == RestingRow(o) IN
         /\ r.id = o.id /\ r.acct = o.acct /\ r.side = o.side /\ r.price = o.price /\ r.qty = o.qty
         /\ r.remaining = o.remaining /\ r.filledQty = o.filledQty /\ r.filledQuote = o.filledQuote
         /\ r.seq = o.seq
         /\ o \in Row => r \in RestRow
BY DEF RestingRow, RestRow, Row

\* An empty side holds nothing.
LEMMA EmptySideInv ==
  ASSUME NEW side, NEW rows
  PROVE  SideInv(side, EmptySide, rows, {})
<1> DEFINE none == << >>
           s == EmptySide
<1>1. none \in Seq(Nat) /\ DOMAIN none = {} /\ none = [p \in {} |-> none[p]] OBVIOUS
<1>2. Distinct(none) /\ InOrder(Ahead(side), none) /\ ToSet(none) = {} BY <1>1 DEF Distinct, InOrder, ToSet
<1>3. s = [prices |-> none, levels |-> none] BY DEF EmptySide
<1>4. {rows[i].price : i \in OfSide(rows, {}, side)} = {} BY DEF OfSide
<1> HIDE DEF none, s
<1>5. s.prices = none /\ s.levels = none /\ s = [prices |-> s.prices, levels |-> s.levels] BY <1>3
<1>6. s.levels = [p \in ToSet(s.prices) |-> s.levels[p]] BY <1>1, <1>2, <1>5
<1> QED BY <1>1, <1>2, <1>4, <1>5, <1>6 DEF SideInv, s

\* A side depends on its own rows only, and on what the book keeps of them.
LEMMA SideStays ==
  ASSUME NEW side, NEW s, NEW rows, NEW ids, NEW next, NEW ids2, SideInv(side, s, rows, ids),
         IsFiniteSet(ids), OfSide(next, ids2, side) = OfSide(rows, ids, side),
         \A i \in OfSide(rows, ids, side) : RestingRow(next[i]) = RestingRow(rows[i])
  PROVE  SideInv(side, s, next, ids2)
<1> DEFINE I == OfSide(rows, ids, side)
<1>1. /\ s = [prices |-> s.prices, levels |-> s.levels]
      /\ s.prices \in Seq(Nat) /\ Distinct(s.prices) /\ InOrder(Ahead(side), s.prices)
      /\ ToSet(s.prices) = {rows[i].price : i \in I}
      /\ s.levels = [p \in ToSet(s.prices) |-> s.levels[p]]
      /\ \A p \in ToSet(s.prices) : LevelInv(side, p, s.levels[p], rows, ids)
  BY DEF SideInv
<1>2. \A i \in I : next[i].price = rows[i].price /\ next[i].remaining = rows[i].remaining
  <2> TAKE i \in I
  <2>1. RestingRow(next[i]).price = next[i].price /\ RestingRow(rows[i]).price = rows[i].price BY RestingParts
  <2>2. RestingRow(next[i]).remaining = next[i].remaining /\ RestingRow(rows[i]).remaining = rows[i].remaining
    BY RestingParts
  <2> QED BY <2>1, <2>2
<1>3. {next[i].price : i \in OfSide(next, ids2, side)} = {rows[i].price : i \in I} BY <1>2
<1>4. ASSUME NEW p \in ToSet(s.prices) PROVE LevelInv(side, p, s.levels[p], next, ids2)
  <2>1. At(next, ids2, side, p) = At(rows, ids, side, p)
    <3>1. At(next, ids2, side, p) = {i \in OfSide(next, ids2, side) : next[i].price = p} BY DEF At, OfSide
    <3>2. At(rows, ids, side, p) = {i \in I : rows[i].price = p} BY DEF At, OfSide
    <3> HIDE DEF I
    <3> QED BY <1>2, <3>1, <3>2 DEF I
  <2>2. At(rows, ids, side, p) \subseteq I BY DEF At, OfSide
  <2>3. {RestingRow(next[i]) : i \in At(next, ids2, side, p)} = {RestingRow(rows[i]) : i \in At(rows, ids, side, p)}
    BY <2>1, <2>2
  <2>4. LevelInv(side, p, s.levels[p], rows, ids) BY <1>1
  <2> DEFINE A == At(rows, ids, side, p)
  <2>5. IsFiniteSet(A)
    <3>1. A \subseteq ids BY DEF At
    <3> HIDE DEF A
    <3> QED BY <3>1, FS_Subset
  <2>6. \A i \in A : next[i].remaining = rows[i].remaining BY <1>2, <2>2
  <2>7. Left(next, At(next, ids2, side, p)) = Left(rows, At(rows, ids, side, p))
    <3> HIDE DEF A
    <3>1. Left(next, A) = Left(rows, A) BY <2>5, <2>6, LeftSame
    <3> QED BY <2>1, <3>1 DEF A
  <2> QED BY <2>3, <2>4, <2>7 DEF LevelInv
<1> QED BY <1>1, <1>3, <1>4 DEF SideInv

\* The orders of one level are those of its price.
LEMMA InLevel ==
  ASSUME NEW side, NEW p, NEW lvl, NEW rows, NEW ids, LevelInv(side, p, lvl, rows, ids), NEW o, o \in ToSet(lvl.orders)
  PROVE  \E i \in ids : o = RestingRow(rows[i]) /\ rows[i].side = side /\ rows[i].price = p
BY SMTT(60) DEF LevelInv, At

\* The parts of an inserted side.
InsertedIs(side, s, o, r) ==
  LET new == o.price \notin ToSet(s.prices)
      p   == o.price
  IN  /\ r = [prices |-> r.prices, levels |-> r.levels]
      /\ r.prices = IF new THEN InsertPrice(o.side, s.prices, p) ELSE s.prices
      /\ r.levels = [q \in ToSet(s.prices) \cup {p} |-> r.levels[q]]
      /\ r.levels[p] = [orders |-> Append(IF new THEN << >> ELSE s.levels[p].orders, o),
                        qty |-> (IF new THEN 0 ELSE s.levels[p].qty) + o.remaining]
      /\ \A q \in ToSet(s.prices) \ {p} : r.levels[q] = s.levels[q]

\* What InsertResting changes of a side.
LEMMA InsertedParts ==
  ASSUME NEW side, NEW s, NEW o, s.levels = [p \in ToSet(s.prices) |-> s.levels[p]]
  PROVE  InsertedIs(side, s, o, InsertResting(s, o))
<1> DEFINE new == o.price \notin DOMAIN s.levels
           p == o.price
           lvl == IF new THEN [orders |-> << >>, qty |-> 0] ELSE s.levels[p]
           more == Append(lvl.orders, o)
           z == lvl.qty + o.remaining
           at == [orders |-> more, qty |-> z]
           D == DOMAIN s.levels \cup {p}
           lv == [q \in D |-> IF q = p THEN at ELSE s.levels[q]]
           pr == IF new THEN InsertPrice(o.side, s.prices, p) ELSE s.prices
           r == InsertResting(s, o)
<1>1. r = [prices |-> pr, levels |-> lv] BY DEF InsertResting
<1>2. DOMAIN s.levels = ToSet(s.prices) BY DEF ToSet
<1>3. more = Append(IF new THEN << >> ELSE s.levels[p].orders, o)
  <2>1. new => lvl.orders = << >> OBVIOUS
  <2> HIDE DEF lvl
  <2>2. ~new => lvl.orders = s.levels[p].orders BY DEF lvl
  <2> QED BY <2>1, <2>2
<1>9. z = (IF new THEN 0 ELSE s.levels[p].qty) + o.remaining
  <2>1. new => lvl.qty = 0 OBVIOUS
  <2> HIDE DEF lvl
  <2>2. ~new => lvl.qty = s.levels[p].qty BY DEF lvl
  <2> QED BY <2>1, <2>2
<1> HIDE DEF more, z, pr, lvl, r
<1>4. at.qty = z /\ at.orders = more OBVIOUS
<1> HIDE DEF at
<1>5. lv[p] = at /\ \A q \in D \ {p} : lv[q] = s.levels[q] OBVIOUS
<1>6. lv = [q \in D |-> lv[q]] OBVIOUS
<1> HIDE DEF lv
<1>7. r.prices = pr /\ r.levels = lv BY <1>1
<1>8. at = [orders |-> more, qty |-> z] BY SMTT(60), <1>4 DEF at
<1> QED BY <1>1, <1>2, <1>3, <1>5, <1>6, <1>7, <1>8, <1>9 DEF InsertedIs, pr, r

\* A row that joins its side, after those that rest there.
LEMMA InsertSide ==
  ASSUME NEW side, NEW s, NEW rows, NEW ids, NEW i, SideInv(side, s, rows, ids), i \notin ids, RowsAre(rows, ids),
         rows[i] \in Row, rows[i].id = i, rows[i].side = side, NEW o, o = RestingRow(rows[i]),
         \A k \in ids : rows[k].seq < rows[i].seq
  PROVE  SideInv(side, InsertResting(s, o), rows, ids \cup {i})
<1> DEFINE p == o.price
           r == InsertResting(s, o)
           P == ToSet(s.prices)
           more == ids \cup {i}
           new == p \notin P
           base == IF new THEN << >> ELSE s.levels[p].orders
           had == IF new THEN 0 ELSE s.levels[p].qty
<1>1. /\ s = [prices |-> s.prices, levels |-> s.levels]
      /\ s.prices \in Seq(Nat) /\ Distinct(s.prices) /\ InOrder(Ahead(side), s.prices)
      /\ P = {rows[k].price : k \in OfSide(rows, ids, side)}
      /\ s.levels = [q \in P |-> s.levels[q]]
      /\ \A q \in P : LevelInv(side, q, s.levels[q], rows, ids)
  BY DEF SideInv
<1>2. o \in RestRow /\ o.id = i /\ o.side = side /\ o.price = rows[i].price BY RestingParts
<1>3. p \in Nat BY <1>2 DEF RestRow
<1>4. InsertedIs(side, s, o, r) BY <1>1, InsertedParts
<1>5. /\ r = [prices |-> r.prices, levels |-> r.levels]
      /\ r.prices = (IF new THEN InsertPrice(side, s.prices, p) ELSE s.prices)
      /\ r.levels = [q \in P \cup {p} |-> r.levels[q]]
      /\ r.levels[p] = [orders |-> Append(base, o), qty |-> had + o.remaining]
      /\ \A q \in P \ {p} : r.levels[q] = s.levels[q]
  BY <1>2, <1>4 DEF InsertedIs
<1>6. OfSide(rows, more, side) = OfSide(rows, ids, side) \cup {i} BY DEF OfSide
<1>7. \A q : At(rows, more, side, q) = IF q = p THEN At(rows, ids, side, q) \cup {i} ELSE At(rows, ids, side, q)
  BY <1>2 DEF At
<1> HIDE DEF r, more
<1>8. r.prices \in Seq(Nat) /\ Distinct(r.prices) /\ InOrder(Ahead(side), r.prices) /\ ToSet(r.prices) = P \cup {p}
  <2>1. CASE ~new
    <3>1. r.prices = s.prices BY <1>5, <2>1
    <3>2. ToSet(s.prices) \cup {p} = ToSet(s.prices) BY <2>1
    <3> QED BY <1>1, <3>1, <3>2
  <2>2. CASE new
    <3> DEFINE k == Search(side, s.prices, p)
    <3>1. k \in 1..Len(s.prices) + 1 BY <1>1, <1>3, SearchIn
    <3>2. r.prices = InsertAt(s.prices, k, p) BY <1>5, <2>2 DEF InsertPrice
    <3> DEFINE c == s.prices
               d == InsertAt(c, k, p)
    <3>3. c \in Seq(Nat) /\ Distinct(c) /\ p \in Nat /\ p \notin ToSet(c) /\ k \in 1..Len(c) + 1
      BY <1>1, <1>3, <2>2, <3>1
    <3>4. r.prices = d /\ P = ToSet(c) BY <3>2
    <3>6. InOrder(Ahead(side), d)
      <4>1. InOrder(Ahead(side), c) BY <1>1
      <4>2. d = InsertPrice(side, c, p) BY DEF InsertPrice
      <4> HIDE DEF c, d, p
      <4> QED BY <3>3, <4>1, <4>2, InsertPriceOrder
    <3> HIDE DEF k, c, p, P
    <3>5. d \in Seq(Nat) /\ Distinct(d) /\ ToSet(d) = ToSet(c) \cup {p} BY ONLY <3>3, InsertParts
    <3> HIDE DEF d
    <3> QED BY <3>4, <3>5, <3>6
  <2> QED BY <2>1, <2>2
<1>9. {rows[k].price : k \in OfSide(rows, more, side)} = P \cup {p} BY SMTT(60), <1>1, <1>2, <1>6
<1>10. /\ base \in Seq(RestRow) /\ Distinct(base) /\ InOrder(Older, base)
       /\ ToSet(base) = {RestingRow(rows[k]) : k \in At(rows, ids, side, p)}
  <2>1. CASE ~new
    <3>1. LevelInv(side, p, s.levels[p], rows, ids) BY <1>1, <2>1
    <3> QED BY <2>1, <3>1 DEF LevelInv
  <2>2. CASE new
    <3>1. At(rows, ids, side, p) = {} BY <1>1, <2>2 DEF At, OfSide
    <3> DEFINE none == << >>
    <3>2. none \in Seq(RestRow) /\ DOMAIN none = {} OBVIOUS
    <3>3. base = none BY <2>2
    <3> HIDE DEF none, base
    <3> QED BY <3>1, <3>2, <3>3 DEF Distinct, InOrder, ToSet
  <2> QED BY SMTT(60), <2>1, <2>2
<1>14. had = Left(rows, At(rows, ids, side, p))
  <2>1. CASE ~new
    <3>1. LevelInv(side, p, s.levels[p], rows, ids) BY <1>1, <2>1
    <3> QED BY <2>1, <3>1 DEF LevelInv
  <2>2. CASE new
    <3>1. At(rows, ids, side, p) = {} BY <1>1, <2>2 DEF At, OfSide
    <3> DEFINE g == [k \in {} |-> rows[k].remaining]
    <3>2. Left(rows, {}) = SumOf(g, {}) BY DEF Left
    <3> HIDE DEF g
    <3>3. SumOf(g, {}) = 0 BY FS_EmptySet, SumRec
    <3> QED BY <2>2, <3>1, <3>2, <3>3
  <2> QED BY SMTT(60), <2>1, <2>2
<1> HIDE DEF base, had
<1>11. o \notin ToSet(base)
  <2>1. \A k \in ids : RestingRow(rows[k]).id = k BY RestingParts DEF RowsAre
  <2> QED BY <1>2, <1>10, <2>1 DEF At
<1>12. Append(base, o) \in Seq(RestRow) /\ Distinct(Append(base, o)) /\ ToSet(Append(base, o)) = ToSet(base) \cup {o}
  BY <1>2, <1>10, <1>11, AppendParts
<1>15. InOrder(Older, Append(base, o))
  <2>1. \A x \in ToSet(base) : <<x, o>> \in Older
    <3> TAKE x \in ToSet(base)
    <3>1. x \in RestRow BY <1>10, SeqParts
    <3>2. PICK k \in ids : x = RestingRow(rows[k]) BY <1>10 DEF At
    <3>3. x.seq = rows[k].seq /\ o.seq = rows[i].seq BY <3>2, RestingParts
    <3>4. x.seq < o.seq BY <3>3
    <3> QED BY <1>2, <3>1, <3>4 DEF Older
  <2> QED BY <1>2, <1>10, <2>1, AppendOrder
<1>16. had + o.remaining = Left(rows, At(rows, more, side, p))
  <2> DEFINE A == At(rows, ids, side, p)
  <2>1. IsFiniteSet(A) /\ A \subseteq ids BY AtFinite
  <2>2. At(rows, more, side, p) = A \cup {i} BY <1>7
  <2>3. \A k \in A \cup {i} : rows[k].remaining \in Nat BY <2>1 DEF RowsAre, Row
  <2>4. o.remaining = rows[i].remaining BY RestingParts
  <2> HIDE DEF A
  <2>5. Left(rows, A) \in Nat /\ Left(rows, A \cup {i}) = Left(rows, A) + rows[i].remaining
    BY <2>1, <2>3, LeftMore
  <2> QED BY <1>14, <2>2, <2>4, <2>5 DEF A
<1>13. ASSUME NEW q \in P \cup {p} PROVE LevelInv(side, q, r.levels[q], rows, more)
  <2>1. CASE q # p
    <3>1. LevelInv(side, q, s.levels[q], rows, ids) BY <1>1, <2>1
    <3> QED BY <1>5, <1>7, <2>1, <3>1 DEF LevelInv
  <2>2. CASE q = p
    <3> DEFINE a == Append(base, o)
               z == had + o.remaining
               lvl == r.levels[p]
    <3>1. lvl = [orders |-> a, qty |-> z] BY <1>5
    <3>2. {RestingRow(rows[k]) : k \in At(rows, more, side, p)} = ToSet(a)
      <4>1. At(rows, more, side, p) = At(rows, ids, side, p) \cup {i} BY <1>7
      <4> QED BY <1>10, <1>12, <4>1
    <3>3. a \in Seq(RestRow) /\ Distinct(a) /\ InOrder(Older, a) BY <1>12, <1>15
    <3>6. z = Left(rows, At(rows, more, side, p)) BY <1>16
    <3> HIDE DEF a, z, lvl
    <3>4. lvl.orders = a /\ lvl.qty = z /\ lvl = [orders |-> lvl.orders, qty |-> lvl.qty] BY <3>1
    <3>5. LevelInv(side, p, lvl, rows, more) BY <3>2, <3>3, <3>4, <3>6 DEF LevelInv
    <3> QED BY <2>2, <3>5 DEF lvl
  <2> QED BY SMTT(60), <2>1, <2>2
<1> QED BY <1>5, <1>8, <1>9, <1>13 DEF SideInv, r, more

-----------------------------------------------------------------------------
(* Levels that change.                                                     *)

\* An emptied level goes.
LEMMA DropSide ==
  ASSUME NEW side, NEW s, NEW rows, NEW ids, NEW p, NEW next, NEW ids2,
         s = [prices |-> s.prices, levels |-> s.levels],
         s.prices \in Seq(Nat), Distinct(s.prices), InOrder(Ahead(side), s.prices), p \in ToSet(s.prices),
         s.levels = [q \in ToSet(s.prices) |-> s.levels[q]],
         \A q \in ToSet(s.prices) \ {p} : LevelInv(side, q, s.levels[q], next, ids2),
         {next[k].price : k \in OfSide(next, ids2, side)} = ToSet(s.prices) \ {p}
  PROVE  SideInv(side, DropLevel(s, p), next, ids2)
<1> DEFINE P == ToSet(s.prices)
           rest == RemoveFirst(s.prices, p)
           lv == [q \in P \ {p} |-> s.levels[q]]
           r == DropLevel(s, p)
<1>1. DOMAIN s.levels = P OBVIOUS
<1>2. r = [prices |-> rest, levels |-> lv] BY <1>1 DEF DropLevel
<1>3. rest \in Seq(Nat) /\ Distinct(rest) /\ ToSet(rest) = P \ {p} BY RemoveParts
<1>8. InOrder(Ahead(side), rest) BY RemoveOrder
<1>4. lv = [q \in P \ {p} |-> lv[q]] /\ \A q \in P \ {p} : lv[q] = s.levels[q] OBVIOUS
<1> HIDE DEF lv, rest, r
<1>5. r.prices = rest /\ r.levels = lv /\ r = [prices |-> r.prices, levels |-> r.levels] BY <1>2
<1>6. r.levels = [q \in ToSet(r.prices) |-> r.levels[q]] BY <1>3, <1>4, <1>5
<1>7. \A q \in ToSet(r.prices) : LevelInv(side, q, r.levels[q], next, ids2) BY <1>3, <1>4, <1>5
<1> QED BY <1>3, <1>5, <1>6, <1>7, <1>8 DEF SideInv, r

\* Another level at a price.
LevelSet(side, s, p, next, ids2, lvl, r) ==
  SideInv(side, r, next, ids2) /\ r.prices = s.prices /\ r.levels[p] = lvl

\* A side whose level p is replaced.
LEMMA SetLevel ==
  ASSUME NEW side, NEW s, NEW p, NEW next, NEW ids2, NEW lvl, NEW r,
         s = [prices |-> s.prices, levels |-> s.levels],
         s.prices \in Seq(Nat), Distinct(s.prices), InOrder(Ahead(side), s.prices), p \in ToSet(s.prices),
         s.levels = [q \in ToSet(s.prices) |-> s.levels[q]],
         \A q \in ToSet(s.prices) \ {p} : LevelInv(side, q, s.levels[q], next, ids2),
         LevelInv(side, p, lvl, next, ids2),
         {next[k].price : k \in OfSide(next, ids2, side)} = ToSet(s.prices),
         r = [s EXCEPT !.levels[p] = lvl]
  PROVE  LevelSet(side, s, p, next, ids2, lvl, r)
<1> DEFINE P == ToSet(s.prices)
           pr == s.prices
           lv == [s.levels EXCEPT ![p] = lvl]
<1>1. r = [prices |-> pr, levels |-> lv]
  <2>1. r = [s EXCEPT !.levels = lv] OBVIOUS
  <2> DEFINE l0 == s.levels
  <2>2. s = [prices |-> pr, levels |-> l0] OBVIOUS
  <2> HIDE DEF pr, lv, l0
  <2> QED BY <2>1, <2>2
<1>2. lv = [q \in P |-> lv[q]] /\ lv[p] = lvl /\ \A q \in P \ {p} : lv[q] = s.levels[q] OBVIOUS
<1> HIDE DEF lv
<1>3. r.prices = pr /\ r.levels = lv BY <1>1
<1>4. \A q \in P : LevelInv(side, q, lv[q], next, ids2) BY <1>2
<1> QED BY <1>1, <1>2, <1>3, <1>4 DEF SideInv, LevelSet

\* A row that leaves its side: what the level still holds, and the prices left.
LevelLess(side, s, rows, ids, i, o, p, rest) ==
  /\ rest \in Seq(RestRow) /\ Distinct(rest)
  /\ ToSet(rest) = {RestingRow(rows[k]) : k \in At(rows, ids \ {i}, side, p)}
  /\ \A q \in ToSet(s.prices) \ {p} : LevelInv(side, q, s.levels[q], rows, ids \ {i})
  /\ {rows[k].price : k \in OfSide(rows, ids \ {i}, side)} = ToSet(s.prices) \ (IF rest = << >> THEN {p} ELSE {})

\* An order leaves its level: the level, the other levels and the prices of the rest.
LEMMA LeaveLevel ==
  ASSUME NEW side, NEW s, NEW rows, NEW ids, NEW i, SideInv(side, s, rows, ids), RowsAre(rows, ids), i \in ids,
         rows[i].side = side, NEW o, o = RestingRow(rows[i]), NEW p, p = o.price,
         NEW rest, rest \in Seq(RestRow), Distinct(rest), ToSet(rest) = ToSet(s.levels[p].orders) \ {o}
  PROVE  LevelLess(side, s, rows, ids, i, o, p, rest)
<1> DEFINE P == ToSet(s.prices)
           less == ids \ {i}
           lvl == s.levels[p]
<1>1. /\ P = {rows[k].price : k \in OfSide(rows, ids, side)}
      /\ \A q \in P : LevelInv(side, q, s.levels[q], rows, ids)
  BY DEF SideInv
<1>2. rows[i].price = p /\ i \in OfSide(rows, ids, side) BY RestingParts DEF OfSide
<1>3. p \in P BY <1>1, <1>2
<1>4. LevelInv(side, p, lvl, rows, ids) BY SMTT(60), <1>1, <1>3
<1>5. ToSet(lvl.orders) = {RestingRow(rows[k]) : k \in At(rows, ids, side, p)} BY <1>4 DEF LevelInv
<1>6. \A q : At(rows, less, side, q) = At(rows, ids, side, q) \ {i} BY DEF At
<1>7. \A q \in P \ {p} : At(rows, less, side, q) = At(rows, ids, side, q) BY <1>2, <1>6 DEF At
<1>8. \A k \in ids : RestingRow(rows[k]).id = k BY RestingParts DEF RowsAre
<1> HIDE DEF less, P
<1>9. ToSet(rest) = {RestingRow(rows[k]) : k \in At(rows, less, side, p)}
  <2>1. \A k \in At(rows, ids, side, p) : RestingRow(rows[k]) = o <=> k = i BY <1>8 DEF At
  <2> QED BY <1>5, <1>6, <2>1
<1>10. \A q \in P \ {p} : LevelInv(side, q, s.levels[q], rows, less)
  <2> TAKE q \in P \ {p}
  <2>1. LevelInv(side, q, s.levels[q], rows, ids) BY <1>1
  <2>2. At(rows, less, side, q) = At(rows, ids, side, q) BY <1>7
  <2> QED BY <2>1, <2>2 DEF LevelInv
<1>11. OfSide(rows, less, side) = OfSide(rows, ids, side) \ {i} BY DEF OfSide, less
<1>12. (rest = << >>) <=> At(rows, less, side, p) = {}
  <2>1. (rest = << >>) <=> ToSet(rest) = {} BY SeqParts
  <2> QED BY SMTT(60), <1>9, <2>1
<1>13. {rows[k].price : k \in OfSide(rows, less, side)} = P \ (IF rest = << >> THEN {p} ELSE {})
  <2>1. CASE rest = << >>
    <3>1. \A k \in OfSide(rows, less, side) : rows[k].price # p BY <1>12, <2>1 DEF At, OfSide
    <3> QED BY <1>1, <1>2, <1>11, <2>1, <3>1
  <2>2. CASE rest # << >>
    <3>1. \E k \in OfSide(rows, less, side) : rows[k].price = p BY <1>12, <2>2 DEF At, OfSide
    <3> QED BY <1>1, <1>2, <1>11, <2>2, <3>1
  <2> QED BY <2>1, <2>2
<1> QED BY <1>9, <1>10, <1>13 DEF LevelLess, less, P

\* A side without one of its orders, as a cancel leaves it.
LEMMA RemoveSide ==
  ASSUME NEW side, NEW s, NEW rows, NEW ids, NEW i, SideInv(side, s, rows, ids), RowsAre(rows, ids), i \in ids,
         rows[i].side = side, NEW o, o = RestingRow(rows[i])
  PROVE  SideInv(side, RemoveResting(s, o), rows, ids \ {i})
<1> DEFINE P == ToSet(s.prices)
           p == o.price
           lvl == s.levels[p]
           rest == RemoveFirst(lvl.orders, o)
           less == ids \ {i}
           z == lvl.qty - o.remaining
           new == [orders |-> rest, qty |-> z]
<1>1. /\ s = [prices |-> s.prices, levels |-> s.levels]
      /\ s.prices \in Seq(Nat) /\ Distinct(s.prices) /\ InOrder(Ahead(side), s.prices)
      /\ P = {rows[k].price : k \in OfSide(rows, ids, side)}
      /\ s.levels = [q \in P |-> s.levels[q]]
      /\ \A q \in P : LevelInv(side, q, s.levels[q], rows, ids)
  BY DEF SideInv
<1>2. rows[i].price = p /\ i \in OfSide(rows, ids, side) BY RestingParts DEF OfSide
<1>3. p \in P BY <1>1, <1>2
<1>4. LevelInv(side, p, lvl, rows, ids) BY <1>1, <1>3
<1>5. /\ lvl.orders \in Seq(RestRow) /\ Distinct(lvl.orders) /\ InOrder(Older, lvl.orders)
      /\ o \in ToSet(lvl.orders)
  BY <1>2, <1>4 DEF LevelInv, At, OfSide
<1>6. rest \in Seq(RestRow) /\ Distinct(rest) /\ ToSet(rest) = ToSet(lvl.orders) \ {o} BY <1>5, RemoveParts
<1>15. InOrder(Older, rest) BY <1>5, RemoveOrder
<1>16. z = Left(rows, At(rows, less, side, p))
  <2> DEFINE A == At(rows, less, side, p)
  <2>1. At(rows, ids, side, p) = A \cup {i} /\ i \notin A BY <1>2 DEF At, OfSide
  <2>2. IsFiniteSet(A) /\ A \subseteq ids
    <3>1. IsFiniteSet(ids) BY DEF RowsAre
    <3>2. A \subseteq ids BY DEF At
    <3> HIDE DEF A
    <3> QED BY <3>1, <3>2, FS_Subset
  <2>3. \A k \in A \cup {i} : rows[k].remaining \in Nat BY SMTT(60), <2>2 DEF RowsAre, Row
  <2>4. o.remaining = rows[i].remaining BY RestingParts
  <2>5. lvl.qty = Left(rows, At(rows, ids, side, p)) BY <1>4 DEF LevelInv
  <2> HIDE DEF A, lvl
  <2>6. Left(rows, A) \in Nat /\ Left(rows, A \cup {i}) = Left(rows, A) + rows[i].remaining
    BY ZenonT(60), <2>1, <2>2, <2>3, LeftMore
  <2> QED BY <2>1, <2>3, <2>4, <2>5, <2>6 DEF A
<1>7. RemoveResting(s, o) = IF rest = << >> THEN DropLevel(s, p) ELSE [s EXCEPT !.levels[p] = new]
  BY DEF RemoveResting
<1>14. new.orders = rest /\ new.qty = z /\ new = [orders |-> new.orders, qty |-> new.qty]
  <2> HIDE DEF rest, z
  <2> QED OBVIOUS
<1> HIDE DEF rest, new, p, less, z
<1>8. LevelLess(side, s, rows, ids, i, o, p, rest) BY <1>6, LeaveLevel DEF p
<1>9. /\ ToSet(rest) = {RestingRow(rows[k]) : k \in At(rows, less, side, p)}
      /\ (\A q \in P \ {p} : LevelInv(side, q, s.levels[q], rows, less))
      /\ {rows[k].price : k \in OfSide(rows, less, side)} = P \ (IF rest = << >> THEN {p} ELSE {})
  BY <1>8 DEF LevelLess, less
<1>10. CASE rest = << >>
  <2>1. {rows[k].price : k \in OfSide(rows, less, side)} = P \ {p} BY <1>9, <1>10
  <2>2. SideInv(side, DropLevel(s, p), rows, less) BY <1>1, <1>3, <1>9, <2>1, DropSide
  <2> QED BY <1>7, <1>10, <2>2 DEF less
<1>11. CASE rest # << >>
  <2>1. {rows[k].price : k \in OfSide(rows, less, side)} = P BY <1>9, <1>11
  <2>2. LevelInv(side, p, new, rows, less) BY <1>6, <1>9, <1>14, <1>15, <1>16 DEF LevelInv
  <2> DEFINE r == [s EXCEPT !.levels[p] = new]
  <2>3. r = [s EXCEPT !.levels[p] = new] OBVIOUS
  <2> HIDE DEF r
  <2>6. \A q \in P \ {p} : LevelInv(side, q, s.levels[q], rows, less) BY <1>9
  <2>4. LevelSet(side, s, p, rows, less, new, r)
    <3> HIDE DEF lvl
    <3> QED BY ONLY <1>1, <1>3, <2>6, <2>1, <2>2, <2>3, SetLevel
  <2>5. RemoveResting(s, o) = r BY <1>7, <1>11, <2>3
  <2> QED BY <2>4, <2>5 DEF less, LevelSet
<1> QED BY <1>10, <1>11

\* The head of a side is a row at its best price.
HeadInv(side, s, rows, ids, i) ==
  /\ i \in ids /\ rows[i].side = side /\ rows[i].price = BestPrice(s) /\ BestPrice(s) \in ToSet(s.prices)
  /\ Head(s.levels[BestPrice(s)].orders) = RestingRow(rows[i])

\* The head of the best level is one of the rows.
LEMMA HeadOfSide ==
  ASSUME NEW side, NEW s, NEW rows, NEW ids, SideInv(side, s, rows, ids), s.prices # << >>
  PROVE  \E i \in ids : HeadInv(side, s, rows, ids, i)
<1> DEFINE p == BestPrice(s)
           lvl == s.levels[p]
<1>1. /\ s.prices \in Seq(Nat) /\ ToSet(s.prices) = {rows[k].price : k \in OfSide(rows, ids, side)}
      /\ \A q \in ToSet(s.prices) : LevelInv(side, q, s.levels[q], rows, ids)
  BY DEF SideInv
<1>2. p \in ToSet(s.prices) BY <1>1, SeqParts DEF BestPrice
<1>3. LevelInv(side, p, lvl, rows, ids) BY <1>1, <1>2
<1>4. lvl.orders \in Seq(RestRow) /\ ToSet(lvl.orders) = {RestingRow(rows[k]) : k \in At(rows, ids, side, p)}
  BY <1>3 DEF LevelInv
<1>5. At(rows, ids, side, p) # {} BY <1>1, <1>2 DEF At, OfSide
<1>6. lvl.orders # << >> BY <1>4, <1>5, SeqParts
<1>7. Head(lvl.orders) \in ToSet(lvl.orders)
  <2> DEFINE q == lvl.orders
  <2>1. q \in Seq(RestRow) /\ q # << >> BY <1>4, <1>6
  <2> HIDE DEF q
  <2>2. q # << >> => Head(q) \in ToSet(q) BY <2>1, SeqParts
  <2> QED BY <2>1, <2>2 DEF q
<1>8. PICK i \in At(rows, ids, side, p) : Head(lvl.orders) = RestingRow(rows[i]) BY <1>4, <1>7
<1>9. i \in ids /\ rows[i].side = side /\ rows[i].price = p BY DEF At
<1> QED BY <1>2, <1>8, <1>9 DEF HeadInv

\* The head of a level changes in place, or leaves.
NewHeadIs(s, p, m, z, hit) ==
  hit = [s EXCEPT !.levels[p] = [orders |-> <<m>> \o Tail(s.levels[p].orders), qty |-> z]]
HitKeeps(side, s, p, hit, next, ids, i) ==
  SideInv(side, hit, next, ids) /\ (next[i].remaining = 0 => SideInv(side, PopHead(hit, p), next, ids \ {i}))

\* A side whose best maker was filled, in part or to the end.
LEMMA FillSide ==
  ASSUME NEW side, NEW s, NEW rows, NEW ids, NEW next, NEW i, SideInv(side, s, rows, ids), RowsAre(rows, ids),
         i \in ids, rows[i].side = side, NEW p, p = rows[i].price,
         Head(s.levels[p].orders) = RestingRow(rows[i]),
         \A j \in ids \ {i} : next[j] = rows[j],
         next[i] \in Row, next[i].id = i, next[i].side = side, next[i].price = p, next[i].seq = rows[i].seq,
         NEW m, m = RestingRow(next[i]), NEW z, z = s.levels[p].qty - (rows[i].remaining - next[i].remaining),
         NEW hit, NewHeadIs(s, p, m, z, hit)
  PROVE  HitKeeps(side, s, p, hit, next, ids, i)
<1> DEFINE P == ToSet(s.prices)
           lvl == s.levels[p]
           rest == Tail(lvl.orders)
           more == <<m>> \o rest
           new == [orders |-> more, qty |-> z]
           less == ids \ {i}
           o == RestingRow(rows[i])
<1>1. /\ s = [prices |-> s.prices, levels |-> s.levels]
      /\ s.prices \in Seq(Nat) /\ Distinct(s.prices) /\ InOrder(Ahead(side), s.prices)
      /\ P = {rows[k].price : k \in OfSide(rows, ids, side)}
      /\ s.levels = [q \in P |-> s.levels[q]]
      /\ \A q \in P : LevelInv(side, q, s.levels[q], rows, ids)
  BY DEF SideInv
<1>2. i \in OfSide(rows, ids, side) /\ p \in P BY <1>1 DEF OfSide
<1>3. LevelInv(side, p, lvl, rows, ids) BY <1>1, <1>2
<1>4. /\ lvl.orders \in Seq(RestRow) /\ Distinct(lvl.orders) /\ InOrder(Older, lvl.orders)
      /\ ToSet(lvl.orders) = {RestingRow(rows[k]) : k \in At(rows, ids, side, p)}
      /\ lvl.qty = Left(rows, At(rows, ids, side, p))
  BY <1>3 DEF LevelInv
<1>5. o \in ToSet(lvl.orders) BY SMTT(60), <1>2, <1>4 DEF At, OfSide
<1>6. lvl.orders # << >> /\ Head(lvl.orders) = o
  <2> DEFINE q == lvl.orders
  <2>1. q \in Seq(RestRow) /\ ToSet(q) # {} BY <1>4, <1>5
  <2> HIDE DEF q
  <2>2. q # << >> BY SMTT(60), <2>1, SeqParts
  <2> QED BY SMTT(60), <2>2 DEF q
<1>7. rest \in Seq(RestRow) /\ Distinct(rest) /\ ToSet(rest) = ToSet(lvl.orders) \ {o} BY SMTT(60), <1>4, <1>6, TailParts
<1>27. InOrder(Older, rest) /\ \A x \in ToSet(rest) : <<o, x>> \in Older BY SMTT(60), <1>4, <1>6, TailOrder
<1>8. LevelLess(side, s, rows, ids, i, o, p, rest)
  <2>1. o.price = p BY RestingParts
  <2> HIDE DEF rest, lvl, o
  <2> QED BY <1>7, <2>1, LeaveLevel DEF o, lvl
<1>9. /\ ToSet(rest) = {RestingRow(rows[k]) : k \in At(rows, less, side, p)}
      /\ (\A q \in P \ {p} : LevelInv(side, q, s.levels[q], rows, less))
      /\ {rows[k].price : k \in OfSide(rows, less, side)} = P \ (IF rest = << >> THEN {p} ELSE {})
  BY <1>8 DEF LevelLess
<1>10. \A q : At(next, less, side, q) = At(rows, less, side, q) BY DEF At
<1>11. OfSide(next, less, side) = OfSide(rows, less, side) BY SMTT(60) DEF OfSide
<1>12. \A q \in P \ {p} : LevelInv(side, q, s.levels[q], next, less)
  <2> TAKE q \in P \ {p}
  <2>1. LevelInv(side, q, s.levels[q], rows, less) BY <1>9
  <2>2. {RestingRow(next[k]) : k \in At(next, less, side, q)} = {RestingRow(rows[k]) : k \in At(rows, less, side, q)}
    <3> DEFINE A == At(rows, less, side, q)
    <3>1. \A k \in A : next[k] = rows[k] BY DEF At
    <3>2. At(next, less, side, q) = A BY <1>10
    <3> HIDE DEF A
    <3>3. \A k \in A : RestingRow(next[k]) = RestingRow(rows[k]) BY <3>1
    <3>4. {RestingRow(next[k]) : k \in A} = {RestingRow(rows[k]) : k \in A} BY ONLY SMTT(60), <3>3
    <3> QED BY <3>2, <3>4 DEF A
  <2>3. Left(next, At(next, less, side, q)) = Left(rows, At(rows, less, side, q))
    <3> DEFINE A == At(rows, less, side, q)
    <3>1. \A k \in A : next[k].remaining = rows[k].remaining BY DEF At
    <3>2. At(next, less, side, q) = A BY <1>10
    <3>3. IsFiniteSet(A)
      <4>1. IsFiniteSet(ids) /\ A \subseteq ids BY DEF At, RowsAre
      <4> HIDE DEF A
      <4> QED BY SMTT(60), <4>1, FS_Subset
    <3> HIDE DEF A
    <3>4. Left(next, A) = Left(rows, A) BY SMTT(60), <3>1, <3>3, LeftSame
    <3> QED BY <3>2, <3>4 DEF A
  <2> QED BY <2>1, <2>2, <2>3 DEF LevelInv
<1>13. ToSet(rest) = {RestingRow(next[k]) : k \in At(next, less, side, p)}
  <2> DEFINE A == At(rows, less, side, p)
  <2>1. \A k \in A : next[k] = rows[k] BY SMTT(60) DEF At
  <2>2. At(next, less, side, p) = A /\ ToSet(rest) = {RestingRow(rows[k]) : k \in A} BY <1>9, <1>10
  <2> HIDE DEF A, rest
  <2>3. \A k \in A : RestingRow(next[k]) = RestingRow(rows[k]) BY <2>1
  <2>4. {RestingRow(next[k]) : k \in A} = {RestingRow(rows[k]) : k \in A} BY ONLY <2>3
  <2> QED BY <2>2, <2>4
<1>14. {next[k].price : k \in OfSide(next, less, side)} = P \ (IF rest = << >> THEN {p} ELSE {})
  <2>1. \A k \in OfSide(rows, less, side) : next[k] = rows[k] BY DEF OfSide
  <2> QED BY <1>9, <1>11, <2>1
<1>15. /\ OfSide(next, ids, side) = OfSide(next, less, side) \cup {i}
       /\ At(next, ids, side, p) = At(next, less, side, p) \cup {i}
       /\ \A q \in P \ {p} : At(next, ids, side, q) = At(next, less, side, q)
  BY DEF OfSide, At
<1>16. {next[k].price : k \in OfSide(next, ids, side)} = P
  <2> DEFINE A == OfSide(next, less, side)
  <2>1. {next[k].price : k \in A \cup {i}} = {next[k].price : k \in A} \cup {p} OBVIOUS
  <2>2. p \in P /\ {next[k].price : k \in A} = P \ (IF rest = << >> THEN {p} ELSE {}) BY <1>2, <1>14
  <2>3. OfSide(next, ids, side) = A \cup {i} BY <1>15
  <2> HIDE DEF A, P, rest
  <2> QED BY <2>1, <2>2, <2>3
<1>17. \A q \in P \ {p} : LevelInv(side, q, s.levels[q], next, ids) BY <1>12, <1>15 DEF LevelInv
<1>28. next[i].remaining \in Nat /\ rows[i].remaining \in Nat BY DEF RowsAre, Row
<1>29. /\ z = Left(next, At(next, ids, side, p))
       /\ next[i].remaining = 0 => z = Left(next, At(next, less, side, p))
  <2> DEFINE A == At(rows, less, side, p)
  <2>1. At(rows, ids, side, p) = A \cup {i} /\ i \notin A BY <1>2 DEF At, OfSide
  <2>2. At(next, less, side, p) = A /\ At(next, ids, side, p) = A \cup {i} BY <1>10, <1>15
  <2>3. IsFiniteSet(A) /\ A \subseteq less
    <3>1. IsFiniteSet(ids) /\ A \subseteq ids /\ A \subseteq less BY DEF At, RowsAre
    <3> HIDE DEF A
    <3> QED BY <3>1, FS_Subset
  <2>4. \A k \in A \cup {i} : rows[k].remaining \in Nat /\ next[k].remaining \in Nat
    <3>1. \A k \in A : k \in ids /\ next[k] = rows[k] BY <2>3
    <3>2. \A k \in A : rows[k].remaining \in Nat BY <3>1 DEF RowsAre, Row
    <3> QED BY <1>28, <3>1, <3>2
  <2>5. \A k \in A : next[k].remaining = rows[k].remaining BY SMTT(60), <2>3
  <2>6. z = Left(rows, At(rows, ids, side, p)) - (rows[i].remaining - next[i].remaining) BY <1>4
  <2> HIDE DEF A, less, lvl
  <2>7. Left(next, A) = Left(rows, A) BY SMTT(60), <2>3, <2>5, LeftSame
  <2>8. Left(rows, A) \in Nat /\ Left(rows, A \cup {i}) = Left(rows, A) + rows[i].remaining
    BY SMTT(60), <2>1, <2>3, <2>4, LeftMore
  <2>9. Left(next, A \cup {i}) = Left(next, A) + next[i].remaining
    BY <2>1, <2>3, <2>4, LeftMore
  <2> QED BY <1>28, <2>1, <2>2, <2>6, <2>7, <2>8, <2>9
<1>18. m \in RestRow /\ m.id = i /\ m.seq = o.seq
  <2>1. m.seq = next[i].seq /\ o.seq = rows[i].seq BY RestingParts
  <2>2. m \in RestRow /\ m.id = i BY SMTT(60), RestingParts
  <2> QED BY <2>1, <2>2
<1>30. InOrder(Older, <<m>> \o rest)
  <2>1. \A x \in ToSet(rest) : <<m, x>> \in Older
    <3> TAKE x \in ToSet(rest)
    <3>1. <<o, x>> \in Older BY SMTT(60), <1>27
    <3>2. o.seq < x.seq /\ x \in RestRow
      <4> HIDE DEF o, rest
      <4> QED BY SMTT(60), <3>1 DEF Older
    <3> HIDE DEF o, rest
    <3> QED BY <1>18, <3>2 DEF Older
  <2> HIDE DEF rest, o
  <2> QED BY SMTT(60), <1>7, <1>18, <1>27, <2>1, HeadOrder
<1>19. m \notin ToSet(rest)
  <2>1. \A k \in less : RestingRow(next[k]).id = k BY RestingParts DEF RowsAre
  <2> QED BY <1>13, <1>18, <2>1 DEF At
<1>20. /\ more \in Seq(RestRow) /\ more # << >> /\ Distinct(more) /\ Tail(more) = rest
       /\ ToSet(more) = {RestingRow(next[k]) : k \in At(next, ids, side, p)}
  <2> DEFINE q == lvl.orders
             r == <<m>> \o Tail(q)
  <2>1. q \in Seq(RestRow) /\ q # << >> /\ Distinct(q) /\ m \notin ToSet(Tail(q)) BY <1>4, <1>6, <1>19
  <2>2. more = r /\ Head(q) = o /\ Tail(q) = rest BY SMTT(60), <1>6
  <2>3. ToSet(rest) = ToSet(q) \ {o} BY <1>7
  <2> HIDE DEF q
  <2>4. r \in Seq(RestRow) /\ r # << >> /\ Distinct(r) /\ Tail(r) = Tail(q) /\ ToSet(r) = (ToSet(q) \ {Head(q)}) \cup {m}
    BY ONLY SMTT(60), <1>18, <2>1, NewHead
  <2> HIDE DEF r, more, rest, o
  <2>5. ToSet(more) = ToSet(rest) \cup {m} BY SMTT(60), <2>2, <2>3, <2>4
  <2> DEFINE A == At(next, less, side, p)
  <2>6. {RestingRow(next[k]) : k \in A \cup {i}} = {RestingRow(next[k]) : k \in A} \cup {m} OBVIOUS
  <2>7. At(next, ids, side, p) = A \cup {i} /\ ToSet(rest) = {RestingRow(next[k]) : k \in A} BY <1>13, <1>15
  <2> HIDE DEF A
  <2> QED BY <2>2, <2>4, <2>5, <2>6, <2>7
<1>31. InOrder(Older, more) BY <1>30
<1> HIDE DEF P, lvl, rest, more, less, o
<1>21. new.orders = more /\ new.qty = z /\ new = [orders |-> new.orders, qty |-> new.qty] BY SMTT(60)
<1>22. hit = [s EXCEPT !.levels[p] = new] BY SMTT(60) DEF NewHeadIs, more, rest, lvl
<1> HIDE DEF new
<1>23. LevelInv(side, p, new, next, ids) BY <1>20, <1>21, <1>29, <1>31 DEF LevelInv
<1>24. LevelSet(side, s, p, next, ids, new, hit) BY ONLY <1>1, <1>2, <1>16, <1>17, <1>22, <1>23, SetLevel DEF P
<1>25. SideInv(side, hit, next, ids) /\ hit.prices = s.prices /\ hit.levels[p] = new BY <1>24 DEF LevelSet
<1>26. ASSUME next[i].remaining = 0 PROVE SideInv(side, PopHead(hit, p), next, less)
  <2>1. /\ hit = [prices |-> hit.prices, levels |-> hit.levels]
        /\ hit.prices \in Seq(Nat) /\ Distinct(hit.prices) /\ InOrder(Ahead(side), hit.prices)
        /\ hit.levels = [q \in P |-> hit.levels[q]]
        /\ ToSet(hit.prices) = P /\ p \in P
    BY <1>2, <1>25 DEF SideInv, P
  <2>2. \A q \in P \ {p} : hit.levels[q] = s.levels[q]
    <3> DEFINE lv == s.levels
               sp == s.prices
    <3>1. s = [prices |-> sp, levels |-> lv] /\ lv = [q \in P |-> lv[q]] BY SMTT(60), <1>1
    <3>2. hit.levels = [lv EXCEPT ![p] = new]
      <4> HIDE DEF lv, sp
      <4> QED BY SMTT(60), <1>22, <3>1
    <3> HIDE DEF lv
    <3>3. \A q \in P \ {p} : hit.levels[q] = lv[q] BY SMTT(60), <3>1, <3>2
    <3> QED BY <3>3 DEF lv
  <2>3. \A q \in P \ {p} : LevelInv(side, q, hit.levels[q], next, less) BY SMTT(60), <1>12, <2>2 DEF less
  <2>7. Tail(hit.levels[p].orders) = rest BY SMTT(60), <1>20, <1>21, <1>25
  <2>4. PopHead(hit, p) = IF rest = << >> THEN DropLevel(hit, p) ELSE [hit EXCEPT !.levels[p].orders = rest]
    BY <2>7 DEF PopHead
  <2>5. CASE rest = << >>
    <3>1. {next[k].price : k \in OfSide(next, less, side)} = P \ {p} BY SMTT(60), <1>14, <2>5
    <3>3. \A q \in ToSet(hit.prices) \ {p} : LevelInv(side, q, hit.levels[q], next, less) BY SMTT(60), <2>1, <2>3
    <3>4. {next[k].price : k \in OfSide(next, less, side)} = ToSet(hit.prices) \ {p} BY SMTT(60), <2>1, <3>1
    <3>5. p \in ToSet(hit.prices) /\ hit.levels = [q \in ToSet(hit.prices) |-> hit.levels[q]] BY <2>1
    <3>2. SideInv(side, DropLevel(hit, p), next, less) BY ONLY SMTT(60), <2>1, <3>3, <3>4, <3>5, DropSide
    <3> QED BY <2>4, <2>5, <3>2
  <2>6. CASE rest # << >>
    <3> DEFINE lvl2 == [new EXCEPT !.orders = rest]
               r == [hit EXCEPT !.levels[p] = lvl2]
    <3>1. lvl2 = [orders |-> rest, qty |-> z] BY SMTT(60), <1>21
    <3>2. [hit EXCEPT !.levels[p].orders = rest] = r BY SMTT(60), <1>25, <2>1
    <3>3. {next[k].price : k \in OfSide(next, less, side)} = P BY SMTT(60), <1>14, <2>6
    <3>4. r = [hit EXCEPT !.levels[p] = lvl2] OBVIOUS
    <3> HIDE DEF lvl2, r
    <3>5. lvl2.orders = rest /\ lvl2.qty = z /\ lvl2 = [orders |-> lvl2.orders, qty |-> lvl2.qty] BY SMTT(60), <3>1
    <3>6. LevelInv(side, p, lvl2, next, less) BY <1>7, <1>13, <1>26, <1>27, <1>29, <3>5 DEF LevelInv
    <3>7. LevelSet(side, hit, p, next, less, lvl2, r) BY ONLY SMTT(60), <2>1, <2>3, <3>3, <3>4, <3>6, SetLevel
    <3> QED BY SMTT(60), <2>4, <2>6, <3>2, <3>7 DEF LevelSet
  <2> QED BY SMTT(60), <2>5, <2>6
<1> QED BY SMTT(60), <1>25, <1>26 DEF HitKeeps, less

\* No order of the side comes before the head: a better price, or the same price
\* and an earlier sequence.
Before(side, o, m) == Better(side, o.price, m.price) \/ (o.price = m.price /\ o.seq < m.seq)

\* Nothing on a side comes before its head.
LEMMA HeadIsFirst ==
  ASSUME NEW side, NEW s, NEW rows, NEW ids, SideInv(side, s, rows, ids), RowsAre(rows, ids),
         NEW i, HeadInv(side, s, rows, ids, i), NEW j \in ids, rows[j].side = side
  PROVE  ~Before(side, rows[j], rows[i])
<1> DEFINE p == BestPrice(s)
           q == rows[j].price
           pr == s.prices
           lq == s.levels[p].orders
<1>1. /\ pr \in Seq(Nat) /\ InOrder(Ahead(side), pr)
      /\ ToSet(pr) = {rows[k].price : k \in OfSide(rows, ids, side)}
      /\ \A x \in ToSet(pr) : LevelInv(side, x, s.levels[x], rows, ids)
  BY DEF SideInv
<1>2. i \in ids /\ rows[i].side = side /\ rows[i].price = p /\ p \in ToSet(pr) /\ Head(lq) = RestingRow(rows[i])
  BY DEF HeadInv
<1>3. q \in ToSet(pr) BY <1>1 DEF OfSide
<1>4. p = Head(pr) /\ pr # << >>
  <2>1. pr # << >>
    <3> HIDE DEF pr, p
    <3> QED BY <1>1, <1>2, SeqParts
  <2> QED BY <2>1 DEF BestPrice
<1>5. q \in Nat /\ p \in Nat
  <2>1. ToSet(pr) \subseteq Nat
    <3> HIDE DEF pr
    <3> QED BY <1>1, SeqParts
  <2> QED BY <1>2, <1>3, <2>1
<1>6. q = p \/ Better(side, p, q)
  <2> HIDE DEF p, q, pr
  <2>1. \A x \in ToSet(Tail(pr)) : <<Head(pr), x>> \in Ahead(side) BY <1>1, <1>4, TailOrder
  <2>2. q = Head(pr) \/ q \in ToSet(Tail(pr))
    <3>1. PICK k \in 1..Len(pr) : q = pr[k] BY <1>1, <1>3 DEF ToSet
    <3>2. CASE k = 1 BY <1>1, <1>4, <3>1, <3>2
    <3>3. CASE k # 1
      <4>1. Len(pr) \in Nat /\ k - 1 \in 1..Len(pr) - 1 /\ (k - 1) + 1 = k BY <1>1, <3>3
      <4>2. Tail(pr) \in Seq(Nat) /\ Len(Tail(pr)) = Len(pr) - 1 /\ Tail(pr)[k - 1] = pr[k]
        BY <1>1, <1>4, <4>1, HeadTailProperties
      <4>3. k - 1 \in DOMAIN Tail(pr) BY <4>1, <4>2
      <4> QED BY <3>1, <4>2, <4>3 DEF ToSet
    <3> QED BY <3>2, <3>3
  <2> QED BY <1>4, <2>1, <2>2 DEF Ahead
<1>7. ASSUME q = p PROVE i = j \/ rows[i].seq < rows[j].seq
  <2>1. LevelInv(side, p, s.levels[p], rows, ids) BY <1>1, <1>2
  <2>2. lq \in Seq(RestRow) /\ InOrder(Older, lq) /\ ToSet(lq) = {RestingRow(rows[k]) : k \in At(rows, ids, side, p)}
    BY <2>1 DEF LevelInv
  <2>3. RestingRow(rows[j]) \in ToSet(lq) BY <1>7, <2>2 DEF At
  <2> HIDE DEF lq
  <2>4. PICK k \in 1..Len(lq) : RestingRow(rows[j]) = lq[k] BY <2>2, <2>3 DEF ToSet
  <2>5. Len(lq) \in Nat /\ Len(lq) >= 1 /\ Head(lq) = lq[1] BY <2>2, <2>4
  <2>6. CASE k = 1
    <3>1. RestingRow(rows[j]) = RestingRow(rows[i]) BY <1>2, <2>4, <2>5, <2>6 DEF lq
    <3>2. RestingRow(rows[j]).id = j /\ RestingRow(rows[i]).id = i BY <1>2, RestingParts DEF RowsAre
    <3> QED BY <3>1, <3>2
  <2>7. CASE k # 1
    <3>1. 1 \in DOMAIN lq /\ k \in DOMAIN lq /\ 1 < k BY <2>2, <2>5, <2>7
    <3>2. <<lq[1], lq[k]>> \in Older BY <2>2, <3>1 DEF InOrder
    <3>3. lq[1].seq < lq[k].seq BY <3>2 DEF Older
    <3>4. lq[1] = RestingRow(rows[i]) BY <1>2, <2>5 DEF lq
    <3>5. lq[1].seq = rows[i].seq /\ lq[k].seq = rows[j].seq BY <2>4, <3>4, RestingParts
    <3> QED BY <3>3, <3>5
  <2> QED BY <2>6, <2>7
<1>8. rows[i].seq \in Nat /\ rows[j].seq \in Nat BY <1>2 DEF RowsAre, Row
<1> QED BY <1>2, <1>5, <1>6, <1>7, <1>8 DEF Before, Better

-----------------------------------------------------------------------------
(* A match and its settlement, in flight.                                  *)

\* The taker in flight, and what a match carries along.
InFlight(t, row) ==
  /\ t = [o |-> row, remaining |-> t.remaining, quoteRem |-> t.quoteRem, filledQty |-> t.filledQty,
          filledQuote |-> t.filledQuote, stop |-> t.stop, done |-> t.done]
  /\ t.remaining \in Nat /\ t.quoteRem \in Nat /\ t.filledQty \in Nat /\ t.filledQuote \in Nat
  /\ t.stop \in Reasons
  /\ (MarketBuy(row) => t.quoteRem + t.filledQuote = row.quoteQty)
Trade == [maker : RestRow, price : Nat, qty : Nat, quote : Nat]
MatchState(st, cfg, row) ==
  /\ st = [cfg |-> cfg, opp |-> st.opp, byID |-> st.byID, trades |-> st.trades, t |-> st.t, band |-> st.band]
  /\ st.trades \in Seq(Trade) /\ InFlight(st.t, row)

\* What a budget buys costs no more than the budget.
LEMMA BudgetHolds ==
  ASSUME NEW x \in Nat, NEW p \in Nat, p > 0, NEW step \in Nat, step > 0
  PROVE  LET w == FloorToStep(x \div p, step) IN w \in Nat /\ p * w =< x
<1> DEFINE d == x \div p
           e == d \div step
           w == e * step
<1>1. d \in Nat /\ p * d =< x
  <2>1. d \in Nat /\ x = p * d + (x % p) /\ x % p \in Nat BY Z3
  <2> DEFINE y == p * d
  <2>2. y \in Nat BY <2>1, Z3
  <2>3. x % p \in Nat /\ x = y + (x % p) BY <2>1
  <2> HIDE DEF y, d
  <2> QED BY <2>1, <2>2, <2>3 DEF y
<1> HIDE DEF d
<1>2. e \in Nat /\ w \in Nat /\ w =< d
  <2>1. e \in Nat /\ d = step * e + (d % step) /\ d % step \in Nat BY <1>1, Z3
  <2> DEFINE y == step * e
  <2>2. y \in Nat /\ w = y BY <2>1, Z3
  <2>3. d % step \in Nat /\ d = y + (d % step) BY <2>1
  <2> HIDE DEF y, e
  <2> QED BY <1>1, <2>1, <2>2, <2>3
<1> HIDE DEF e, w
<1>3. p * w =< p * d /\ p * w \in Nat /\ p * d \in Nat BY <1>1, <1>2, Z3
<1>4. p * w =< x BY <1>1, <1>3
<1> QED BY <1>2, <1>4 DEF FloorToStep, w, e, d

TakerRec(a, b, c, d, e, f, g) ==
  [o |-> a, remaining |-> b, quoteRem |-> c, filledQty |-> d, filledQuote |-> e, stop |-> f, done |-> g]

\* A stop changes the taker only.
StopIs(st, next, cfg, row, reason) ==
  /\ MatchState(next, cfg, row) /\ next.opp = st.opp /\ next.byID = st.byID /\ next.trades = st.trades
  /\ next.t.remaining = st.t.remaining /\ next.t.quoteRem = st.t.quoteRem
  /\ next.t.done /\ next.t.stop = reason /\ next.band = st.band

\* A stopped match changes nothing but the taker's end.
LEMMA StopState ==
  ASSUME NEW st, NEW cfg, NEW row, MatchState(st, cfg, row), NEW reason, reason \in Reasons
  PROVE  StopIs(st, Stop(st, reason), cfg, row, reason)
<1> DEFINE t == st.t
           yes == TRUE
           t1 == [t EXCEPT !.done = yes]
           u == [t1 EXCEPT !.stop = reason]
           next == Stop(st, reason)
           opp == st.opp
           byID == st.byID
           fills == st.trades
           band == st.band
<1>1. st = [cfg |-> cfg, opp |-> opp, byID |-> byID, trades |-> fills, t |-> t, band |-> band]
      /\ fills \in Seq(Trade) /\ InFlight(t, row)
  BY DEF MatchState
<1>2. next = [st EXCEPT !.t = u]
  <2>1. next = [[st EXCEPT !.t.done = yes] EXCEPT !.t.stop = reason] BY DEF Stop
  <2>2. [[st EXCEPT !.t.done = yes] EXCEPT !.t.stop = reason] = [st EXCEPT !.t = u]
    <3> HIDE DEF yes, opp, byID, fills, band, next
    <3>1. st = [cfg |-> cfg, opp |-> opp, byID |-> byID, trades |-> fills, t |-> t, band |-> band] BY <1>1
    <3> HIDE DEF t
    <3> QED BY <3>1
  <2> QED BY <2>1, <2>2
<1>3. InFlight(u, row) /\ u.remaining = t.remaining /\ u.quoteRem = t.quoteRem /\ u.done /\ u.stop = reason
  <2> DEFINE rm == t.remaining
             qr == t.quoteRem
             fq == t.filledQty
             fv == t.filledQuote
             sp == t.stop
             dn == t.done
  <2>1. t = TakerRec(row, rm, qr, fq, fv, sp, dn) /\ rm \in Nat /\ qr \in Nat /\ fq \in Nat /\ fv \in Nat
        /\ (MarketBuy(row) => qr + fv = row.quoteQty)
    BY <1>1 DEF InFlight, TakerRec
  <2> HIDE DEF rm, qr, fq, fv, sp, dn, t, yes
  <2>2. t1 = TakerRec(row, rm, qr, fq, fv, sp, yes) BY <2>1 DEF TakerRec
  <2> HIDE DEF t1
  <2>3. u = TakerRec(row, rm, qr, fq, fv, reason, yes) BY <2>2 DEF TakerRec
  <2> HIDE DEF u
  <2>4. u.o = row /\ u.remaining = rm /\ u.quoteRem = qr /\ u.filledQty = fq /\ u.filledQuote = fv
        /\ u.stop = reason /\ u.done = yes
    BY <2>3 DEF TakerRec
  <2>5. InFlight(u, row) BY <2>1, <2>3, <2>4 DEF InFlight, TakerRec
  <2> QED BY <2>4, <2>5 DEF rm, qr, yes
<1> HIDE DEF u, opp, byID, fills, band, t, next
<1>4. next = [cfg |-> cfg, opp |-> opp, byID |-> byID, trades |-> fills, t |-> u, band |-> band] BY <1>1, <1>2
<1>5. next.opp = opp /\ next.byID = byID /\ next.trades = fills /\ next.t = u /\ next.band = band BY <1>4
<1>6. MatchState(next, cfg, row) BY <1>1, <1>3, <1>4, <1>5 DEF MatchState
<1> QED BY <1>3, <1>5, <1>6 DEF StopIs, next, opp, byID, fills, band, t

\* A fill, field by field.
Hit(st, p, m, qty) ==
  [st.opp EXCEPT !.levels[p] = [orders |-> <<m>> \o Tail(@.orders), qty |-> @.qty - qty]]
FilledTaker(t, buys, qty, quote) ==
  [t EXCEPT !.filledQty = @ + qty, !.filledQuote = @ + quote,
            !.quoteRem = IF buys THEN @ - quote ELSE @, !.remaining = IF buys THEN @ ELSE @ - qty]
FillQty(st, p, maker) == IF maker.remaining < Wanted(st, p) THEN maker.remaining ELSE Wanted(st, p)
FillMaker(maker, p, qty) ==
  [maker EXCEPT !.remaining = @ - qty, !.filledQty = @ + qty, !.filledQuote = @ + p * qty]
FillTrade(maker, p, qty) == [maker |-> FillMaker(maker, p, qty), price |-> p, qty |-> qty, quote |-> p * qty]
FillResult(st, cfg, row, p, maker, qty) ==
  LET m   == FillMaker(maker, p, qty)
      hit == Hit(st, p, m, qty)
  IN  [cfg    |-> cfg,
       opp    |-> IF m.remaining = 0 THEN PopHead(hit, p) ELSE hit,
       byID   |-> IF m.remaining = 0 THEN st.byID \ {m.id} ELSE st.byID,
       trades |-> Append(st.trades, FillTrade(maker, p, qty)),
       t      |-> FilledTaker(st.t, MarketBuy(row), qty, p * qty),
       band   |-> st.band]

\* A fill is one record, field by field.
LEMMA FillState ==
  ASSUME NEW st, NEW cfg, NEW row, MatchState(st, cfg, row), NEW p, NEW maker
  PROVE  Fill(st, p, maker) = FillResult(st, cfg, row, p, maker, FillQty(st, p, maker))
<1> DEFINE qty == FillQty(st, p, maker)
           quote == p * qty
           m == FillMaker(maker, p, qty)
           hit == Hit(st, p, m, qty)
           o2 == IF m.remaining = 0 THEN PopHead(hit, p) ELSE hit
           tr == FillTrade(maker, p, qty)
           buys == MarketBuy(row)
           gone == m.remaining = 0
           t == st.t
           opp == st.opp
           byID == st.byID
           fills == st.trades
           band == st.band
           i2 == IF gone THEN byID \ {m.id} ELSE byID
           q2 == Append(fills, tr)
           t2 == FilledTaker(t, buys, qty, quote)
<1>1. st = [cfg |-> cfg, opp |-> opp, byID |-> byID, trades |-> fills, t |-> t, band |-> band] /\ t.o = row
  BY DEF MatchState, InFlight
<1>2. FillResult(st, cfg, row, p, maker, qty) =
        [cfg |-> cfg, opp |-> o2, byID |-> i2, trades |-> q2, t |-> t2, band |-> band]
  BY SMTT(60) DEF FillResult
<1>3. Fill(st, p, maker) =
        [st EXCEPT !.opp = o2, !.byID = IF gone THEN @ \ {m.id} ELSE @, !.trades = Append(@, tr),
           !.t.filledQty = @ + qty, !.t.filledQuote = @ + quote,
           !.t.quoteRem = IF buys THEN @ - quote ELSE @, !.t.remaining = IF buys THEN @ ELSE @ - qty]
  BY <1>1 DEF Fill, FillQty, FillMaker, FillTrade, Hit
<1> HIDE DEF o2, tr, m, hit, qty, quote, buys, gone
<1> DEFINE s1 == [cfg |-> cfg, opp |-> o2, byID |-> i2, trades |-> q2, t |-> t, band |-> band]
           ta == [t EXCEPT !.filledQty = @ + qty]
           tb == [ta EXCEPT !.filledQuote = @ + quote]
           tc == [tb EXCEPT !.quoteRem = IF buys THEN @ - quote ELSE @]
           td == [tc EXCEPT !.remaining = IF buys THEN @ ELSE @ - qty]
<1>4. [st EXCEPT !.opp = o2, !.byID = IF gone THEN @ \ {m.id} ELSE @, !.trades = Append(@, tr)] = s1
  <2> DEFINE a1 == [st EXCEPT !.opp = o2]
             a2 == [a1 EXCEPT !.byID = IF gone THEN @ \ {m.id} ELSE @]
             a3 == [a2 EXCEPT !.trades = Append(@, tr)]
  <2>1. st = [cfg |-> cfg, opp |-> opp, byID |-> byID, trades |-> fills, t |-> t, band |-> band] BY <1>1
  <2>2. [st EXCEPT !.opp = o2, !.byID = IF gone THEN @ \ {m.id} ELSE @, !.trades = Append(@, tr)] = a3 OBVIOUS
  <2> HIDE DEF opp, byID, fills, t, band, i2, q2, a2, a3
  <2>3. a1 = [cfg |-> cfg, opp |-> o2, byID |-> byID, trades |-> fills, t |-> t, band |-> band] BY <2>1
  <2> HIDE DEF a1
  <2>4. a2 = [cfg |-> cfg, opp |-> o2, byID |-> i2, trades |-> fills, t |-> t, band |-> band] BY <2>3 DEF a2, i2
  <2>5. a3 = [cfg |-> cfg, opp |-> o2, byID |-> i2, trades |-> q2, t |-> t, band |-> band] BY SMTT(60), <2>4 DEF a3, q2
  <2> QED BY <2>2, <2>5
<1>5. Fill(st, p, maker) =
        [s1 EXCEPT !.t.filledQty = @ + qty, !.t.filledQuote = @ + quote,
           !.t.quoteRem = IF buys THEN @ - quote ELSE @, !.t.remaining = IF buys THEN @ ELSE @ - qty]
  BY ZenonT(60), <1>3, <1>4
<1>6. t2 = td BY DEF FilledTaker
<1> DEFINE s2 == [cfg |-> cfg, opp |-> o2, byID |-> i2, trades |-> q2, t |-> ta, band |-> band]
           s3 == [cfg |-> cfg, opp |-> o2, byID |-> i2, trades |-> q2, t |-> tb, band |-> band]
           s4 == [cfg |-> cfg, opp |-> o2, byID |-> i2, trades |-> q2, t |-> tc, band |-> band]
           s5 == [cfg |-> cfg, opp |-> o2, byID |-> i2, trades |-> q2, t |-> td, band |-> band]
<1> HIDE DEF i2, q2, t, band, t2, tb, tc, td
<1> DEFINE e1 == [s1 EXCEPT !.t.filledQty = @ + qty]
           e2 == [e1 EXCEPT !.t.filledQuote = @ + quote]
           e3 == [e2 EXCEPT !.t.quoteRem = IF buys THEN @ - quote ELSE @]
           e4 == [e3 EXCEPT !.t.remaining = IF buys THEN @ ELSE @ - qty]
<1>7. Fill(st, p, maker) = e4
  <2> DEFINE g == [s1 EXCEPT !.t.filledQty = @ + qty, !.t.filledQuote = @ + quote,
           !.t.quoteRem = IF buys THEN @ - quote ELSE @, !.t.remaining = IF buys THEN @ ELSE @ - qty]
  <2>1. Fill(st, p, maker) = g BY <1>5
  <2> HIDE DEF s1
  <2>2. g = e4 BY ZenonT(60)
  <2> HIDE DEF g, e4
  <2> QED BY <2>1, <2>2
<1>8. e1 = s2 BY DEF ta
<1> HIDE DEF s1, ta, e1
<1>9. e2 = s3 BY <1>8 DEF tb
<1> HIDE DEF s2, e2
<1>10. e3 = s4 BY <1>9 DEF tc
<1> HIDE DEF s3, e3
<1>11. e4 = s5 BY <1>10 DEF td
<1> HIDE DEF s4, e4
<1> QED BY <1>2, <1>6, <1>7, <1>11 DEF qty

\* What the taker in flight still holds, and its row.
TakerHold(row, t) ==
  IF row.side = "sell" THEN t.remaining ELSE IF row.type = "limit" THEN row.price * t.remaining ELSE t.quoteRem
TakerIs(taker, row, s, hold) ==
  /\ taker \in Row /\ taker.id = row.id /\ taker.acct = row.acct /\ taker.side = row.side
  /\ taker.type = row.type /\ taker.price = row.price /\ taker.qty = row.qty /\ taker.quoteQty = row.quoteQty
  /\ taker.seq = s + 1 /\ taker.holdRemaining = hold
RowsBehind(x, row, s) ==
  /\ RowsInv(x.rows, s) /\ Len(x.rows) = row.id /\ ~Open(x.rows[row.id])
  /\ \A i \in DOMAIN x.rows \ {row.id} : Covered(x.rows[i])

\* A command in flight: the match and what is settled of it agree.
Flight(b, row, s, st, x) ==
  /\ MatchState(st, b.cfg, row) /\ RowsBehind(x, row, s) /\ TakerIs(x.taker, row, s, TakerHold(row, st.t))
  /\ st.byID = OpenIn(x.rows)
  /\ SideInv(Opposite(row.side), st.opp, x.rows, OpenIn(x.rows))
  /\ SideInv(row.side, b[row.side], x.rows, OpenIn(x.rows))
  /\ MoneyInv(Live(x), x.bal, x.revenue) /\ (x.failed \/ Solvent(x.bal))

\* Rows after a maker's fill.
FilledRows(rows, s, i, m, next) ==
  /\ RowsInv(next, s) /\ next[i] = Filled(rows[i], m) /\ Covered(next[i])
  /\ DOMAIN next = DOMAIN rows /\ Len(next) = Len(rows) /\ (\A j \in DOMAIN rows \ {i} : next[j] = rows[j])
  /\ OpenIn(next) = IF m.remaining = 0 THEN OpenIn(rows) \ {i} ELSE OpenIn(rows)

\* The rows after a maker was filled.
LEMMA RowsFilled ==
  ASSUME NEW rows, NEW s, RowsInv(rows, s), NEW i, i \in OpenIn(rows),
         NEW m, m.filledQty \in Nat, m.filledQuote \in Nat, m.remaining \in Nat,
         NEW next, next = [rows EXCEPT ![i] = Filled(rows[i], m)]
  PROVE  FilledRows(rows, s, i, m, next)
<1> DEFINE o == rows[i]
           f == Filled(o, m)
<1>1. /\ rows \in Seq(Row) /\ (\A j \in DOMAIN rows : rows[j].id = j)
      /\ (\A j \in OpenIn(rows) :
            rows[j].type = "limit" /\ rows[j].price > 0 /\ rows[j].remaining > 0 /\ rows[j].seq =< s)
      /\ (\A j, k \in OpenIn(rows) : rows[j].seq = rows[k].seq => j = k)
  BY DEF RowsInv
<1>2. i \in DOMAIN rows BY DEF OpenIn
<1>3. o \in Row BY <1>1, <1>2
<1> HIDE DEF o
<1>4. FilledIs(o, m, f) BY <1>3, FilledRow
<1>5. /\ f \in Row /\ f.id = o.id /\ f.side = o.side /\ f.type = o.type /\ f.price = o.price /\ f.seq = o.seq
      /\ f.remaining = m.remaining
      /\ f.holdRemaining = (IF o.side = "buy" THEN o.price * m.remaining ELSE m.remaining)
      /\ f.status = (IF m.remaining = 0 THEN "filled" ELSE "partially_filled")
  BY <1>4 DEF FilledIs
<1> HIDE DEF f
<1>6. Open(f) <=> m.remaining # 0 BY <1>5 DEF Open, OpenStatuses
<1>7. next \in Seq(Row) /\ DOMAIN next = DOMAIN rows /\ Len(next) = Len(rows) /\ next[i] = f
      /\ \A j \in DOMAIN rows \ {i} : next[j] = rows[j]
  <2> DEFINE q == [rows EXCEPT ![i] = f]
  <2>1. q \in Seq(Row) /\ DOMAIN q = DOMAIN rows /\ Len(q) = Len(rows) /\ q[i] = f
        /\ \A j \in DOMAIN rows \ {i} : q[j] = rows[j]
    BY <1>1, <1>2, <1>5, ReplaceRow
  <2>2. next = q BY DEF f, o
  <2> QED BY <2>1, <2>2
<1>8. Covered(f)
  <2>1. CASE m.remaining = 0
    <3>1. o.price \in Nat BY <1>3 DEF Row
    <3> DEFINE z == m.remaining
    <3>2. o.price * z = 0 BY <2>1, <3>1
    <3> HIDE DEF z
    <3>3. f.holdRemaining = 0 BY <1>5, <2>1, <3>2 DEF z
    <3> QED BY <1>6, <2>1, <3>3 DEF Covered
  <2>2. CASE m.remaining # 0 BY <1>5, <1>6, <2>2 DEF Covered
  <2> QED BY <2>1, <2>2
<1>9. OpenIn(next) = IF m.remaining = 0 THEN OpenIn(rows) \ {i} ELSE OpenIn(rows)
  BY <1>2, <1>6, <1>7 DEF OpenIn
<1>10. \A j \in OpenIn(next) : j \in OpenIn(rows) /\ next[j].seq = rows[j].seq
  BY <1>5, <1>7, <1>9 DEF OpenIn, o
<1>11. RowsInv(next, s)
  <2>1. \A j \in DOMAIN next : next[j].id = j BY <1>1, <1>2, <1>5, <1>7 DEF o
  <2>2. ASSUME NEW j \in OpenIn(next)
        PROVE  next[j].type = "limit" /\ next[j].price > 0 /\ next[j].remaining > 0 /\ next[j].seq =< s
    <3>1. CASE j # i BY <1>1, <1>7, <1>10, <2>2, <3>1 DEF OpenIn
    <3>2. CASE j = i
      <4>1. m.remaining # 0 BY <1>9, <2>2, <3>2
      <4>2. m.remaining > 0 BY <4>1
      <4> QED BY <1>1, <1>5, <1>7, <3>2, <4>2 DEF o
    <3> QED BY <3>1, <3>2
  <2>3. \A j, k \in OpenIn(next) : next[j].seq = next[k].seq => j = k BY <1>1, <1>10
  <2> QED BY <1>7, <2>1, <2>2, <2>3 DEF RowsInv
<1> QED BY <1>7, <1>8, <1>9, <1>11 DEF FilledRows, f, o

\* The maker as the book keeps it after a fill.
MakerShape(o, p, qty, m) ==
  /\ m = RestingRow(Filled(o, m)) /\ m \in RestRow /\ m.id = o.id
  /\ m.remaining = o.remaining - qty /\ m.remaining \in Nat
  /\ m.filledQty \in Nat /\ m.filledQuote \in Nat

\* The book's maker after a fill is what the filled row rests as.
LEMMA SameResting ==
  ASSUME NEW o, o \in Row, NEW p, p \in Nat, NEW qty, qty \in Nat, qty =< o.remaining,
         NEW m, m = FillMaker(RestingRow(o), p, qty)
  PROVE  MakerShape(o, p, qty, m)
<1> DEFINE r == RestingRow(o)
           rem == r.remaining - qty
           fq == r.filledQty + qty
           fv == r.filledQuote + p * qty
           a == r.id
           b == r.acct
           c == r.side
           d == r.price
           e == r.qty
           g == r.seq
           m1 == [r EXCEPT !.remaining = rem]
           m2 == [m1 EXCEPT !.filledQty = fq]
           m3 == [m2 EXCEPT !.filledQuote = fv]
           Rec(u, v, w) == [id |-> a, acct |-> b, side |-> c, price |-> d, qty |-> e, remaining |-> u,
                            filledQty |-> v, filledQuote |-> w, seq |-> g]
           u0 == r.remaining
           v0 == r.filledQty
           w0 == r.filledQuote
<1>1. r \in RestRow /\ a = o.id /\ b = o.acct /\ c = o.side /\ d = o.price /\ e = o.qty /\ g = o.seq
      /\ r.remaining = o.remaining /\ r.filledQty = o.filledQty /\ r.filledQuote = o.filledQuote
  BY RestingParts
<1>2. r = Rec(u0, v0, w0)
  <2>1. r = [id |-> o.id, acct |-> o.acct, side |-> o.side, price |-> o.price, qty |-> o.qty,
             remaining |-> o.remaining, filledQty |-> o.filledQty, filledQuote |-> o.filledQuote, seq |-> o.seq]
    BY DEF RestingRow
  <2> HIDE DEF r
  <2> QED BY <1>1, <2>1
<1>3. m = m3
  <2>1. m = [r EXCEPT !.remaining = @ - qty, !.filledQty = @ + qty, !.filledQuote = @ + p * qty] BY DEF FillMaker
  <2> HIDE DEF r
  <2> QED BY <2>1
<1>4. o.remaining \in Nat /\ o.filledQty \in Nat /\ o.filledQuote \in Nat BY DEF Row
<1>5. rem = o.remaining - qty /\ rem \in Nat /\ fq \in Nat /\ fv \in Nat
  <2>1. p * qty \in Nat BY Z3
  <2> QED BY <1>1, <1>4, <2>1
<1> HIDE DEF rem, fq, fv, a, b, c, d, e, g, r, u0, v0, w0
<1>6. m1 = Rec(rem, v0, w0) BY <1>2
<1> HIDE DEF m1
<1>7. m2 = Rec(rem, fq, w0) BY <1>6
<1> HIDE DEF m2
<1>8. m3 = Rec(rem, fq, fv) BY <1>7
<1> HIDE DEF m3
<1>9. m.remaining = rem /\ m.filledQty = fq /\ m.filledQuote = fv /\ m.id = a BY <1>3, <1>8
<1> DEFINE f == Filled(o, m)
<1>10. FilledIs(o, m, f) BY <1>5, <1>9, FilledRow
<1>11. /\ f \in Row /\ f.id = a /\ f.acct = b /\ f.side = c /\ f.price = d /\ f.qty = e /\ f.seq = g
       /\ f.filledQty = fq /\ f.filledQuote = fv /\ f.remaining = rem
  BY <1>1, <1>9, <1>10 DEF FilledIs
<1> HIDE DEF f
<1>12. RestingRow(f) = Rec(rem, fq, fv) BY <1>11 DEF RestingRow
<1>13. m = RestingRow(f) BY <1>3, <1>8, <1>12
<1>14. m \in RestRow BY <1>11, <1>13, RestingParts
<1> QED BY <1>1, <1>5, <1>9, <1>13, <1>14 DEF MakerShape, f

\* What a fill takes is within what both sides have left.
Fits(row, t, p, rem, qty) ==
  /\ qty \in Nat /\ qty =< rem
  /\ IF MarketBuy(row) THEN p * qty =< t.quoteRem ELSE qty =< t.remaining

\* A fill takes no more than the maker has and the taker wants.
LEMMA FillFits ==
  ASSUME NEW st, NEW cfg, NEW row, MatchState(st, cfg, row), cfg.qtyStep \in Nat \ {0},
         NEW p, p \in Nat, p > 0, NEW maker, maker.remaining \in Nat
  PROVE  Fits(row, st.t, p, maker.remaining, FillQty(st, p, maker))
<1> DEFINE t == st.t
           step == cfg.qtyStep
           w == Wanted(st, p)
           rem == maker.remaining
           qty == FillQty(st, p, maker)
<1>1. /\ st.cfg = cfg /\ t.o = row /\ t.remaining \in Nat /\ t.quoteRem \in Nat
  <2> DEFINE opp == st.opp
             byID == st.byID
             tr == st.trades
             band == st.band
  <2>1. st = [cfg |-> cfg, opp |-> opp, byID |-> byID, trades |-> tr, t |-> t, band |-> band]
        /\ t.o = row /\ t.remaining \in Nat /\ t.quoteRem \in Nat
    BY DEF MatchState, InFlight
  <2> HIDE DEF opp, byID, tr, band, t
  <2> QED BY <2>1
<1>2. w = IF MarketBuy(row) THEN FloorToStep(t.quoteRem \div p, step) ELSE t.remaining
  BY <1>1 DEF Wanted
<1>3. qty = IF rem < w THEN rem ELSE w BY DEF FillQty
<1> HIDE DEF w, qty
<1>4. w \in Nat /\ IF MarketBuy(row) THEN p * w =< t.quoteRem ELSE w =< t.remaining
  <2>1. CASE MarketBuy(row)
    <3> DEFINE x == t.quoteRem
               v == FloorToStep(x \div p, step)
    <3>1. x \in Nat /\ step \in Nat /\ step > 0 BY <1>1
    <3> HIDE DEF x, step
    <3>2. v \in Nat /\ p * v =< x BY <3>1, BudgetHolds
    <3> HIDE DEF v
    <3>3. w = v BY <1>2, <2>1 DEF v, x
    <3> QED BY <2>1, <3>2, <3>3 DEF x
  <2>2. CASE ~MarketBuy(row) BY <1>1, <1>2, <2>2
  <2> QED BY <2>1, <2>2
<1>5. qty \in Nat /\ qty =< rem /\ qty =< w BY <1>3, <1>4
<1>6. CASE MarketBuy(row)
  <2>1. p * qty \in Nat /\ p * w \in Nat /\ p * qty =< p * w
    <3> HIDE DEF rem
    <3> QED BY ONLY p \in Nat, <1>4, <1>5, Z3
  <2>2. p * w =< t.quoteRem BY <1>4, <1>6
  <2> DEFINE u == p * qty
             v == p * w
  <2> HIDE DEF u, v
  <2>3. u \in Nat /\ v \in Nat /\ u =< v /\ v =< t.quoteRem BY <2>1, <2>2 DEF u, v
  <2>4. u =< t.quoteRem BY <1>1, <2>3
  <2> QED BY <1>5, <1>6, <2>4 DEF Fits, u, qty, rem
<1>7. CASE ~MarketBuy(row) BY <1>1, <1>4, <1>5, <1>7 DEF Fits, qty, rem
<1> QED BY <1>6, <1>7

\* The taker after a fill.
TakerAfter(row, t, p, qty, u) ==
  /\ InFlight(u, row)
  /\ u.remaining = IF MarketBuy(row) THEN t.remaining ELSE t.remaining - qty
  /\ u.quoteRem = IF MarketBuy(row) THEN t.quoteRem - p * qty ELSE t.quoteRem
  /\ u.done = t.done /\ u.stop = t.stop

\* The taker after a fill is still one in flight.
LEMMA FilledInFlight ==
  ASSUME NEW row, NEW t, InFlight(t, row), NEW p, p \in Nat, NEW rem, NEW qty, Fits(row, t, p, rem, qty),
         NEW u, u = FilledTaker(t, MarketBuy(row), qty, p * qty)
  PROVE  TakerAfter(row, t, p, qty, u)
<1> DEFINE buys == MarketBuy(row)
           quote == p * qty
           rm == t.remaining
           qr == t.quoteRem
           fq == t.filledQty
           fv == t.filledQuote
           sp == t.stop
           dn == t.done
           nq == fq + qty
           nv == fv + quote
           nr == IF buys THEN qr - quote ELSE qr
           nm == IF buys THEN rm ELSE rm - qty
           ta == [t EXCEPT !.filledQty = nq]
           tb == [ta EXCEPT !.filledQuote = nv]
           tc == [tb EXCEPT !.quoteRem = nr]
           td == [tc EXCEPT !.remaining = nm]
<1>1. t = TakerRec(row, rm, qr, fq, fv, sp, dn) /\ rm \in Nat /\ qr \in Nat /\ fq \in Nat /\ fv \in Nat /\ sp \in Reasons
      /\ (buys => qr + fv = row.quoteQty)
  BY DEF InFlight, TakerRec
<1>2. qty \in Nat /\ IF buys THEN quote =< qr ELSE qty =< rm BY DEF Fits
<1>3. quote \in Nat BY <1>2, Z3
<1>4. u = td
  <2>1. u = [t EXCEPT !.filledQty = @ + qty, !.filledQuote = @ + quote,
              !.quoteRem = IF buys THEN @ - quote ELSE @, !.remaining = IF buys THEN @ ELSE @ - qty]
    BY DEF FilledTaker
  <2> HIDE DEF quote, buys
  <2> QED BY <2>1
<1> HIDE DEF rm, qr, fq, fv, sp, dn, buys, quote
<1>5. nq \in Nat /\ nv \in Nat /\ nr \in Nat /\ nm \in Nat BY <1>1, <1>2, <1>3
<1> HIDE DEF nq, nv, nr, nm
<1>6. ta = TakerRec(row, rm, qr, nq, fv, sp, dn) BY <1>1 DEF TakerRec
<1> HIDE DEF ta
<1>7. tb = TakerRec(row, rm, qr, nq, nv, sp, dn) BY <1>6 DEF TakerRec
<1> HIDE DEF tb
<1>8. tc = TakerRec(row, rm, nr, nq, nv, sp, dn) BY <1>7 DEF TakerRec
<1> HIDE DEF tc
<1>9. u = TakerRec(row, nm, nr, nq, nv, sp, dn) BY <1>4, <1>8 DEF TakerRec
<1>10. u.remaining = nm /\ u.quoteRem = nr /\ u.filledQty = nq /\ u.filledQuote = nv /\ u.stop = sp /\ u.done = dn
  BY <1>9 DEF TakerRec
<1>12. buys => nr + nv = row.quoteQty
  <2>1. buys => nr = qr - quote BY DEF nr
  <2>2. nv = fv + quote BY DEF nv
  <2> QED BY <1>1, <1>3, <2>1, <2>2
<1>11. InFlight(u, row) BY <1>1, <1>5, <1>9, <1>10, <1>12 DEF InFlight, TakerRec, buys
<1> QED BY <1>10, <1>11 DEF TakerAfter, nm, nr, rm, qr, quote, buys, sp, dn

\* A fill takes of the hold what the settlement takes.
LEMMA FilledHold ==
  ASSUME NEW row, row \in Row, NEW t, InFlight(t, row), NEW p, p \in Nat, NEW qty, qty \in Nat,
         NEW u, TakerAfter(row, t, p, qty, u),
         NEW taker, taker.side = row.side, taker.type = row.type, taker.price = row.price
  PROVE  /\ TakerHold(row, u) = TakerHold(row, t) - Spent(taker, p, qty)
         /\ TakerHold(row, t) \in Nat /\ Spent(taker, p, qty) \in Nat
<1> DEFINE rm == t.remaining
           qr == t.quoteRem
           c == row.price
           u1 == u.remaining
           u2 == u.quoteRem
<1>1. rm \in Nat /\ qr \in Nat BY DEF InFlight
<1>2. row.side \in {"buy", "sell"} /\ row.type \in {"limit", "market"} /\ c \in Nat BY DEF Row, Sides
<1>3. /\ u1 = IF MarketBuy(row) THEN rm ELSE rm - qty
      /\ u2 = IF MarketBuy(row) THEN qr - p * qty ELSE qr
  BY DEF TakerAfter
<1>4. \A v \in Nat, w \in Nat : v * w \in Nat BY Z3
<1>5. CASE row.side = "sell"
  <2>1. ~MarketBuy(row) BY <1>5 DEF MarketBuy
  <2>2. TakerHold(row, u) = u1 /\ TakerHold(row, t) = rm /\ Spent(taker, p, qty) = qty BY <1>5 DEF TakerHold, Spent
  <2> HIDE DEF u1, rm
  <2> QED BY <1>1, <1>3, <2>1, <2>2
<1>6. CASE row.side # "sell" /\ row.type = "limit"
  <2>1. ~MarketBuy(row) BY <1>6 DEF MarketBuy
  <2>2. TakerHold(row, u) = c * u1 /\ TakerHold(row, t) = c * rm /\ Spent(taker, p, qty) = c * qty
    BY <1>6 DEF TakerHold, Spent
  <2> HIDE DEF u1, rm, c
  <2>3. c * (rm - qty) = c * rm - c * qty BY <1>1, <1>2, Distribute
  <2>4. u1 = rm - qty BY <1>3, <2>1
  <2>5. c * rm \in Nat /\ c * qty \in Nat BY <1>1, <1>2, <1>4
  <2>6. TakerHold(row, u) = c * rm - c * qty BY <2>2, <2>3, <2>4
  <2> QED BY <2>2, <2>5, <2>6
<1>7. CASE row.side # "sell" /\ row.type # "limit"
  <2>1. MarketBuy(row) BY <1>2, <1>7 DEF MarketBuy
  <2>2. TakerHold(row, u) = u2 /\ TakerHold(row, t) = qr /\ Spent(taker, p, qty) = p * qty BY <1>7 DEF TakerHold, Spent
  <2>3. p * qty \in Nat BY <1>4
  <2> HIDE DEF u2, qr
  <2> QED BY <1>1, <1>3, <2>1, <2>2, <2>3
<1> QED BY <1>5, <1>6, <1>7

\* The numbered rows of a market.
LEMMA OpenRows ==
  ASSUME NEW rows, NEW s, RowsInv(rows, s)
  PROVE  RowsAre(rows, OpenIn(rows))
<1>1. rows \in Seq(Row) /\ \A i \in OpenIn(rows) : i \in DOMAIN rows /\ rows[i].id = i BY DEF RowsInv, OpenIn
<1>2. IsFiniteSet(OpenIn(rows))
  <2>1. Len(rows) \in Nat /\ OpenIn(rows) \subseteq 1..Len(rows) BY <1>1
  <2>2. IsFiniteSet(1..Len(rows)) BY <2>1, FS_Interval
  <2> QED BY <2>1, <2>2, FS_Subset
<1> QED BY <1>1, <1>2 DEF RowsAre

\* The maker at the head of the other side.
MakerMet(row, st, x, i) ==
  LET p == BestPrice(st.opp)
      o == x.rows[i]
      maker == Head(st.opp.levels[p].orders)
  IN  /\ i \in OpenIn(x.rows) /\ i \in DOMAIN x.rows /\ i # row.id
      /\ o \in Row /\ o.id = i /\ o.side = Opposite(row.side) /\ o.price = p /\ o.type = "limit"
      /\ Open(o) /\ Covered(o) /\ o.remaining \in Nat
      /\ maker = RestingRow(o) /\ maker.id = i /\ maker.remaining = o.remaining /\ p \in Nat /\ p > 0
      /\ HeadInv(Opposite(row.side), st.opp, x.rows, OpenIn(x.rows), i)

\* The maker a match meets is an open row.
LEMMA MeetMaker ==
  ASSUME NEW b, NEW row, NEW s, NEW st, NEW x, Flight(b, row, s, st, x), st.opp.prices # << >>
  PROVE  \E i \in OpenIn(x.rows) : MakerMet(row, st, x, i)
<1> DEFINE p == BestPrice(st.opp)
           q == Opposite(row.side)
           ids == OpenIn(x.rows)
           rows == x.rows
           maker == Head(st.opp.levels[p].orders)
<1>1. /\ SideInv(q, st.opp, rows, ids) /\ RowsInv(rows, s) /\ ~Open(rows[row.id])
      /\ \A i \in DOMAIN rows \ {row.id} : Covered(rows[i])
  BY DEF Flight, RowsBehind
<1>2. PICK i \in ids : HeadInv(q, st.opp, rows, ids, i) BY <1>1, HeadOfSide
<1>3. rows[i].side = q /\ rows[i].price = p /\ maker = RestingRow(rows[i]) BY <1>2 DEF HeadInv
<1>4. i \in DOMAIN rows /\ Open(rows[i]) BY DEF OpenIn
<1>5. i # row.id BY <1>1, <1>4
<1>6. rows[i] \in Row /\ rows[i].id = i /\ rows[i].type = "limit" /\ rows[i].price > 0
  BY <1>1, <1>4 DEF RowsInv
<1>7. rows[i].remaining \in Nat /\ rows[i].price \in Nat
  <2> DEFINE o == rows[i]
  <2>1. o \in Row BY <1>6
  <2> HIDE DEF o
  <2>2. o.remaining \in Nat /\ o.price \in Nat BY <2>1 DEF Row
  <2> QED BY <2>2 DEF o
<1>8. maker.id = i /\ maker.remaining = rows[i].remaining BY SMTT(60), <1>3, <1>6, RestingParts
<1> HIDE DEF p, maker, q
<1>9. MakerMet(row, st, x, i) BY <1>1, <1>2, <1>3, <1>4, <1>5, <1>6, <1>7, <1>8 DEF MakerMet, p, maker, q
<1> QED BY <1>9

\* The maker at the head is filled, and the fill is settled.
FilledTurn(b, row, s, st, x, i, p, m, qty, next, y) ==
  /\ Flight(b, row, s, next, y)
  /\ HeadInv(Opposite(row.side), st.opp, x.rows, OpenIn(x.rows), i) /\ x.rows[i].remaining \in Nat
  /\ p = BestPrice(st.opp) /\ p \in Nat /\ p > 0 /\ qty \in Nat
  /\ qty = IF x.rows[i].remaining < Wanted(st, p) THEN x.rows[i].remaining ELSE Wanted(st, p)
  /\ m.remaining \in Nat /\ m.remaining = x.rows[i].remaining - qty /\ m.filledQty \in Nat /\ m.filledQuote \in Nat
  /\ FilledRows(x.rows, s, i, m, y.rows)
  /\ TakerAfter(row, st.t, p, qty, next.t) /\ next.band = st.band
  /\ next.byID = IF m.remaining = 0 THEN st.byID \ {i} ELSE st.byID
  /\ m.remaining # 0 => next.opp.prices = st.opp.prices
  /\ y.trades = Append(x.trades, [maker |-> i, taker |-> row.id, price |-> p, qty |-> qty, quote |-> p * qty, seq |-> s + 1])
  /\ \E tr : next.trades = Append(st.trades, tr) /\ y = SettleTrade(x, tr, s + 1)

\* The sides after a fill.
SidesFilled(b, row, st, x, i, p, m, qty, next) ==
  LET hit == Hit(st, p, m, qty)
      ids == OpenIn(x.rows)
  IN  /\ m.remaining = 0 => SideInv(Opposite(row.side), PopHead(hit, p), next, ids \ {i})
                            /\ SideInv(row.side, b[row.side], next, ids \ {i})
      /\ m.remaining # 0 => SideInv(Opposite(row.side), hit, next, ids) /\ SideInv(row.side, b[row.side], next, ids)

\* Both sides after a fill hold the filled rows.
LEMMA FillSides ==
  ASSUME NEW b, NEW row, row \in Row, NEW s, NEW st, NEW x, Flight(b, row, s, st, x),
         NEW i, MakerMet(row, st, x, i), NEW p, p = BestPrice(st.opp), NEW qty, qty \in Nat, NEW m,
         MakerShape(x.rows[i], p, qty, m), NEW next, FilledRows(x.rows, s, i, m, next)
  PROVE  SidesFilled(b, row, st, x, i, p, m, qty, next)
<1> DEFINE q == Opposite(row.side)
           rows == x.rows
           ids == OpenIn(rows)
           hit == Hit(st, p, m, qty)
           own == b[row.side]
           opp == st.opp
           z == opp.levels[p].qty - qty
           o == rows[i]
<1>1. SideInv(q, opp, rows, ids) /\ SideInv(row.side, own, rows, ids) /\ RowsAre(rows, ids)
  BY OpenRows DEF Flight, RowsBehind
<1>2. /\ i \in ids /\ i \in DOMAIN rows /\ o \in Row /\ o.id = i /\ o.side = q /\ o.price = p
      /\ Head(opp.levels[p].orders) = RestingRow(o)
  BY DEF MakerMet
<1>3. /\ next[i] = Filled(o, m) /\ \A j \in DOMAIN rows \ {i} : next[j] = rows[j]
  BY DEF FilledRows
<1>4. m = RestingRow(Filled(o, m)) /\ m.filledQty \in Nat /\ m.filledQuote \in Nat /\ m.remaining \in Nat
  BY DEF MakerShape
<1>5. FilledIs(o, m, Filled(o, m)) BY <1>2, <1>4, FilledRow
<1>6. /\ next[i] \in Row /\ next[i].id = i /\ next[i].side = q /\ next[i].price = p /\ next[i].seq = rows[i].seq
      /\ next[i].remaining = m.remaining
  BY <1>2, <1>3, <1>5 DEF FilledIs
<1>17. z = opp.levels[p].qty - (rows[i].remaining - next[i].remaining) /\ IsFiniteSet(ids)
  <2>1. m.remaining = o.remaining - qty BY DEF MakerShape
  <2>2. o.remaining \in Nat /\ qty \in Nat BY <1>2 DEF Row
  <2>3. o.remaining - (o.remaining - qty) = qty BY <2>2
  <2>4. z = opp.levels[p].qty - (o.remaining - m.remaining) BY <2>1, <2>3
  <2> QED BY <1>1, <1>6, <2>4 DEF RowsAre
<1>7. m = RestingRow(next[i]) BY <1>3, <1>4
<1>8. hit = [opp EXCEPT !.levels[p] = [orders |-> <<m>> \o Tail(opp.levels[p].orders), qty |-> z]]
  BY DEF Hit
<1>9. \A j \in ids \ {i} : next[j] = rows[j] BY <1>3 DEF OpenIn
<1>10. row.side # q BY DEF Row, Sides, Opposite
<1> HIDE DEF hit, q, rows, ids, own, opp, z, o
<1>11. o = rows[i] /\ Head(opp.levels[p].orders) = RestingRow(rows[i]) /\ rows[i].side = q /\ p = rows[i].price
  BY <1>2 DEF o
<1>18. NewHeadIs(opp, p, m, z, hit) BY ONLY SMTT(60), <1>8 DEF NewHeadIs
<1>12. HitKeeps(q, opp, p, hit, next, ids, i)
  BY ONLY <1>1, <1>2, <1>6, <1>7, <1>9, <1>11, <1>17, <1>18, FillSide
<1>13. SideInv(q, hit, next, ids) /\ (m.remaining = 0 => SideInv(q, PopHead(hit, p), next, ids \ {i}))
  BY <1>6, <1>12 DEF HitKeeps
<1>14. OfSide(next, ids, row.side) = OfSide(rows, ids, row.side)
       /\ OfSide(next, ids \ {i}, row.side) = OfSide(rows, ids, row.side)
  <2>1. rows[i].side # row.side /\ next[i].side # row.side BY <1>6, <1>10, <1>11
  <2> QED BY <1>9, <2>1 DEF OfSide
<1>15. \A j \in OfSide(rows, ids, row.side) : RestingRow(next[j]) = RestingRow(rows[j])
  <2>1. \A j \in OfSide(rows, ids, row.side) : j \in ids \ {i} BY <1>10, <1>11 DEF OfSide
  <2> QED BY <1>9, <2>1
<1>16. SideInv(row.side, own, next, ids) /\ SideInv(row.side, own, next, ids \ {i})
  BY ONLY <1>1, <1>14, <1>15, <1>17, SideStays
<1> QED BY <1>13, <1>16 DEF SidesFilled, hit, q, rows, ids, own

\* The match's state after a fill.
FillMatchIs(st, cfg, row, p, maker, qty, next) ==
  /\ MatchState(next, cfg, row)
  /\ TakerAfter(row, st.t, p, qty, next.t)
  /\ next.trades = Append(st.trades, FillTrade(maker, p, qty)) /\ next.band = st.band

\* The match after a fill.
LEMMA FillMatch ==
  ASSUME NEW st, NEW cfg, NEW row, MatchState(st, cfg, row), NEW p, p \in Nat, NEW maker, maker.remaining \in Nat,
         NEW qty, qty \in Nat, Fits(row, st.t, p, maker.remaining, qty),
         FillMaker(maker, p, qty) \in RestRow,
         NEW next, next = FillResult(st, cfg, row, p, maker, qty)
  PROVE  FillMatchIs(st, cfg, row, p, maker, qty, next)
<1> DEFINE m == FillMaker(maker, p, qty)
           hit == Hit(st, p, m, qty)
           o2 == IF m.remaining = 0 THEN PopHead(hit, p) ELSE hit
           i2 == IF m.remaining = 0 THEN st.byID \ {m.id} ELSE st.byID
           quote == p * qty
           tr == FillTrade(maker, p, qty)
           q2 == Append(st.trades, tr)
           t2 == FilledTaker(st.t, MarketBuy(row), qty, quote)
           band == st.band
<1>1. st.trades \in Seq(Trade) /\ InFlight(st.t, row) BY DEF MatchState
<1>2. quote \in Nat BY Z3
<1>3. tr \in Trade
  <2>1. tr = [maker |-> m, price |-> p, qty |-> qty, quote |-> quote] BY DEF FillTrade
  <2> HIDE DEF m, quote, tr
  <2> QED BY <1>2, <2>1 DEF Trade, m
<1>4. TakerAfter(row, st.t, p, qty, t2) BY <1>1, FilledInFlight
<1>5. next = [cfg |-> cfg, opp |-> o2, byID |-> i2, trades |-> q2, t |-> t2, band |-> band] BY DEF FillResult
<1>6. q2 \in Seq(Trade)
  <2> HIDE DEF tr
  <2> QED BY <1>1, <1>3
<1> HIDE DEF o2, i2, q2, t2, band, tr
<1>7. next.opp = o2 /\ next.byID = i2 /\ next.trades = q2 /\ next.t = t2 /\ next.band = band BY <1>5
<1>8. MatchState(next, cfg, row) BY SMTT(60), <1>4, <1>5, <1>6, <1>7 DEF MatchState, TakerAfter
<1> QED BY <1>4, <1>7, <1>8 DEF FillMatchIs, q2, tr, t2, quote, band

FillGoes(b, row, s, st, x, p, maker) ==
  \E i, m, qty, y : FilledTurn(b, row, s, st, x, i, p, m, qty, Fill(st, p, maker), y) /\ maker.acct = x.rows[i].acct

\* A fill and its settlement keep the book, the rows and the money in step.
LEMMA FillFlight ==
  ASSUME NEW b, NEW row, row \in Row, NEW s, s \in Nat, NEW st, NEW x, Flight(b, row, s, st, x),
         b.cfg.qtyStep \in Nat \ {0}, st.opp.prices # << >>,
         NEW p, p = BestPrice(st.opp), NEW maker, maker = Head(st.opp.levels[p].orders),
         row.type = "limit" => Crosses(row.side, row.price, p)
  PROVE  FillGoes(b, row, s, st, x, p, maker)
<1>1. PICK i \in OpenIn(x.rows) : MakerMet(row, st, x, i) BY SMTT(60), MeetMaker
<1> DEFINE o == x.rows[i]
           cfg == b.cfg
           qty == FillQty(st, p, maker)
           m == FillMaker(maker, p, qty)
           tr == FillTrade(maker, p, qty)
           next == FillResult(st, cfg, row, p, maker, qty)
           y == SettleTrade(x, tr, s + 1)
           rem == maker.remaining
           rows2 == [x.rows EXCEPT ![i] = Filled(o, m)]
           ids == OpenIn(x.rows)
           hit == Hit(st, p, m, qty)
<1>2. /\ i \in DOMAIN x.rows /\ i # row.id
      /\ o \in Row /\ o.id = i /\ o.side = Opposite(row.side) /\ o.price = p /\ o.type = "limit"
      /\ Open(o) /\ Covered(o) /\ o.remaining \in Nat
      /\ maker = RestingRow(o) /\ maker.id = i /\ rem = o.remaining /\ p \in Nat /\ p > 0
      /\ HeadInv(Opposite(row.side), st.opp, x.rows, ids, i)
  BY <1>1 DEF MakerMet
<1>3. /\ MatchState(st, cfg, row) /\ RowsBehind(x, row, s) /\ TakerIs(x.taker, row, s, TakerHold(row, st.t))
      /\ st.byID = ids /\ MoneyInv(Live(x), x.bal, x.revenue) /\ (x.failed \/ Solvent(x.bal))
  BY DEF Flight
<1>4. /\ RowsInv(x.rows, s) /\ x.rows \in Seq(Row) /\ Len(x.rows) = row.id /\ ~Open(x.rows[row.id])
      /\ \A j \in DOMAIN x.rows \ {row.id} : Covered(x.rows[j])
  BY <1>3 DEF RowsBehind, RowsInv
<1>5. /\ x.taker \in Row /\ x.taker.id = row.id /\ x.taker.acct = row.acct /\ x.taker.side = row.side
      /\ x.taker.type = row.type /\ x.taker.price = row.price /\ x.taker.qty = row.qty
      /\ x.taker.quoteQty = row.quoteQty /\ x.taker.seq = s + 1 /\ x.taker.holdRemaining = TakerHold(row, st.t)
  BY SMTT(60), <1>3 DEF TakerIs
<1>6. Fits(row, st.t, p, rem, qty) BY SMTT(60), <1>2, <1>3, FillFits
<1>7. qty \in Nat /\ qty =< o.remaining BY SMTT(60), <1>2, <1>6 DEF Fits
<1>28. qty = IF o.remaining < Wanted(st, p) THEN o.remaining ELSE Wanted(st, p) BY SMTT(60), <1>2 DEF FillQty
<1>29. maker.acct = o.acct BY <1>2, RestingParts
<1>30. x.taker.id = row.id /\ x.rows[i].id = i
  <2>1. x.taker.id = row.id BY <1>3 DEF TakerIs
  <2> QED BY <1>2, <2>1
<1>8. Fill(st, p, maker) = next BY <1>3, FillState
<1> HIDE DEF qty, o, cfg
<1>9. MakerShape(o, p, qty, m) BY SMTT(60), <1>2, <1>7, SameResting
<1>10. /\ m = RestingRow(Filled(o, m)) /\ m \in RestRow /\ m.id = i
       /\ m.remaining = o.remaining - qty /\ m.remaining \in Nat /\ m.filledQty \in Nat /\ m.filledQuote \in Nat
  BY <1>2, <1>9 DEF MakerShape
<1> HIDE DEF m
<1>11. FilledRows(x.rows, s, i, m, rows2) BY SMTT(60), <1>4, <1>10, RowsFilled DEF o
<1>12. tr.maker = m /\ tr.price = p /\ tr.qty = qty /\ tr.quote = p * qty BY DEF FillTrade, m
<1>13. row.id \in DOMAIN x.rows
  <2>1. row.id \in Nat BY DEF Row
  <2>2. DOMAIN x.rows = 1..row.id BY <1>4
  <2>3. i \in 1..row.id BY <1>2, <2>2
  <2> QED BY <2>1, <2>2, <2>3
<1> HIDE DEF tr
<1>31. y.trades = Append(x.trades, [maker |-> i, taker |-> row.id, price |-> p, qty |-> qty, quote |-> p * qty, seq |-> s + 1])
  <2>1. tr.maker.id = i BY <1>10, <1>12
  <2> DEFINE rec(u, v) == [maker |-> u, taker |-> v, price |-> tr.price, qty |-> tr.qty, quote |-> tr.quote, seq |-> s + 1]
  <2>2. y.trades = Append(x.trades, rec(x.rows[tr.maker.id].id, x.taker.id)) BY SMTT(60) DEF SettleTrade
  <2> HIDE DEF y
  <2> QED BY <1>12, <1>30, <2>1, <2>2
<1>14. SettleGiven(x, tr, i, qty)
  <2>1. x.taker.side = "buy" /\ x.taker.type = "limit" => x.taker.price >= o.price
    <3>1. row.price \in Nat BY DEF Row
    <3> QED BY <1>2, <1>5, <3>1 DEF Crosses
  <2> QED BY <1>2, <1>3, <1>4, <1>5, <1>7, <1>10, <1>12, <1>13, <2>1 DEF SettleGiven, o
<1>15. SettleKeeps(x, tr, s + 1, i, qty) BY SMTT(60), <1>14, SettleStep
<1>16. /\ y.rows = rows2 /\ y.taker = TakerSpent(x.taker, p, qty)
       /\ MoneyInv(Live(y), y.bal, y.revenue) /\ (y.failed \/ Solvent(y.bal))
  BY <1>2, <1>12, <1>15 DEF SettleKeeps, o
<1> HIDE DEF y, rows2, next
<1>17. /\ MatchState(next, cfg, row) /\ TakerAfter(row, st.t, p, qty, next.t) /\ next.trades = Append(st.trades, tr)
       /\ next.band = st.band
  <2>1. m = FillMaker(maker, p, qty) /\ maker.remaining \in Nat /\ rem = maker.remaining BY SMTT(60), <1>2 DEF m
  <2>2. next = FillResult(st, cfg, row, p, maker, qty) BY DEF next
  <2>3. FillMaker(maker, p, qty) \in RestRow BY <1>10, <2>1
  <2>4. FillMatchIs(st, cfg, row, p, maker, qty, next) BY ONLY SMTT(60), <1>2, <1>3, <1>6, <1>7, <2>1, <2>2, <2>3, FillMatch
  <2> QED BY <2>4 DEF FillMatchIs, tr
<1>18. /\ TakerHold(row, next.t) = TakerHold(row, st.t) - Spent(x.taker, p, qty)
       /\ TakerHold(row, st.t) \in Nat /\ Spent(x.taker, p, qty) \in Nat
  <2>1. InFlight(st.t, row) BY <1>3 DEF MatchState
  <2> QED BY ZenonT(60), <1>2, <1>5, <1>7, <1>17, <2>1, FilledHold
<1>19. TakerIs(y.taker, row, s, TakerHold(row, next.t))
  <2> DEFINE w == Spent(x.taker, p, qty)
             k == [x.taker EXCEPT !.holdRemaining = @ - w]
  <2>1. y.taker = k BY <1>16 DEF TakerSpent
  <2>2. w \in Int BY <1>18
  <2>4. TakerHold(row, next.t) = x.taker.holdRemaining - w BY <1>5, <1>18
  <2> HIDE DEF w
  <2>3. SpentIs(x.taker, k, w) BY <1>5, <2>2, SpentRow
  <2> HIDE DEF k
  <2> QED BY <1>5, <2>1, <2>3, <2>4 DEF SpentIs, TakerIs
<1>20. /\ RowsInv(rows2, s) /\ rows2[i] = Filled(o, m) /\ Covered(rows2[i]) /\ DOMAIN rows2 = DOMAIN x.rows
       /\ Len(rows2) = Len(x.rows) /\ (\A j \in DOMAIN x.rows \ {i} : rows2[j] = x.rows[j])
       /\ OpenIn(rows2) = IF m.remaining = 0 THEN ids \ {i} ELSE ids
  BY <1>11 DEF FilledRows, o
<1>21. RowsBehind(y, row, s)
  <2>1. rows2[row.id] = x.rows[row.id] BY <1>2, <1>13, <1>20
  <2>2. \A j \in DOMAIN rows2 \ {row.id} : Covered(rows2[j]) BY <1>4, <1>20
  <2> QED BY SMTT(60), <1>4, <1>16, <1>20, <2>1, <2>2 DEF RowsBehind
<1>32. hit.prices = st.opp.prices
  <2> DEFINE opp == st.opp
             pr == opp.prices
             lv == opp.levels
  <2>1. SideInv(Opposite(row.side), opp, x.rows, OpenIn(x.rows)) BY DEF Flight
  <2>2. opp = [prices |-> pr, levels |-> lv] BY <2>1 DEF SideInv
  <2> HIDE DEF pr, lv, opp
  <2>3. hit = [opp EXCEPT !.levels[p] = [orders |-> <<m>> \o Tail(opp.levels[p].orders), qty |-> opp.levels[p].qty - qty]]
    BY DEF hit, Hit, opp
  <2> HIDE DEF hit
  <2>4. hit.prices = opp.prices BY <2>2, <2>3
  <2> QED BY <2>4 DEF opp
<1>22. SidesFilled(b, row, st, x, i, p, m, qty, rows2) BY <1>1, <1>7, <1>9, <1>11, FillSides DEF o
<1> HIDE DEF hit, ids
<1>23. /\ next.opp = IF m.remaining = 0 THEN PopHead(hit, p) ELSE hit
       /\ next.byID = IF m.remaining = 0 THEN st.byID \ {m.id} ELSE st.byID
  BY DEF next, FillResult, hit, m
<1>24. next.byID = OpenIn(y.rows) BY <1>3, <1>10, <1>16, <1>20, <1>23
<1>25. SideInv(Opposite(row.side), next.opp, y.rows, OpenIn(y.rows)) /\ SideInv(row.side, b[row.side], y.rows, OpenIn(y.rows))
  <2>1. CASE m.remaining = 0 BY <1>16, <1>20, <1>22, <1>23, <2>1 DEF SidesFilled, hit, ids
  <2>2. CASE m.remaining # 0 BY SMTT(60), <1>16, <1>20, <1>22, <1>23, <2>2 DEF SidesFilled, hit, ids
  <2> QED BY <2>1, <2>2
<1>26. Flight(b, row, s, next, y) BY <1>16, <1>17, <1>19, <1>21, <1>24, <1>25 DEF Flight, cfg
<1>27. Fill(st, p, maker) = next BY <1>8 DEF qty
<1>33. m.remaining # 0 => next.opp.prices = st.opp.prices BY <1>23, <1>32
<1>34. next.byID = IF m.remaining = 0 THEN st.byID \ {i} ELSE st.byID BY <1>10, <1>23
<1>35. FilledRows(x.rows, s, i, m, y.rows) BY <1>11, <1>16
<1>36. \E z : next.trades = Append(st.trades, z) /\ y = SettleTrade(x, z, s + 1) BY SMTT(60), <1>17 DEF y
<1>37. FilledTurn(b, row, s, st, x, i, p, m, qty, next, y)
  BY <1>2, <1>7, <1>10, <1>17, <1>26, <1>28, <1>31, <1>33, <1>34, <1>35, <1>36 DEF FilledTurn, o, ids
<1> HIDE DEF m
<1> QED BY <1>27, <1>29, <1>37 DEF o, FillGoes

\* One turn of the match: it is over, it stops, or the head trades.
Idle(st) == st.t.done \/ Exhausted(st.t) \/ st.opp.prices = << >>
StopsFor(row, st, reason) ==
  \/ reason \in {"price_protection", "self_trade"}
  \/ reason = "" /\ ((row.type = "limit" /\ ~Crosses(row.side, row.price, BestPrice(st.opp)))
                     \/ Wanted(st, BestPrice(st.opp)) = 0)
Stopping(b, row, s, st, x, reason, next) ==
  StopIs(st, next, b.cfg, row, reason) /\ Flight(b, row, s, next, x) /\ StopsFor(row, st, reason)
Allowed(row, cfg, st, p, acct) ==
  /\ row.type = "limit" => Crosses(row.side, row.price, p)
  /\ row.type = "market" => ~OutsideBand(row.side, st.band, cfg.maxSlippageBps, p)
  /\ cfg.selfTrade = "cancel_newest" => acct # row.acct
  /\ Wanted(st, p) # 0
Turned(b, row, s, st, x, next) ==
  \/ next = st /\ Idle(st)
  \/ \E reason : Stopping(b, row, s, st, x, reason, next)
  \/ \E i, p, m, qty, y : FilledTurn(b, row, s, st, x, i, p, m, qty, next, y)
                          /\ Allowed(row, b.cfg, st, p, x.rows[i].acct) /\ ~Idle(st)

\* A turn that only stops the match keeps book, rows and money in step.
LEMMA StopFlight ==
  ASSUME NEW b, NEW row, NEW s, NEW st, NEW x, Flight(b, row, s, st, x), NEW reason, reason \in Reasons,
         StopsFor(row, st, reason)
  PROVE  Turned(b, row, s, st, x, Stop(st, reason))
<1> DEFINE next == Stop(st, reason)
<1>1. MatchState(st, b.cfg, row) BY DEF Flight
<1>2. StopIs(st, next, b.cfg, row, reason) BY <1>1, StopState
<1> HIDE DEF next
<1>3. /\ MatchState(next, b.cfg, row) /\ next.opp = st.opp /\ next.byID = st.byID /\ next.trades = st.trades
      /\ next.t.remaining = st.t.remaining /\ next.t.quoteRem = st.t.quoteRem
  BY <1>2 DEF StopIs
<1>4. TakerHold(row, next.t) = TakerHold(row, st.t) BY <1>3 DEF TakerHold
<1>5. Flight(b, row, s, next, x) BY <1>3, <1>4 DEF Flight
<1>6. Stopping(b, row, s, st, x, reason, next) BY <1>2, <1>5 DEF Stopping
<1>7. Turned(b, row, s, st, x, next) BY <1>6 DEF Turned
<1> QED BY <1>7 DEF next

\* Every turn of the matching loop keeps them in step.
LEMMA StepFlight ==
  ASSUME NEW b, NEW row, row \in Row, NEW s, s \in Nat, NEW st, NEW x, Flight(b, row, s, st, x),
         b.cfg.qtyStep \in Nat \ {0}
  PROVE  Turned(b, row, s, st, x, MatchStep(st))
<1> DEFINE o == st.t.o
           p == BestPrice(st.opp)
           maker == Head(st.opp.levels[p].orders)
           idle == Idle(st)
           past == row.type = "limit" /\ ~Crosses(row.side, row.price, p)
           far == row.type = "market" /\ OutsideBand(row.side, st.band, b.cfg.maxSlippageBps, p)
           own == maker.acct = row.acct /\ b.cfg.selfTrade = "cancel_newest"
           nil == Wanted(st, p) = 0
           fill == Fill(st, p, maker)
<1>1. o = row /\ st.cfg = b.cfg
  <2>1. MatchState(st, b.cfg, row) BY DEF Flight
  <2>2. o = row BY <2>1 DEF MatchState, InFlight
  <2> DEFINE opp == st.opp
             byID == st.byID
             fills == st.trades
             t == st.t
             band == st.band
  <2>3. st = [cfg |-> b.cfg, opp |-> opp, byID |-> byID, trades |-> fills, t |-> t, band |-> band]
    BY <2>1 DEF MatchState
  <2> HIDE DEF opp, byID, fills, t, band, o
  <2> QED BY <2>2, <2>3
<1>2. MatchStep(st) = IF idle THEN st ELSE IF past THEN Stop(st, "") ELSE IF far THEN Stop(st, "price_protection")
                      ELSE IF own THEN Stop(st, "self_trade") ELSE IF nil THEN Stop(st, "") ELSE fill
  BY <1>1 DEF MatchStep, Idle, SelfTrade
<1>3. "" \in Reasons /\ "price_protection" \in Reasons /\ "self_trade" \in Reasons BY DEF Reasons
<1>4. \A reason \in Reasons : StopsFor(row, st, reason) => Turned(b, row, s, st, x, Stop(st, reason)) BY StopFlight
<1>5. idle => Turned(b, row, s, st, x, st) BY DEF Turned
<1>6. ~idle /\ ~past /\ ~far /\ ~own /\ ~nil => Turned(b, row, s, st, x, fill)
  <2> SUFFICES ASSUME ~idle, ~past, ~far, ~own, ~nil PROVE Turned(b, row, s, st, x, fill) OBVIOUS
  <2>1. st.opp.prices # << >> BY DEF Idle
  <2>2. row.type = "limit" => Crosses(row.side, row.price, p) OBVIOUS
  <2>3. p = BestPrice(st.opp) /\ maker = Head(st.opp.levels[p].orders) OBVIOUS
  <2>4. ASSUME NEW acct, maker.acct = acct PROVE Allowed(row, b.cfg, st, p, acct) BY <2>4 DEF Allowed
  <2>8. ~Idle(st) OBVIOUS
  <2> HIDE DEF p, maker, fill, idle
  <2>5. PICK i, m, qty, y : FilledTurn(b, row, s, st, x, i, p, m, qty, Fill(st, p, maker), y)
                            /\ maker.acct = x.rows[i].acct
    <3>1. row \in Row /\ s \in Nat /\ Flight(b, row, s, st, x) /\ b.cfg.qtyStep \in Nat \ {0} OBVIOUS
    <3>2. FillGoes(b, row, s, st, x, p, maker) BY ONLY <2>1, <2>2, <2>3, <3>1, FillFlight
    <3> QED BY <3>2 DEF FillGoes
  <2>6. FilledTurn(b, row, s, st, x, i, p, m, qty, fill, y) BY <2>5 DEF fill
  <2>7. Allowed(row, b.cfg, st, p, x.rows[i].acct) BY <2>4, <2>5
  <2> QED BY SMTT(60), <2>6, <2>7, <2>8 DEF Turned
<1>7. past => StopsFor(row, st, "") BY DEF StopsFor
<1>8. nil => StopsFor(row, st, "") BY DEF StopsFor
<1>9. StopsFor(row, st, "price_protection") /\ StopsFor(row, st, "self_trade") BY DEF StopsFor
<1> HIDE DEF idle, past, far, own, nil, fill
<1> QED BY <1>2, <1>3, <1>4, <1>5, <1>6, <1>7, <1>8, <1>9

\* One more trade is settled last.
LEMMA SettleMore ==
  ASSUME NEW c, NEW x, NEW q, q \in Seq(Trade), NEW tr
  PROVE  Fold("settle", c, x, Append(q, tr)) = SettleTrade(Fold("settle", c, x, q), tr, c)
<1> DEFINE r == Append(q, tr)
           n == Len(q)
           X == Trade \cup {tr}
<1>1. q \in Seq(X) /\ tr \in X OBVIOUS
<1>2. n \in Nat /\ DOMAIN q = 1..n OBVIOUS
<1> HIDE DEF X
<1>3. DOMAIN r = 1..n + 1 /\ r[n + 1] = tr /\ \A i \in 1..n : r[i] = q[i] BY <1>1, AppendProperties
<1> HIDE DEF n, r
<1>4. Fold("settle", c, x, r) = Turn("settle", c, Fold("settle", c, x, q), r[n + 1])
  <2> DEFINE kind == "settle"
  <2> HIDE DEF kind
  <2>1. Fold(kind, c, x, r) = Turn(kind, c, Fold(kind, c, x, q), r[n + 1]) BY <1>2, <1>3, FoldLast
  <2> QED BY <2>1 DEF kind
<1>5. \A v : Turn("settle", c, v, tr) = SettleTrade(v, tr, c) BY DEF Turn
<1> QED BY <1>3, <1>4, <1>5 DEF r

\* What the rows open before a match have become: filled, or still open.
Kin(o, r) ==
  r.id = o.id /\ r.acct = o.acct /\ r.side = o.side /\ r.price = o.price /\ r.seq = o.seq /\ r.type = o.type
Since(rows0, rows) ==
  /\ DOMAIN rows = DOMAIN rows0 /\ OpenIn(rows) \subseteq OpenIn(rows0)
  /\ \A k \in OpenIn(rows0) : Kin(rows0[k], rows[k]) /\ (k \in OpenIn(rows) \/ rows[k].status = "filled")

\* A fill takes a maker of the other side at its own price, within the taker's
\* limit or band, and every order before it has been filled.
TradeRow == [maker : Nat, taker : Nat, price : Nat, qty : Nat, quote : Nat, seq : Nat]
FairTrade(row, cfg, band, rows0, rows, t) ==
  LET m == rows0[t.maker] IN
  /\ t.maker \in OpenIn(rows0) /\ m.side = Opposite(row.side) /\ t.taker = row.id /\ t.price = m.price
  /\ cfg.selfTrade = "cancel_newest" => m.acct # row.acct
  /\ row.type = "limit" => Crosses(row.side, row.price, t.price)
  /\ row.type = "market" => ~OutsideBand(row.side, band, cfg.maxSlippageBps, t.price)
  /\ \A k \in OpenIn(rows0) :
       rows0[k].side = m.side /\ Before(m.side, rows0[k], m) => rows[k].status = "filled"
Fair(row, cfg, band, rows0, n, x) ==
  /\ Since(rows0, x.rows) /\ x.trades \in Seq(TradeRow) /\ Len(x.trades) >= n
  /\ \A j \in n + 1..Len(x.trades) : FairTrade(row, cfg, band, rows0, x.rows, x.trades[j])

\* What a fill makes of the rows the command started from.
LEMMA FillSince ==
  ASSUME NEW rows0, NEW rows, NEW s, RowsInv(rows, s), Since(rows0, rows), NEW i, i \in OpenIn(rows), NEW m,
         m.remaining \in Nat, NEW next, FilledRows(rows, s, i, m, next), FilledIs(rows[i], m, next[i])
  PROVE  Since(rows0, next) /\ \A k \in OpenIn(rows0) : rows[k].status = "filled" => next[k].status = "filled"
<1>1. /\ DOMAIN rows = DOMAIN rows0 /\ OpenIn(rows) \subseteq OpenIn(rows0)
      /\ \A k \in OpenIn(rows0) : Kin(rows0[k], rows[k]) /\ (k \in OpenIn(rows) \/ rows[k].status = "filled")
  BY DEF Since
<1>2. /\ DOMAIN next = DOMAIN rows /\ (\A j \in DOMAIN rows \ {i} : next[j] = rows[j])
      /\ OpenIn(next) = IF m.remaining = 0 THEN OpenIn(rows) \ {i} ELSE OpenIn(rows)
  BY DEF FilledRows
<1>3. Kin(rows[i], next[i]) /\ (m.remaining = 0 => next[i].status = "filled") BY DEF FilledIs, Kin
<1>4. rows[i].status # "filled" BY DEF OpenIn, Open, OpenStatuses
<1>5. \A k \in OpenIn(rows0) : k \in DOMAIN rows BY <1>1 DEF OpenIn
<1>6. ASSUME NEW k \in OpenIn(rows0)
      PROVE  Kin(rows0[k], next[k]) /\ (k \in OpenIn(next) \/ next[k].status = "filled")
  <2>1. CASE k # i BY <1>1, <1>2, <1>5, <2>1
  <2>2. CASE k = i
    <3>1. Kin(rows0[i], rows[i]) BY <1>1, <2>2
    <3>2. Kin(rows0[i], next[i]) BY <1>3, <3>1 DEF Kin
    <3> QED BY <1>2, <1>3, <2>2, <3>2
  <2> QED BY <2>1, <2>2
<1>7. Since(rows0, next) BY <1>1, <1>2, <1>6 DEF Since
<1>8. \A k \in OpenIn(rows0) : rows[k].status = "filled" => next[k].status = "filled" BY <1>2, <1>4, <1>5
<1> QED BY <1>7, <1>8

\* A fill is fair.
LEMMA TurnFair ==
  ASSUME NEW b, NEW row, row \in Row, NEW s, s \in Nat, NEW st, NEW x, Flight(b, row, s, st, x),
         NEW rows0, NEW n, n \in Nat, Fair(row, b.cfg, st.band, rows0, n, x),
         NEW i, NEW p, NEW m, NEW qty, NEW next, NEW y, FilledTurn(b, row, s, st, x, i, p, m, qty, next, y),
         Allowed(row, b.cfg, st, p, x.rows[i].acct)
  PROVE  Fair(row, b.cfg, st.band, rows0, n, y)
<1> DEFINE q == Opposite(row.side)
           rows == x.rows
           rows2 == y.rows
           ids == OpenIn(rows)
           band == st.band
           cfg == b.cfg
           tr == [maker |-> i, taker |-> row.id, price |-> p, qty |-> qty, quote |-> p * qty, seq |-> s + 1]
<1>1. /\ Since(rows0, rows) /\ x.trades \in Seq(TradeRow) /\ Len(x.trades) >= n
      /\ \A j \in n + 1..Len(x.trades) : FairTrade(row, cfg, band, rows0, rows, x.trades[j])
  BY SMTT(60) DEF Fair
<1>2. /\ HeadInv(q, st.opp, rows, ids, i) /\ p = BestPrice(st.opp) /\ p \in Nat /\ qty \in Nat
      /\ m.remaining \in Nat /\ FilledRows(rows, s, i, m, rows2) /\ y.trades = Append(x.trades, tr)
  BY DEF FilledTurn
<1>3. i \in ids /\ rows[i].side = q /\ rows[i].price = p BY <1>2 DEF HeadInv
<1>4. RowsInv(rows, s) /\ SideInv(q, st.opp, rows, ids) /\ RowsAre(rows, ids)
  BY OpenRows DEF Flight, RowsBehind
<1>5. FilledIs(rows[i], m, rows2[i])
  <2>1. rows[i] \in Row BY <1>3, <1>4 DEF RowsAre
  <2>2. rows2[i] = Filled(rows[i], m) BY <1>2 DEF FilledRows
  <2>4. m.filledQty \in Nat /\ m.filledQuote \in Nat BY DEF FilledTurn
  <2> QED BY <1>2, <2>1, <2>2, <2>4, FilledRow
<1>6. /\ Since(rows0, rows2)
      /\ \A k \in OpenIn(rows0) : rows[k].status = "filled" => rows2[k].status = "filled"
  BY SMTT(60), <1>1, <1>2, <1>3, <1>4, <1>5, FillSince
<1>7. ASSUME NEW t, FairTrade(row, cfg, band, rows0, rows, t)
      PROVE  FairTrade(row, cfg, band, rows0, rows2, t)
  BY <1>6, <1>7 DEF FairTrade
<1>8. FairTrade(row, cfg, band, rows0, rows2, tr)
  <2>1. tr.maker = i /\ tr.taker = row.id /\ tr.price = p OBVIOUS
  <2>2. i \in OpenIn(rows0) /\ Kin(rows0[i], rows[i]) BY <1>1, <1>3 DEF Since
  <2>3. rows0[i].side = q /\ rows0[i].price = p /\ rows0[i].acct = rows[i].acct /\ rows0[i].seq = rows[i].seq
    BY <1>3, <2>2 DEF Kin
  <2>4. ASSUME NEW k \in OpenIn(rows0), rows0[k].side = q, Before(q, rows0[k], rows0[i])
        PROVE  rows2[k].status = "filled"
    <3>1. Kin(rows0[k], rows[k]) /\ (k \in ids \/ rows[k].status = "filled") BY <1>1 DEF Since
    <3>2. CASE k \in ids
      <4>1. rows[k].side = q BY <2>4, <3>1 DEF Kin
      <4>2. ~Before(q, rows[k], rows[i]) BY SMTT(60), <1>2, <1>4, <3>2, <4>1, HeadIsFirst
      <4>3. Before(q, rows[k], rows[i]) BY <2>3, <2>4, <1>3, <3>1 DEF Kin, Before
      <4> QED BY <4>2, <4>3
    <3> QED BY <1>6, <3>1, <3>2
  <2>5. /\ row.type = "limit" => Crosses(row.side, row.price, p)
        /\ row.type = "market" => ~OutsideBand(row.side, band, cfg.maxSlippageBps, p)
        /\ cfg.selfTrade = "cancel_newest" => rows[i].acct # row.acct
    BY DEF Allowed
  <2> HIDE DEF tr
  <2> QED BY <2>1, <2>2, <2>3, <2>4, <2>5 DEF FairTrade
<1>9. tr \in TradeRow
  <2>1. i \in Nat /\ row.id \in Nat
    <3>1. rows \in Seq(Row) /\ i \in DOMAIN rows BY <1>3, <1>4 DEF RowsInv, OpenIn
    <3>2. DOMAIN rows = 1..Len(rows) BY <3>1
    <3> QED BY SMTT(60), <3>1, <3>2 DEF Row
  <2>2. \A u \in Nat, v \in Nat : u * v \in Nat BY Z3
  <2>3. p * qty \in Nat BY SMTT(60), <1>2, <2>2
  <2>4. s + 1 \in Nat OBVIOUS
  <2> QED BY <1>2, <2>1, <2>3, <2>4 DEF TradeRow
<1> DEFINE old == x.trades
           N == Len(old)
<1>10. old \in Seq(TradeRow) /\ N \in Nat /\ N >= n BY <1>1
<1> HIDE DEF tr, old
<1>11. Append(old, tr) \in Seq(TradeRow) /\ Len(Append(old, tr)) = N + 1 /\ Append(old, tr)[N + 1] = tr
       /\ \A j \in 1..N : Append(old, tr)[j] = old[j]
  BY <1>9, <1>10, AppendProperties
<1>12. y.trades = Append(old, tr) BY <1>2 DEF old
<1> HIDE DEF N
<1>13. ASSUME NEW j \in n + 1..Len(y.trades) PROVE FairTrade(row, cfg, band, rows0, rows2, y.trades[j])
  <2>1. CASE j = N + 1 BY <1>8, <1>11, <1>12, <2>1
  <2>2. CASE j # N + 1
    <3>1. j \in n + 1..N /\ j \in 1..N BY <1>10, <1>11, <1>12, <2>2
    <3>2. y.trades[j] = old[j] BY <1>11, <1>12, <3>1
    <3> QED BY <1>1, <1>7, <3>1, <3>2 DEF old, N
  <2> QED BY <2>1, <2>2
<1>14. Len(y.trades) >= n /\ y.trades \in Seq(TradeRow) BY <1>10, <1>11, <1>12
<1> QED BY <1>6, <1>13, <1>14 DEF Fair

\* Why a match ends.
Over(row, cfg, st) ==
  \/ Exhausted(st.t)
  \/ st.opp.prices = << >>
  \/ st.t.stop # ""
  \/ row.type = "limit" /\ ~Crosses(row.side, row.price, BestPrice(st.opp))
  \/ MarketBuy(row) /\ st.t.quoteRem \div BestPrice(st.opp) < cfg.qtyStep

\* It is over, or goes on over no more than `left` resting orders.
Progress(row, cfg, st, left) ==
  /\ st.t.stop \in {"", "price_protection", "self_trade"} /\ (st.t.stop # "" => st.t.done)
  /\ Over(row, cfg, st) \/ (~st.t.done /\ Cardinality(st.byID) =< left)

\* What whole steps leave of a budget buys no further step.
LEMMA BudgetLeft ==
  ASSUME NEW x \in Nat, NEW p \in Nat, p > 0, NEW step \in Nat, step > 0,
         NEW w, w = FloorToStep(x \div p, step)
  PROVE  (x - p * w) \div p < step
<1> DEFINE d == x \div p
           e == d \div step
           f == d % step
           g == x % p
<1>1. d \in Nat /\ g \in Nat /\ g < p /\ x = p * d + g BY Z3
<1> HIDE DEF d, g
<1>2. e \in Nat /\ f \in Nat /\ f < step /\ d = step * e + f BY <1>1, Z3
<1> HIDE DEF e, f
<1>3. w = e * step BY DEF FloorToStep, d, e
<1>4. e * step = step * e /\ step * e \in Nat BY <1>2, Z3
<1> DEFINE v == step * e
<1>5. w = v /\ v \in Nat /\ d = v + f BY <1>2, <1>3, <1>4
<1> HIDE DEF v
<1>6. p * (v + f) = p * v + p * f /\ p * v \in Nat /\ p * f \in Nat BY <1>2, <1>5, Z3
<1>7. x - p * w = p * f + g
  <2> DEFINE a == p * v
             c == p * f
  <2>1. x = (a + c) + g /\ a \in Nat /\ c \in Nat BY <1>1, <1>5, <1>6
  <2>2. x - a = c + g
    <3> HIDE DEF a, c
    <3> QED BY <1>1, <2>1
  <2> QED BY <1>5, <2>2
<1>8. (p * f + g) \div p = f BY <1>1, <1>2, Z3
<1> QED BY <1>2, <1>7, <1>8

\* No whole step is wanted: the budget buys less than one.
LEMMA NoneWanted ==
  ASSUME NEW x \in Nat, NEW p \in Nat, p > 0, NEW step \in Nat, step > 0
  PROVE  FloorToStep(x \div p, step) = 0 <=> x \div p < step
<1> DEFINE d == x \div p
           e == d \div step
           f == d % step
<1>1. d \in Nat BY Z3
<1> HIDE DEF d
<1>2. e \in Nat /\ f \in Nat /\ f < step /\ d = step * e + f BY <1>1, Z3
<1> HIDE DEF e, f
<1>3. FloorToStep(x \div p, step) = e * step BY DEF FloorToStep, d, e
<1>4. e * step = 0 <=> e = 0 BY <1>2, Z3
<1>5. e # 0 => step * e >= step BY <1>2, Z3
<1>6. e = 0 => step * e = 0 BY <1>2
<1> DEFINE v == step * e
<1>7. v \in Nat BY <1>2, Z3
<1>8. e = 0 <=> d < step
  <2>1. e # 0 => v >= step BY <1>5
  <2>2. e = 0 => v = 0 BY <1>6
  <2>3. d = v + f BY <1>2
  <2> HIDE DEF v
  <2> QED BY <1>2, <1>7, <2>1, <2>2, <2>3
<1> QED BY <1>3, <1>4, <1>8 DEF d

\* The taker of a match, and what it wants.
TakerWants(row, cfg, st) ==
  /\ st.t.remaining \in Nat /\ st.t.quoteRem \in Nat
  /\ Exhausted(st.t) <=> (IF MarketBuy(row) THEN st.t.quoteRem = 0 ELSE st.t.remaining = 0)
  /\ \A p : Wanted(st, p) = IF MarketBuy(row) THEN FloorToStep(st.t.quoteRem \div p, cfg.qtyStep) ELSE st.t.remaining

\* What a turn reads of the taker.
LEMMA TakerParts ==
  ASSUME NEW row, NEW cfg, NEW st, MatchState(st, cfg, row)
  PROVE  TakerWants(row, cfg, st)
<1> DEFINE opp == st.opp
           byID == st.byID
           fills == st.trades
           t == st.t
           band == st.band
<1>1. st = [cfg |-> cfg, opp |-> opp, byID |-> byID, trades |-> fills, t |-> t, band |-> band] /\ t.o = row
      /\ t.remaining \in Nat /\ t.quoteRem \in Nat
  BY DEF MatchState, InFlight
<1>2. st.cfg = cfg
  <2> HIDE DEF opp, byID, fills, t, band
  <2> QED BY <1>1
<1> QED BY <1>1, <1>2 DEF TakerWants, Exhausted, Wanted

\* A match stops for one of the reasons MatchStep has.
LEMMA StopProgress ==
  ASSUME NEW b, NEW row, row \in Row, NEW s, NEW st, NEW x, Flight(b, row, s, st, x), b.cfg.qtyStep \in Nat \ {0},
         NEW reason, NEW next, Stopping(b, row, s, st, x, reason, next), NEW left
  PROVE  Progress(row, b.cfg, next, left)
<1>1. /\ MatchState(next, b.cfg, row) /\ next.opp = st.opp /\ next.t.remaining = st.t.remaining
      /\ next.t.quoteRem = st.t.quoteRem /\ next.t.done /\ next.t.stop = reason
  BY DEF Stopping, StopIs
<1>2. StopsFor(row, st, reason) BY DEF Stopping
<1>3. reason \in {"", "price_protection", "self_trade"} BY <1>2 DEF StopsFor
<1>4. TakerWants(row, b.cfg, st) /\ TakerWants(row, b.cfg, next) BY <1>1, TakerParts DEF Flight
<1> DEFINE p == BestPrice(st.opp)
<1>5. BestPrice(next.opp) = p BY <1>1
<1>6. ASSUME st.opp.prices # << >>, Wanted(st, p) = 0 PROVE Over(row, b.cfg, next)
  <2>1. PICK i \in OpenIn(x.rows) : MakerMet(row, st, x, i) BY SMTT(60), <1>6, MeetMaker
  <2>2. p \in Nat /\ p > 0 BY <2>1 DEF MakerMet
  <2>3. CASE MarketBuy(row)
    <3> DEFINE u == st.t.quoteRem
               step == b.cfg.qtyStep
    <3>1. u \in Nat /\ step \in Nat /\ step > 0 BY <1>4 DEF TakerWants
    <3>2. FloorToStep(u \div p, step) = 0 BY <1>4, <1>6, <2>3 DEF TakerWants
    <3> HIDE DEF u, step, p
    <3>3. u \div p < step BY <2>2, <3>1, <3>2, NoneWanted
    <3> QED BY <1>1, <1>5, <2>3, <3>3 DEF Over, u, step
  <2>4. CASE ~MarketBuy(row)
    <3>1. st.t.remaining = 0 BY <1>4, <1>6, <2>4 DEF TakerWants
    <3>2. Exhausted(next.t) BY <1>1, <1>4, <2>4, <3>1 DEF TakerWants
    <3> QED BY <3>2 DEF Over
  <2> QED BY <2>3, <2>4
<1>7. Over(row, b.cfg, next)
  <2>1. CASE reason # "" BY <1>1, <2>1 DEF Over
  <2>2. CASE row.type = "limit" /\ ~Crosses(row.side, row.price, p) BY <1>5, <2>2 DEF Over
  <2>3. CASE st.opp.prices = << >> BY <1>1, <2>3 DEF Over
  <2>4. CASE st.opp.prices # << >> /\ Wanted(st, p) = 0 BY <1>6, <2>4
  <2> QED BY <1>2, <2>1, <2>2, <2>3, <2>4 DEF StopsFor
<1> QED BY <1>1, <1>3, <1>7 DEF Progress

\* A fill ends the match, or takes an order off the book.
LEMMA FillProgress ==
  ASSUME NEW b, NEW row, row \in Row, NEW s, NEW st, NEW x, Flight(b, row, s, st, x), b.cfg.qtyStep \in Nat \ {0},
         NEW i, NEW p, NEW m, NEW qty, NEW next, NEW y, FilledTurn(b, row, s, st, x, i, p, m, qty, next, y),
         Allowed(row, b.cfg, st, p, x.rows[i].acct), ~Idle(st),
         NEW left, left \in Nat, Progress(row, b.cfg, st, left + 1)
  PROVE  Progress(row, b.cfg, next, left)
<1> DEFINE cfg == b.cfg
           rem == x.rows[i].remaining
           w == Wanted(st, p)
<1>1. /\ HeadInv(Opposite(row.side), st.opp, x.rows, OpenIn(x.rows), i) /\ rem \in Nat
      /\ p = BestPrice(st.opp) /\ p \in Nat /\ p > 0 /\ qty \in Nat
      /\ qty = (IF rem < w THEN rem ELSE w) /\ m.remaining \in Nat /\ m.remaining = rem - qty
      /\ TakerAfter(row, st.t, p, qty, next.t) /\ (m.remaining # 0 => next.opp.prices = st.opp.prices)
      /\ next.byID = IF m.remaining = 0 THEN st.byID \ {i} ELSE st.byID
  BY DEF FilledTurn
<1>2. TakerWants(row, cfg, st) /\ TakerWants(row, cfg, next)
  <2>1. MatchState(st, cfg, row) BY SMTT(60) DEF Flight
  <2>2. MatchState(next, cfg, row) BY SMTT(60) DEF FilledTurn, Flight
  <2> QED BY <2>1, <2>2, TakerParts
<1>3. st.byID = OpenIn(x.rows) /\ IsFiniteSet(st.byID) /\ i \in st.byID
  <2>1. st.byID = OpenIn(x.rows) /\ RowsInv(x.rows, s) BY DEF Flight, RowsBehind
  <2> QED BY <1>1, <2>1, OpenRows DEF RowsAre, HeadInv
<1>4. w # 0 /\ ~st.t.done /\ ~Exhausted(st.t) /\ st.opp.prices # << >>
      /\ (row.type = "limit" => Crosses(row.side, row.price, p))
  BY DEF Allowed, Idle
<1> DEFINE u == st.t.quoteRem
           step == cfg.qtyStep
<1>5. u \in Nat /\ step \in Nat /\ step > 0 /\ st.t.remaining \in Nat
      /\ w = (IF MarketBuy(row) THEN FloorToStep(u \div p, step) ELSE st.t.remaining)
  BY <1>2 DEF TakerWants
<1>6. ~Over(row, cfg, st)
  <2>1. st.t.stop = "" BY ZenonT(60), <1>4 DEF Progress
  <2>2. ~(MarketBuy(row) /\ u \div p < step)
    <3> SUFFICES ASSUME MarketBuy(row), u \div p < step PROVE FALSE OBVIOUS
    <3>1. FloorToStep(u \div p, step) # 0 BY <1>4, <1>5
    <3> HIDE DEF u, step
    <3> QED BY <1>1, <1>5, <3>1, NoneWanted
  <2> QED BY <1>1, <1>4, <2>1, <2>2 DEF Over
<1>7. Cardinality(st.byID) =< left + 1 BY <1>6 DEF Progress
<1>8. next.t.done = st.t.done /\ next.t.stop = st.t.stop BY <1>1 DEF TakerAfter
<1>9. CASE m.remaining = 0
  <2> DEFINE S == st.byID
  <2>1. Cardinality(S \ {i}) = Cardinality(S) - 1 /\ Cardinality(S) \in Nat
    <3>1. IsFiniteSet(S) /\ i \in S BY <1>3
    <3> HIDE DEF S
    <3>2. Cardinality(S \ {i}) = IF i \in S THEN Cardinality(S) - 1 ELSE Cardinality(S) BY <3>1, FS_RemoveElement
    <3>3. Cardinality(S) \in Nat BY <3>1, FS_CardinalityType
    <3> QED BY <3>1, <3>2, <3>3
  <2>2. next.byID = S \ {i} BY <1>1, <1>9
  <2>3. Cardinality(next.byID) =< left
    <3> DEFINE c == Cardinality(S)
    <3>1. c \in Nat /\ c =< left + 1 /\ Cardinality(next.byID) = c - 1 BY <1>7, <2>1, <2>2
    <3> HIDE DEF c
    <3> QED BY <3>1
  <2>4. st.t.stop \in {"", "price_protection", "self_trade"} /\ (st.t.stop # "" => st.t.done) BY DEF Progress
  <2> QED BY <1>4, <1>8, <2>3, <2>4 DEF Progress
<1>10. CASE m.remaining # 0
  <2>1. qty = w
    <3> HIDE DEF rem, w
    <3> QED BY SMTT(60), <1>1, <1>10
  <2>2. next.t.remaining = (IF MarketBuy(row) THEN st.t.remaining ELSE st.t.remaining - qty)
        /\ next.t.quoteRem = (IF MarketBuy(row) THEN u - p * qty ELSE u)
    BY SMTT(60), <1>1 DEF TakerAfter
  <2>3. BestPrice(next.opp) = p BY <1>1, <1>10 DEF BestPrice
  <2>4. Over(row, cfg, next)
    <3>1. CASE MarketBuy(row)
      <4>1. w = FloorToStep(u \div p, step) BY SMTT(60), <1>5, <3>1
      <4> HIDE DEF u, step, w
      <4>2. (u - p * w) \div p < step BY <1>1, <1>5, <4>1, BudgetLeft
      <4>3. next.t.quoteRem = u - p * w BY <2>1, <2>2, <3>1
      <4> QED BY <2>3, <3>1, <4>2, <4>3 DEF Over, step
    <3>2. CASE ~MarketBuy(row)
      <4>1. qty = st.t.remaining BY <1>5, <2>1, <3>2
      <4> HIDE DEF w, u, step
      <4>2. next.t.remaining = 0 BY <1>5, <2>2, <3>2, <4>1
      <4>3. Exhausted(next.t) BY <1>2, <3>2, <4>2 DEF TakerWants
      <4> QED BY <4>3 DEF Over
    <3> QED BY <3>1, <3>2
  <2>5. st.t.stop \in {"", "price_protection", "self_trade"} /\ (st.t.stop # "" => st.t.done) BY DEF Progress
  <2> QED BY <1>8, <2>4, <2>5 DEF Progress
<1> QED BY SMTT(60), <1>9, <1>10

\* A turn that finds nothing to do is after the end.
LEMMA IdleProgress ==
  ASSUME NEW row, NEW cfg, NEW st, Idle(st), NEW left, NEW less, Progress(row, cfg, st, left)
  PROVE  Progress(row, cfg, st, less)
BY DEF Idle, Progress, Over

\* The match and its settlement after some turns: what stays true of them.
Underway(b, row, s, band, rows0, n, left, h, y) ==
  /\ Flight(b, row, s, h, y) /\ h.band = band
  /\ Fair(row, b.cfg, band, rows0, n, y) /\ Progress(row, b.cfg, h, left)
Onward(b, row, s, band, rows0, n, left, h, y, g) ==
  \/ g.trades = h.trades /\ Underway(b, row, s, band, rows0, n, left, g, y)
  \/ \E tr : g.trades = Append(h.trades, tr)
             /\ Underway(b, row, s, band, rows0, n, left, g, SettleTrade(y, tr, s + 1))

\* One turn of the matching loop, with the fill it may settle.
LEMMA TurnKeeps ==
  ASSUME NEW b, NEW row, row \in Row, NEW s, s \in Nat, b.cfg.qtyStep \in Nat \ {0}, NEW band, NEW rows0,
         NEW n, n \in Nat, NEW left, left \in Nat, NEW h, NEW y,
         Underway(b, row, s, band, rows0, n, left + 1, h, y)
  PROVE  Onward(b, row, s, band, rows0, n, left, h, y, MatchStep(h))
<1> DEFINE g == MatchStep(h)
<1>1. /\ Flight(b, row, s, h, y) /\ h.band = band
      /\ Fair(row, b.cfg, band, rows0, n, y) /\ Progress(row, b.cfg, h, left + 1)
  BY DEF Underway
<1>2. Turned(b, row, s, h, y, g) BY <1>1, StepFlight
<1> HIDE DEF g
<1>3. CASE g = h /\ Idle(h)
  <2>1. Progress(row, b.cfg, h, left) BY <1>1, <1>3, IdleProgress
  <2>2. Underway(b, row, s, band, rows0, n, left, g, y) BY <1>1, <1>3, <2>1 DEF Underway
  <2> QED BY <1>3, <2>2 DEF Onward, g
<1>4. ASSUME NEW reason, Stopping(b, row, s, h, y, reason, g) PROVE Onward(b, row, s, band, rows0, n, left, h, y, g)
  <2>1. Progress(row, b.cfg, g, left) BY <1>1, <1>4, StopProgress
  <2>2. g.trades = h.trades /\ g.band = band /\ Flight(b, row, s, g, y) BY <1>1, <1>4 DEF Stopping, StopIs
  <2>3. Underway(b, row, s, band, rows0, n, left, g, y) BY <1>1, <2>1, <2>2 DEF Underway
  <2> QED BY <2>2, <2>3 DEF Onward
<1>5. ASSUME NEW i, NEW p, NEW m, NEW qty, NEW z, FilledTurn(b, row, s, h, y, i, p, m, qty, g, z),
             Allowed(row, b.cfg, h, p, y.rows[i].acct), ~Idle(h)
      PROVE  Onward(b, row, s, band, rows0, n, left, h, y, g)
  <2>1. Progress(row, b.cfg, g, left) BY <1>1, <1>5, FillProgress
  <2>2. Fair(row, b.cfg, h.band, rows0, n, y) BY <1>1
  <2>3. Fair(row, b.cfg, h.band, rows0, n, z) BY <1>1, <1>5, <2>2, TurnFair
  <2>4. Flight(b, row, s, g, z) /\ g.band = band BY <1>1, <1>5 DEF FilledTurn
  <2>5. PICK tr : g.trades = Append(h.trades, tr) /\ z = SettleTrade(y, tr, s + 1) BY <1>5 DEF FilledTurn
  <2>6. Underway(b, row, s, band, rows0, n, left, g, z) BY <1>1, <2>1, <2>3, <2>4 DEF Underway
  <2>7. Underway(b, row, s, band, rows0, n, left, g, SettleTrade(y, tr, s + 1)) BY ONLY <2>5, <2>6
  <2> QED BY <2>5, <2>7 DEF Onward
<1>6. Onward(b, row, s, band, rows0, n, left, h, y, g) BY ONLY <1>2, <1>3, <1>4, <1>5 DEF Turned, g
<1> QED BY <1>6 DEF g

Turns(k) == [turn \in 1..k |-> turn]
After(b, row, s, st, x, rows0, n, N, k) ==
  LET h == Fold("match", 0, st, Turns(k)) IN
  Underway(b, row, s, st.band, rows0, n, N - k, h, Fold("settle", s + 1, x, h.trades))

\* The match and its settlement stay in flight together, turn after turn.
LEMMA MatchTurn ==
  ASSUME NEW b, NEW row, row \in Row, NEW s, s \in Nat, NEW st, NEW x, b.cfg.qtyStep \in Nat \ {0},
         NEW rows0, NEW n, n \in Nat, NEW N, N \in Nat, NEW k, k \in Nat, k < N, After(b, row, s, st, x, rows0, n, N, k)
  PROVE  After(b, row, s, st, x, rows0, n, N, k + 1)
<1> DEFINE h == Fold("match", 0, st, Turns(k))
           g == Fold("match", 0, st, Turns(k + 1))
           c == s + 1
           y == Fold("settle", c, x, h.trades)
           left == N - (k + 1)
           band == st.band
<1>0. left \in Nat /\ left + 1 = N - k OBVIOUS
<1>1. Underway(b, row, s, band, rows0, n, left + 1, h, y)
  <2>1. Underway(b, row, s, band, rows0, n, N - k, h, y) BY DEF After
  <2> HIDE DEF left, h, y, band
  <2> QED BY <1>0, <2>1
<1>2. g = MatchStep(h)
  <2> DEFINE q == Turns(k + 1)
             r == Turns(k)
             kind == "match"
  <2>1. DOMAIN q = 1..k + 1 /\ DOMAIN r = 1..k /\ \A i \in 1..k : q[i] = r[i] BY DEF Turns
  <2> HIDE DEF q, r, kind
  <2>2. Fold(kind, 0, st, q) = Turn(kind, 0, Fold(kind, 0, st, r), q[k + 1]) BY <2>1, FoldLast
  <2>3. \A v, e : Turn("match", 0, v, e) = MatchStep(v) BY DEF Turn
  <2> QED BY <2>2, <2>3 DEF kind, q, r
<1> HIDE DEF h, g, left, band
<1>3. Onward(b, row, s, band, rows0, n, left, h, y, g)
  <2> HIDE DEF y
  <2> QED BY <1>0, <1>1, <1>2, TurnKeeps
<1> DEFINE w == Fold("settle", c, x, g.trades)
<1>4. CASE g.trades = h.trades /\ Underway(b, row, s, band, rows0, n, left, g, y)
  <2>1. w = y BY <1>4
  <2> HIDE DEF w, y
  <2> QED BY <1>4, <2>1 DEF After, g, w, c, left, band
<1>5. CASE \E tr : g.trades = Append(h.trades, tr)
                   /\ Underway(b, row, s, band, rows0, n, left, g, SettleTrade(y, tr, s + 1))
  <2>1. PICK tr : g.trades = Append(h.trades, tr) /\ Underway(b, row, s, band, rows0, n, left, g, SettleTrade(y, tr, c))
    BY <1>5
  <2> DEFINE q == h.trades
  <2>2. q \in Seq(Trade) BY <1>1 DEF Underway, Flight, MatchState
  <2> HIDE DEF c
  <2>3. Fold("settle", c, x, Append(q, tr)) = SettleTrade(y, tr, c) BY <2>2, SettleMore
  <2>4. w = SettleTrade(y, tr, c) BY <2>1, <2>3
  <2> HIDE DEF w, y
  <2>5. Underway(b, row, s, band, rows0, n, left, g, w) BY <2>1, <2>4
  <2> QED BY <2>5 DEF After, g, w, c, left, band
<1> QED BY <1>3, <1>4, <1>5 DEF Onward

\* How the match ends, with the settlement of its fills.
Ended(b, row, s, band, rows0, n, h, y) ==
  /\ Flight(b, row, s, h, y) /\ Fair(row, b.cfg, band, rows0, n, y)
  /\ Over(row, b.cfg, h) /\ h.t.stop \in {"", "price_protection", "self_trade"}

\* With no resting order left to meet, the match is over.
LEMMA EndOver ==
  ASSUME NEW b, NEW row, NEW s, NEW band, NEW rows0, NEW n, NEW h, NEW y, Underway(b, row, s, band, rows0, n, 0, h, y)
  PROVE  Ended(b, row, s, band, rows0, n, h, y)
<1> DEFINE ids == OpenIn(y.rows)
           side == Opposite(row.side)
<1>1. /\ Flight(b, row, s, h, y) /\ Fair(row, b.cfg, band, rows0, n, y) /\ Progress(row, b.cfg, h, 0)
  BY DEF Underway
<1>2. CASE Over(row, b.cfg, h) BY <1>1, <1>2 DEF Ended, Progress
<1>3. CASE Cardinality(h.byID) =< 0
  <2>1. h.byID = ids /\ SideInv(side, h.opp, y.rows, ids) /\ RowsInv(y.rows, s) BY <1>1 DEF Flight, RowsBehind
  <2>2. IsFiniteSet(ids) BY <2>1, OpenRows DEF RowsAre
  <2>3. ids = {}
    <3> DEFINE c == Cardinality(ids)
    <3>1. c \in Nat /\ c =< 0 /\ (c = 0 <=> ids = {}) BY <1>3, <2>1, <2>2, FS_CardinalityType, FS_EmptySet
    <3> HIDE DEF c
    <3> QED BY <3>1
  <2>4. ToSet(h.opp.prices) = {} /\ h.opp.prices \in Seq(Nat) BY <2>1, <2>3 DEF SideInv, OfSide
  <2>5. h.opp.prices = << >> BY SMTT(60), <2>4, SeqParts
  <2>6. Over(row, b.cfg, h) BY <2>5 DEF Over
  <2> QED BY <1>1, <2>6 DEF Ended, Progress
<1> QED BY <1>1, <1>2, <1>3 DEF Progress

\* Any number of turns of the matching loop.
LEMMA MatchFlight ==
  ASSUME NEW b, NEW row, row \in Row, NEW s, s \in Nat, NEW st, NEW x, b.cfg.qtyStep \in Nat \ {0},
         NEW rows0, NEW n, n \in Nat, NEW N, N \in Nat,
         Underway(b, row, s, st.band, rows0, n, N, st, x), st.trades = << >>
  PROVE  LET h == Fold("match", 0, st, Turns(N)) IN
         Ended(b, row, s, st.band, rows0, n, h, Fold("settle", s + 1, x, h.trades))
<1> DEFINE B == {k \in 0..N : ~After(b, row, s, st, x, rows0, n, N, k)}
<1>1. After(b, row, s, st, x, rows0, n, N, 0)
  <2> DEFINE q == Turns(0)
             z == 0
             kind == "match"
             set == "settle"
             none == << >>
             c == s + 1
             d == N - 0
  <2>1. DOMAIN q = {} /\ DOMAIN none = {} /\ d = N
    <3>1. 1..0 = {} BY SMT
    <3> QED BY <3>1 DEF Turns
  <2> HIDE DEF q, z, kind, set, c, d
  <2>2. Fold(kind, z, st, q) = st BY <2>1, FoldNone
  <2>3. Fold(set, c, x, none) = x BY <2>1, FoldNone
  <2>4. Underway(b, row, s, st.band, rows0, n, d, Fold(kind, z, st, q), Fold(set, c, x, Fold(kind, z, st, q).trades))
    BY <2>1, <2>2, <2>3
  <2> QED BY <2>4 DEF After, q, z, kind, set, c, d
<1>2. B = {}
  <2> SUFFICES ASSUME B # {} PROVE FALSE OBVIOUS
  <2>1. B \subseteq Nat OBVIOUS
  <2>2. PICK k \in B : \A m \in B : k =< m
    <3> HIDE DEF B
    <3> QED BY <2>1, Least
  <2>3. k # 0 /\ k \in Nat /\ k =< N BY <1>1
  <2> DEFINE m == k - 1
  <2>4. m \in Nat /\ m < k /\ m + 1 = k /\ m \in 0..N /\ m < N BY <2>3
  <2> HIDE DEF m
  <2>5. m \notin B
    <3> HIDE DEF B
    <3> QED BY <2>2, <2>3, <2>4
  <2>6. After(b, row, s, st, x, rows0, n, N, m) BY <2>4, <2>5
  <2>7. After(b, row, s, st, x, rows0, n, N, m + 1) BY <2>4, <2>6, MatchTurn
  <2> QED BY <2>2, <2>4, <2>7
<1>3. After(b, row, s, st, x, rows0, n, N, N) BY <1>2
<1> DEFINE h == Fold("match", 0, st, Turns(N))
           y == Fold("settle", s + 1, x, h.trades)
           d == N - N
<1>4. Underway(b, row, s, st.band, rows0, n, d, h, y) BY <1>3 DEF After
<1>5. d = 0 OBVIOUS
<1> HIDE DEF h, y, d
<1>6. Underway(b, row, s, st.band, rows0, n, 0, h, y) BY <1>4, <1>5
<1>7. Ended(b, row, s, st.band, rows0, n, h, y) BY <1>6, EndOver
<1> QED BY <1>7 DEF h, y
=============================================================================

------------------------------ MODULE FoldLemmas ------------------------------
(***************************************************************************)
(* What the folds of the community modules that the payment channel        *)
(* manager's model uses compute, for every finite set: SumFunction adds,   *)
(* in whatever order it picks, and a fold over a sequence goes through it  *)
(* from the left.  The library's induction theorems take operators, so     *)
(* each induction here takes a least counterexample instead.               *)
(***************************************************************************)
EXTENDS Integers, Sequences, SequencesExt, FiniteSets, FiniteSetsExt, Functions,
        FiniteSetTheorems, TLAPS

\* Among some subsets of a finite set there is one that contains no other
LEMMA MinimalSubset ==
    ASSUME NEW S, IsFiniteSet(S), NEW T, T \subseteq SUBSET S, T # {}
    PROVE  \E t \in T : \A u \in T : u \subseteq t => u = t
<1>1. IsWellFoundedOn(StrictSubsetOrdering(S), SUBSET S)
  BY FS_StrictSubsetOrderingWellFounded, FS_FiniteSubsetsOfFinite
<1>2. PICK t \in T : \A u \in T : ~(<<u, t>> \in StrictSubsetOrdering(S)) BY <1>1, WFMin
<1>3. ASSUME NEW u \in T, u \subseteq t, u # t PROVE FALSE
  <2>1. <<u, t>> \in (SUBSET S) \X (SUBSET S) OBVIOUS
  <2> QED BY <1>2, <1>3, <2>1 DEF StrictSubsetOrdering
<1> QED BY <1>3

\* A recursion over the subsets of a finite set that takes one element away at
\* a time defines a function
Folds(g, base, choice, step, S) ==
    \A s \in SUBSET S :
        g[s] = IF s = {} THEN base ELSE step[<<choice[s], g[s \ {choice[s]}]>>]

LEMMA FoldRestrict ==
    ASSUME NEW S, NEW u \in SUBSET S, NEW g, NEW base, NEW choice, NEW step,
           Folds(g, base, choice, step, S)
    PROVE  Folds(g, base, choice, step, u)
<1>1. \A w \in SUBSET u : w \in SUBSET S OBVIOUS
<1> QED BY <1>1 DEF Folds

LEMMA FoldUnique ==
    ASSUME NEW S, IsFiniteSet(S), NEW base, NEW choice, NEW step, NEW g, NEW h,
           \A s \in SUBSET S : s # {} => choice[s] \in s,
           Folds(g, base, choice, step, S), Folds(h, base, choice, step, S)
    PROVE  g[S] = h[S]
<1> DEFINE T == {s \in SUBSET S : g[s] # h[s]}
<1>1. SUFFICES ASSUME T # {} PROVE FALSE OBVIOUS
<1>2. PICK t \in T : \A u \in T : u \subseteq t => u = t
  <2>1. T \subseteq SUBSET S OBVIOUS
  <2> HIDE DEF T
  <2> QED BY <1>1, <2>1, MinimalSubset
<1>3. CASE t = {} BY <1>3 DEF Folds
<1>4. CASE t # {}
  <2>1. choice[t] \in t BY <1>4
  <2>2. t \ {choice[t]} \in SUBSET S /\ t \ {choice[t]} # t BY <2>1
  <2>3. g[t \ {choice[t]}] = h[t \ {choice[t]}] BY <1>2, <2>2
  <2> QED BY <1>4, <2>3 DEF Folds
<1> QED BY <1>3, <1>4

LEMMA FoldExists ==
    ASSUME NEW S, IsFiniteSet(S), NEW V, NEW base \in V, NEW choice, NEW step,
           \A s \in SUBSET S : s # {} => choice[s] \in s,
           \A x \in S, v \in V : step[<<x, v>>] \in V
    PROVE  \E g \in [SUBSET S -> V] : Folds(g, base, choice, step, S)
<1> DEFINE Good(g, s) == g \in [SUBSET s -> V] /\ Folds(g, base, choice, step, s)
           T == {s \in SUBSET S : ~\E g : Good(g, s)}
           G == [s \in SUBSET S |-> CHOOSE g : Good(g, s)]
<1>1. SUFFICES ASSUME T # {} PROVE FALSE OBVIOUS
<1>2. PICK t \in T : \A u \in T : u \subseteq t => u = t
  <2>1. T \subseteq SUBSET S OBVIOUS
  <2> HIDE DEF T
  <2> QED BY <1>1, <2>1, MinimalSubset
<1>3. \A s \in SUBSET t : s # t => Good(G[s], s)
  <2>1. SUFFICES ASSUME NEW s \in SUBSET t, s # t PROVE Good(G[s], s) OBVIOUS
  <2>2. s \in SUBSET S /\ s \notin T BY <1>2, <2>1
  <2>3. \E g : Good(g, s) BY <2>2
  <2>4. G[s] = CHOOSE g : Good(g, s) BY <2>2
  <2> HIDE DEF Good, G
  <2> QED BY <2>3, <2>4
<1>4. ASSUME NEW s \in SUBSET t, s # t, NEW u \in SUBSET s
      PROVE  G[s][u] = G[u][u]
  <2>1. Good(G[s], s) /\ Good(G[u], u) BY <1>3, <1>4
  <2>2. Folds(G[s], base, choice, step, s) /\ Folds(G[u], base, choice, step, u) BY <2>1
  <2>3. IsFiniteSet(u) BY FS_Subset
  <2>4. \A w \in SUBSET u : w # {} => choice[w] \in w OBVIOUS
  <2> HIDE DEF Good, G
  <2>5. Folds(G[s], base, choice, step, u) BY <2>2, FoldRestrict
  <2> QED BY <2>2, <2>3, <2>4, <2>5, FoldUnique
<1> DEFINE Outermost == IF t = {} THEN base
                   ELSE step[<<choice[t], G[t \ {choice[t]}][t \ {choice[t]}]>>]
           H == [s \in SUBSET t |-> IF s = t THEN Outermost ELSE G[s][s]]
<1>5. Outermost \in V
  <2>1. CASE t = {} BY <2>1
  <2>2. CASE t # {}
    <3>1. choice[t] \in t /\ choice[t] \in S BY <2>2
    <3>2. t \ {choice[t]} \in SUBSET t /\ t \ {choice[t]} # t BY <3>1
    <3>3. G[t \ {choice[t]}][t \ {choice[t]}] \in V BY <1>3, <3>2
    <3> QED BY <2>2, <3>1, <3>3
  <2> QED BY <2>1, <2>2
<1>6. H \in [SUBSET t -> V] BY <1>3, <1>5
<1>7. Folds(H, base, choice, step, t)
  <2>1. SUFFICES ASSUME NEW s \in SUBSET t
                 PROVE  H[s] = IF s = {} THEN base
                               ELSE step[<<choice[s], H[s \ {choice[s]}]>>]
    BY DEF Folds
  <2>2. s # {} => choice[s] \in s /\ s \ {choice[s]} \in SUBSET s /\ s \ {choice[s]} # s
    <3>1. s \in SUBSET S OBVIOUS
    <3> QED BY <3>1
  <2>3. s # {} => H[s \ {choice[s]}] = G[s \ {choice[s]}][s \ {choice[s]}]
    <3>1. s # {} => s \ {choice[s]} # t BY <2>2
    <3> QED BY <2>2, <3>1
  <2>4. CASE s = t BY <2>3, <2>4
  <2>5. CASE s # t
    <3>1. Good(G[s], s) BY <1>3, <2>5
    <3>2. G[s][s] = IF s = {} THEN base ELSE step[<<choice[s], G[s][s \ {choice[s]}]>>]
      BY <3>1 DEF Folds
    <3>3. s # {} => G[s][s \ {choice[s]}] = G[s \ {choice[s]}][s \ {choice[s]}]
      BY <1>4, <2>2, <2>5
    <3>4. H[s] = G[s][s] BY <2>5
    <3> HIDE DEF G, H, Good
    <3> QED BY <2>3, <3>2, <3>3, <3>4
  <2> QED BY <2>4, <2>5
<1>8. Good(H, t) BY <1>6, <1>7
<1> HIDE DEF H, Good
<1> QED BY <1>2, <1>8
-----------------------------------------------------------------------------
(* Sums *)

Sums(f, g, S) ==
    \A s \in SUBSET S :
        g[s] = IF s = {} THEN 0
               ELSE f[CHOOSE x \in s : TRUE] + g[s \ {CHOOSE x \in s : TRUE}]

\* The function that SumFunctionOnSet chooses
Summing(f, S) ==
    CHOOSE g : g = [s \in SUBSET S |->
                       IF s = {} THEN 0
                       ELSE f[CHOOSE x \in s : TRUE] + g[s \ {CHOOSE x \in s : TRUE}]]

LEMMA SumsUnique ==
    ASSUME NEW S, IsFiniteSet(S), NEW f, NEW g, NEW h, Sums(f, g, S), Sums(f, h, S)
    PROVE  \A s \in SUBSET S : g[s] = h[s]
<1> DEFINE T == {s \in SUBSET S : g[s] # h[s]}
<1>1. SUFFICES ASSUME T # {} PROVE FALSE OBVIOUS
<1>2. PICK t \in T : \A u \in T : u \subseteq t => u = t
  <2>1. T \subseteq SUBSET S OBVIOUS
  <2> HIDE DEF T
  <2> QED BY <1>1, <2>1, MinimalSubset
<1>3. CASE t = {} BY <1>3 DEF Sums
<1>4. CASE t # {}
  <2> DEFINE x == CHOOSE x \in t : TRUE
  <2>1. x \in t BY <1>4
  <2>2. g[t] = f[x] + g[t \ {x}] /\ h[t] = f[x] + h[t \ {x}] BY <1>4 DEF Sums
  <2> HIDE DEF x
  <2>3. t \ {x} \in SUBSET t /\ t \ {x} # t BY <2>1
  <2>4. g[t \ {x}] = h[t \ {x}] BY <1>2, <2>3
  <2> QED BY <2>2, <2>4
<1> QED BY <1>3, <1>4

LEMMA SummingSums ==
    ASSUME NEW S, IsFiniteSet(S), NEW f, \A x \in S : f[x] \in Nat
    PROVE  Sums(f, Summing(f, S), S) /\ \A s \in SUBSET S : Summing(f, S)[s] \in Nat
<1> DEFINE choice == [s \in SUBSET S |-> CHOOSE x \in s : TRUE]
           step == [p \in S \X Nat |-> f[p[1]] + p[2]]
<1>1. \A s \in SUBSET S : s # {} => choice[s] \in s OBVIOUS
<1>2. \A x \in S, v \in Nat : step[<<x, v>>] = f[x] + v OBVIOUS
<1>3. ASSUME NEW x \in S, NEW v \in Nat PROVE step[<<x, v>>] \in Nat
  <2>1. step[<<x, v>>] = f[x] + v BY <1>2
  <2>2. f[x] \in Nat OBVIOUS
  <2> HIDE DEF step
  <2> QED BY <2>1, <2>2
<1>4. PICK g \in [SUBSET S -> Nat] : Folds(g, 0, choice, step, S)
  <2> HIDE DEF choice, step
  <2> QED BY <1>1, <1>3, FoldExists
<1>5. Sums(f, g, S)
  <2>1. SUFFICES ASSUME NEW s \in SUBSET S, s # {}
                 PROVE  g[s] = f[choice[s]] + g[s \ {choice[s]}]
    BY <1>4 DEF Sums, Folds
  <2>2. choice[s] \in s /\ s \ {choice[s]} \in SUBSET S BY <1>1, <2>1
  <2> HIDE DEF choice, step
  <2>3. g[s] = step[<<choice[s], g[s \ {choice[s]}]>>] BY <1>4, <2>1 DEF Folds
  <2> QED BY <1>2, <2>2, <2>3
<1>6. g = [s \in SUBSET S |-> IF s = {} THEN 0
              ELSE f[CHOOSE x \in s : TRUE] + g[s \ {CHOOSE x \in s : TRUE}]]
  BY <1>5 DEF Sums
<1>7. Summing(f, S) = [s \in SUBSET S |-> IF s = {} THEN 0
          ELSE f[CHOOSE x \in s : TRUE] + Summing(f, S)[s \ {CHOOSE x \in s : TRUE}]]
  BY <1>6 DEF Summing
<1>8. Sums(f, Summing(f, S), S) BY <1>7 DEF Sums
<1>9. \A s \in SUBSET S : Summing(f, S)[s] = g[s] BY <1>5, <1>8, SumsUnique
<1> QED BY <1>8, <1>9

LEMMA SumRecursion ==
    ASSUME NEW S, IsFiniteSet(S), NEW f, \A x \in S : f[x] \in Nat
    PROVE  /\ SumFunctionOnSet(f, S) \in Nat
           /\ S = {} => SumFunctionOnSet(f, S) = 0
           /\ S # {} => \E x \in S : SumFunctionOnSet(f, S) = f[x] + SumFunctionOnSet(f, S \ {x})
<1>1. \A s : SumFunctionOnSet(f, s) = Summing(f, s)[s]
  BY DEF SumFunctionOnSet, FoldFunctionOnSet, MapThenFoldSet, Summing
<1>2. Sums(f, Summing(f, S), S) /\ Summing(f, S)[S] \in Nat BY SummingSums
<1>3. S = {} => Summing(f, S)[S] = 0 BY <1>2 DEF Sums
<1>4. ASSUME S # {}
      PROVE  \E x \in S : Summing(f, S)[S] = f[x] + Summing(f, S \ {x})[S \ {x}]
  <2> DEFINE x == CHOOSE x \in S : TRUE
             s == S \ {x}
  <2>1. x \in S BY <1>4
  <2>2. Summing(f, S)[S] = f[x] + Summing(f, S)[s] BY <1>2, <1>4 DEF Sums
  <2> HIDE DEF x
  <2>3. IsFiniteSet(s) /\ s \subseteq S BY FS_Subset
  <2>4. Sums(f, Summing(f, s), s) BY <2>3, SummingSums
  <2>5. Sums(f, Summing(f, S), s) BY <1>2, <2>3 DEF Sums
  <2>6. Summing(f, S)[s] = Summing(f, s)[s] BY <2>3, <2>4, <2>5, SumsUnique
  <2> QED BY <2>1, <2>2, <2>6
<1> QED BY <1>1, <1>2, <1>3, <1>4

\* What SumRecursion takes away may be any element
LEMMA SumRemove ==
    ASSUME NEW S, IsFiniteSet(S), NEW f, \A x \in S : f[x] \in Nat, NEW e \in S
    PROVE  SumFunctionOnSet(f, S) = f[e] + SumFunctionOnSet(f, S \ {e})
<1> DEFINE sum(s) == SumFunctionOnSet(f, s)
           T == {s \in SUBSET S : \E d \in s : sum(s) # f[d] + sum(s \ {d})}
<1>1. SUFFICES ASSUME T # {} PROVE FALSE OBVIOUS
<1>2. PICK t \in T : \A u \in T : u \subseteq t => u = t
  <2>1. T \subseteq SUBSET S OBVIOUS
  <2> HIDE DEF T
  <2> QED BY <1>1, <2>1, MinimalSubset
<1>3. PICK d \in t : sum(t) # f[d] + sum(t \ {d}) OBVIOUS
<1>4. \A u \in SUBSET S : sum(u) \in Nat /\ IsFiniteSet(u) BY FS_Subset, SumRecursion
<1>5. PICK x \in t : sum(t) = f[x] + sum(t \ {x})
  <2>1. t # {} /\ \A y \in t : f[y] \in Nat BY <1>3
  <2> QED BY <1>4, <2>1, SumRecursion
<1>6. x # d BY <1>3, <1>5
<1>7. sum(t \ {x}) = f[d] + sum(t \ {x, d})
  <2>1. t \ {x} \in SUBSET S /\ t \ {x} # t /\ t \ {x} \subseteq t /\ d \in t \ {x} BY <1>6
  <2>2. (t \ {x}) \ {d} = t \ {x, d} OBVIOUS
  <2> HIDE DEF sum
  <2> QED BY <1>2, <2>1, <2>2
<1>8. sum(t \ {d}) = f[x] + sum(t \ {x, d})
  <2>1. t \ {d} \in SUBSET S /\ t \ {d} # t /\ t \ {d} \subseteq t /\ x \in t \ {d} BY <1>6
  <2>2. (t \ {d}) \ {x} = t \ {x, d} OBVIOUS
  <2> HIDE DEF sum
  <2> QED BY <1>2, <2>1, <2>2
<1>9. f[x] \in Nat /\ f[d] \in Nat /\ sum(t \ {x, d}) \in Nat BY <1>4
<1> HIDE DEF sum, T
<1> QED BY <1>3, <1>5, <1>7, <1>8, <1>9

\* The sum depends on the values only
LEMMA SumAgree ==
    ASSUME NEW S, IsFiniteSet(S), NEW f, NEW g, \A x \in S : f[x] \in Nat /\ g[x] = f[x]
    PROVE  SumFunctionOnSet(g, S) = SumFunctionOnSet(f, S)
<1>1. Sums(f, Summing(f, S), S) /\ Sums(g, Summing(g, S), S) BY SummingSums
<1>2. Sums(f, Summing(g, S), S)
  <2>1. \A s \in SUBSET S : s # {} => (CHOOSE x \in s : TRUE) \in S OBVIOUS
  <2> QED BY <1>1, <2>1 DEF Sums
<1>3. Summing(g, S)[S] = Summing(f, S)[S] BY <1>1, <1>2, SumsUnique
<1> QED BY <1>3 DEF SumFunctionOnSet, FoldFunctionOnSet, MapThenFoldSet, Summing

\* Nothing adds up to nothing
LEMMA SumZero ==
    ASSUME NEW S, IsFiniteSet(S), NEW f, \A x \in S : f[x] = 0
    PROVE  SumFunctionOnSet(f, S) = 0
<1> DEFINE T == {s \in SUBSET S : SumFunctionOnSet(f, s) # 0}
<1>1. \A s \in SUBSET S : IsFiniteSet(s) /\ \A x \in s : f[x] \in Nat BY FS_Subset
<1>2. CASE T = {} BY <1>2
<1>3. CASE T # {}
  <2>1. PICK t \in T : \A u \in T : u \subseteq t => u = t
    <3>1. T \subseteq SUBSET S OBVIOUS
    <3> HIDE DEF T
    <3> QED BY <1>3, <3>1, MinimalSubset
  <2>2. t \in SUBSET S /\ SumFunctionOnSet(f, t) # 0 OBVIOUS
  <2>3. t # {} BY <1>1, <2>2, SumRecursion
  <2>4. PICK x \in t : SumFunctionOnSet(f, t) = f[x] + SumFunctionOnSet(f, t \ {x})
    BY <1>1, <2>2, <2>3, SumRecursion
  <2>5. t \ {x} \in SUBSET S /\ t \ {x} # t /\ t \ {x} \subseteq t BY <2>4
  <2>6. SumFunctionOnSet(f, t \ {x}) = 0 BY <2>1, <2>5
  <2> QED BY <2>2, <2>4, <2>6
<1> QED BY <1>2, <1>3

\* The sum over a single element
LEMMA SumSingleton ==
    ASSUME NEW f, NEW x, f[x] \in Nat
    PROVE  SumFunctionOnSet(f, {x}) = f[x]
<1>1. IsFiniteSet({x}) /\ IsFiniteSet({}) BY FS_Singleton, FS_EmptySet
<1>2. SumFunctionOnSet(f, {}) = 0 BY <1>1, SumRecursion
<1>3. SumFunctionOnSet(f, {x}) = f[x] + SumFunctionOnSet(f, {x} \ {x}) BY <1>1, SumRemove
<1>4. {x} \ {x} = {} OBVIOUS
<1> QED BY <1>2, <1>3, <1>4

LEMMA SumDisjoint ==
    ASSUME NEW A, IsFiniteSet(A), NEW B, IsFiniteSet(B), A \cap B = {},
           NEW f, \A x \in A \cup B : f[x] \in Nat
    PROVE  SumFunctionOnSet(f, A \cup B) = SumFunctionOnSet(f, A) + SumFunctionOnSet(f, B)
<1> DEFINE sum(s) == SumFunctionOnSet(f, s)
           T == {s \in SUBSET B : sum(A \cup s) # sum(A) + sum(s)}
<1>1. SUFFICES ASSUME T # {} PROVE FALSE OBVIOUS
<1>2. PICK t \in T : \A u \in T : u \subseteq t => u = t
  <2>1. T \subseteq SUBSET B OBVIOUS
  <2> HIDE DEF T
  <2> QED BY <1>1, <2>1, MinimalSubset
<1>3. \A s \in SUBSET (A \cup B) : IsFiniteSet(s) /\ sum(s) \in Nat
  BY FS_Union, FS_Subset, SumRecursion
<1>4. CASE t = {}
  <2>1. sum(t) = 0 /\ A \cup t = A /\ sum(A) \in Nat BY <1>3, <1>4, SumRecursion
  <2>2. sum(A \cup t) = sum(A) BY <2>1
  <2>3. sum(A \cup t) # sum(A) + sum(t) OBVIOUS
  <2> HIDE DEF sum, T
  <2> QED BY <2>1, <2>2, <2>3
<1>5. CASE t # {}
  <2>1. PICK x \in t : TRUE BY <1>5
  <2>2. t \ {x} \in SUBSET B /\ t \ {x} # t /\ t \ {x} \subseteq t BY <2>1
  <2>3. sum(A \cup (t \ {x})) = sum(A) + sum(t \ {x}) BY <1>2, <2>2
  <2>4. x \in A \cup t /\ (A \cup t) \ {x} = A \cup (t \ {x}) OBVIOUS
  <2>5. sum(t) = f[x] + sum(t \ {x}) BY <1>3, SumRemove
  <2>6. sum(A \cup t) = f[x] + sum(A \cup (t \ {x}))
    <3>1. IsFiniteSet(A \cup t) /\ \A y \in A \cup t : f[y] \in Nat BY <1>3
    <3> QED BY <2>4, <3>1, SumRemove
  <2>7. f[x] \in Nat /\ sum(A) \in Nat /\ sum(t \ {x}) \in Nat BY <1>3
  <2>8. sum(A \cup t) # sum(A) + sum(t) OBVIOUS
  <2> HIDE DEF sum, T
  <2> QED BY <2>3, <2>5, <2>6, <2>7, <2>8
<1> QED BY <1>4, <1>5

\* Smaller values on fewer elements
LEMMA SumLeq ==
    ASSUME NEW S, IsFiniteSet(S), NEW U \in SUBSET S, NEW f, NEW g,
           \A x \in S : f[x] \in Nat, \A x \in U : g[x] \in Nat /\ g[x] <= f[x]
    PROVE  SumFunctionOnSet(g, U) <= SumFunctionOnSet(f, S)
<1> DEFINE T == {s \in SUBSET S : ~(SumFunctionOnSet(g, U \cap s) <= SumFunctionOnSet(f, s))}
<1>1. \A s \in SUBSET S : /\ IsFiniteSet(s) /\ SumFunctionOnSet(f, s) \in Nat
                          /\ IsFiniteSet(U \cap s) /\ SumFunctionOnSet(g, U \cap s) \in Nat
  BY FS_Subset, SumRecursion
<1>2. CASE T = {}
  <2>1. S \notin T /\ U \cap S = U BY <1>2
  <2> QED BY <2>1
<1>3. CASE T # {}
  <2>1. PICK t \in T : \A u \in T : u \subseteq t => u = t
    <3>1. T \subseteq SUBSET S OBVIOUS
    <3> HIDE DEF T
    <3> QED BY <1>3, <3>1, MinimalSubset
  <2>2. PICK x \in t : TRUE
    <3>1. CASE t = {}
      <4>1. U \cap t = {} BY <3>1
      <4>2. SumFunctionOnSet(g, U \cap t) = 0 /\ SumFunctionOnSet(f, t) = 0
        BY <1>1, <3>1, <4>1, SumRecursion
      <4> QED BY <4>2
    <3> QED BY <3>1
  <2>3. t \ {x} \in SUBSET S /\ t \ {x} # t /\ t \ {x} \subseteq t BY <2>2
  <2>4. SumFunctionOnSet(g, U \cap (t \ {x})) <= SumFunctionOnSet(f, t \ {x}) BY <2>1, <2>3
  <2>5. SumFunctionOnSet(f, t) = f[x] + SumFunctionOnSet(f, t \ {x}) BY <1>1, SumRemove
  <2>6. /\ SumFunctionOnSet(g, U \cap (t \ {x})) \in Nat /\ SumFunctionOnSet(f, t \ {x}) \in Nat
        /\ SumFunctionOnSet(g, U \cap t) \in Nat /\ SumFunctionOnSet(f, t) \in Nat
    BY <1>1, <2>3
  <2>7. ~(SumFunctionOnSet(g, U \cap t) <= SumFunctionOnSet(f, t)) OBVIOUS
  <2>8. f[x] \in Nat OBVIOUS
  <2>9. CASE x \in U
    <3>1. (U \cap t) \ {x} = U \cap (t \ {x}) /\ x \in U \cap t BY <2>9
    <3>2. IsFiniteSet(U \cap t) /\ \A y \in U \cap t : g[y] \in Nat BY <1>1
    <3>3. SumFunctionOnSet(g, U \cap t) = g[x] + SumFunctionOnSet(g, U \cap (t \ {x}))
      BY <3>1, <3>2, SumRemove
    <3>4. g[x] \in Nat /\ g[x] <= f[x] BY <2>9
    <3> HIDE DEF T
    <3> QED BY <2>4, <2>5, <2>6, <2>7, <2>8, <3>3, <3>4
  <2>10. CASE x \notin U
    <3>1. U \cap t = U \cap (t \ {x}) BY <2>10
    <3>2. SumFunctionOnSet(g, U \cap t) = SumFunctionOnSet(g, U \cap (t \ {x})) BY <3>1
    <3> HIDE DEF T
    <3> QED BY <2>4, <2>5, <2>6, <2>7, <2>8, <3>2
  <2> QED BY <2>9, <2>10
<1> QED BY <1>2, <1>3

\* A set in parts, each of which sums to no more than its key is worth: k[x] is
\* the part that x is in
LEMMA SumParts ==
    ASSUME NEW M, IsFiniteSet(M), NEW R, IsFiniteSet(R), NEW f, NEW b, NEW k,
           \A x \in R : f[x] \in Nat, \A m \in M : b[m] \in Nat,
           \A x \in R : k[x] \in M,
           \A m \in M : SumFunctionOnSet(f, {x \in R : k[x] = m}) <= b[m]
    PROVE  SumFunctionOnSet(f, R) <= SumFunctionOnSet(b, M)
<1> DEFINE In(s) == {x \in R : k[x] \in s}
           T == {s \in SUBSET M : ~(SumFunctionOnSet(f, In(s)) <= SumFunctionOnSet(b, s))}
<1>1. \A s \in SUBSET M : IsFiniteSet(s) /\ SumFunctionOnSet(b, s) \in Nat
  BY FS_Subset, SumRecursion
<1>2. \A s \in SUBSET R : IsFiniteSet(s) /\ SumFunctionOnSet(f, s) \in Nat
  BY FS_Subset, SumRecursion
<1>3. CASE T = {}
  <2>1. In(M) = R OBVIOUS
  <2>2. M \notin T BY <1>3
  <2> QED BY <2>1, <2>2
<1>4. CASE T # {}
  <2>1. PICK t \in T : \A u \in T : u \subseteq t => u = t
    <3>1. T \subseteq SUBSET M OBVIOUS
    <3> HIDE DEF T
    <3> QED BY <1>4, <3>1, MinimalSubset
  <2>2. PICK m \in t : TRUE
    <3>1. CASE t = {}
      <4>1. In(t) = {} /\ IsFiniteSet({}) BY <3>1, FS_EmptySet
      <4>2. SumFunctionOnSet(f, In(t)) = 0 /\ SumFunctionOnSet(b, t) = 0
        BY <3>1, <4>1, SumRecursion
      <4> QED BY <4>2
    <3> QED BY <3>1
  <2> DEFINE part == {x \in R : k[x] = m}
  <2>3. t \ {m} \in SUBSET M /\ t \ {m} # t /\ t \ {m} \subseteq t BY <2>2
  <2>4. SumFunctionOnSet(f, In(t \ {m})) <= SumFunctionOnSet(b, t \ {m}) BY <2>1, <2>3
  <2>5. SumFunctionOnSet(b, t) = b[m] + SumFunctionOnSet(b, t \ {m}) BY <1>1, SumRemove
  <2>6. SumFunctionOnSet(f, In(t)) = SumFunctionOnSet(f, In(t \ {m})) + SumFunctionOnSet(f, part)
    <3>1. /\ In(t) = In(t \ {m}) \cup part /\ In(t \ {m}) \cap part = {}
          /\ In(t \ {m}) \in SUBSET R /\ part \in SUBSET R
      OBVIOUS
    <3>2. \A x \in In(t \ {m}) \cup part : f[x] \in Nat OBVIOUS
    <3> HIDE DEF In, part
    <3> QED BY <1>2, <3>1, <3>2, SumDisjoint
  <2>7. SumFunctionOnSet(f, part) <= b[m] /\ b[m] \in Nat OBVIOUS
  <2>8. /\ SumFunctionOnSet(f, In(t)) \in Nat /\ SumFunctionOnSet(f, In(t \ {m})) \in Nat
        /\ SumFunctionOnSet(f, part) \in Nat
    <3>1. In(t) \in SUBSET R /\ In(t \ {m}) \in SUBSET R /\ part \in SUBSET R OBVIOUS
    <3> HIDE DEF In, part
    <3> QED BY <1>2, <3>1
  <2>9. SumFunctionOnSet(b, t) \in Nat /\ SumFunctionOnSet(b, t \ {m}) \in Nat BY <1>1, <2>3
  <2>10. ~(SumFunctionOnSet(f, In(t)) <= SumFunctionOnSet(b, t)) OBVIOUS
  <2> HIDE DEF In, T, part
  <2> QED BY <2>4, <2>5, <2>6, <2>7, <2>8, <2>9, <2>10
<1> QED BY <1>3, <1>4
-----------------------------------------------------------------------------
(* Sequences *)

\* The largest index of a prefix is its length: FoldLeft goes to the left from it
LEMMA MaxOfPrefix ==
    ASSUME NEW n \in Nat, n > 0
    PROVE  Max(1..n) = n /\ (1..n) \ {n} = 1..(n - 1)
<1>1. n \in 1..n /\ \A y \in 1..n : n >= y OBVIOUS
<1>2. \A x \in 1..n : (\A y \in 1..n : x >= y) => x = n OBVIOUS
<1>3. Max(1..n) = n BY <1>1, <1>2 DEF Max
<1> QED BY <1>3

\* A finite set of integers that is not empty has a maximum
LEMMA MaxIsMax ==
    ASSUME NEW S, IsFiniteSet(S), S # {}, \A x \in S : x \in Int
    PROVE  Max(S) \in S /\ \A y \in S : Max(S) >= y
<1> DEFINE T == {s \in SUBSET S : s # {} /\ ~\E x \in s : \A y \in s : x >= y}
<1>1. CASE T = {}
  <2>1. \E x \in S : \A y \in S : x >= y BY <1>1
  <2> QED BY <2>1 DEF Max
<1>2. CASE T # {}
  <2>1. PICK t \in T : \A u \in T : u \subseteq t => u = t
    <3>1. T \subseteq SUBSET S OBVIOUS
    <3>2. \E s \in T : TRUE BY <1>2
    <3> HIDE DEF T
    <3>3. T # {} BY <3>2
    <3> QED BY <3>1, <3>3, MinimalSubset
  <2>2. PICK x \in t : TRUE OBVIOUS
  <2>3. t \ {x} \in SUBSET S /\ t \ {x} # t /\ t \ {x} \subseteq t /\ x \in Int BY <2>2
  <2>4. t \ {x} # {}
    <3>1. SUFFICES ASSUME t \ {x} = {} PROVE FALSE OBVIOUS
    <3>2. \A y \in t : x >= y BY <2>3, <3>1
    <3> QED BY <3>2
  <2>5. PICK z \in t \ {x} : \A y \in t \ {x} : z >= y BY <2>1, <2>3, <2>4
  <2>6. \A y \in t : y \in Int OBVIOUS
  <2>7. (\A y \in t : x >= y) \/ \A y \in t : z >= y
    <3>1. CASE x >= z BY <2>5, <2>6, <3>1
    <3>2. CASE z >= x BY <2>5, <2>6, <3>2
    <3> QED BY <2>3, <2>5, <2>6, <3>1, <3>2
  <2> QED BY <2>5, <2>7
<1> QED BY <1>1, <1>2

LEMMA LeastNatural ==
    ASSUME NEW T, T \subseteq Nat, T # {}
    PROVE  \E t \in T : \A u \in T : t <= u
<1>1. PICK t \in T : \A u \in T : ~(<<u, t>> \in OpToRel(<, Nat))
  BY NatLessThanWellFounded, WFMin, Zenon
<1>2. ASSUME NEW u \in T PROVE t <= u
  <2>1. u \in Nat /\ t \in Nat OBVIOUS
  <2>2. ~(u < t) BY <1>1, <2>1 DEF OpToRel
  <2> QED BY <2>1, <2>2
<1> QED BY <1>2

\* The values of a function on a finite set
LEMMA ImageIsFinite ==
    ASSUME NEW S, IsFiniteSet(S), NEW f
    PROVE  IsFiniteSet({f[x] : x \in S})
<1> DEFINE T == {f[x] : x \in S}
           g == [x \in S |-> f[x]]
<1>1. g \in [S -> T] /\ \A t \in T : \E x \in S : g[x] = t OBVIOUS
<1>2. g \in Surjection(S, T) BY <1>1 DEF Surjection
<1> HIDE DEF g
<1> QED BY <1>2, FS_Surjection

\* A function to the integers has its maximum on a finite set that is not empty
LEMMA SomeMaximum ==
    ASSUME NEW S, IsFiniteSet(S), S # {}, NEW f, \A x \in S : f[x] \in Int
    PROVE  \E x \in S : \A y \in S : f[x] >= f[y]
<1> DEFINE T == {f[x] : x \in S}
<1>1. T # {} /\ \A t \in T : t \in Int OBVIOUS
<1>2. IsFiniteSet(T) BY ImageIsFinite
<1>3. Max(T) \in T /\ \A t \in T : Max(T) >= t
  <2> HIDE DEF T
  <2> QED BY <1>1, <1>2, MaxIsMax
<1>4. PICK x \in S : Max(T) = f[x] BY <1>3
<1>5. \A y \in S : f[y] \in T OBVIOUS
<1> QED BY <1>3, <1>4, <1>5
=============================================================================

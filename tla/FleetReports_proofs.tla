-------------------------- MODULE FleetReports_proofs --------------------------
(***************************************************************************)
(* Proofs about the reports: for any fleet, any interfaces and any number  *)
(* of requests under way, the numbers of the reports agree.                *)
(*                                                                         *)
(* First sums of numbers in general.  Then the requests: State is what     *)
(* holds of the rows, the books and the traffic, Line of the requests      *)
(* under way; both together are inductive.  In any such state the reports, *)
(* which are sums of what it holds, agree.                                 *)
(***************************************************************************)
EXTENDS FleetReports, FiniteSetTheorems, WellFoundedInduction, TLAPS

-----------------------------------------------------------------------------
(* Sums.  SumFunction takes the elements of a finite set one by one; what   *)
(* it returns does not depend on which it takes first.                      *)

\* Of some subsets of a finite set, one has no other among its own subsets.
LEMMA LeastSubset ==
  ASSUME NEW S, IsFiniteSet(S), NEW T \in SUBSET (SUBSET S), T # {}
  PROVE  \E s \in T : \A t \in T : t \subseteq s => t = s
<1> DEFINE R == StrictSubsetOrdering(S)
<1>1. IsWellFoundedOn(R, FiniteSubsetsOf(S))
  BY FS_StrictSubsetOrderingWellFounded
<1>2. T \subseteq FiniteSubsetsOf(S)
  BY FS_Subset DEF FiniteSubsetsOf
<1>3. \A s, t \in T : t \subseteq s /\ t # s => <<t, s>> \in R
  BY <1>2 DEF StrictSubsetOrdering
<1> HIDE DEF R
<1>4. \E s \in T : \A t \in T : ~ (<<t, s>> \in R)
  BY <1>1, <1>2, WFMin
<1> QED
  BY <1>3, <1>4

Chosen(s) == CHOOSE x \in s : TRUE

\* f is the function by which the weights w of the elements of S are summed.
SumsUp(w, f, S) ==
  f = [s \in SUBSET S |-> IF s = {} THEN 0 ELSE w[Chosen(s)] + f[s \ {Chosen(s)}]]

Total(w, S) == SumFunctionOnSet(w, S)

\* A sum is the value of that function at the whole set.
LEMMA TotalOfSums ==
  ASSUME NEW w, NEW S
  PROVE  Total(w, S) = (CHOOSE f : SumsUp(w, f, S))[S]
BY DEF Total, SumFunctionOnSet, FoldFunctionOnSet, MapThenFoldSet, SumsUp, Chosen

\* Such functions agree wherever both are defined.
LEMMA SumIsUnique ==
  ASSUME NEW w, NEW S, IsFiniteSet(S), NEW V, NEW W, S \subseteq V, S \subseteq W,
         NEW f, NEW g, SumsUp(w, f, V), SumsUp(w, g, W)
  PROVE  f[S] = g[S]
<1> DEFINE T == {s \in SUBSET S : f[s] # g[s]}
<1>1. SUFFICES ASSUME T # {} PROVE FALSE
  OBVIOUS
<1>2. PICK s \in T : \A t \in T : t \subseteq s => t = s
  <2> HIDE DEF T
  <2> T \in SUBSET (SUBSET S)
    BY DEF T
  <2> QED
    BY <1>1, LeastSubset
<1>3. s \in SUBSET V /\ s \in SUBSET W
  OBVIOUS
<1>4. /\ f[s] = IF s = {} THEN 0 ELSE w[Chosen(s)] + f[s \ {Chosen(s)}]
      /\ g[s] = IF s = {} THEN 0 ELSE w[Chosen(s)] + g[s \ {Chosen(s)}]
  BY <1>3 DEF SumsUp
<1>5. CASE s = {}
  BY <1>4, <1>5
<1>6. CASE s # {}
  <2>1. Chosen(s) \in s
    BY <1>6 DEF Chosen
  <2>2. s \ {Chosen(s)} \notin T
    BY <1>2, <2>1
  <2> QED
    BY <1>4, <1>6, <2>2
<1> QED
  BY <1>5, <1>6

\* There is one for every finite set.
LEMMA SumExists ==
  ASSUME NEW w, NEW S, IsFiniteSet(S)
  PROVE  \E f : SumsUp(w, f, S)
<1> DEFINE T == {s \in SUBSET S : ~ \E f : SumsUp(w, f, s)}
<1>1. SUFFICES ASSUME T # {} PROVE FALSE
  BY DEF T
<1>2. PICK s \in T : \A t \in T : t \subseteq s => t = s
  <2> HIDE DEF T
  <2> T \in SUBSET (SUBSET S)
    BY DEF T
  <2> QED
    BY <1>1, LeastSubset
<1> DEFINE F(t) == CHOOSE f : SumsUp(w, f, t)
           f == [t \in SUBSET s |-> IF t = {} THEN 0
                                    ELSE w[Chosen(t)] + F(t \ {Chosen(t)})[t \ {Chosen(t)}]]
<1>3. \A t \in SUBSET s : t # s => SumsUp(w, F(t), t)
  <2> SUFFICES ASSUME NEW t \in SUBSET s, t # s PROVE SumsUp(w, F(t), t)
    OBVIOUS
  <2>1. t \notin T /\ t \in SUBSET S
    BY <1>2
  <2>2. \E h : SumsUp(w, h, t)
    BY <2>1
  <2> QED
    BY <2>2
<1>4. ASSUME NEW t \in SUBSET s, t # s PROVE f[t] = F(t)[t]
  <2> HIDE DEF F
  <2>1. F(t)[t] = IF t = {} THEN 0 ELSE w[Chosen(t)] + F(t)[t \ {Chosen(t)}]
    BY <1>3, <1>4 DEF SumsUp
  <2>2. f[t] = IF t = {} THEN 0 ELSE w[Chosen(t)] + F(t \ {Chosen(t)})[t \ {Chosen(t)}]
    OBVIOUS
  <2>3. CASE t = {}
    BY <2>1, <2>2, <2>3
  <2>4. CASE t # {}
    <3> DEFINE u == t \ {Chosen(t)}
    <3>1. Chosen(t) \in t
      BY <2>4 DEF Chosen
    <3>2. u \in SUBSET s /\ u # s /\ u \subseteq t
      BY <3>1
    <3>3. IsFiniteSet(u)
      BY <3>2, FS_Subset
    <3>4. SumsUp(w, F(u), u) /\ SumsUp(w, F(t), t)
      BY <1>3, <1>4, <3>2
    <3> HIDE DEF u
    <3>5. F(u)[u] = F(t)[u]
      BY <3>2, <3>3, <3>4, SumIsUnique
    <3> QED
      BY <2>1, <2>2, <2>4, <3>5 DEF u
  <2> QED
    BY <2>3, <2>4
<1>5. ASSUME NEW t \in SUBSET s, t # {} PROVE f[t] = w[Chosen(t)] + f[t \ {Chosen(t)}]
  <2> DEFINE u == t \ {Chosen(t)}
  <2>1. Chosen(t) \in t
    BY <1>5 DEF Chosen
  <2>2. u \in SUBSET s /\ u # s
    BY <2>1
  <2>3. f[t] = w[Chosen(t)] + F(u)[u]
    <3> HIDE DEF F
    <3> QED
      BY <1>5
  <2> HIDE DEF f, F
  <2>4. f[u] = F(u)[u]
    <3> HIDE DEF u
    <3> QED
      BY <1>4, <2>2
  <2> QED
    BY <2>3, <2>4
<1>6. f[{}] = 0
  <2> HIDE DEF F
  <2> QED
    OBVIOUS
<1>7. SumsUp(w, f, s)
  <2>1. f = [t \in SUBSET s |-> f[t]]
    <3> HIDE DEF F
    <3> QED
      OBVIOUS
  <2> HIDE DEF f
  <2>2. \A t \in SUBSET s : f[t] = IF t = {} THEN 0 ELSE w[Chosen(t)] + f[t \ {Chosen(t)}]
    BY <1>5, <1>6
  <2> DEFINE g == [t \in SUBSET s |-> IF t = {} THEN 0 ELSE w[Chosen(t)] + f[t \ {Chosen(t)}]]
  <2>3. \A t \in SUBSET s : f[t] = g[t]
    BY <2>2
  <2>4. f = g
    BY <2>1, <2>3
  <2> QED
    BY <2>4 DEF SumsUp
<1>8. s \notin T
  <2> HIDE DEF f
  <2> QED
    BY <1>7
<1> QED
  BY <1>2, <1>8


\* What the function of a set says of its subsets are their own sums.
LEMMA SumOfSubset ==
  ASSUME NEW w, NEW S, IsFiniteSet(S), NEW V, S \subseteq V, NEW f, SumsUp(w, f, V)
  PROVE  Total(w, S) = f[S]
<1>1. PICK g : SumsUp(w, g, S) /\ Total(w, S) = g[S]
  <2>1. SumsUp(w, CHOOSE h : SumsUp(w, h, S), S)
    BY SumExists
  <2> QED
    BY <2>1, TotalOfSums
<1>2. S \subseteq S
  OBVIOUS
<1>3. f[S] = g[S]
  BY <1>1, <1>2, SumIsUnique
<1> QED
  BY <1>1, <1>3

\* A sum is one number and the sum of the others.
LEMMA TotalTakesOne ==
  ASSUME NEW w, NEW S, IsFiniteSet(S)
  PROVE  Total(w, S) = IF S = {} THEN 0 ELSE w[Chosen(S)] + Total(w, S \ {Chosen(S)})
<1>1. PICK f : SumsUp(w, f, S)
  BY SumExists
<1>2. f[S] = IF S = {} THEN 0 ELSE w[Chosen(S)] + f[S \ {Chosen(S)}]
  BY <1>1 DEF SumsUp
<1>3. Total(w, S) = f[S]
  BY <1>1, SumOfSubset
<1>4. Total(w, S \ {Chosen(S)}) = f[S \ {Chosen(S)}]
  <2> DEFINE u == S \ {Chosen(S)}
  <2>1. IsFiniteSet(u) /\ u \subseteq S
    BY FS_Subset
  <2> HIDE DEF u
  <2> QED
    BY <1>1, <2>1, SumOfSubset DEF u
<1> QED
  BY <1>2, <1>3, <1>4

\* A sum of integers is one, and of natural numbers a natural number.
LEMMA TotalIsInt ==
  ASSUME NEW w, NEW S, IsFiniteSet(S), \A x \in S : w[x] \in Int
  PROVE  Total(w, S) \in Int /\ ((\A x \in S : w[x] \in Nat) => Total(w, S) \in Nat)
<1> DEFINE Good(s) == Total(w, s) \in Int /\ ((\A x \in S : w[x] \in Nat) => Total(w, s) \in Nat)
           T == {s \in SUBSET S : ~Good(s)}
<1>1. SUFFICES ASSUME T # {} PROVE FALSE
  OBVIOUS
<1>2. PICK s \in T : \A t \in T : t \subseteq s => t = s
  <2> HIDE DEF T
  <2> T \in SUBSET (SUBSET S)
    BY DEF T
  <2> QED
    BY <1>1, LeastSubset
<1>3. IsFiniteSet(s)
  BY FS_Subset
<1>4. Total(w, s) = IF s = {} THEN 0 ELSE w[Chosen(s)] + Total(w, s \ {Chosen(s)})
  BY <1>3, TotalTakesOne
<1>5. CASE s = {}
  BY <1>4, <1>5
<1>6. CASE s # {}
  <2>1. Chosen(s) \in s
    BY <1>6 DEF Chosen
  <2>2. s \ {Chosen(s)} \notin T
    BY <1>2, <2>1
  <2>3. Good(s \ {Chosen(s)}) /\ w[Chosen(s)] \in Int
    BY <2>1, <2>2
  <2> QED
    BY <1>4, <1>6, <2>3
<1> QED
  BY <1>5, <1>6

\* Any element may be taken first.
LEMMA TotalTakesAny ==
  ASSUME NEW w, NEW S, IsFiniteSet(S), \A x \in S : w[x] \in Int, NEW y \in S
  PROVE  Total(w, S) = w[y] + Total(w, S \ {y})
<1> DEFINE T == {s \in SUBSET S : \E x \in s : Total(w, s) # w[x] + Total(w, s \ {x})}
<1>1. SUFFICES ASSUME T # {} PROVE FALSE
  OBVIOUS
<1>2. PICK s \in T : \A t \in T : t \subseteq s => t = s
  <2> HIDE DEF T
  <2> T \in SUBSET (SUBSET S)
    BY DEF T
  <2> QED
    BY <1>1, LeastSubset
<1>3. PICK x \in s : Total(w, s) # w[x] + Total(w, s \ {x})
  OBVIOUS
<1> DEFINE c == Chosen(s)
           both == (s \ {x}) \ {c}
<1>4. /\ IsFiniteSet(s) /\ IsFiniteSet(s \ {x}) /\ IsFiniteSet(s \ {c}) /\ IsFiniteSet(both)
      /\ c \in s
  <2>1. IsFiniteSet(s)
    BY FS_Subset
  <2>2. c \in s
    BY <1>3 DEF Chosen
  <2> HIDE DEF c
  <2> QED
    BY <2>1, <2>2, FS_Subset
<1>5. Total(w, s) = w[c] + Total(w, s \ {c})
  BY <1>3, <1>4, TotalTakesOne
<1>6. x # c
  BY <1>3, <1>5
<1> HIDE DEF c
<1>7. Total(w, s \ {c}) = w[x] + Total(w, both)
  <2>1. s \ {c} \notin T
    BY <1>2, <1>4
  <2>2. (s \ {c}) \ {x} = both
    OBVIOUS
  <2> QED
    BY <1>4, <1>6, <2>1, <2>2
<1>8. Total(w, s \ {x}) = w[c] + Total(w, both)
  <2>1. s \ {x} \notin T
    BY <1>2
  <2> QED
    BY <1>4, <1>6, <2>1
<1>9. w[c] \in Int /\ w[x] \in Int /\ Total(w, both) \in Int
  <2>1. \A z \in both : w[z] \in Int
    OBVIOUS
  <2>2. Total(w, both) \in Int
    BY <1>4, <2>1, TotalIsInt
  <2> QED
    BY <1>4, <2>2
<1> HIDE DEF both, T
<1> QED
  BY <1>3, <1>5, <1>7, <1>8, <1>9

\* SumFunction of a function is the sum over its domain.
LEMMA SumIsTotal ==
  ASSUME NEW w, NEW S, DOMAIN w = S
  PROVE  SumFunction(w) = Total(w, S)
BY DEF SumFunction, Total

\* Sums of nothing and of one number.
LEMMA TotalOfFew ==
  ASSUME NEW w
  PROVE  /\ Total(w, {}) = 0
         /\ \A x : w[x] \in Int => Total(w, {x}) = w[x]
<1>1. Total(w, {}) = 0
  BY TotalTakesOne, FS_EmptySet
<1>2. ASSUME NEW x, w[x] \in Int PROVE Total(w, {x}) = w[x]
  <2>1. IsFiniteSet({x})
    BY FS_Singleton
  <2>2. Total(w, {x}) = w[Chosen({x})] + Total(w, {x} \ {Chosen({x})})
    BY <2>1, TotalTakesOne
  <2>3. Chosen({x}) = x /\ {x} \ {x} = {}
    BY DEF Chosen
  <2>4. Total(w, {x} \ {Chosen({x})}) = 0
    BY <1>1, <2>3, Zenon
  <2>5. w[Chosen({x})] = w[x] /\ {x} # {}
    BY <2>3
  <2> HIDE DEF Chosen
  <2> QED
    BY <1>2, <2>2, <2>4, <2>5
<1> QED
  BY <1>1, <1>2

\* Only the weights of the elements matter.
LEMMA TotalAgrees ==
  ASSUME NEW S, IsFiniteSet(S), NEW w, NEW v, \A x \in S : w[x] = v[x]
  PROVE  Total(w, S) = Total(v, S)
<1> DEFINE T == {s \in SUBSET S : Total(w, s) # Total(v, s)}
<1>1. SUFFICES ASSUME T # {} PROVE FALSE
  OBVIOUS
<1>2. PICK s \in T : \A t \in T : t \subseteq s => t = s
  <2> HIDE DEF T
  <2> T \in SUBSET (SUBSET S)
    BY DEF T
  <2> QED
    BY <1>1, LeastSubset
<1>3. IsFiniteSet(s)
  BY FS_Subset
<1>4. /\ Total(w, s) = IF s = {} THEN 0 ELSE w[Chosen(s)] + Total(w, s \ {Chosen(s)})
      /\ Total(v, s) = IF s = {} THEN 0 ELSE v[Chosen(s)] + Total(v, s \ {Chosen(s)})
  BY <1>3, TotalTakesOne
<1>5. CASE s = {}
  BY <1>4, <1>5
<1>6. CASE s # {}
  <2>1. Chosen(s) \in s
    BY <1>6 DEF Chosen
  <2>2. s \ {Chosen(s)} \notin T
    BY <1>2, <2>1
  <2>3. Total(w, s \ {Chosen(s)}) = Total(v, s \ {Chosen(s)}) /\ w[Chosen(s)] = v[Chosen(s)]
    BY <2>1, <2>2
  <2> QED
    BY <1>4, <1>6, <2>3
<1> QED
  BY <1>5, <1>6

\* A set is summed part by part.
LEMMA TotalSplit ==
  ASSUME NEW A, NEW B, IsFiniteSet(A), IsFiniteSet(B), A \intersect B = {},
         NEW w, \A x \in A \union B : w[x] \in Int
  PROVE  Total(w, A \union B) = Total(w, A) + Total(w, B)
<1> DEFINE T == {s \in SUBSET B : Total(w, A \union s) # Total(w, A) + Total(w, s)}
<1>1. SUFFICES ASSUME T # {} PROVE FALSE
  OBVIOUS
<1>2. PICK s \in T : \A t \in T : t \subseteq s => t = s
  <2> HIDE DEF T
  <2> T \in SUBSET (SUBSET B)
    BY DEF T
  <2> QED
    BY <1>1, LeastSubset
<1>3. Total(w, A) \in Int
  BY TotalIsInt
<1>4. CASE s = {}
  <2>1. A \union s = A /\ Total(w, s) = 0
    BY <1>4, TotalOfFew
  <2>2. Total(w, A \union s) = Total(w, A)
    BY <2>1
  <2>3. Total(w, A \union s) # Total(w, A) + Total(w, s)
    OBVIOUS
  <2> HIDE DEF T
  <2> QED
    BY <1>3, <2>1, <2>2, <2>3
<1>5. ASSUME s # {} PROVE FALSE
  <2> PICK y \in s : TRUE
    BY <1>5
  <2> DEFINE u == s \ {y}
  <2>1. IsFiniteSet(s) /\ IsFiniteSet(u) /\ u \subseteq s /\ u # s
    BY FS_Subset
  <2>2. IsFiniteSet(A \union s) /\ \A x \in A \union s : w[x] \in Int
    BY <2>1, FS_Union
  <2>3. (A \union s) \ {y} = A \union u
    OBVIOUS
  <2>4. u \notin T
    BY <1>2, <2>1
  <2> HIDE DEF u
  <2>5. Total(w, A \union u) = Total(w, A) + Total(w, u)
    BY <2>1, <2>4
  <2>6. Total(w, A \union s) = w[y] + Total(w, A \union u)
    BY <2>2, <2>3, TotalTakesAny
  <2>7. Total(w, s) = w[y] + Total(w, u)
    BY <2>1, TotalTakesAny DEF u
  <2>8. Total(w, u) \in Int /\ w[y] \in Int
    BY <2>1, TotalIsInt
  <2> QED
    BY <1>2, <1>3, <2>5, <2>6, <2>7, <2>8
<1> QED
  BY <1>4, <1>5

\* Fewer natural numbers add up to no more.
LEMMA TotalOfPart ==
  ASSUME NEW S, IsFiniteSet(S), NEW U \in SUBSET S, NEW w, \A x \in S : w[x] \in Nat
  PROVE  Total(w, U) <= Total(w, S)
<1> DEFINE V == S \ U
<1>1. IsFiniteSet(U) /\ IsFiniteSet(V) /\ U \intersect V = {} /\ U \union V = S
  BY FS_Subset
<1>2. \A x \in U \union V : w[x] \in Int
  OBVIOUS
<1>3. \A x \in V : w[x] \in Nat
  OBVIOUS
<1> HIDE DEF V
<1>4. Total(w, S) = Total(w, U) + Total(w, V)
  BY <1>1, <1>2, TotalSplit
<1>5. Total(w, V) \in Nat /\ Total(w, U) \in Int
  BY <1>1, <1>3, TotalIsInt
<1> QED
  BY <1>4, <1>5

\* Sums are added element by element.
LEMMA TotalPlus ==
  ASSUME NEW S, IsFiniteSet(S), NEW w, NEW u, NEW v,
         \A x \in S : u[x] \in Int /\ v[x] \in Int /\ w[x] = u[x] + v[x]
  PROVE  Total(w, S) = Total(u, S) + Total(v, S)
<1> DEFINE T == {s \in SUBSET S : Total(w, s) # Total(u, s) + Total(v, s)}
<1>1. SUFFICES ASSUME T # {} PROVE FALSE
  OBVIOUS
<1>2. PICK s \in T : \A t \in T : t \subseteq s => t = s
  <2> HIDE DEF T
  <2> T \in SUBSET (SUBSET S)
    BY DEF T
  <2> QED
    BY <1>1, LeastSubset
<1>3. IsFiniteSet(s)
  BY FS_Subset
<1>4. /\ Total(w, s) = IF s = {} THEN 0 ELSE w[Chosen(s)] + Total(w, s \ {Chosen(s)})
      /\ Total(u, s) = IF s = {} THEN 0 ELSE u[Chosen(s)] + Total(u, s \ {Chosen(s)})
      /\ Total(v, s) = IF s = {} THEN 0 ELSE v[Chosen(s)] + Total(v, s \ {Chosen(s)})
  BY <1>3, TotalTakesOne
<1>5. CASE s = {}
  BY <1>4, <1>5
<1>6. CASE s # {}
  <2> DEFINE c == Chosen(s)
             r == s \ {c}
  <2>1. c \in s
    BY <1>6 DEF Chosen
  <2>2. r \notin T /\ r \subseteq S
    BY <1>2, <2>1
  <2>3. IsFiniteSet(r)
    BY <1>3, FS_Subset
  <2>4. w[c] = u[c] + v[c] /\ u[c] \in Int /\ v[c] \in Int
    BY <2>1
  <2>5. Total(w, s) = w[c] + Total(w, r) /\ Total(u, s) = u[c] + Total(u, r) /\ Total(v, s) = v[c] + Total(v, r)
    BY <1>4, <1>6
  <2> HIDE DEF r, c
  <2>6. Total(w, r) = Total(u, r) + Total(v, r)
    BY <2>2
  <2>7. Total(u, r) \in Int /\ Total(v, r) \in Int
    BY <2>2, <2>3, TotalIsInt
  <2>8. Total(w, s) = Total(u, s) + Total(v, s)
    BY <2>4, <2>5, <2>6, <2>7
  <2> QED
    BY <2>8
<1> QED
  BY <1>5, <1>6

\* What is summed key by key.
Keyed(S, g, k) == {x \in S : g[x] = k}

\* A sum is the sum, over the keys, of what has each key.
LEMMA TotalByKey ==
  ASSUME NEW S, IsFiniteSet(S), NEW K, IsFiniteSet(K), NEW g, \A x \in S : g[x] \in K,
         NEW w, \A x \in S : w[x] \in Int
  PROVE  Total(w, S) = Total([k \in K |-> Total(w, Keyed(S, g, k))], K)
<1> DEFINE by(s) == [k \in K |-> Total(w, Keyed(s, g, k))]
           T == {s \in SUBSET S : Total(w, s) # Total(by(s), K)}
<1>1. SUFFICES ASSUME T # {} PROVE FALSE
  OBVIOUS
<1>2. PICK s \in T : \A t \in T : t \subseteq s => t = s
  <2> HIDE DEF T
  <2> T \in SUBSET (SUBSET S)
    BY DEF T
  <2> QED
    BY <1>1, LeastSubset
<1>3. \A t \in SUBSET S : \A k : IsFiniteSet(Keyed(t, g, k)) /\ \A x \in Keyed(t, g, k) : w[x] \in Int
  <2> SUFFICES ASSUME NEW t \in SUBSET S, NEW k
               PROVE  IsFiniteSet(Keyed(t, g, k)) /\ \A x \in Keyed(t, g, k) : w[x] \in Int
    OBVIOUS
  <2>1. Keyed(t, g, k) \subseteq S
    BY DEF Keyed
  <2> QED
    BY <2>1, FS_Subset
<1>4. \A t \in SUBSET S : \A k \in K : by(t)[k] \in Int
  BY <1>3, TotalIsInt
<1>5. ASSUME s = {} PROVE FALSE
  <2> DEFINE nought == [k \in K |-> 0]
  <2>1. \A k \in K : by(s)[k] = 0
    <3> SUFFICES ASSUME NEW k \in K PROVE Total(w, Keyed(s, g, k)) = 0
      OBVIOUS
    <3>1. Keyed(s, g, k) = {}
      BY <1>5 DEF Keyed
    <3> QED
      BY <3>1, TotalOfFew
  <2> HIDE DEF by
  <2>2. Total(by(s), K) = 0
    <3> DEFINE v == by(s)
               Z == {t \in SUBSET K : Total(v, t) # 0}
    <3>1. SUFFICES ASSUME Z # {} PROVE FALSE
      OBVIOUS
    <3>2. PICK z \in Z : \A t \in Z : t \subseteq z => t = z
      <4> HIDE DEF Z
      <4> Z \in SUBSET (SUBSET K)
        BY DEF Z
      <4> QED
        BY <3>1, LeastSubset
    <3>3. IsFiniteSet(z)
      BY FS_Subset
    <3>4. Total(v, z) = IF z = {} THEN 0 ELSE v[Chosen(z)] + Total(v, z \ {Chosen(z)})
      BY <3>3, TotalTakesOne
    <3>5. z # {} => Chosen(z) \in z
      BY DEF Chosen
    <3> HIDE DEF v
    <3>6. z # {} => v[Chosen(z)] = 0 /\ Total(v, z \ {Chosen(z)}) = 0
      <4>1. z # {} => z \ {Chosen(z)} \notin Z
        BY <3>2, <3>5
      <4> QED
        BY <2>1, <3>5, <4>1 DEF v
    <3> QED
      BY <3>4, <3>6
  <2>3. Total(w, s) = 0
    BY <1>5, TotalOfFew
  <2> QED
    BY <1>2, <2>2, <2>3
<1>6. ASSUME s # {} PROVE FALSE
  <2> PICK y \in s : TRUE
    BY <1>6
  <2> DEFINE r == s \ {y}
             k == g[y]
             A == by(s)
             B == by(r)
  <2>1. IsFiniteSet(s) /\ r \subseteq S /\ s \subseteq S /\ r # s /\ r \subseteq s /\ k \in K /\ y \in S
    BY FS_Subset
  <2>2. r \notin T
    BY <1>2, <2>1
  <2>3. Total(w, s) = w[y] + Total(w, r)
    BY <2>1, TotalTakesAny
  <2>4. Total(w, r) = Total(B, K)
    BY <2>1, <2>2
  <2>5. A[k] = w[y] + B[k]
    <3> DEFINE a == Keyed(s, g, k)
               b == Keyed(r, g, k)
    <3>1. a \ {y} = b /\ y \in a
      BY DEF Keyed
    <3>2. IsFiniteSet(a) /\ \A x \in a : w[x] \in Int
      BY <1>3, <2>1
    <3>3. A[k] = Total(w, a) /\ B[k] = Total(w, b)
      BY <2>1
    <3> HIDE DEF a, b, A, B
    <3>4. Total(w, a) = w[y] + Total(w, b)
      BY <3>1, <3>2, TotalTakesAny
    <3> QED
      BY <3>3, <3>4
  <2>6. \A h \in K \ {k} : A[h] = B[h]
    <3> SUFFICES ASSUME NEW h \in K \ {k} PROVE Total(w, Keyed(s, g, h)) = Total(w, Keyed(r, g, h))
      OBVIOUS
    <3>1. Keyed(s, g, h) = Keyed(r, g, h)
      BY DEF Keyed
    <3> QED
      BY <3>1
  <2>7. \A h \in K : A[h] \in Int /\ B[h] \in Int
    BY <1>4, <2>1
  <2>8. IsFiniteSet(K \ {k})
    BY FS_Subset
  <2>9. w[y] \in Int
    BY <2>1
  <2>10. Total(A, K) # Total(w, s)
    BY <1>2
  <2> HIDE DEF A, B, r, k, T, by
  <2>11. Total(A, K) = A[k] + Total(A, K \ {k}) /\ Total(B, K) = B[k] + Total(B, K \ {k})
    BY <2>1, <2>7, TotalTakesAny
  <2>12. Total(A, K \ {k}) = Total(B, K \ {k})
    BY <2>6, <2>8, TotalAgrees
  <2>13. Total(B, K \ {k}) \in Int
    BY <2>7, <2>8, TotalIsInt
  <2>14. A[k] \in Int /\ B[k] \in Int
    BY <2>1, <2>7
  <2> QED
    BY <2>3, <2>4, <2>5, <2>9, <2>10, <2>11, <2>12, <2>13, <2>14
<1> QED
  BY <1>5, <1>6

\* Each element has a key, the numbers of the keys are their shares.
HasKeys(S, g, K) == IsFiniteSet(S) /\ IsFiniteSet(K) /\ \A x \in S : g[x] \in K
Integral(w, S) == \A x \in S : w[x] \in Int
Shares(v, w, S, g, K) == \A k \in K : v[k] = Total(w, Keyed(S, g, k))
Counts(c, S, g, K) == \A k \in K : c[k] = Cardinality(Keyed(S, g, k))

\* So any numbers that are what the keys have add up to the same.
LEMMA TotalOfShares ==
  ASSUME NEW S, NEW K, NEW g, HasKeys(S, g, K), NEW w, Integral(w, S), NEW v, Shares(v, w, S, g, K)
  PROVE  Total(w, S) = Total(v, K)
<1> USE DEF HasKeys, Integral, Shares
<1> DEFINE by == [k \in K |-> Total(w, Keyed(S, g, k))]
<1>1. \A k \in K : by[k] = v[k]
  OBVIOUS
<1>2. Total(w, S) = Total(by, K)
  BY TotalByKey
<1> HIDE DEF by
<1>3. Total(by, K) = Total(v, K)
  BY <1>1, TotalAgrees
<1> QED
  BY <1>2, <1>3

\* A set is counted by adding ones.
LEMMA TotalOfOnes ==
  ASSUME NEW S, IsFiniteSet(S), NEW w, \A x \in S : w[x] = 1
  PROVE  Total(w, S) = Cardinality(S)
<1> DEFINE T == {s \in SUBSET S : Total(w, s) # Cardinality(s)}
<1>1. SUFFICES ASSUME T # {} PROVE FALSE
  OBVIOUS
<1>2. PICK s \in T : \A t \in T : t \subseteq s => t = s
  <2> HIDE DEF T
  <2> T \in SUBSET (SUBSET S)
    BY DEF T
  <2> QED
    BY <1>1, LeastSubset
<1>3. IsFiniteSet(s)
  BY FS_Subset
<1>4. Total(w, s) = IF s = {} THEN 0 ELSE w[Chosen(s)] + Total(w, s \ {Chosen(s)})
  BY <1>3, TotalTakesOne
<1>5. CASE s = {}
  BY <1>4, <1>5, FS_EmptySet
<1>6. CASE s # {}
  <2> DEFINE c == Chosen(s)
  <2>1. c \in s
    BY <1>6 DEF Chosen
  <2>2. s \ {c} \notin T
    BY <1>2, <2>1
  <2>3. w[c] = 1
    BY <2>1
  <2>4. Total(w, s) = 1 + Total(w, s \ {c})
    BY <1>4, <1>6, <2>3
  <2> HIDE DEF c
  <2>5. Cardinality(s \ {c}) = Cardinality(s) - 1 /\ Cardinality(s) \in Nat
    BY <1>3, <2>1, FS_RemoveElement, FS_CardinalityType
  <2>6. Total(w, s \ {c}) = Cardinality(s \ {c})
    BY <2>2
  <2> QED
    BY <2>4, <2>5, <2>6
<1> QED
  BY <1>5, <1>6

\* The same numbers under other names.
LEMMA TotalRenamed ==
  ASSUME NEW S, IsFiniteSet(S), NEW K, IsFiniteSet(K), NEW g, \A x \in S : g[x] \in K,
         \A x, y \in S : g[x] = g[y] => x = y,
         NEW w, \A x \in S : w[x] \in Int,
         NEW v, \A x \in S : v[g[x]] = w[x], \A k \in K : (\E x \in S : g[x] = k) \/ v[k] = 0
  PROVE  Total(w, S) = Total(v, K)
<1> DEFINE by == [k \in K |-> Total(w, Keyed(S, g, k))]
<1>1. ASSUME NEW k \in K PROVE by[k] = v[k]
  <2>1. CASE \E x \in S : g[x] = k
    <3> PICK x \in S : g[x] = k
      BY <2>1
    <3>1. Keyed(S, g, k) = {x}
      BY DEF Keyed
    <3>2. Total(w, {x}) = w[x]
      BY TotalOfFew
    <3> QED
      BY <3>1, <3>2
  <2>2. CASE v[k] = 0 /\ ~\E x \in S : g[x] = k
    <3>1. Keyed(S, g, k) = {}
      BY <2>2 DEF Keyed
    <3> QED
      BY <2>2, <3>1, TotalOfFew
  <2> QED
    BY <2>1, <2>2
<1>2. Total(w, S) = Total(by, K)
  BY TotalByKey
<1> HIDE DEF by
<1> QED
  BY <1>1, <1>2, TotalAgrees

\* Noughts may be left out.
LEMMA TotalOfOthers ==
  ASSUME NEW S, IsFiniteSet(S), NEW T \in SUBSET S, NEW w, \A x \in S : w[x] \in Int,
         \A x \in S \ T : w[x] = 0
  PROVE  Total(w, T) = Total(w, S)
<1>a. PICK same : same = [x \in T |-> x]
  OBVIOUS
<1>1. IsFiniteSet(T)
  BY FS_Subset
<1>2. \A x \in T : same[x] \in S /\ w[x] \in Int /\ w[same[x]] = w[x]
  BY <1>a
<1>3. \A x, y \in T : same[x] = same[y] => x = y
  BY <1>a
<1>4. \A k \in S : (\E x \in T : same[x] = k) \/ w[k] = 0
  BY <1>a
<1> QED
  BY <1>1, <1>2, <1>3, <1>4, TotalRenamed

-----------------------------------------------------------------------------
(* The statements of a request.                                            *)

LEMMA FirstAndRest ==
  ASSUME NEW steps \in Seq(Statements), steps # <<>>
  PROVE  /\ Len(steps) \in Nat /\ Len(steps) > 0 /\ Len(Tail(steps)) = Len(steps) - 1
         /\ Head(steps) \in Statements /\ Tail(steps) \in Seq(Statements)
         /\ (Len(steps) = 1 <=> Tail(steps) = <<>>)
         /\ Ahead(steps) = {Head(steps)} \union Ahead(Tail(steps))
         /\ WritesLast(steps) =>
              /\ WritesLast(Tail(steps))
              /\ Head(steps) \in Writes => Len(steps) = 1 /\ Ahead(steps) = {Head(steps)}
<1>1. /\ Len(steps) \in Nat /\ Len(steps) > 0 /\ Len(Tail(steps)) = Len(steps) - 1
      /\ Head(steps) = steps[1] /\ steps[1] \in Statements /\ Tail(steps) \in Seq(Statements)
      /\ \A i \in 1..Len(Tail(steps)) : Tail(steps)[i] = steps[i + 1]
  <2> HIDE DEF Statements
  <2> QED
    OBVIOUS
<1>2. Len(steps) = 1 <=> Tail(steps) = <<>>
  <2> HIDE DEF Statements
  <2> QED
    BY <1>1
<1>3. Ahead(steps) = {Head(steps)} \union Ahead(Tail(steps))
  <2>1. \A i \in 1..Len(steps) : i = 1 \/ (i - 1 \in 1..Len(Tail(steps)) /\ steps[i] = Tail(steps)[i - 1])
    BY <1>1
  <2>2. \A i \in 1..Len(Tail(steps)) : i + 1 \in 1..Len(steps)
    BY <1>1
  <2>3. 1 \in 1..Len(steps)
    BY <1>1
  <2>a. PICK tail, head : tail = Tail(steps) /\ head = Head(steps)
    OBVIOUS
  <2>4. ASSUME NEW x \in Ahead(steps) PROVE x = head \/ x \in Ahead(tail)
    <3>1. PICK i \in 1..Len(steps) : x = steps[i]
      BY DEF Ahead
    <3>2. i = 1 \/ (i - 1 \in 1..Len(tail) /\ x = tail[i - 1])
      BY <2>1, <2>a, <3>1
    <3> QED
      BY <1>1, <2>a, <3>1, <3>2 DEF Ahead
  <2>5. ASSUME NEW x \in Ahead(tail) PROVE x \in Ahead(steps)
    <3>1. PICK i \in 1..Len(tail) : x = tail[i]
      BY DEF Ahead
    <3>2. i + 1 \in 1..Len(steps) /\ x = steps[i + 1]
      BY <1>1, <2>2, <2>a, <3>1
    <3> QED
      BY <3>2 DEF Ahead
  <2>6. head \in Ahead(steps)
    BY <1>1, <2>3, <2>a DEF Ahead
  <2> QED
    BY <2>4, <2>5, <2>6, <2>a
<1>4. ASSUME WritesLast(steps) PROVE WritesLast(Tail(steps))
  <2> SUFFICES ASSUME NEW i \in 1..Len(Tail(steps)), Tail(steps)[i] \in Writes
               PROVE  i = Len(Tail(steps))
    BY DEF WritesLast
  <2>1. i + 1 \in 1..Len(steps) /\ steps[i + 1] \in Writes
    BY <1>1
  <2>2. i + 1 = Len(steps)
    BY <1>4, <2>1 DEF WritesLast
  <2>3. i \in Nat /\ Len(steps) \in Nat /\ Len(Tail(steps)) = Len(steps) - 1
    BY <1>1
  <2> QED
    BY <2>2, <2>3, SMT
<1>5. ASSUME WritesLast(steps), Head(steps) \in Writes
      PROVE  Len(steps) = 1 /\ Ahead(steps) = {Head(steps)}
  <2>1. 1 \in 1..Len(steps)
    BY <1>1
  <2>2. Len(steps) = 1
    BY <1>1, <1>5, <2>1 DEF WritesLast
  <2>3. Ahead(Tail(steps)) = {}
    BY <1>1, <2>2 DEF Ahead
  <2> QED
    BY <1>3, <2>2, <2>3
<1> QED
  BY <1>1, <1>2, <1>3, <1>4, <1>5

\* What is ahead in a sequence of at most two statements.
LEMMA FewAhead ==
  ASSUME NEW x, NEW y
  PROVE  /\ Ahead(<<>>) = {} /\ Ahead(<<x>>) = {x} /\ Ahead(<<x, y>>) = {x, y}
         /\ WritesLast(<<>>) /\ WritesLast(<<x>>)
         /\ x \notin Writes => WritesLast(<<x, y>>)
<1>1. Ahead(<<>>) = {} /\ WritesLast(<<>>)
  BY DEF Ahead, WritesLast
<1>2. Ahead(<<x>>) = {x} /\ WritesLast(<<x>>)
  <2>1. \A i \in 1..Len(<<x>>) : i = 1 /\ <<x>>[i] = x
    OBVIOUS
  <2>2. 1 \in 1..Len(<<x>>)
    OBVIOUS
  <2> QED
    BY <2>1, <2>2 DEF Ahead, WritesLast
<1>3. Ahead(<<x, y>>) = {x, y} /\ (x \notin Writes => WritesLast(<<x, y>>))
  <2>1. /\ \A i \in 1..Len(<<x, y>>) : i = 1 \/ i = 2
        /\ <<x, y>>[1] = x /\ <<x, y>>[2] = y /\ Len(<<x, y>>) = 2
        /\ 1 \in 1..Len(<<x, y>>) /\ 2 \in 1..Len(<<x, y>>)
    OBVIOUS
  <2> QED
    BY <2>1 DEF Ahead, WritesLast
<1> QED
  BY <1>1, <1>2, <1>3

Three(x, y, z) ==
  Ahead(<<x, y, z>>) = {x, y, z} /\ (x \notin Writes /\ y \notin Writes => WritesLast(<<x, y, z>>))

\* And in one of three.
LEMMA ThreeAhead == \A x, y, z : Three(x, y, z)
<1> TAKE x, y, z
<1>1. Ahead(<<x, y, z>>) = {x, y, z} /\ (x \notin Writes /\ y \notin Writes => WritesLast(<<x, y, z>>))
  <2>1. /\ \A i \in 1..Len(<<x, y, z>>) : i = 1 \/ i = 2 \/ i = 3
        /\ <<x, y, z>>[1] = x /\ <<x, y, z>>[2] = y /\ <<x, y, z>>[3] = z /\ Len(<<x, y, z>>) = 3
        /\ 1 \in 1..Len(<<x, y, z>>) /\ 2 \in 1..Len(<<x, y, z>>) /\ 3 \in 1..Len(<<x, y, z>>)
    OBVIOUS
  <2> QED
    BY <2>1 DEF Ahead, WritesLast
<1> QED
  BY <1>1 DEF Three

\* What is ahead in two sequences, one after the other.
LEMMA JoinedAhead ==
  ASSUME NEW s \in Seq(Statements), NEW t \in Seq(Statements)
  PROVE  /\ s \o t \in Seq(Statements) /\ (t # <<>> => s \o t # <<>>)
         /\ Ahead(s \o t) = Ahead(s) \union Ahead(t)
         /\ Ahead(s) \intersect Writes = {} /\ WritesLast(t) => WritesLast(s \o t)
<1> DEFINE st == s \o t
<1>1. /\ st \in Seq(Statements) /\ Len(st) = Len(s) + Len(t) /\ Len(s) \in Nat /\ Len(t) \in Nat
      /\ \A i \in 1..Len(s) : st[i] = s[i]
      /\ \A i \in 1..Len(t) : st[Len(s) + i] = t[i]
      /\ t # <<>> => Len(t) > 0
  <2> HIDE DEF Statements
  <2> QED
    OBVIOUS
<1> HIDE DEF st
<1>2. \A i \in 1..Len(st) : i \in 1..Len(s) \/ (i - Len(s) \in 1..Len(t) /\ st[i] = t[i - Len(s)])
  <2> SUFFICES ASSUME NEW i \in 1..Len(st), i \notin 1..Len(s)
               PROVE  i - Len(s) \in 1..Len(t) /\ st[i] = t[i - Len(s)]
    OBVIOUS
  <2>1. i - Len(s) \in 1..Len(t) /\ Len(s) + (i - Len(s)) = i
    BY <1>1
  <2> QED
    BY <1>1, <2>1
<1>3. /\ \A i \in 1..Len(s) : i \in 1..Len(st)
      /\ \A i \in 1..Len(t) : Len(s) + i \in 1..Len(st)
  BY <1>1
<1>4. Ahead(st) = Ahead(s) \union Ahead(t)
  <2>1. ASSUME NEW x \in Ahead(st) PROVE x \in Ahead(s) \union Ahead(t)
    <3> PICK i \in 1..Len(st) : x = st[i]
      BY <2>1 DEF Ahead
    <3>1. CASE i \in 1..Len(s)
      BY <1>1, <3>1, Zenon DEF Ahead
    <3>2. CASE i \notin 1..Len(s)
      BY <1>2, <3>2, Zenon DEF Ahead
    <3> QED
      BY <3>1, <3>2
  <2>2. ASSUME NEW x \in Ahead(s) PROVE x \in Ahead(st)
    BY <1>1, <1>3, <2>2, Zenon DEF Ahead
  <2>3. ASSUME NEW x \in Ahead(t) PROVE x \in Ahead(st)
    BY <1>1, <1>3, <2>3, Zenon DEF Ahead
  <2> QED
    BY <2>1, <2>2, <2>3, Zenon
<1>5. ASSUME Ahead(s) \intersect Writes = {}, WritesLast(t) PROVE WritesLast(st)
  <2> SUFFICES ASSUME NEW i \in 1..Len(st), st[i] \in Writes PROVE i = Len(st)
    BY DEF WritesLast
  <2>1. i \notin 1..Len(s)
    BY <1>1, <1>5 DEF Ahead
  <2>2. i - Len(s) \in 1..Len(t) /\ t[i - Len(s)] \in Writes
    BY <1>2, <2>1
  <2>3. i - Len(s) = Len(t)
    BY <1>5, <2>2 DEF WritesLast
  <2> QED
    BY <1>1, <2>3
<1>6. t # <<>> => st # <<>>
  BY <1>1
<1> QED
  BY <1>1, <1>4, <1>5, <1>6 DEF st

\* Looks are no writes, and all are statements.
LEMMA LooksAndWrites ==
  /\ \A row : <<"find", row>> \notin Writes
  /\ \A row \in Rows : <<"find", row>> \in Statements
  /\ \A name \in {"countShips", "countRouters", "findChild", "findSubscriber", "findInUse",
                  "findCode", "findChildren", "findConflicts"} :
       <<name>> \in Statements /\ <<name>> \notin Writes
  /\ Writes \subseteq Statements
BY DEF Writes, Statements, Steps

\* What is ahead when a row is to be looked for, or there is none to look for.
LEMMA FindAhead ==
  ASSUME NEW kind, NEW x, x = None \/ <<kind, x>> \in Rows
  PROVE  /\ Find(<<kind, x>>) \in Seq(Statements)
         /\ Ahead(Find(<<kind, x>>)) = IF x = None THEN {} ELSE {<<"find", <<kind, x>>>>}
         /\ Ahead(Find(<<kind, x>>)) \intersect Writes = {}
<1>1. CASE x = None
  <2>1. Find(<<kind, x>>) = <<>>
    BY <1>1 DEF Find
  <2>2. Ahead(<<>>) = {}
    BY FewAhead
  <2>3. <<>> \in Seq(Statements)
    OBVIOUS
  <2> QED
    BY <1>1, <2>1, <2>2, <2>3
<1>2. CASE x # None
  <2>1. Find(<<kind, x>>) = << <<"find", <<kind, x>>>> >>
    BY <1>2 DEF Find
  <2>2. <<"find", <<kind, x>>>> \in Statements /\ <<"find", <<kind, x>>>> \notin Writes
    BY <1>2, LooksAndWrites
  <2> DEFINE y == <<"find", <<kind, x>>>>
  <2> HIDE DEF y
  <2>3. Ahead(<<y>>) = {y}
    BY FewAhead, Zenon
  <2>4. y \in Statements => <<y>> \in Seq(Statements)
    <3> HIDE DEF Statements
    <3> QED
      OBVIOUS
  <2>5. Find(<<kind, x>>) = <<y>> /\ y \in Statements /\ y \notin Writes
    BY <2>1, <2>2 DEF y
  <2>6. /\ Find(<<kind, x>>) \in Seq(Statements) /\ Ahead(Find(<<kind, x>>)) = {y}
        /\ Ahead(Find(<<kind, x>>)) \intersect Writes = {}
    <3>1. Find(<<kind, x>>) \in Seq(Statements)
      BY <2>4, <2>5, Zenon
    <3>2. Ahead(Find(<<kind, x>>)) = {y}
      BY <2>3, <2>5, Zenon
    <3> QED
      BY <2>5, <3>1, <3>2, Zenon
  <2> QED
    BY <1>2, <2>6, Zenon DEF y
<1> QED
  BY <1>1, <1>2

-----------------------------------------------------------------------------
(* What rows rely on.                                                      *)

LEMMA ReliedRows ==
  ASSUME OfficeOK, NEW r \in Rows, NEW c, r[1] = "subscriber" => c \in Accounts
  PROVE  /\ \A n \in Relied(r, c) : n \in Rows /\ n[1] \in DOMAIN LastLook /\ n[1] # "subscriber"
         /\ r[1] = "subscriber" => r \in {"subscriber"} \X Subscribers
         /\ r[1] # "subscriber" => \A d : Relied(r, c) = Relied(r, d)
<1>1. \/ r[1] = "area" /\ Relied(r, c) = {} /\ \A d : Relied(r, d) = {}
      \/ r[1] = "ship" /\ r[2] \in Ships /\ Relied(r, c) = {<<"area", AreaOf[r[2]]>>}
         /\ \A d : Relied(r, d) = {<<"area", AreaOf[r[2]]>>}
      \/ r[1] = "router" /\ r[2] \in Ships /\ Relied(r, c) = {<<"ship", r[2]>>}
         /\ \A d : Relied(r, d) = {<<"ship", r[2]>>}
      \/ r[1] = "tenant" /\ Relied(r, c) = {} /\ \A d : Relied(r, d) = {}
      \/ r[1] = "package" /\ Relied(r, c) = {} /\ \A d : Relied(r, d) = {}
      \/ r[1] = "subscriber" /\ r \in {"subscriber"} \X Subscribers
         /\ Relied(r, c) = {<<"tenant", c.tenant>>, <<"package", c.package>>}
  BY DEF Rows, Relied
<1>2. DOMAIN LastLook = {"area", "ship", "tenant", "package"}
  BY DEF LastLook
<1>3. \A s \in Ships : AreaOf[s] \in Areas
  BY DEF OfficeOK
<1>4. c \in Accounts => c.tenant \in Tenants /\ c.package \in Packages
  BY DEF Accounts
<1>5. /\ \A a \in Areas : <<"area", a>> \in Rows
      /\ \A s \in Ships : <<"ship", s>> \in Rows
      /\ \A t \in Tenants : <<"tenant", t>> \in Rows
      /\ \A k \in Packages : <<"package", k>> \in Rows
  BY DEF Rows
<1>6. \A n \in Relied(r, c) :
        \/ \E s \in Ships : n = <<"area", AreaOf[s]>> \/ n = <<"ship", s>>
        \/ n = <<"tenant", c.tenant>> /\ c \in Accounts
        \/ n = <<"package", c.package>> /\ c \in Accounts
  BY <1>1
<1>7. \A n \in Relied(r, c) :
        n \in Rows /\ n[1] \in {"area", "ship", "tenant", "package"}
  BY <1>3, <1>4, <1>5, <1>6
<1>8. r[1] # "subscriber" => \A d : Relied(r, c) = Relied(r, d)
  BY DEF Relied
<1>9. r[1] = "subscriber" => r \in {"subscriber"} \X Subscribers
  BY <1>1
<1> QED
  BY <1>2, <1>7, <1>8, <1>9

\* What a look-up before a removal has found.
LEMMA LookedFor ==
  ASSUME OfficeOK, OfficeTypeOK, NEW row \in Rows, row[1] \in DOMAIN LastLook,
         Loose(LastLook[row[1]], row)
  PROVE  \A x \in live : row \notin Relies(x)
<1> SUFFICES ASSUME NEW x \in live, row \in Relies(x)
             PROVE  FALSE
  OBVIOUS
<1>1. x \in Rows
  BY DEF OfficeTypeOK
<1>2. \/ x[1] = "ship" /\ row = <<"area", AreaOf[x[2]]>>
      \/ x[1] = "router" /\ row = <<"ship", x[2]>>
      \/ x[1] = "subscriber" /\ row = <<"tenant", account[x[2]].tenant>>
      \/ x[1] = "subscriber" /\ row = <<"package", account[x[2]].package>>
  BY <1>1 DEF Relies, Relied, Rows
<1>3. CASE x[1] = "ship" /\ row = <<"area", AreaOf[x[2]]>>
  <2>1. LastLook[row[1]] = "countShips" /\ row[2] = AreaOf[x[2]]
    BY <1>3 DEF LastLook
  <2>2. ShipsOf(row[2]) = {}
    BY <2>1 DEF Loose
  <2> QED
    BY <1>3, <2>1, <2>2 DEF ShipsOf, Of
<1>4. CASE x[1] = "router" /\ row = <<"ship", x[2]>>
  <2>1. LastLook[row[1]] = "countRouters" /\ row[2] = x[2]
    BY <1>4 DEF LastLook
  <2>2. RoutersOf(row[2]) = {}
    BY <2>1 DEF Loose
  <2> QED
    BY <1>4, <2>1, <2>2 DEF RoutersOf, Of
<1>5. CASE x[1] = "subscriber" /\ row = <<"tenant", account[x[2]].tenant>>
  <2>1. LastLook[row[1]] = "findSubscriber" /\ row[2] = account[x[2]].tenant
    BY <1>5 DEF LastLook
  <2>2. HeldBy("tenant", row[2]) = {}
    BY <2>1 DEF Loose
  <2>3. account[x[2]]["tenant"] = account[x[2]].tenant
    OBVIOUS
  <2> QED
    BY <1>5, <2>1, <2>2, <2>3 DEF HeldBy, Of
<1>6. CASE x[1] = "subscriber" /\ row = <<"package", account[x[2]].package>>
  <2>1. LastLook[row[1]] = "findInUse" /\ row[2] = account[x[2]].package
    BY <1>6 DEF LastLook
  <2>2. HeldBy("package", row[2]) = {}
    BY <2>1 DEF Loose
  <2>3. account[x[2]]["package"] = account[x[2]].package
    OBVIOUS
  <2> QED
    BY <1>6, <2>1, <2>2, <2>3 DEF HeldBy, Of
<1> QED
  BY <1>2, <1>3, <1>4, <1>5, <1>6

-----------------------------------------------------------------------------
(* Requests.                                                               *)

\* Each, with what it awaits, whatever these are.
EachFits == \A p \in Requests : \A r, steps : r = req[p] /\ steps = todo[p] => Fits(r, steps)

\* The requests that fit, said of a request and statements that are named.
LEMMA FitsNow == RequestsFit <=> EachFits
BY Zenon DEF RequestsFit, EachFits

\* A request with no statement left fits.
LEMMA RestingFits == ASSUME NEW r PROVE Fits(r, <<>>)
<1>1. Ahead(<<>>) = {} /\ WritesLast(<<>>)
  BY FewAhead
<1>2. Ahead(<<>>) = {}
  BY <1>1
<1> QED
  BY <1>1, <1>2 DEF Fits, WriterFits, RemoverFits, EntryFits, AssignmentFits

\* A look takes nothing from a request but itself.
LEMMA LookFits ==
  ASSUME OfficeOK, OfficeTypeOK,
         NEW r, NEW steps \in Seq(Statements), steps # <<>>, Fits(r, steps),
         \/ \E n \in live : Head(steps) = <<"find", n>>
         \/ \E name \in {"countShips", "countRouters", "findChild", "findSubscriber",
                         "findInUse", "findCode"} :
              Head(steps) = <<name>> /\ Loose(name, r.row)
         \/ /\ Head(steps) = <<"findConflicts">>
            /\ ~ \E j \in r.patch.related : group[j] = r.patch.group /\ counted[j]
  PROVE  Fits(r, Tail(steps))
<1> DEFINE rest == Tail(steps)
<1>1. /\ Ahead(steps) = {Head(steps)} \union Ahead(rest)
      /\ WritesLast(steps) => WritesLast(rest)
  BY FirstAndRest
<1>2. /\ Head(steps) \notin Steps({"insert", "update", "delete", "insertInterface", "assign", "findChildren"})
      /\ WritesLast(rest)
  <2>1. Head(steps) \notin Steps({"insert", "update", "delete", "insertInterface", "assign", "findChildren"})
    BY DEF Steps
  <2> QED
    BY <1>1, <2>1 DEF Fits
<1>3. WriterFits(r, rest)
  <2>1. \A n : <<"find", n>> \in Ahead(steps) => n \in live \/ <<"find", n>> \in Ahead(rest)
    BY <1>1
  <2>2. WriterFits(r, steps)
    BY DEF Fits
  <2> HIDE DEF rest
  <2> QED
    BY <1>1, <2>1, <2>2 DEF WriterFits
<1>4. RemoverFits(r, rest)
  <2> HIDE DEF rest
  <2> SUFFICES ASSUME <<"delete">> \in Ahead(rest)
               PROVE  RemoverFits(r, rest)
    BY DEF RemoverFits
  <2>1. RemoverFits(r, steps) /\ <<"delete">> \in Ahead(steps)
    BY <1>1 DEF Fits
  <2>2. ASSUME r.row[1] \in DOMAIN LastLook, <<LastLook[r.row[1]]>> = Head(steps)
        PROVE  \A x \in live : r.row \notin Relies(x)
    <3>1. LastLook[r.row[1]] \in {"countShips", "countRouters", "findSubscriber", "findInUse"}
      BY <2>2 DEF LastLook
    <3>2. Loose(LastLook[r.row[1]], r.row)
      BY <2>2, <3>1
    <3>3. r.row \in Rows
      BY <2>1 DEF RemoverFits
    <3> QED
      BY <2>2, <3>2, <3>3, LookedFor
  <2> QED
    BY <1>1, <2>1, <2>2 DEF RemoverFits
<1>5. EntryFits(r, rest)
  BY <1>1 DEF Fits, EntryFits
<1>6. AssignmentFits(r, rest)
  <2> DEFINE A == Steps({"findChildren", "findConflicts", "assign"})
             i == r.row[2]
  <2> HIDE DEF rest
  <2> SUFFICES ASSUME A \intersect Ahead(rest) # {}
               PROVE  AssignmentFits(r, rest)
    BY DEF AssignmentFits
  <2>1. A \intersect Ahead(steps) # {} /\ AssignmentFits(r, steps)
    BY <1>1 DEF Fits
  <2>2. \/ steps = << <<"findChildren">>, <<"findConflicts">>, <<"assign">> >>
        \/ /\ steps = << <<"findConflicts">>, <<"assign">> >>
           /\ \A j \in Related(i) : Noted(i, j) \/ j \in r.patch.related
        \/ steps = << <<"assign">> >>
    BY <2>1 DEF AssignmentFits
  <2>3. steps = << <<"findConflicts">>, <<"assign">> >>
    <3>1. steps = << <<"findChildren">>, <<"findConflicts">>, <<"assign">> >> => Head(steps) = <<"findChildren">>
      OBVIOUS
    <3>2. steps = << <<"assign">> >> => Head(steps) = <<"assign">>
      OBVIOUS
    <3> QED
      BY <1>2, <2>2, <3>1, <3>2 DEF Steps
  <2>4. Head(steps) = <<"findConflicts">> /\ rest = << <<"assign">> >>
    BY <2>3 DEF rest
  <2>5. ~ \E j \in r.patch.related : group[j] = r.patch.group /\ counted[j]
    BY <2>4
  <2>6. \A j \in Related(i) : Noted(i, j) \/ j \in r.patch.related
    BY <2>2, <2>3
  <2> QED
    BY <2>1, <2>4, <2>5, <2>6, Zenon DEF AssignmentFits
<1> QED
  BY <1>2, <1>3, <1>4, <1>5, <1>6 DEF Fits

\* What a step may change of the rest without disturbing a request.
LEMMA FitsStay ==
  ASSUME NEW r, NEW steps, Fits(r, steps), raced \subseteq raced',
         UNCHANGED <<live, account, books>>
  PROVE  Fits(r, steps)'
<1>1. WritesLast(steps)'
  BY DEF Fits, WritesLast
<1>2. WriterFits(r, steps)'
  BY DEF Fits, WriterFits
<1>3. RemoverFits(r, steps)'
  <2>1. \A x : Relies(x)' = Relies(x)
    BY DEF Relies
  <2> QED
    BY <2>1 DEF Fits, RemoverFits
<1>4. EntryFits(r, steps)'
  BY DEF Fits, EntryFits, books
<1>5. AssignmentFits(r, steps)'
  <2>1. \A i : Related(i)' = Related(i)
    BY DEF Related, books
  <2>2. \A i, j : Noted(i, j) => Noted(i, j)'
    BY DEF Noted
  <2>3. group' = group /\ counted' = counted /\ entered' = entered
    BY DEF books
  <2> QED
    BY <2>1, <2>2, <2>3 DEF Fits, AssignmentFits
<1> QED
  BY <1>1, <1>2, <1>3, <1>4, <1>5 DEF Fits

\* What OfficeTypeOK says of requests.
RequestsTyped ==
  /\ DOMAIN req = Requests
  /\ \A p \in Requests : DOMAIN req[p] = {"kind", "row", "names", "patch"}
  /\ todo \in [Requests -> Seq(Statements)]
  /\ \A p \in Requests : todo[p] # <<>> => Busy(p)

\* What a step leaves to the requests it is not of.
OthersStay(p) == \A q \in Requests \ {p} : req'[q] = req[q] /\ todo'[q] = todo[q]

\* One request and its statements are replaced.
LEMMA Replaced ==
  ASSUME RequestsTyped, NEW p \in Requests, NEW r, NEW steps \in Seq(Statements),
         DOMAIN r = {"kind", "row", "names", "patch"}, steps # <<>> => r.kind # "idle",
         req' = [req EXCEPT ![p] = r], todo' = [todo EXCEPT ![p] = steps]
  PROVE  RequestsTyped' /\ OthersStay(p) /\ req'[p] = r /\ todo'[p] = steps
<1>1. OthersStay(p) /\ req'[p] = r /\ todo'[p] = steps /\ DOMAIN req' = Requests
  <2> HIDE DEF Statements
  <2> QED
    BY DEF RequestsTyped, OthersStay
<1>2. todo' \in [Requests -> Seq(Statements)]
  <2> HIDE DEF Statements
  <2> QED
    BY DEF RequestsTyped
<1>3. \A q \in Requests : DOMAIN req'[q] = {"kind", "row", "names", "patch"}
                          /\ (todo'[q] # <<>> => req'[q].kind # "idle")
  <2> SUFFICES ASSUME NEW q \in Requests
               PROVE  /\ DOMAIN req'[q] = {"kind", "row", "names", "patch"}
                      /\ todo'[q] # <<>> => req'[q].kind # "idle"
    OBVIOUS
  <2>1. CASE q = p
    BY <1>1, <2>1
  <2>2. CASE q # p
    <3>1. req'[q] = req[q] /\ todo'[q] = todo[q]
      BY <1>1, <2>2 DEF OthersStay
    <3>2. DOMAIN req[q] = {"kind", "row", "names", "patch"} /\ (todo[q] # <<>> => req[q].kind # "idle")
      BY Zenon DEF RequestsTyped, Busy
    <3> QED
      BY <3>1, <3>2, Zenon
  <2> QED
    BY <2>1, <2>2
<1>4. RequestsTyped'
  BY <1>1, <1>2, <1>3, Zenon DEF RequestsTyped, Busy
<1> QED
  BY <1>1, <1>4

\* A request at rest has the fields of any.
LEMMA RestType == DOMAIN Resting = {"kind", "row", "names", "patch"} /\ Resting.kind = "idle"
                  /\ <<>> \in Seq(Statements)
<1>1. DOMAIN Resting = {"kind", "row", "names", "patch"} /\ Resting.kind = "idle"
  BY DEF Resting
<1>2. <<>> \in Seq(Statements)
  <2> HIDE DEF Statements
  <2> QED
    OBVIOUS
<1> QED
  BY <1>1, <1>2

\* A request that is refused rests, and the others stay.
LEMMA RefuseStep ==
  ASSUME RequestsTyped, NEW p \in Requests, Refuse(p)
  PROVE  RequestsTyped' /\ OthersStay(p) /\ req'[p] = Resting /\ todo'[p] = <<>>
<1>1. req' = [req EXCEPT ![p] = Resting] /\ todo' = [todo EXCEPT ![p] = <<>>]
  BY Zenon DEF Refuse
<1> QED
  BY <1>1, RestType, Replaced, Zenon

\* A request whose statement has succeeded rests, or has one statement less.
LEMMA GoOnStep ==
  ASSUME RequestsTyped, NEW p \in Requests, todo[p] # <<>>, GoOn(p)
  PROVE  /\ RequestsTyped' /\ OthersStay(p)
         /\ Len(todo[p]) = 1 => req'[p] = Resting /\ todo'[p] = <<>>
         /\ Len(todo[p]) # 1 => req'[p] = req[p] /\ todo'[p] = Tail(todo[p])
<1>1. todo[p] \in Seq(Statements) /\ DOMAIN req[p] = {"kind", "row", "names", "patch"}
      /\ req[p].kind # "idle" /\ p \in DOMAIN todo /\ p \in DOMAIN req
  <2> HIDE DEF Statements
  <2> QED
    BY DEF RequestsTyped, Busy
<1>2. Tail(todo[p]) \in Seq(Statements) /\ (Len(todo[p]) = 1 <=> Tail(todo[p]) = <<>>)
  BY <1>1, FirstAndRest
<1>3. todo' = [todo EXCEPT ![p] = Tail(todo[p])]
  BY <1>1 DEF GoOn
<1>4. CASE Len(todo[p]) = 1
  <2>1. req' = [req EXCEPT ![p] = Resting] /\ todo' = [todo EXCEPT ![p] = <<>>]
    BY <1>2, <1>3, <1>4, Zenon DEF GoOn
  <2> QED
    BY <1>4, <2>1, RestType, Replaced, Zenon
<1>5. CASE Len(todo[p]) # 1
  <2>1. req' = req
    BY <1>5, Zenon DEF GoOn
  <2>2. \A q \in Requests : todo'[q] = IF q = p THEN Tail(todo[p]) ELSE todo[q]
    <3> HIDE DEF Statements
    <3> QED
      BY <1>3 DEF RequestsTyped
  <2>3. todo' \in [Requests -> Seq(Statements)]
    <3> HIDE DEF Statements
    <3> QED
      BY <1>2, <1>3 DEF RequestsTyped
  <2>4. \A q \in Requests : todo'[q] # <<>> => req[q].kind # "idle"
    <3> HIDE DEF Statements
    <3> QED
      BY <1>1, <2>2 DEF RequestsTyped, Busy
  <2>5. RequestsTyped'
    BY <2>1, <2>3, <2>4, Zenon DEF RequestsTyped, Busy
  <2> QED
    BY <1>5, <2>1, <2>2, <2>5 DEF OthersStay
<1> QED
  BY <1>4, <1>5

\* A request that goes on as it is, or rests, makes no race.
LEMMA RacesStay ==
  ASSUME RacesNoted, raced \subseteq raced', NEW p \in Requests, OthersStay(p),
         \/ req'[p].kind = "idle"
         \/ req'[p].kind = req[p].kind /\ req'[p].names = req[p].names
  PROVE  RacesNoted'
<1> SUFFICES ASSUME NEW o \in Requests, NEW q \in Requests, o # q,
                    req'[o].kind # "idle", req'[q].kind # "idle", Destroys(req'[o].kind)
             PROVE  req'[o].names \intersect req'[q].names \subseteq raced'
  BY Zenon DEF RacesNoted, Busy, Destroys
<1>1. \A x \in Requests : req'[x].kind # "idle" => req'[x].kind = req[x].kind /\ req'[x].names = req[x].names
  BY Zenon DEF OthersStay
<1>2. req[o].names \intersect req[q].names \subseteq raced
  BY <1>1, Zenon DEF RacesNoted, Busy
<1> QED
  BY <1>1, <1>2

\* A request that is admitted notes what it has in common with others.
LEMMA RacesAdmitted ==
  ASSUME RequestsTyped, RacesNoted, NEW p \in Requests, NEW r, NEW steps, Admit(p, r, steps),
         req'[p] = r, OthersStay(p)
  PROVE  RacesNoted' /\ raced \subseteq raced'
<1>1. raced \subseteq raced'
  BY DEF Admit
<1> SUFFICES ASSUME NEW o \in Requests, NEW q \in Requests, o # q,
                    req'[o].kind # "idle", req'[q].kind # "idle", Destroys(req'[o].kind)
             PROVE  req'[o].names \intersect req'[q].names \subseteq raced'
  BY <1>1, Zenon DEF RacesNoted, Busy, Destroys
<1>2. \A x \in Requests : Busy(x) /\ (Destroys(r.kind) \/ Destroys(req[x].kind)) =>
        r.names \intersect req[x].names \subseteq raced'
  BY DEF Admit
<1>3. CASE o = p
  <2>1. req'[q] = req[q] /\ req'[o] = r
    BY <1>3, Zenon DEF OthersStay
  <2> QED
    BY <1>2, <2>1 DEF Busy
<1>4. CASE q = p
  <2>1. req'[o] = req[o] /\ req'[q] = r
    BY <1>4, Zenon DEF OthersStay
  <2> QED
    BY <1>2, <2>1 DEF Busy
<1>5. CASE o # p /\ q # p
  <2>1. req'[o] = req[o] /\ req'[q] = req[q]
    BY <1>5, Zenon DEF OthersStay
  <2>2. req[o].names \intersect req[q].names \subseteq raced
    BY <2>1, Zenon DEF RacesNoted, Busy
  <2> QED
    BY <1>1, <2>1, <2>2
<1> QED
  BY <1>1, <1>3, <1>4, <1>5

\* All requests fit if that which the step is of does, and the others still do.
LEMMA FitsStep ==
  ASSUME EachFits, NEW p \in Requests, OthersStay(p),
         \A r, steps : r = req'[p] /\ steps = todo'[p] => Fits(r, steps)',
         \A q \in Requests \ {p} : \A r, steps :
           r = req[q] /\ steps = todo[q] /\ Fits(r, steps) => Fits(r, steps)'
  PROVE  EachFits'
<1> SUFFICES ASSUME NEW q \in Requests, NEW r, NEW steps, r = req'[q], steps = todo'[q]
             PROVE  Fits(r, steps)'
  BY Zenon DEF EachFits
<1>1. CASE q = p
  BY <1>1, Zenon
<1>2. CASE q # p
  <2>1. r = req[q] /\ steps = todo[q]
    BY <1>2, Zenon DEF OthersStay
  <2>2. Fits(r, steps)
    BY <2>1, Zenon DEF EachFits
  <2> QED
    BY <1>2, <2>1, <2>2, Zenon
<1> QED
  BY <1>1, <1>2

\* Where the rows and the books stay as they are, the others do fit.
LEMMA FitsQuietly ==
  ASSUME EachFits, NEW p \in Requests, OthersStay(p), raced \subseteq raced',
         UNCHANGED <<live, account, books>>,
         \A r, steps : r = req'[p] /\ steps = todo'[p] => Fits(r, steps)
  PROVE  EachFits'
<1>1. ASSUME NEW r, NEW steps, Fits(r, steps) PROVE Fits(r, steps)'
  BY <1>1, FitsStay, Zenon
<1>2. \A r, steps : r = req'[p] /\ steps = todo'[p] => Fits(r, steps)'
  BY <1>1, Zenon
<1>3. \A q \in Requests \ {p} : \A r, steps :
           r = req[q] /\ steps = todo[q] /\ Fits(r, steps) => Fits(r, steps)'
  BY <1>1, Zenon
<1> QED
  BY <1>2, <1>3, FitsStep, Zenon

\* The rest of what holds of a state, beside its requests.
RowsTyped ==
  /\ live \subseteq Rows /\ IsFiniteSet(live)
  /\ account \in [Subscribers -> Accounts]
  /\ "accounts" \in DOMAIN plan /\ plan.accounts \subseteq Accounts

State == RowsTyped /\ TrafficTypeOK /\ RowsStand /\ BooksApart /\ NoPacketCountedTwice
Line == RequestsTyped /\ RacesNoted /\ EachFits

\* The inductive invariant is TrafficInv and that no packet is counted twice.
LEMMA TrafficParts == TrafficInv /\ NoPacketCountedTwice <=> State /\ Line
<1>1. OfficeTypeOK <=> RowsTyped /\ RequestsTyped
  BY Zenon DEF OfficeTypeOK, RowsTyped, RequestsTyped
<1> QED
  BY <1>1, FitsNow, Zenon DEF TrafficInv, State, Line

\* What a behaviour may do is what it might.
PlanStays ==
  /\ {"accounts", "interfaces"} \subseteq DOMAIN plan'
  /\ plan'.accounts = plan.accounts /\ plan'.interfaces = plan.interfaces

\* A step that leaves the rows and the books leaves what is said of them.
LEMMA StateStays ==
  ASSUME State, raced \subseteq raced', UNCHANGED <<live, account, books, traffic>>, PlanStays
  PROVE  State'
<1>1. RowsTyped'
  BY DEF State, RowsTyped, PlanStays
<1>2. TrafficTypeOK'
  BY DEF State, TrafficTypeOK, books, traffic, PlanStays
<1>3. \A x : Relies(x)' = Relies(x)
  BY DEF Relies
<1>4. RowsStand'
  BY <1>3 DEF State, RowsStand
<1>5. /\ \A i : Related(i)' = Related(i)
      /\ \A i, j : Noted(i, j) => Noted(i, j)'
      /\ \A i, j : Doubled(i, j)' <=> Doubled(i, j)
      /\ entered' = entered
  BY DEF Related, Noted, Doubled, books
<1>6. BooksApart'
  BY <1>5 DEF State, BooksApart
<1>7. NoPacketCountedTwice'
  BY DEF State, NoPacketCountedTwice, books, traffic
<1> QED
  BY <1>1, <1>2, <1>4, <1>6, <1>7, Zenon DEF State

\* A look, which finds what it should or ends the request.
LEMMA LookStep ==
  ASSUME OfficeOK, State, Line, NEW p \in Requests, todo[p] # <<>>, NEW ok, Guarded(p, ok),
         UNCHANGED <<live, account, plan, raced, books, traffic>>,
         ok => \/ \E n \in live : Head(todo[p]) = <<"find", n>>
               \/ \E name \in {"countShips", "countRouters", "findChild", "findSubscriber",
                               "findInUse", "findCode"} :
                    Head(todo[p]) = <<name>> /\ Loose(name, req[p].row)
               \/ /\ Head(todo[p]) = <<"findConflicts">>
                  /\ ~ \E j \in req[p].patch.related : group[j] = req[p].patch.group /\ counted[j]
  PROVE  State' /\ Line'
<1>1. /\ RequestsTyped' /\ OthersStay(p)
      /\ \/ req'[p] = Resting /\ todo'[p] = <<>>
         \/ req'[p] = req[p] /\ todo'[p] = Tail(todo[p]) /\ ok
  <2>1. CASE ok
    <3>1. GoOn(p)
      BY <2>1, Zenon DEF Guarded
    <3> QED
      BY <2>1, <3>1, GoOnStep, Zenon DEF Line
  <2>2. CASE ~ok
    <3>1. Refuse(p)
      BY <2>2, Zenon DEF Guarded
    <3> QED
      BY <3>1, RefuseStep, Zenon DEF Line
  <2> QED
    BY <2>1, <2>2
<1>2. State'
  <2>1. PlanStays
    BY DEF State, RowsTyped, TrafficTypeOK, PlanStays
  <2> QED
    BY <2>1, StateStays
<1>3. RacesNoted'
  <2>1. Resting.kind = "idle"
    BY RestType
  <2> QED
    BY <1>1, <2>1, RacesStay DEF Line
<1>4. EachFits'
  <2>1. ASSUME NEW r, NEW steps, r = req'[p], steps = todo'[p] PROVE Fits(r, steps)
    <3>1. CASE req'[p] = Resting /\ todo'[p] = <<>>
      <4>1. Fits(r, <<>>)
        BY RestingFits
      <4>2. steps = <<>>
        BY <2>1, <3>1
      <4> QED
        BY <4>1, <4>2, Zenon
    <3>2. CASE req'[p] = req[p] /\ todo'[p] = Tail(todo[p]) /\ ok
      <4> PICK o, st : o = req[p] /\ st = todo[p]
        OBVIOUS
      <4>1. Fits(o, st) /\ st \in Seq(Statements) /\ st # <<>>
        <5>1. Fits(o, st)
          BY Zenon DEF Line, EachFits
        <5>2. st \in Seq(Statements)
          <6> HIDE DEF Statements
          <6> QED
            BY DEF Line, RequestsTyped
        <5> QED
          BY <5>1, <5>2
      <4>2. \/ \E n \in live : Head(st) = <<"find", n>>
            \/ \E name \in {"countShips", "countRouters", "findChild", "findSubscriber",
                            "findInUse", "findCode"} :
                 Head(st) = <<name>> /\ Loose(name, o.row)
            \/ /\ Head(st) = <<"findConflicts">>
               /\ ~ \E j \in o.patch.related : group[j] = o.patch.group /\ counted[j]
        BY <3>2, Zenon
      <4>3. OfficeTypeOK
        BY TrafficParts, Zenon DEF TrafficInv
      <4>4. Fits(o, Tail(st))
        BY <4>1, <4>2, <4>3, LookFits, Zenon
      <4> QED
        BY <2>1, <3>2, <4>4, Zenon
    <3> QED
      BY <1>1, <3>1, <3>2, Zenon
  <2>2. raced \subseteq raced' /\ UNCHANGED <<live, account, books>>
    BY Zenon
  <2> QED
    BY <1>1, <2>1, <2>2, FitsQuietly, Zenon DEF Line
<1> QED
  BY <1>1, <1>2, <1>3, <1>4, Zenon DEF Line

\* The name of the first statement.
LEMMA HeadNamed ==
  ASSUME NEW x \in Statements
  PROVE  /\ x[1] = "find" => x = <<"find", x[2]>>
         /\ \A name : name # "find" /\ x[1] = name => x = <<name>>
BY DEF Statements, Steps

\* What is known of a request whose first statement is awaited.
LEMMA Awaited ==
  ASSUME RequestsTyped, NEW p \in Requests, NEW name, Awaits(p, name)
  PROVE  /\ todo[p] \in Seq(Statements) /\ todo[p] # <<>> /\ Head(todo[p]) \in Statements
         /\ name = "find" => Head(todo[p]) = <<"find", Head(todo[p])[2]>>
         /\ name # "find" => Head(todo[p]) = <<name>>
         /\ Busy(p)
<1>1. todo[p] \in Seq(Statements) /\ todo[p] # <<>> /\ Busy(p) /\ Head(todo[p])[1] = name
  <2> HIDE DEF Statements
  <2> QED
    BY DEF RequestsTyped, Awaits
<1>2. Head(todo[p]) \in Statements
  BY <1>1, FirstAndRest
<1> QED
  BY <1>1, <1>2, HeadNamed, Zenon

\* A row is looked for: the request goes on if it is there.
LEMMA FindRowStep ==
  ASSUME OfficeOK, State, Line, NEW p \in Requests, FindRow(p), UNCHANGED <<books, traffic>>
  PROVE  State' /\ Line'
<1> PICK ok : ok = (Head(todo[p])[2] \in live)
  OBVIOUS
<1>1. Awaits(p, "find") /\ Guarded(p, ok)
  BY Zenon DEF FindRow
<1>2. todo[p] # <<>> /\ Head(todo[p]) = <<"find", Head(todo[p])[2]>>
  BY <1>1, Awaited, Zenon DEF Line
<1>3. ok => \E n \in live : Head(todo[p]) = <<"find", n>>
  BY <1>2, Zenon
<1>4. UNCHANGED <<live, account, plan, raced, books, traffic>>
  BY DEF FindRow
<1> QED
  BY <1>1, <1>2, <1>3, <1>4, LookStep, Zenon

\* The look-ups of removals and of codes: the request goes on if nothing is found.
LEMMA CheckStep ==
  ASSUME OfficeOK, State, Line, NEW p \in Requests, Check(p), UNCHANGED <<books, traffic>>
  PROVE  State' /\ Line'
<1> PICK name \in {"countShips", "countRouters", "findChild", "findSubscriber",
                   "findInUse", "findCode"} :
           /\ Awaits(p, name) /\ Guarded(p, Loose(name, req[p].row))
           /\ UNCHANGED <<live, removed, above, account, plan, raced>>
  BY Zenon DEF Check
<1> PICK ok : ok = Loose(name, req[p].row)
  OBVIOUS
<1>0. name # "find"
  OBVIOUS
<1>1. Awaits(p, name) /\ Guarded(p, ok)
  BY Zenon
<1>2. todo[p] # <<>> /\ Head(todo[p]) = <<name>>
  BY <1>0, <1>1, Awaited, Zenon DEF Line
<1>3. ok => Loose(name, req[p].row)
  BY Zenon
<1>4. UNCHANGED <<live, account, plan, raced, books, traffic>>
  OBVIOUS
<1> HIDE DEF Loose
<1> QED
  BY <1>1, <1>2, <1>3, <1>4, LookStep, Zenon

\* An assignment is compared with what counts beside it.
LEMMA FindConflictsStep ==
  ASSUME OfficeOK, State, Line, NEW p \in Requests, FindConflicts(p)
  PROVE  State' /\ Line'
<1> PICK ok : ok = ~ \E j \in req[p].patch.related : group[j] = req[p].patch.group /\ counted[j]
  OBVIOUS
<1>1. Awaits(p, "findConflicts") /\ Guarded(p, ok)
  BY Zenon DEF FindConflicts
<1>0. "findConflicts" # "find"
  OBVIOUS
<1>2. todo[p] # <<>> /\ Head(todo[p]) = <<"findConflicts">>
  BY <1>0, <1>1, Awaited, Zenon DEF Line
<1>3. ok => ~ \E j \in req[p].patch.related : group[j] = req[p].patch.group /\ counted[j]
  BY Zenon
<1>4. UNCHANGED <<live, account, plan, raced, books, traffic>>
  BY DEF FindConflicts
<1> QED
  BY <1>1, <1>2, <1>3, <1>4, LookStep, Zenon

\* The look for what is related, which keeps what it finds.
LEMMA ThreeSteps ==
  ASSUME NEW x, NEW y, NEW z
  PROVE  /\ <<x, y, z>> # <<>> /\ <<x, y>> # <<>> /\ <<x>> # <<>>
         /\ Head(<<x, y, z>>) = x /\ Tail(<<x, y, z>>) = <<y, z>>
         /\ Head(<<x, y>>) = x /\ Tail(<<x, y>>) = <<y>>
         /\ Head(<<x>>) = x /\ Tail(<<x>>) = <<>> /\ Len(<<x>>) = 1
OBVIOUS

\* The three statements of an assignment are not each other.
LEMMA StatementsDiffer ==
  /\ <<"findChildren">> # <<"findConflicts">> /\ <<"findChildren">> # <<"assign">>
  /\ <<"findConflicts">> # <<"assign">>
  /\ <<"findConflicts">> \notin Writes /\ <<"findChildren">> \notin Writes /\ <<"assign">> \in Writes
  /\ \A name \in {"insert", "update", "delete", "insertInterface"} :
       <<name>> \in Writes /\ <<name>> \notin {<<"findChildren">>, <<"findConflicts">>, <<"assign">>}
  /\ <<"insert">> # <<"update">> /\ <<"insert">> # <<"delete">> /\ <<"insert">> # <<"insertInterface">>
  /\ <<"update">> # <<"delete">> /\ <<"update">> # <<"insertInterface">> /\ <<"delete">> # <<"insertInterface">>
BY DEF Writes, Steps

\* The related interfaces of an assignment are looked for.
LEMMA FindChildrenStep ==
  ASSUME OfficeOK, State, Line, NEW p \in Requests, FindChildren(p)
  PROVE  State' /\ Line'
<1> DEFINE i == req[p].row[2]
           n == [req[p] EXCEPT !.patch.related = Related(i)]
           rest == << <<"findConflicts">>, <<"assign">> >>
<1>0. "findChildren" # "find"
  OBVIOUS
<1>1. /\ Awaits(p, "findChildren") /\ todo' = [todo EXCEPT ![p] = Tail(@)]
      /\ req' = [req EXCEPT ![p].patch.related = Related(req[p].row[2])]
      /\ UNCHANGED <<live, account, plan, raced, books, traffic>>
  BY DEF FindChildren
<1>2. todo[p] # <<>> /\ Head(todo[p]) = <<"findChildren">> /\ todo[p] \in Seq(Statements) /\ Busy(p)
  BY <1>0, <1>1, Awaited, Zenon DEF Line
<1>3. Fits(req[p], todo[p])
  BY Zenon DEF Line, EachFits
<1>4. <<"findChildren">> \in Ahead(todo[p])
  BY <1>2, FirstAndRest
<1>5. /\ AssignmentFits(req[p], todo[p])
      /\ Steps({"findChildren", "findConflicts", "assign"}) \intersect Ahead(todo[p]) # {}
  BY <1>3, <1>4 DEF Fits, Steps
<1>6. /\ req[p].kind = "assignZone"
      /\ req[p].row \in {"interface"} \X entered /\ req[p].row \in req[p].names
      /\ DOMAIN req[p].patch = {"group", "counted", "related"}
      /\ \A j \in Related(i) : Noted(i, j) \/ <<"interface", j>> \in req[p].names
      /\ \/ todo[p] = << <<"findChildren">>, <<"findConflicts">>, <<"assign">> >>
         \/ todo[p] = rest
         \/ todo[p] = << <<"assign">> >>
  BY <1>5, Zenon DEF AssignmentFits
<1>7. todo[p] = << <<"findChildren">>, <<"findConflicts">>, <<"assign">> >>
  <2>1. Head(rest) = <<"findConflicts">> /\ Head(<< <<"assign">> >>) = <<"assign">>
    OBVIOUS
  <2>2. todo[p] # rest /\ todo[p] # << <<"assign">> >>
    <3> HIDE DEF rest
    <3> QED
      BY <1>2, <2>1, StatementsDiffer
  <2> HIDE DEF rest
  <2> QED
    BY <1>6, <2>2, Zenon
<1>8. Tail(todo[p]) = rest
  BY <1>7
<1>9. /\ DOMAIN n = {"kind", "row", "names", "patch"} /\ DOMAIN n.patch = {"group", "counted", "related"}
      /\ n.kind = req[p].kind /\ n.row = req[p].row /\ n.names = req[p].names
      /\ n.patch.related = Related(i)
  <2>1. DOMAIN req[p] = {"kind", "row", "names", "patch"}
    BY Zenon DEF Line, RequestsTyped
  <2> HIDE DEF i
  <2> QED
    BY <1>6, <2>1
<1>10. req' = [req EXCEPT ![p] = n] /\ todo' = [todo EXCEPT ![p] = rest]
  <2>1. p \in DOMAIN req /\ p \in DOMAIN todo
    BY DEF Line, RequestsTyped
  <2> QED
    BY <1>1, <1>8, <2>1
<1>11. /\ rest \in Seq(Statements) /\ rest # <<>>
       /\ Ahead(rest) = {<<"findConflicts">>, <<"assign">>} /\ WritesLast(rest)
  <2>1. rest \in Seq(Statements) /\ rest # <<>>
    BY <1>2, <1>8, FirstAndRest, ThreeSteps, Zenon
  <2> QED
    BY <2>1, FewAhead, StatementsDiffer
<1> HIDE DEF n, rest
<1>12. RequestsTyped' /\ OthersStay(p) /\ req'[p] = n /\ todo'[p] = rest
  <2>1. n.kind # "idle"
    BY <1>2, <1>9 DEF Busy
  <2>2. RequestsTyped /\ DOMAIN n = {"kind", "row", "names", "patch"} /\ rest \in Seq(Statements)
    BY <1>9, <1>11 DEF Line
  <2>3. req' = [req EXCEPT ![p] = n]
    BY <1>10
  <2>4. todo' = [todo EXCEPT ![p] = rest]
    BY <1>10
  <2> QED
    BY <2>1, <2>2, <2>3, <2>4, Replaced
<1>13. Fits(n, rest)
  <2>1. WriterFits(n, rest) /\ RemoverFits(n, rest) /\ EntryFits(n, rest)
    <3>1. \A name \in {"insert", "update", "delete", "insertInterface"} : <<name>> \notin Ahead(rest)
      BY <1>11, StatementsDiffer
    <3> QED
      BY <3>1 DEF WriterFits, RemoverFits, EntryFits
  <2>2. n.row[2] = i
    BY <1>9
  <2> HIDE DEF i
  <2>3. AssignmentFits(n, rest)
    BY <1>6, <1>9, <2>2, Zenon DEF AssignmentFits, rest
  <2> QED
    BY <1>11, <2>1, <2>3, Zenon DEF Fits
<1>14. State'
  <2>1. PlanStays /\ raced \subseteq raced' /\ UNCHANGED <<live, account, books, traffic>>
    BY <1>1 DEF State, RowsTyped, TrafficTypeOK, PlanStays
  <2> QED
    BY <2>1, StateStays, Zenon
<1>15. RacesNoted'
  <2>1. raced \subseteq raced'
    BY <1>1
  <2> QED
    BY <1>9, <1>12, <2>1, RacesStay, Zenon DEF Line
<1>16. EachFits'
  <2>1. \A r, steps : r = req'[p] /\ steps = todo'[p] => Fits(r, steps)
    BY <1>12, <1>13, Zenon
  <2>2. raced \subseteq raced' /\ UNCHANGED <<live, account, books>>
    BY <1>1
  <2> QED
    BY <1>12, <2>1, <2>2, FitsQuietly, Zenon DEF Line
<1> QED
  BY <1>12, <1>14, <1>15, <1>16, Zenon DEF Line

-----------------------------------------------------------------------------
(* Writes.  A request ends with its own, so that what matters is what it   *)
(* does to the others.                                                     *)

LEMMA RestingAll == \A r : Fits(r, <<>>)
BY RestingFits

\* Two requests one of which destroys have nothing in common but what is noted.
LEMMA Apart ==
  ASSUME RacesNoted, NEW p \in Requests, NEW q \in Requests, p # q, Busy(p), Busy(q),
         Destroys(req[p].kind) \/ Destroys(req[q].kind),
         NEW n, n \in req[p].names, n \in req[q].names
  PROVE  n \in raced
<1>1. Destroys(req[p].kind) => req[p].names \intersect req[q].names \subseteq raced
  BY Zenon DEF RacesNoted
<1>2. Destroys(req[q].kind) => req[q].names \intersect req[p].names \subseteq raced
  BY Zenon DEF RacesNoted
<1> QED
  BY <1>1, <1>2

\* After a write nothing is ahead, and the request rests.
LEMMA WriteEnds ==
  ASSUME Line, NEW p \in Requests, NEW name, name # "find", Awaits(p, name), <<name>> \in Writes,
         GoOn(p) \/ Refuse(p), raced' = raced,
         \A q \in Requests \ {p} : \A r, steps :
           r = req[q] /\ steps = todo[q] /\ Busy(q) /\ Fits(r, steps) => Fits(r, steps)'
  PROVE  Line'
<1>1. todo[p] \in Seq(Statements) /\ todo[p] # <<>> /\ Head(todo[p]) = <<name>> /\ Busy(p)
  BY Awaited, Zenon DEF Line
<1>2. Fits(req[p], todo[p])
  BY Zenon DEF Line, EachFits
<1>3. Len(todo[p]) = 1
  BY <1>1, <1>2, FirstAndRest DEF Fits
<1>4. RequestsTyped' /\ OthersStay(p) /\ req'[p] = Resting /\ todo'[p] = <<>>
  <2>1. CASE GoOn(p)
    BY <1>1, <1>3, <2>1, GoOnStep, Zenon DEF Line
  <2>2. CASE Refuse(p)
    BY <2>2, RefuseStep, Zenon DEF Line
  <2> QED
    BY <2>1, <2>2
<1>5. RacesNoted'
  <2>1. Resting.kind = "idle" /\ raced \subseteq raced'
    BY RestType
  <2> QED
    BY <1>4, <2>1, RacesStay DEF Line
<1>6. EachFits'
  <2>1. (\A r : Fits(r, <<>>))'
    BY RestingAll, PTL
  <2>2. \A r, steps : r = req'[p] /\ steps = todo'[p] => Fits(r, steps)'
    <3> SUFFICES ASSUME NEW r, NEW steps, steps = <<>>
                 PROVE  Fits(r, steps)'
      BY <1>4, Zenon
    <3>1. Fits(r, <<>>)'
      BY <2>1, Zenon
    <3> QED
      BY <3>1, Zenon
  <2>3. ASSUME NEW q \in Requests \ {p}, NEW r, NEW steps, r = req[q], steps = todo[q], Fits(r, steps)
        PROVE  Fits(r, steps)'
    <3>1. CASE Busy(q)
      BY <2>3, <3>1, Zenon
    <3>2. CASE ~Busy(q)
      <4>1. steps = <<>>
        BY <2>3, <3>2, Zenon DEF Line, RequestsTyped
      <4>2. Fits(r, <<>>)'
        BY <2>1, Zenon
      <4> QED
        BY <4>1, <4>2, Zenon
    <3> QED
      BY <3>1, <3>2
  <2>4. \A q \in Requests \ {p} : \A r, steps :
           r = req[q] /\ steps = todo[q] /\ Fits(r, steps) => Fits(r, steps)'
    BY <2>3, Zenon
  <2> QED
    BY <1>4, <2>2, <2>4, FitsStep, Zenon DEF Line
<1> QED
  BY <1>4, <1>5, <1>6, Zenon DEF Line

\* What the write of a request can do to another.
LEMMA WriterKept ==
  ASSUME NEW r, NEW steps, WriterFits(r, steps),
         \A n \in r.names \ {r.row} : n[1] # "subscriber" /\ n \in live \union raced => n \in live' \union raced'
  PROVE  WriterFits(r, steps)'
BY DEF WriterFits

\* A removal that fits does so as long as no row comes to rely on what it removes.
LEMMA RemoverKept ==
  ASSUME NEW r, NEW steps, RemoverFits(r, steps), raced \subseteq raced',
         /\ r.row \in r.names /\ (Destroys(r.kind) \/ r.row[1] = "subscriber")
         /\ r.row[1] \in DOMAIN LastLook
         /\ \A x \in live : r.row \notin Relies(x)
         => r.row \in raced' \/ \A x \in live' : r.row \notin Relies(x)'
  PROVE  RemoverFits(r, steps)'
BY DEF RemoverFits

\* Requests about interfaces fit as long as the books stay.
LEMMA BooksKept ==
  ASSUME NEW r, NEW steps, EntryFits(r, steps), AssignmentFits(r, steps), raced \subseteq raced',
         UNCHANGED books
  PROVE  EntryFits(r, steps)' /\ AssignmentFits(r, steps)'
<1>1. /\ \A i : Related(i)' = Related(i)
      /\ \A i, j : Noted(i, j) => Noted(i, j)'
      /\ group' = group /\ counted' = counted /\ entered' = entered
  BY DEF Related, Noted, books
<1> QED
  BY <1>1 DEF EntryFits, AssignmentFits

\* Rows get only what their writer has found: that stands, and keeps the others
\* right.
LEMMA RelyStep ==
  ASSUME OfficeOK, State, Line, NEW p \in Requests, Busy(p), raced' = raced, UNCHANGED books,
         live \subseteq live',
         \A x \in live' : \A n \in Relies(x)' :
           \/ x \in live /\ n \in Relies(x)
           \/ n \in req[p].names /\ n \in live \union raced,
         NEW q \in Requests \ {p}, Busy(q), NEW r, NEW steps, r = req[q], Fits(r, steps)
  PROVE  Fits(r, steps)'
<1>2. WriterFits(r, steps)'
  BY WriterKept DEF Fits
<1>3. RemoverFits(r, steps)'
  <2>1. ASSUME r.row \in r.names, Destroys(r.kind) \/ r.row[1] = "subscriber", r.row[1] \in DOMAIN LastLook,
               \A x \in live : r.row \notin Relies(x)
        PROVE  r.row \in raced' \/ \A x \in live' : r.row \notin Relies(x)'
    <3> SUFFICES ASSUME NEW x \in live', r.row \in Relies(x)'
                 PROVE  r.row \in raced
      OBVIOUS
    <3>1. r.row \in req[p].names
      BY <2>1
    <3>2. Destroys(req[q].kind) /\ r.row \in req[q].names
      BY <2>1 DEF LastLook
    <3>3. RacesNoted
      BY DEF Line
    <3> QED
      BY <3>1, <3>2, <3>3, Apart
  <2> QED
    BY <2>1, RemoverKept, Zenon DEF Fits
<1>4. EntryFits(r, steps)' /\ AssignmentFits(r, steps)'
  BY BooksKept DEF Fits
<1>5. WritesLast(steps)'
  BY DEF Fits, WritesLast
<1> QED
  BY <1>2, <1>3, <1>4, <1>5, Zenon DEF Fits

\* A write is the last statement of its request.
LEMMA WriterNow ==
  ASSUME Line, NEW p \in Requests, NEW name, name # "find", Awaits(p, name), <<name>> \in Writes
  PROVE  Fits(req[p], todo[p]) /\ Ahead(todo[p]) = {<<name>>} /\ Busy(p)
<1>1. todo[p] \in Seq(Statements) /\ todo[p] # <<>> /\ Head(todo[p]) = <<name>> /\ Busy(p)
  BY Awaited, Zenon DEF Line
<1>2. Fits(req[p], todo[p])
  BY Zenon DEF Line, EachFits
<1> QED
  BY <1>1, <1>2, FirstAndRest DEF Fits

\* What another row or account makes of the state.
LEMMA RowsWritten ==
  ASSUME State, UNCHANGED <<plan, raced, books, traffic>>,
         live' \subseteq Rows, IsFiniteSet(live'), account' \in [Subscribers -> Accounts], RowsStand'
  PROVE  State'
<1>1. RowsTyped'
  BY DEF State, RowsTyped
<1>2. TrafficTypeOK'
  BY DEF State, TrafficTypeOK, books, traffic
<1>3. /\ \A i : Related(i)' = Related(i)
      /\ \A i, j : Noted(i, j) => Noted(i, j)'
      /\ \A i, j : Doubled(i, j)' <=> Doubled(i, j)
      /\ entered' = entered
  BY DEF Related, Noted, Doubled, books
<1>4. BooksApart'
  BY <1>3 DEF State, BooksApart
<1>5. NoPacketCountedTwice'
  BY DEF State, NoPacketCountedTwice, books, traffic
<1> QED
  BY <1>1, <1>2, <1>4, <1>5, Zenon DEF State

\* A row is inserted.
LEMMA InsertStep ==
  ASSUME OfficeOK, State, Line, NEW p \in Requests, Insert(p), UNCHANGED <<books, traffic>>
  PROVE  State' /\ Line'
<1> PICK row, patch : row = req[p].row /\ patch = req[p].patch
  OBVIOUS
<1>0. "insert" # "find" /\ <<"insert">> \in Writes
  BY StatementsDiffer
<1>1. Awaits(p, "insert") /\ UNCHANGED <<plan, raced, books, traffic>>
  BY Zenon DEF Insert
<1>2. Fits(req[p], todo[p]) /\ Ahead(todo[p]) = {<<"insert">>} /\ Busy(p)
  BY <1>0, <1>1, WriterNow, Zenon
<1>3. /\ row \in Rows /\ Relied(row, patch) \subseteq req[p].names \ {row}
      /\ row[1] = "subscriber" => patch \in Accounts
      /\ \A n \in req[p].names \ {row} : n \in live \union raced
  <2>1. WriterFits(req[p], todo[p]) /\ \A n : <<"find", n>> \notin Ahead(todo[p])
    <3>1. \A n : <<"find", n>> # <<"insert">>
      OBVIOUS
    <3> QED
      BY <1>2, <3>1 DEF Fits
  <2> QED
    BY <1>2, <2>1 DEF WriterFits
<1>4. \/ Refuse(p) /\ UNCHANGED <<live, account>>
      \/ /\ row \notin live /\ live' = live \union {row}
         /\ account' = IF row[1] = "subscriber" THEN [account EXCEPT ![row[2]] = patch] ELSE account
         /\ GoOn(p)
  BY DEF Insert
<1>5. /\ live' \subseteq Rows /\ IsFiniteSet(live') /\ account' \in [Subscribers -> Accounts] /\ live \subseteq live'
      /\ \A x \in live' : \A n \in Relies(x)' :
           \/ x \in live /\ n \in Relies(x)
           \/ n \in req[p].names /\ n \in live \union raced
  <2>0. live \subseteq Rows /\ IsFiniteSet(live) /\ account \in [Subscribers -> Accounts]
    BY DEF State, RowsTyped
  <2>1. CASE UNCHANGED <<live, account>>
    BY <2>0, <2>1 DEF Relies
  <2>2. CASE /\ row \notin live /\ live' = live \union {row}
             /\ account' = IF row[1] = "subscriber" THEN [account EXCEPT ![row[2]] = patch] ELSE account
    <3>1. row[1] = "subscriber" => row \in {"subscriber"} \X Subscribers
      BY <1>3 DEF Rows
    <3>2. account' \in [Subscribers -> Accounts]
      BY <1>3, <2>0, <2>2, <3>1
    <3>3. live' \subseteq Rows /\ IsFiniteSet(live') /\ live \subseteq live'
      BY <1>3, <2>0, <2>2, FS_AddElement
    <3>4. ASSUME NEW x \in live, NEW n \in Relies(x)' PROVE n \in Relies(x)
      <4>1. x \in Rows /\ x # row
        BY <2>0, <2>2
      <4>2. CASE x[1] = "subscriber"
        <5>1. x \in {"subscriber"} \X Subscribers
          BY <4>1, <4>2 DEF Rows
        <5>2. row[1] = "subscriber" => x[2] # row[2]
          BY <3>1, <4>1, <5>1
        <5>3. account'[x[2]] = account[x[2]]
          BY <2>0, <2>2, <3>1, <5>1, <5>2
        <5> QED
          BY <3>4, <5>3 DEF Relies
      <4>3. CASE x[1] # "subscriber"
        <5>1. Relied(x, account'[x[2]]) = Relied(x, account[x[2]])
          BY <4>1, <4>3, ReliedRows
        <5> QED
          BY <3>4, <5>1 DEF Relies
      <4> QED
        BY <4>2, <4>3
    <3>5. ASSUME NEW n \in Relies(row)' PROVE n \in req[p].names /\ n \in live \union raced
      <4>1. Relied(row, account'[row[2]]) = Relied(row, patch)
        <5>1. CASE row[1] = "subscriber"
          <6>1. account'[row[2]] = patch
            BY <2>0, <2>2, <3>1, <5>1
          <6> QED
            BY <6>1
        <5>2. CASE row[1] # "subscriber"
          BY <1>3, <5>2, ReliedRows
        <5> QED
          BY <5>1, <5>2
      <4>2. n \in Relied(row, account'[row[2]])
        BY <3>5 DEF Relies
      <4> QED
        BY <1>3, <4>1, <4>2
    <3>6. ASSUME NEW x \in live', NEW n \in Relies(x)'
          PROVE  (x \in live /\ n \in Relies(x)) \/ (n \in req[p].names /\ n \in live \union raced)
      <4>1. CASE x = row
        <5>1. n \in Relies(row)'
          BY <3>6, <4>1
        <5> QED
          BY <3>5, <5>1
      <4>2. CASE x \in live
        BY <3>4, <3>6, <4>2
      <4> QED
        BY <2>2, <4>1, <4>2
    <3> QED
      BY <3>2, <3>3, <3>6
  <2> QED
    BY <1>4, <2>1, <2>2
<1>6. RowsStand'
  BY <1>1, <1>5 DEF State, RowsStand
<1>7. State'
  BY <1>1, <1>5, <1>6, RowsWritten
<1>8. ASSUME NEW q \in Requests \ {p}, NEW r, NEW steps, r = req[q], steps = todo[q], Busy(q), Fits(r, steps)
      PROVE  Fits(r, steps)'
  BY <1>1, <1>2, <1>5, <1>8, RelyStep
<1>9. Line'
  <2>1. GoOn(p) \/ Refuse(p)
    BY <1>4
  <2>2. raced' = raced
    BY <1>1
  <2> QED
    BY <1>0, <1>1, <1>8, <2>1, <2>2, WriteEnds, Zenon
<1> QED
  BY <1>7, <1>9

\* A subscriber is changed.
LEMMA UpdateStep ==
  ASSUME OfficeOK, State, Line, NEW p \in Requests, Update(p), UNCHANGED <<books, traffic>>
  PROVE  State' /\ Line'
<1> PICK row, patch : row = req[p].row /\ patch = req[p].patch
  OBVIOUS
<1>0. "update" # "find" /\ <<"update">> \in Writes
  BY StatementsDiffer
<1>1. Awaits(p, "update") /\ UNCHANGED <<live, plan, raced, books, traffic>> /\ GoOn(p)
      /\ account' = [account EXCEPT ![row[2]] =
                       [f \in DOMAIN account[row[2]] |-> IF f \in DOMAIN patch THEN patch[f] ELSE account[row[2]][f]]]
  BY DEF Update
<1>2. Fits(req[p], todo[p]) /\ Ahead(todo[p]) = {<<"update">>} /\ Busy(p)
  BY <1>0, <1>1, WriterNow, Zenon
<1>3. /\ row \in {"subscriber"} \X Subscribers
      /\ \/ patch \in [status : Statuses, ends : Ends]
         \/ /\ patch \in [package : Packages, nas : Ships \union {None}]
            /\ <<"package", patch.package>> \in req[p].names \ {row}
      /\ \A n \in req[p].names \ {row} : n \in live \union raced
  <2>1. WriterFits(req[p], todo[p]) /\ \A n : <<"find", n>> \notin Ahead(todo[p])
    <3>1. \A n : <<"find", n>> # <<"update">>
      OBVIOUS
    <3> QED
      BY <1>2, <3>1 DEF Fits
  <2> QED
    BY <1>2, <2>1 DEF WriterFits
<1> PICK u \in Subscribers : row = <<"subscriber", u>>
  BY <1>3
<1> PICK old, new : old = account[u] /\ new = account'[u]
  OBVIOUS
<1>4. account \in [Subscribers -> Accounts] /\ live \subseteq Rows /\ IsFiniteSet(live)
  BY DEF State, RowsTyped
<1>5. /\ new = [f \in DOMAIN old |-> IF f \in DOMAIN patch THEN patch[f] ELSE old[f]]
      /\ account' = [account EXCEPT ![u] = new]
      /\ old \in Accounts
  BY <1>1, <1>4
<1>6. /\ new \in Accounts /\ new.tenant = old.tenant
      /\ new.package # old.package =>
           <<"package", new.package>> \in req[p].names /\ <<"package", new.package>> \in live \union raced
  <2>0. DOMAIN old = {"tenant", "package", "nas", "status", "ends"} /\ old.tenant \in Tenants
        /\ old.package \in Packages /\ old.nas \in Ships \union {None}
    BY <1>5 DEF Accounts
  <2>1. CASE patch \in [status : Statuses, ends : Ends]
    <3>1. DOMAIN patch = {"status", "ends"} /\ patch.status \in Statuses /\ patch.ends \in Ends
      BY <2>1
    <3>2. new = [tenant |-> old.tenant, package |-> old.package, nas |-> old.nas,
                 status |-> patch.status, ends |-> patch.ends]
      BY <1>5, <2>0, <3>1
    <3> QED
      BY <2>0, <3>1, <3>2 DEF Accounts
  <2>2. CASE /\ patch \in [package : Packages, nas : Ships \union {None}]
             /\ <<"package", patch.package>> \in req[p].names \ {row}
    <3>1. new \in Accounts /\ new.tenant = old.tenant /\ new.package = patch.package
      BY <1>5, <2>2 DEF Accounts
    <3> QED
      BY <1>3, <2>2, <3>1
  <2> QED
    BY <1>3, <2>1, <2>2
<1>7. account' \in [Subscribers -> Accounts] /\ \A v \in Subscribers : v # u => account'[v] = account[v]
  BY <1>4, <1>5, <1>6
<1>8. ASSUME NEW x \in live', NEW n \in Relies(x)'
      PROVE  (x \in live /\ n \in Relies(x)) \/ (n \in req[p].names /\ n \in live \union raced)
  <2>1. x \in live /\ x \in Rows
    BY <1>1, <1>4
  <2>2. n \in Relied(x, account'[x[2]])
    BY <1>8 DEF Relies
  <2>3. CASE x = row
    <3>1. /\ Relied(x, new) = {<<"tenant", new.tenant>>, <<"package", new.package>>}
          /\ Relied(x, old) = {<<"tenant", old.tenant>>, <<"package", old.package>>}
      BY <2>3 DEF Relied
    <3>2. x[2] = u
      BY <2>3
    <3>3. Relies(x) = Relied(x, old) /\ n \in Relied(x, new)
      BY <2>2, <3>2 DEF Relies
    <3> QED
      BY <1>6, <2>1, <3>1, <3>3
  <2>4. CASE x[1] = "subscriber" /\ x # row
    <3>1. x \in {"subscriber"} \X Subscribers
      BY <2>1, <2>4 DEF Rows
    <3>2. account'[x[2]] = account[x[2]]
      BY <1>7, <2>4, <3>1
    <3> QED
      BY <2>1, <2>2, <3>2 DEF Relies
  <2>5. CASE x[1] # "subscriber"
    <3>1. Relied(x, account'[x[2]]) = Relied(x, account[x[2]])
      BY <2>1, <2>5, ReliedRows
    <3> QED
      BY <2>1, <2>2, <3>1 DEF Relies
  <2> QED
    BY <2>3, <2>4, <2>5
<1>9. RowsStand'
  BY <1>1, <1>8 DEF State, RowsStand
<1>10. State'
  BY <1>1, <1>4, <1>7, <1>9, RowsWritten
<1>11. ASSUME NEW q \in Requests \ {p}, NEW r, NEW steps, r = req[q], steps = todo[q], Busy(q), Fits(r, steps)
       PROVE  Fits(r, steps)'
  BY <1>1, <1>2, <1>8, <1>11, RelyStep
<1>12. Line'
  <2>1. GoOn(p) \/ Refuse(p)
    BY <1>1
  <2>2. raced' = raced
    BY <1>1
  <2> QED
    BY <1>0, <1>1, <1>11, <2>1, <2>2, WriteEnds, Zenon
<1> QED
  BY <1>10, <1>12

\* A row is removed.
LEMMA DeleteStep ==
  ASSUME OfficeOK, State, Line, NEW p \in Requests, Delete(p), UNCHANGED <<books, traffic>>
  PROVE  State' /\ Line'
<1> PICK row : row = req[p].row
  OBVIOUS
<1>0. "delete" # "find" /\ <<"delete">> \in Writes
  BY StatementsDiffer
<1>1. Awaits(p, "delete") /\ UNCHANGED <<account, plan, raced, books, traffic>> /\ GoOn(p)
      /\ live' = live \ {row}
  BY DEF Delete
<1>2. Fits(req[p], todo[p]) /\ Ahead(todo[p]) = {<<"delete">>} /\ Busy(p)
  BY <1>0, <1>1, WriterNow, Zenon
<1>3. /\ row \in Rows /\ row \in req[p].names
      /\ Destroys(req[p].kind) \/ row[1] = "subscriber"
      /\ row[1] \in DOMAIN LastLook => row \in raced \/ \A x \in live : row \notin Relies(x)
  <2>1. RemoverFits(req[p], todo[p])
    BY <1>2 DEF Fits
  <2>2. row[1] \in DOMAIN LastLook => <<LastLook[row[1]]>> # <<"delete">>
    BY DEF LastLook
  <2> QED
    BY <1>2, <2>1, <2>2 DEF RemoverFits
<1>4. live \subseteq Rows /\ IsFiniteSet(live) /\ account \in [Subscribers -> Accounts]
  BY DEF State, RowsTyped
<1>5. live' \subseteq Rows /\ IsFiniteSet(live') /\ live' \subseteq live /\ account' \in [Subscribers -> Accounts]
  BY <1>1, <1>4, FS_Subset
<1>6. \A x : Relies(x)' = Relies(x)
  BY <1>1 DEF Relies
<1>7. RowsStand'
  <2> SUFFICES ASSUME NEW x \in live, NEW n \in Relies(x)
               PROVE  n \in live' \union raced'
    BY <1>5, <1>6 DEF RowsStand
  <2>1. n \in live \union raced
    BY DEF State, RowsStand
  <2>2. CASE n = row
    <3>1. x \in Rows /\ (x[1] = "subscriber" => account[x[2]] \in Accounts)
      BY <1>4 DEF Rows
    <3>2. n[1] \in DOMAIN LastLook
      BY <3>1, ReliedRows DEF Relies
    <3> QED
      BY <1>1, <1>3, <2>2, <3>2
  <2> QED
    BY <1>1, <2>1, <2>2
<1>8. State'
  BY <1>1, <1>5, <1>7, RowsWritten
<1>9. ASSUME NEW q \in Requests \ {p}, NEW r, NEW steps, r = req[q], steps = todo[q], Busy(q), Fits(r, steps)
      PROVE  Fits(r, steps)'
  <2>1. ASSUME NEW n \in r.names \ {r.row}, n[1] # "subscriber", n \in live \union raced
        PROVE  n \in live' \union raced'
    <3>1. CASE n = row
      <4>1. RacesNoted /\ Destroys(req[p].kind)
        BY <1>3, <2>1, <3>1 DEF Line
      <4>2. n \in raced
        BY <1>2, <1>3, <1>9, <2>1, <3>1, <4>1, Apart
      <4> QED
        BY <1>1, <4>2
    <3> QED
      BY <1>1, <2>1, <3>1
  <2>2. WriterFits(r, steps)'
    BY <1>9, <2>1, WriterKept DEF Fits
  <2>3. RemoverFits(r, steps)'
    <3>1. (\A x \in live : r.row \notin Relies(x)) => \A x \in live' : r.row \notin Relies(x)'
      BY <1>5, <1>6
    <3>2. RemoverFits(r, steps) /\ raced \subseteq raced'
      BY <1>1, <1>9 DEF Fits
    <3> QED
      BY <3>1, <3>2, RemoverKept, Zenon
  <2>4. EntryFits(r, steps)' /\ AssignmentFits(r, steps)'
    BY <1>1, <1>9, BooksKept DEF Fits
  <2>5. WritesLast(steps)'
    BY <1>9 DEF Fits, WritesLast
  <2> QED
    BY <2>2, <2>3, <2>4, <2>5, Zenon DEF Fits
<1>10. Line'
  <2>1. GoOn(p) \/ Refuse(p)
    BY <1>1
  <2>2. raced' = raced
    BY <1>1
  <2> QED
    BY <1>0, <1>1, <1>9, <2>1, <2>2, WriteEnds, Zenon
<1> QED
  BY <1>8, <1>10

\* What keeps an assignment right: what is related to its interface by now is
\* noted, or was related before and counts as it did.
LEMMA AssignmentKept ==
  ASSUME NEW r, NEW steps, AssignmentFits(r, steps), raced' = raced, entered \subseteq entered',
         /\ r.kind = "assignZone" /\ r.row \in {"interface"} \X entered /\ r.row \in r.names
         /\ \A j \in Related(r.row[2]) : Noted(r.row[2], j) \/ <<"interface", j>> \in r.names
         => \A j \in Related(r.row[2])' :
              \/ Noted(r.row[2], j)
              \/ j \in Related(r.row[2]) /\ group'[j] = group[j] /\ counted'[j] = counted[j]
  PROVE  AssignmentFits(r, steps)'
<1> PICK i : i = r.row[2]
  OBVIOUS
<1> SUFFICES ASSUME Steps({"findChildren", "findConflicts", "assign"}) \intersect Ahead(steps) # {}
             PROVE  AssignmentFits(r, steps)'
  BY DEF AssignmentFits
<1>1. /\ r.kind = "assignZone" /\ r.row \in {"interface"} \X entered /\ r.row \in r.names
      /\ DOMAIN r.patch = {"group", "counted", "related"}
      /\ \A j \in Related(i) : Noted(i, j) \/ <<"interface", j>> \in r.names
      /\ \/ steps = << <<"findChildren">>, <<"findConflicts">>, <<"assign">> >>
         \/ /\ steps = << <<"findConflicts">>, <<"assign">> >>
            /\ \A j \in Related(i) : Noted(i, j) \/ j \in r.patch.related
         \/ /\ steps = << <<"assign">> >>
            /\ r.patch.counted /\ r.patch.group # "NONE" =>
                 \A j \in Related(i) : Noted(i, j) \/ ~(group[j] = r.patch.group /\ counted[j])
  BY Zenon DEF AssignmentFits
<1>2. \A j : Noted(i, j)' <=> Noted(i, j)
  BY DEF Noted
<1>3. \A j \in Related(i)' : \/ Noted(i, j)'
                             \/ j \in Related(i) /\ group'[j] = group[j] /\ counted'[j] = counted[j]
  BY <1>1, <1>2, Zenon
<1>4. r.row \in {"interface"} \X entered'
  BY <1>1
<1>5. \A j \in Related(i)' : Noted(i, j)' \/ <<"interface", j>> \in r.names
  BY <1>1, <1>2, <1>3, Zenon
<1>6. \/ steps = << <<"findChildren">>, <<"findConflicts">>, <<"assign">> >>
      \/ /\ steps = << <<"findConflicts">>, <<"assign">> >>
         /\ \A j \in Related(i)' : Noted(i, j)' \/ j \in r.patch.related
      \/ /\ steps = << <<"assign">> >>
         /\ r.patch.counted /\ r.patch.group # "NONE" =>
              \A j \in Related(i)' : Noted(i, j)' \/ ~(group'[j] = r.patch.group /\ counted'[j])
  BY <1>1, <1>2, <1>3, Zenon
<1> QED
  BY <1>1, <1>4, <1>5, <1>6, Zenon DEF AssignmentFits

\* Rows and their requests have nothing to do with the books.
LEMMA OfficeKept ==
  ASSUME NEW r, NEW steps, Fits(r, steps), UNCHANGED <<live, account, raced>>,
         entered \subseteq entered', AssignmentFits(r, steps)'
  PROVE  Fits(r, steps)'
<1>1. WritesLast(steps)' /\ WriterFits(r, steps)'
  BY DEF Fits, WritesLast, WriterFits
<1>2. RemoverFits(r, steps)'
  <2>1. \A x : Relies(x)' = Relies(x)
    BY DEF Relies
  <2> QED
    BY <2>1 DEF Fits, RemoverFits
<1>3. EntryFits(r, steps)'
  BY DEF Fits, EntryFits
<1> QED
  BY <1>1, <1>2, <1>3, Zenon DEF Fits

\* What another entry or assignment makes of the state.
LEMMA BooksWritten ==
  ASSUME State, UNCHANGED <<live, account, plan, raced>>, TrafficTypeOK', BooksApart', NoPacketCountedTwice'
  PROVE  State'
<1>1. RowsTyped'
  BY DEF State, RowsTyped
<1>2. \A x : Relies(x)' = Relies(x)
  BY DEF Relies
<1>3. RowsStand'
  BY <1>2 DEF State, RowsStand
<1> QED
  BY <1>1, <1>3, Zenon DEF State

\* An interface is entered.
LEMMA InsertInterfaceStep ==
  ASSUME OfficeOK, TrafficOK, State, Line, NEW p \in Requests, InsertInterface(p)
  PROVE  State' /\ Line'
<1> PICK i, over : i = req[p].row[2] /\ over = req[p].patch
  OBVIOUS
<1>0. "insertInterface" # "find" /\ <<"insertInterface">> \in Writes
  BY StatementsDiffer
<1>1. /\ Awaits(p, "insertInterface")
      /\ \/ i \in entered /\ Refuse(p) /\ UNCHANGED <<entered, parent>>
         \/ /\ i \notin entered /\ entered' = entered \union {i}
            /\ parent' = [parent EXCEPT ![i] = over] /\ GoOn(p)
      /\ UNCHANGED <<live, account, plan, raced, group, counted, traffic>>
  BY DEF InsertInterface
<1>2. Fits(req[p], todo[p]) /\ Ahead(todo[p]) = {<<"insertInterface">>} /\ Busy(p)
  BY <1>0, <1>1, WriterNow, Zenon
<1>3. /\ i \in Interfaces
      /\ over # None => over \in entered /\ <<"interface", over>> \in req[p].names
  <2>1. EntryFits(req[p], todo[p])
    BY <1>2, Zenon DEF Fits
  <2> QED
    BY <1>2, <2>1 DEF EntryFits
<1>4. None \notin Interfaces /\ TrafficTypeOK
  BY DEF TrafficOK, State
<1>5. CASE i \in entered
  <2>1. UNCHANGED books /\ Refuse(p)
    BY <1>1, <1>5 DEF books
  <2>2. State'
    <3>1. PlanStays /\ raced \subseteq raced'
      BY <1>1 DEF State, RowsTyped, TrafficTypeOK, PlanStays
    <3> QED
      BY <1>1, <2>1, <3>1, StateStays
  <2>3. ASSUME NEW r, NEW steps, Fits(r, steps) PROVE Fits(r, steps)'
    BY <1>1, <2>1, <2>3, FitsStay
  <2>4. raced' = raced
    BY <1>1
  <2>5. Line'
    BY <1>0, <1>1, <2>1, <2>3, <2>4, WriteEnds, Zenon
  <2> QED
    BY <2>2, <2>5
<1>6. CASE i \notin entered
  <2>1. /\ entered' = entered \union {i} /\ parent' = [parent EXCEPT ![i] = over] /\ GoOn(p)
        /\ entered \subseteq entered' /\ group' = group /\ counted' = counted /\ raced' = raced
    BY <1>1, <1>6
  <2>2. /\ DOMAIN parent = Interfaces /\ entered \subseteq Interfaces /\ group[i] = "NONE"
        /\ \A j \in entered : parent[j] \in (entered \ {j}) \union {None}
    BY <1>3, <1>4, <1>6 DEF TrafficTypeOK
  <2>3. /\ parent'[i] = over
        /\ \A j \in Interfaces : j # i => parent'[j] = parent[j]
        /\ \A j \in entered : j # i
    BY <1>3, <1>6, <2>1, <2>2
  <2>4. TrafficTypeOK'
    <3>1. DOMAIN parent' = Interfaces /\ DOMAIN group' = Interfaces /\ DOMAIN counted' = Interfaces
          /\ entered' \subseteq Interfaces
      BY <1>3, <1>4, <2>1 DEF TrafficTypeOK
    <3>2. \A j \in entered' : parent'[j] \in (entered' \ {j}) \union {None}
      <4> SUFFICES ASSUME NEW j \in entered'
                   PROVE  parent'[j] \in (entered' \ {j}) \union {None}
        OBVIOUS
      <4>1. CASE j = i
        <5>1. over \in entered \union {None}
          BY <1>3
        <5> QED
          BY <1>6, <2>1, <2>3, <4>1, <5>1
      <4>2. CASE j # i
        <5>1. j \in entered
          BY <2>1, <4>2
        <5> QED
          BY <2>1, <2>2, <2>3, <5>1
      <4> QED
        BY <4>1, <4>2
    <3>3. \A j \in Interfaces \ entered' : group'[j] = "NONE"
      BY <1>4, <2>1 DEF TrafficTypeOK
    <3>4. \A d \in deltas : d.iface \in entered' /\ d.packet \in packets
      BY <1>4, <2>1 DEF TrafficTypeOK
    <3>5. flows \subseteq [ship : Ships, iface : entered' \union {None}, user : Users \union {None},
                           at : Times, name : Domains \union {None}, bytes : Nat]
      BY <1>4, <2>1 DEF TrafficTypeOK
    <3>6. UNCHANGED <<packets, deltas, sessions, flows, plan>>
      BY <1>1 DEF traffic
    <3> QED
      BY <1>4, <3>1, <3>2, <3>3, <3>4, <3>5, <3>6 DEF TrafficTypeOK
  <2>5. BooksApart'
    <3> SUFFICES ASSUME NEW x \in entered', NEW y \in Related(x)', Doubled(x, y)'
                 PROVE  Noted(x, y)
      BY <2>1 DEF BooksApart, Noted
    <3>1. x # i /\ y # i /\ Doubled(x, y)
      BY <2>1, <2>2 DEF Doubled
    <3>2. x \in entered /\ y \in Related(x)
      BY <2>1, <2>2, <2>3, <3>1 DEF Related
    <3> QED
      BY <3>1, <3>2 DEF State, BooksApart
  <2>6. NoPacketCountedTwice'
    <3>1. \A d \in deltas : parent'[d.iface] = parent[d.iface]
      BY <1>4, <2>2, <2>3 DEF TrafficTypeOK
    <3>2. NoPacketCountedTwice
      BY DEF State
    <3> QED
      BY <1>1, <3>1, <3>2 DEF NoPacketCountedTwice, traffic
  <2>7. State'
    BY <1>1, <2>4, <2>5, <2>6, BooksWritten
  <2>8. ASSUME NEW q \in Requests \ {p}, NEW r, NEW steps, r = req[q], steps = todo[q], Busy(q), Fits(r, steps)
        PROVE  Fits(r, steps)'
    <3>1. ASSUME r.kind = "assignZone", r.row \in {"interface"} \X entered, r.row \in r.names,
                 NEW j \in Related(r.row[2])'
          PROVE  \/ Noted(r.row[2], j)
                 \/ j \in Related(r.row[2]) /\ group'[j] = group[j] /\ counted'[j] = counted[j]
      <4> PICK x \in entered : r.row = <<"interface", x>>
        BY <3>1
      <4>1. x # i /\ parent'[x] = parent[x] /\ r.row[2] = x
        BY <2>2, <2>3
      <4>2. CASE j # i
        BY <2>1, <2>2, <2>3, <3>1, <4>1, <4>2 DEF Related
      <4>3. CASE j = i
        <5>1. parent[x] # i /\ over = x
          <6>1. j \in Related(x)'
            BY <3>1, <4>1
          <6>2. j \notin {parent'[x]}
            BY <1>3, <1>4, <1>6, <2>2, <4>1, <4>3
          <6> QED
            BY <2>3, <4>1, <4>3, <6>1, <6>2 DEF Related
        <5>2. <<"interface", x>> \in req[p].names
          BY <1>3, <1>4, <2>2, <5>1
        <5>3. <<"interface", x>> \in raced
          <6>1. Destroys(req[q].kind) /\ RacesNoted /\ <<"interface", x>> \in req[q].names
            BY <2>8, <3>1 DEF Destroys, Line
          <6> QED
            BY <1>2, <2>8, <5>2, <6>1, Apart
        <5> QED
          BY <4>1, <5>3 DEF Noted
      <4> QED
        BY <4>2, <4>3
    <3>2. AssignmentFits(r, steps) /\ entered \subseteq entered' /\ raced' = raced
      BY <2>1, <2>8 DEF Fits
    <3>3. AssignmentFits(r, steps)'
      BY <3>1, <3>2, AssignmentKept, Zenon
    <3> QED
      BY <1>1, <2>1, <2>8, <3>3, OfficeKept
  <2>9. Line'
    BY <1>0, <1>1, <2>1, <2>8, WriteEnds, Zenon
  <2> QED
    BY <2>7, <2>9
<1> QED
  BY <1>5, <1>6

\* An interface is assigned to its group.
LEMMA WriteAssignmentStep ==
  ASSUME OfficeOK, TrafficOK, State, Line, NEW p \in Requests, WriteAssignment(p)
  PROVE  State' /\ Line'
<1> PICK i, patch : i = req[p].row[2] /\ patch = req[p].patch
  OBVIOUS
<1>0. "assign" # "find" /\ <<"assign">> \in Writes
  BY StatementsDiffer
<1>1. /\ Awaits(p, "assign") /\ GoOn(p)
      /\ group' = [group EXCEPT ![i] = patch.group] /\ counted' = [counted EXCEPT ![i] = patch.counted]
      /\ UNCHANGED <<live, account, plan, raced, entered, parent, traffic>>
  BY DEF WriteAssignment
<1>2. Fits(req[p], todo[p]) /\ Ahead(todo[p]) = {<<"assign">>} /\ Busy(p)
  BY <1>0, <1>1, WriterNow, Zenon
<1>3. /\ req[p].kind = "assignZone" /\ i \in entered /\ <<"interface", i>> \in req[p].names
      /\ patch.counted /\ patch.group # "NONE" =>
           \A j \in Related(i) : Noted(i, j) \/ ~(group[j] = patch.group /\ counted[j])
  <2>1. AssignmentFits(req[p], todo[p])
        /\ Steps({"findChildren", "findConflicts", "assign"}) \intersect Ahead(todo[p]) # {}
    BY <1>2 DEF Fits, Steps
  <2>2. <<"findConflicts">> \notin Ahead(todo[p])
    BY <1>2, StatementsDiffer
  <2>3. /\ <<"findConflicts">> \in Ahead(<< <<"findChildren">>, <<"findConflicts">>, <<"assign">> >>)
        /\ <<"findConflicts">> \in Ahead(<< <<"findConflicts">>, <<"assign">> >>)
    <3>1. \A x, y, z : y \in Ahead(<<x, y, z>>) /\ x \in Ahead(<<x, y>>)
      <4> TAKE x, y, z
      <4>1. Ahead(<<x, y>>) = {x, y} /\ Three(x, y, z)
        BY FewAhead, ThreeAhead, Zenon
      <4> QED
        BY <4>1 DEF Three
    <3> QED
      BY <3>1, Zenon
  <2>4. /\ req[p].kind = "assignZone" /\ req[p].row \in {"interface"} \X entered /\ req[p].row \in req[p].names
        /\ patch.counted /\ patch.group # "NONE" =>
             \A j \in Related(i) : Noted(i, j) \/ ~(group[j] = patch.group /\ counted[j])
    BY <2>1, <2>2, <2>3, Zenon DEF AssignmentFits
  <2> QED
    BY <2>4
<1>4. None \notin Interfaces /\ TrafficTypeOK
  BY DEF TrafficOK, State
<1>5. /\ \A x : Related(x)' = Related(x)
      /\ \A j \in Interfaces : j # i => group'[j] = group[j] /\ counted'[j] = counted[j]
      /\ group'[i] = patch.group /\ counted'[i] = patch.counted
      /\ DOMAIN group' = Interfaces /\ DOMAIN counted' = Interfaces /\ entered \subseteq Interfaces
      /\ \A j \in Interfaces \ entered : group'[j] = "NONE"
      /\ \A x \in entered : Related(x) \subseteq entered
  <2>1. \A x : Related(x)' = Related(x)
    BY <1>1 DEF Related
  <2>2. \A x \in entered : Related(x) \subseteq entered
    BY <1>4 DEF Related, TrafficTypeOK
  <2> QED
    BY <1>1, <1>3, <1>4, <2>1, <2>2 DEF TrafficTypeOK
<1>6. i \notin Related(i) /\ \A x \in entered : i \in Related(x) => x \in Related(i)
  BY <1>3, <1>4 DEF Related, TrafficTypeOK
<1>7. TrafficTypeOK'
  BY <1>1, <1>4, <1>5 DEF TrafficTypeOK, traffic
<1>8. BooksApart'
  <2> SUFFICES ASSUME NEW x \in entered, NEW y \in Related(x), Doubled(x, y)'
               PROVE  Noted(x, y)
    BY <1>1, <1>5 DEF BooksApart, Noted
  <2>0. y \in entered /\ \A j \in Related(i) : j # i
    BY <1>5, <1>6
  <2>1. CASE x = i
    BY <1>3, <1>5, <2>0, <2>1 DEF Doubled
  <2>2. CASE y = i
    <3>1. x \in Related(i) /\ x # i
      BY <1>6, <2>2
    <3>2. Noted(i, x)
      BY <1>3, <1>5, <2>2, <3>1 DEF Doubled
    <3> QED
      BY <2>2, <3>2 DEF Noted
  <2>3. CASE x # i /\ y # i
    <3>1. Doubled(x, y)
      BY <1>5, <2>0, <2>3 DEF Doubled
    <3> QED
      BY <3>1 DEF State, BooksApart
  <2> QED
    BY <2>1, <2>2, <2>3
<1>9. NoPacketCountedTwice'
  BY <1>1 DEF State, NoPacketCountedTwice, traffic
<1>10. State'
  BY <1>1, <1>7, <1>8, <1>9, BooksWritten
<1>11. ASSUME NEW q \in Requests \ {p}, NEW r, NEW steps, r = req[q], steps = todo[q], Busy(q), Fits(r, steps)
       PROVE  Fits(r, steps)'
  <2>1. ASSUME r.kind = "assignZone", r.row \in {"interface"} \X entered, r.row \in r.names,
               \A j \in Related(r.row[2]) : Noted(r.row[2], j) \/ <<"interface", j>> \in r.names,
               NEW j \in Related(r.row[2])'
        PROVE  \/ Noted(r.row[2], j)
               \/ j \in Related(r.row[2]) /\ group'[j] = group[j] /\ counted'[j] = counted[j]
    <3> PICK x \in entered : r.row = <<"interface", x>>
      BY <2>1
    <3>1. r.row[2] = x /\ j \in Related(x) /\ j \in Interfaces
      BY <1>5, <2>1
    <3>2. CASE j = i
      <4>1. CASE Noted(x, j)
        BY <3>1, <4>1
      <4>2. CASE <<"interface", j>> \in r.names
        <5>1. Destroys(req[q].kind) /\ RacesNoted /\ <<"interface", i>> \in req[q].names
          BY <1>11, <2>1, <3>2, <4>2 DEF Destroys, Line
        <5>2. <<"interface", i>> \in raced
          BY <1>2, <1>3, <1>11, <5>1, Apart
        <5> QED
          BY <3>1, <3>2, <5>2 DEF Noted
      <4> QED
        BY <2>1, <3>1, <4>1, <4>2
    <3>3. CASE j # i
      BY <1>5, <3>1, <3>3
    <3> QED
      BY <3>2, <3>3
  <2>2. AssignmentFits(r, steps) /\ entered \subseteq entered' /\ raced' = raced
    BY <1>1, <1>11 DEF Fits
  <2>3. AssignmentFits(r, steps)'
    BY <2>1, <2>2, AssignmentKept, Zenon
  <2> QED
    BY <1>1, <1>11, <2>2, <2>3, OfficeKept
<1>12. Line'
  <2>1. raced' = raced
    BY <1>1
  <2> QED
    BY <1>0, <1>1, <1>11, <2>1, WriteEnds, Zenon
<1> QED
  BY <1>10, <1>12

-----------------------------------------------------------------------------
(* Requests arrive.                                                        *)

\* The statements that look things up, and those of an assignment.
Looks == {x \in Statements : x \notin Writes \union {<<"findChildren">>, <<"findConflicts">>}}

\* One write is ahead, at the end, and no assignment.
Only(steps, name) ==
  /\ steps \in Seq(Statements) /\ steps # <<>> /\ WritesLast(steps)
  /\ <<name>> \in Ahead(steps)
  /\ Ahead(steps) \subseteq Looks \union {<<name>>}

\* Short sequences of statements are sequences of statements.
LEMMA ShortSequences ==
  \A x, y, z \in Statements :
    /\ <<z>> \in Seq(Statements) /\ <<x, z>> \in Seq(Statements) /\ <<x, y, z>> \in Seq(Statements)
    /\ <<z>> # <<>> /\ <<x, z>> # <<>> /\ <<x, y, z>> # <<>>
<1> HIDE DEF Statements
<1> QED
  OBVIOUS

\* Looks before one that ends with a write.
LEMMA LooksThen ==
  ASSUME NEW s \in Seq(Statements), Ahead(s) \subseteq Looks, NEW t, NEW name, Only(t, name)
  PROVE  Only(s \o t, name) /\ Ahead(s \o t) = Ahead(s) \union Ahead(t)
<1>1. Ahead(s) \intersect Writes = {}
  BY DEF Looks
<1>2. t \in Seq(Statements) /\ t # <<>> /\ WritesLast(t)
  BY DEF Only
<1>3. /\ s \o t \in Seq(Statements) /\ s \o t # <<>> /\ Ahead(s \o t) = Ahead(s) \union Ahead(t)
      /\ WritesLast(s \o t)
  BY <1>1, <1>2, JoinedAhead
<1>4. Ahead(s \o t) \subseteq Looks \union {<<name>>} /\ <<name>> \in Ahead(s \o t)
  BY <1>3 DEF Only
<1> QED
  BY <1>3, <1>4 DEF Only

\* Looking for a row is a look.
LEMMA FindLooks ==
  ASSUME NEW kind, NEW x, x = None \/ <<kind, x>> \in Rows
  PROVE  /\ Find(<<kind, x>>) \in Seq(Statements) /\ Ahead(Find(<<kind, x>>)) \subseteq Looks
         /\ x # None => <<"find", <<kind, x>>>> \in Ahead(Find(<<kind, x>>))
<1>1. Find(<<kind, x>>) \in Seq(Statements)
      /\ Ahead(Find(<<kind, x>>)) = (IF x = None THEN {} ELSE {<<"find", <<kind, x>>>>})
  BY FindAhead
<1>2. x # None => <<"find", <<kind, x>>>> \in Looks
  <2>1. <<"find", <<kind, x>>>> \notin {<<"findChildren">>, <<"findConflicts">>}
    OBVIOUS
  <2> QED
    BY <2>1, LooksAndWrites DEF Looks
<1> QED
  BY <1>1, <1>2

\* The look-ups before a removal and for a code are looks.
LEMMA CheckLooks ==
  \A name \in {"countShips", "countRouters", "findChild", "findSubscriber", "findInUse", "findCode"} :
    <<name>> \in Looks /\ <<name>> \in Statements
<1>1. \A name \in {"countShips", "countRouters", "findChild", "findSubscriber", "findInUse", "findCode"} :
        <<name>> \notin {<<"findChildren">>, <<"findConflicts">>}
  OBVIOUS
<1> QED
  BY <1>1, LooksAndWrites DEF Looks

\* What ends a request that is no assignment.
LEMMA Endings ==
  ASSUME NEW name \in {"insert", "update", "delete", "insertInterface"}
  PROVE  /\ Only(<< <<name>> >>, name)
         /\ \A x \in Looks : Only(<<x, <<name>> >>, name) /\ x \in Ahead(<<x, <<name>> >>)
         /\ \A x, y \in Looks : Only(<<x, y, <<name>> >>, name) /\ x \in Ahead(<<x, y, <<name>> >>)
                                /\ y \in Ahead(<<x, y, <<name>> >>)
<1> PICK z : z = <<name>>
  OBVIOUS
<1>1. z \in Statements /\ \A x \in Looks : x \in Statements /\ x \notin Writes
  BY StatementsDiffer, LooksAndWrites DEF Looks
<1>2. Only(<<z>>, name)
  <2>1. <<z>> \in Seq(Statements) /\ <<z>> # <<>>
    BY <1>1, ShortSequences, Zenon
  <2>2. WritesLast(<<z>>) /\ Ahead(<<z>>) = {z}
    BY FewAhead, Zenon
  <2> QED
    BY <2>1, <2>2 DEF Only
<1>3. ASSUME NEW x \in Looks PROVE Only(<<x, z>>, name) /\ x \in Ahead(<<x, z>>)
  <2>1. <<x, z>> \in Seq(Statements) /\ <<x, z>> # <<>>
    BY <1>1, ShortSequences, Zenon
  <2>2. WritesLast(<<x, z>>) /\ Ahead(<<x, z>>) = {x, z}
    BY <1>1, FewAhead, Zenon
  <2> QED
    BY <2>1, <2>2 DEF Only
<1>4. ASSUME NEW x \in Looks, NEW y \in Looks
      PROVE  Only(<<x, y, z>>, name) /\ x \in Ahead(<<x, y, z>>) /\ y \in Ahead(<<x, y, z>>)
  <2>1. <<x, y, z>> \in Seq(Statements) /\ <<x, y, z>> # <<>>
    BY <1>1, ShortSequences, Zenon
  <2>2. Three(x, y, z)
    BY ThreeAhead, Zenon
  <2> QED
    BY <1>1, <2>1, <2>2 DEF Only, Three
<1> QED
  BY <1>2, <1>3, <1>4

\* What is not ahead of one that only writes once.
LEMMA OnlyOne ==
  ASSUME NEW steps, NEW name \in {"insert", "update", "delete", "insertInterface"}, Only(steps, name)
  PROVE  /\ \A other \in {"insert", "update", "delete", "insertInterface"} :
              other # name => <<other>> \notin Ahead(steps)
         /\ Steps({"findChildren", "findConflicts", "assign"}) \intersect Ahead(steps) = {}
<1>1. \A other \in {"insert", "update", "delete", "insertInterface"} :
        other # name => <<other>> \notin Ahead(steps)
  BY StatementsDiffer DEF Only, Looks
<1>2. Steps({"findChildren", "findConflicts", "assign"}) \intersect Ahead(steps) = {}
  <2>1. \A x \in Steps({"findChildren", "findConflicts", "assign"}) :
          x = <<"findChildren">> \/ x = <<"findConflicts">> \/ x = <<"assign">>
    BY DEF Steps
  <2> QED
    BY <2>1, StatementsDiffer DEF Only, Looks
<1> QED
  BY <1>1, <1>2

\* Looks write nothing.
LEMMA WritesNoRow ==
  ASSUME NEW r, NEW steps, <<"insert">> \notin Ahead(steps), <<"update">> \notin Ahead(steps)
  PROVE  WriterFits(r, steps)
BY DEF WriterFits

\* A request that arrives fitting keeps everything right.
LEMMA AdmitStep ==
  ASSUME OfficeOK, State, Line, NEW p \in Requests, NEW r, NEW steps,
         DOMAIN r = {"kind", "row", "names", "patch"}, r.kind # "idle", steps \in Seq(Statements),
         Fits(r, steps), Admit(p, r, steps), UNCHANGED <<books, traffic>>
  PROVE  State' /\ Line'
<1>1. /\ req' = [req EXCEPT ![p] = r] /\ todo' = [todo EXCEPT ![p] = steps]
      /\ plan' = [plan EXCEPT !.requests = @ - 1]
      /\ UNCHANGED <<live, account>>
  BY DEF Admit
<1>2. RequestsTyped' /\ OthersStay(p) /\ req'[p] = r /\ todo'[p] = steps
  BY <1>1, Replaced DEF Line
<1>3. RacesNoted' /\ raced \subseteq raced'
  BY <1>2, RacesAdmitted, Zenon DEF Line
<1>4. PlanStays
  BY <1>1 DEF State, RowsTyped, TrafficTypeOK, PlanStays
<1>5. State'
  BY <1>1, <1>3, <1>4, StateStays, Zenon
<1>6. \A x, y : x = req'[p] /\ y = todo'[p] => Fits(x, y)
  BY <1>2, Zenon
<1>7. EachFits'
  <2>1. EachFits /\ UNCHANGED <<live, account, books>>
    BY <1>1 DEF Line
  <2> QED
    BY <1>2, <1>3, <1>6, <2>1, FitsQuietly, Zenon
<1> QED
  BY <1>2, <1>3, <1>5, <1>7, Zenon DEF Line

\* The fields of a request.
LEMMA AboutFields ==
  ASSUME NEW kind, NEW row, NEW names, NEW patch, NEW r, r = About(kind, row, names, patch)
  PROVE  /\ DOMAIN r = {"kind", "row", "names", "patch"} /\ r.kind = kind /\ r.row = row /\ r.patch = patch
         /\ r.names = {row} \union {n \in names : n[2] # None}
BY DEF About

\* A row other than a subscriber is one of something.
LEMMA NamedRows == OfficeOK => \A n \in Rows : n[1] # "subscriber" => n[2] # None
BY DEF OfficeOK, Rows

\* One that creates a row looks for all those it names.
LEMMA CreateStep ==
  ASSUME OfficeOK, State, Line, NEW p \in Requests, NEW kind, NEW row \in Rows, NEW names, NEW patch, NEW steps,
         Admit(p, About(kind, row, names, patch), steps), UNCHANGED <<books, traffic>>,
         kind # "idle", Only(steps, "insert"), row[1] = "subscriber" => patch \in Accounts,
         Relied(row, patch) \subseteq names, \A n \in Relied(row, patch) : n[1] # row[1],
         \A n \in names : n[1] # "subscriber" /\ (n[2] # None => <<"find", n>> \in Ahead(steps))
  PROVE  State' /\ Line'
<1> PICK r : r = About(kind, row, names, patch)
  OBVIOUS
<1>1. /\ DOMAIN r = {"kind", "row", "names", "patch"} /\ r.kind = kind /\ r.row = row /\ r.patch = patch
      /\ r.names = {row} \union {n \in names : n[2] # None}
  BY AboutFields
<1>2. /\ \A other \in {"update", "delete", "insertInterface"} : <<other>> \notin Ahead(steps)
      /\ Steps({"findChildren", "findConflicts", "assign"}) \intersect Ahead(steps) = {}
  BY OnlyOne
<1>3. Relied(row, patch) \subseteq r.names \ {row}
  <2>1. \A n \in Relied(row, patch) : n[2] # None /\ n # row
    BY ReliedRows, NamedRows
  <2> QED
    BY <1>1, <2>1
<1>4. Fits(r, steps)
  <2>1. WriterFits(r, steps)
    BY <1>1, <1>2, <1>3 DEF WriterFits
  <2>2. RemoverFits(r, steps) /\ EntryFits(r, steps) /\ AssignmentFits(r, steps)
    BY <1>2 DEF RemoverFits, EntryFits, AssignmentFits
  <2>3. WritesLast(steps)
    BY DEF Only
  <2> QED
    BY <2>1, <2>2, <2>3, Zenon DEF Fits
<1>5. steps \in Seq(Statements)
  BY DEF Only
<1>6. r.kind # "idle" /\ Admit(p, r, steps)
  BY <1>1
<1> QED
  BY <1>1, <1>4, <1>5, <1>6, AdmitStep, Zenon

\* One that removes a row looks for what relies on it.
LEMMA RemoveStep ==
  ASSUME OfficeOK, State, Line, NEW p \in Requests, NEW kind, NEW row \in Rows, NEW patch, NEW steps,
         Admit(p, About(kind, row, {}, patch), steps), UNCHANGED <<books, traffic>>,
         kind # "idle", Only(steps, "delete"), Destroys(kind) \/ row[1] = "subscriber",
         row[1] \in DOMAIN LastLook => <<LastLook[row[1]]>> \in Ahead(steps)
  PROVE  State' /\ Line'
<1> PICK r : r = About(kind, row, {}, patch)
  OBVIOUS
<1>1. /\ DOMAIN r = {"kind", "row", "names", "patch"} /\ r.kind = kind /\ r.row = row /\ r.names = {row}
  <2>1. r.names = {row} \union {n \in {} : n[2] # None}
    BY AboutFields
  <2> QED
    BY <2>1, AboutFields
<1>2. /\ \A other \in {"update", "insert", "insertInterface"} : <<other>> \notin Ahead(steps)
      /\ Steps({"findChildren", "findConflicts", "assign"}) \intersect Ahead(steps) = {}
  BY OnlyOne
<1>4. Fits(r, steps)
  <2>1. WriterFits(r, steps)
    BY <1>2 DEF WriterFits
  <2>2. RemoverFits(r, steps)
    BY <1>1 DEF RemoverFits
  <2>3. EntryFits(r, steps) /\ AssignmentFits(r, steps)
    BY <1>2 DEF EntryFits, AssignmentFits
  <2>4. WritesLast(steps)
    BY DEF Only
  <2> QED
    BY <2>1, <2>2, <2>3, <2>4, Zenon DEF Fits
<1>5. steps \in Seq(Statements)
  BY DEF Only
<1>6. r.kind # "idle" /\ Admit(p, r, steps)
  BY <1>1
<1> QED
  BY <1>1, <1>4, <1>5, <1>6, AdmitStep, Zenon

\* A subscriber is to be changed.
LEMMA ChangeStep ==
  ASSUME OfficeOK, State, Line, NEW p \in Requests, NEW kind, NEW u \in Subscribers, NEW names, NEW patch, NEW steps,
         Admit(p, About(kind, <<"subscriber", u>>, names, patch), steps), UNCHANGED <<books, traffic>>,
         kind # "idle", Only(steps, "update"),
         \/ patch \in [status : Statuses, ends : Ends]
         \/ /\ patch \in [package : Packages, nas : Ships \union {None}]
            /\ <<"package", patch.package>> \in names,
         \A n \in names : n[1] # "subscriber" /\ (n[2] # None => <<"find", n>> \in Ahead(steps))
  PROVE  State' /\ Line'
<1> PICK row : row = <<"subscriber", u>>
  OBVIOUS
<1> PICK r : r = About(kind, row, names, patch)
  OBVIOUS
<1>1. /\ DOMAIN r = {"kind", "row", "names", "patch"} /\ r.kind = kind /\ r.row = row /\ r.patch = patch
      /\ r.names = {row} \union {n \in names : n[2] # None}
  BY AboutFields
<1>2. /\ \A other \in {"insert", "delete", "insertInterface"} : <<other>> \notin Ahead(steps)
      /\ Steps({"findChildren", "findConflicts", "assign"}) \intersect Ahead(steps) = {}
  BY OnlyOne
<1>3. \/ patch \in [status : Statuses, ends : Ends]
      \/ /\ patch \in [package : Packages, nas : Ships \union {None}]
         /\ <<"package", patch.package>> \in r.names \ {row}
  <2>1. \A k \in Packages : k # None /\ <<"package", k>> # row
    BY DEF OfficeOK
  <2> QED
    BY <1>1, <2>1
<1>4. Fits(r, steps)
  <2>1. WriterFits(r, steps)
    BY <1>1, <1>2, <1>3 DEF WriterFits
  <2>2. RemoverFits(r, steps) /\ EntryFits(r, steps) /\ AssignmentFits(r, steps)
    BY <1>2 DEF RemoverFits, EntryFits, AssignmentFits
  <2>3. WritesLast(steps)
    BY DEF Only
  <2> QED
    BY <2>1, <2>2, <2>3, Zenon DEF Fits
<1>5. steps \in Seq(Statements)
  BY DEF Only
<1>6. r.kind # "idle" /\ Admit(p, r, steps)
  BY <1>1
<1> QED
  BY <1>1, <1>4, <1>5, <1>6, AdmitStep, Zenon

\* An interface is to be entered.
LEMMA CreateInterfaceStep ==
  ASSUME OfficeOK, TrafficOK, State, Line, NEW p \in Requests, CreateInterface(p)
  PROVE  State' /\ Line'
<1> PICK i \in plan.interfaces \ entered, over \in entered \union {None} :
      /\ Admit(p, About("createInterface", <<"interface", i>>, {<<"interface", over>>}, over),
               Find(<<"router", HomeOf[i]>>) \o << <<"insertInterface">> >>)
      /\ UNCHANGED <<books, traffic>>
  BY DEF CreateInterface
<1> PICK kind, row, names :
      kind = "createInterface" /\ row = <<"interface", i>> /\ names = {<<"interface", over>>}
  OBVIOUS
<1> PICK r, steps : /\ r = About(kind, row, names, over)
                    /\ steps = Find(<<"router", HomeOf[i]>>) \o << <<"insertInterface">> >>
  OBVIOUS
<1>1. /\ DOMAIN r = {"kind", "row", "names", "patch"} /\ r.kind = kind
      /\ r.row = row /\ r.patch = over /\ r.names = {row} \union {n \in names : n[2] # None}
  BY DEF About
<1>2. i \in Interfaces /\ <<"router", HomeOf[i]>> \in Rows
  BY DEF State, TrafficTypeOK, TrafficOK, Rows
<1>3. Only(steps, "insertInterface")
  <2>1. Find(<<"router", HomeOf[i]>>) \in Seq(Statements) /\ Ahead(Find(<<"router", HomeOf[i]>>)) \subseteq Looks
    BY <1>2, FindLooks
  <2>2. Only(<< <<"insertInterface">> >>, "insertInterface")
    BY Endings
  <2> QED
    BY <2>1, <2>2, LooksThen
<1>4. /\ \A other \in {"insert", "delete", "update"} : <<other>> \notin Ahead(steps)
      /\ Steps({"findChildren", "findConflicts", "assign"}) \intersect Ahead(steps) = {}
  BY <1>3, OnlyOne
<1>5. Fits(r, steps)
  <2>0. /\ row \in {"interface"} \X Interfaces
        /\ over # None => over \in entered /\ <<"interface", over>> \in {n \in names : n[2] # None}
    BY <1>2
  <2>1. /\ r.row \in {"interface"} \X Interfaces
        /\ over # None => over \in entered /\ <<"interface", over>> \in r.names
    BY <1>1, <2>0, Zenon
  <2>2. EntryFits(r, steps)
    BY <1>1, <2>1, Zenon DEF EntryFits
  <2>3. WriterFits(r, steps)
    BY <1>4, WritesNoRow
  <2>4. RemoverFits(r, steps) /\ AssignmentFits(r, steps)
    BY <1>4 DEF RemoverFits, AssignmentFits
  <2>5. WritesLast(steps)
    BY <1>3 DEF Only
  <2> QED
    BY <2>2, <2>3, <2>4, <2>5, Zenon DEF Fits
<1>6. steps \in Seq(Statements) /\ r.kind # "idle" /\ Admit(p, r, steps) /\ UNCHANGED <<books, traffic>>
  BY <1>1, <1>3 DEF Only
<1> QED
  BY <1>1, <1>5, <1>6, AdmitStep, Zenon

\* An interface is to be assigned.
LEMMA AssignZoneStep ==
  ASSUME OfficeOK, TrafficOK, State, Line, NEW p \in Requests, AssignZone(p)
  PROVE  State' /\ Line'
<1> PICK i \in entered, g \in plan.groups, count \in BOOLEAN :
      /\ Admit(p, About("assignZone", <<"interface", i>>, {<<"interface", j>> : j \in Related(i)},
                        [group |-> g, counted |-> count, related |-> {}]),
               IF count /\ g # "NONE" THEN << <<"findChildren">>, <<"findConflicts">>, <<"assign">> >>
                                      ELSE << <<"assign">> >>)
      /\ UNCHANGED <<books, traffic>>
  BY DEF AssignZone
<1> PICK kind, row, names, patch :
      /\ kind = "assignZone" /\ row = <<"interface", i>> /\ names = {<<"interface", j>> : j \in Related(i)}
      /\ patch = [group |-> g, counted |-> count, related |-> {}]
  OBVIOUS
<1> PICK r, steps :
      /\ r = About(kind, row, names, patch)
      /\ steps = IF count /\ g # "NONE" THEN << <<"findChildren">>, <<"findConflicts">>, <<"assign">> >>
                                         ELSE << <<"assign">> >>
  OBVIOUS
<1>1. /\ DOMAIN r = {"kind", "row", "names", "patch"} /\ r.kind = kind
      /\ r.row = row /\ r.patch = patch /\ r.names = {row} \union {n \in names : n[2] # None}
  BY AboutFields
<1>2. \A j \in Related(i) : j # None
  BY DEF State, TrafficTypeOK, TrafficOK, Related
<1>3. \/ steps = << <<"findChildren">>, <<"findConflicts">>, <<"assign">> >>
      \/ steps = << <<"assign">> >> /\ ~(count /\ g # "NONE")
  BY Zenon
<1>4. /\ Ahead(steps) \subseteq {<<"findChildren">>, <<"findConflicts">>, <<"assign">>}
      /\ WritesLast(steps) /\ steps \in Seq(Statements)
  <2> PICK x, y, z : x = <<"findChildren">> /\ y = <<"findConflicts">> /\ z = <<"assign">>
    OBVIOUS
  <2>1. x \in Statements /\ y \in Statements /\ z \in Statements /\ x \notin Writes /\ y \notin Writes
    BY LooksAndWrites, StatementsDiffer
  <2>2. Three(x, y, z) /\ Ahead(<<z>>) = {z} /\ WritesLast(<<z>>)
    BY FewAhead, ThreeAhead, Zenon
  <2>3. <<x, y, z>> \in Seq(Statements) /\ <<z>> \in Seq(Statements)
    BY <2>1, ShortSequences, Zenon
  <2>4. steps = <<x, y, z>> \/ steps = <<z>>
    BY <1>3
  <2> QED
    BY <2>1, <2>2, <2>3, <2>4 DEF Three
<1>5. Fits(r, steps)
  <2>1. \A name \in {"insert", "update", "delete", "insertInterface"} : <<name>> \notin Ahead(steps)
    BY <1>4, StatementsDiffer
  <2>0. WriterFits(r, steps)
    BY <2>1, WritesNoRow
  <2>2. RemoverFits(r, steps) /\ EntryFits(r, steps)
    BY <2>1 DEF RemoverFits, EntryFits
  <2>3. /\ r.row \in {"interface"} \X entered /\ r.row \in r.names /\ r.row[2] = i
        /\ DOMAIN r.patch = {"group", "counted", "related"}
        /\ \A j \in Related(i) : <<"interface", j>> \in r.names
        /\ r.patch.counted = count /\ r.patch.group = g
    <3>1. /\ row \in {"interface"} \X entered /\ row[2] = i
          /\ DOMAIN patch = {"group", "counted", "related"} /\ patch.counted = count /\ patch.group = g
      OBVIOUS
    <3>2. \A j \in Related(i) : <<"interface", j>> \in {n \in names : n[2] # None}
      BY <1>2
    <3> QED
      BY <1>1, <3>1, <3>2, Zenon
  <2>4. AssignmentFits(r, steps)
    BY <1>1, <1>3, <2>3, Zenon DEF AssignmentFits
  <2> QED
    BY <1>4, <2>0, <2>2, <2>4, Zenon DEF Fits
<1>6. r.kind # "idle" /\ Admit(p, r, steps) /\ UNCHANGED <<books, traffic>>
  BY <1>1
<1> QED
  BY <1>1, <1>4, <1>5, <1>6, AdmitStep, Zenon

\* Two looks are looks.
LEMMA LooksJoined ==
  ASSUME NEW s \in Seq(Statements), Ahead(s) \subseteq Looks, NEW t \in Seq(Statements), Ahead(t) \subseteq Looks
  PROVE  s \o t \in Seq(Statements) /\ Ahead(s \o t) = Ahead(s) \union Ahead(t) /\ Ahead(s \o t) \subseteq Looks
<1>1. s \o t \in Seq(Statements) /\ Ahead(s \o t) = Ahead(s) \union Ahead(t)
  BY JoinedAhead
<1> QED
  BY <1>1

\* The rows of each kind.
LEMMA AnyRow ==
  /\ \A a \in Areas : <<"area", a>> \in Rows
  /\ \A s \in Ships : <<"ship", s>> \in Rows /\ <<"router", s>> \in Rows
  /\ \A t \in Tenants : <<"tenant", t>> \in Rows
  /\ \A k \in Packages : <<"package", k>> \in Rows
  /\ \A u \in Subscribers : <<"subscriber", u>> \in Rows
BY DEF Rows

\* What ends a creation that looks for the name.
LEMMA CodeThenInsert ==
  Only(<< <<"findCode">>, <<"insert">> >>, "insert")
<1>1. <<"findCode">> \in Looks
  BY CheckLooks
<1> QED
  BY <1>1, Endings, Zenon

\* Each request arrives: an area is to be created.
LEMMA CreateAreaStep ==
  ASSUME OfficeOK, State, Line, NEW p \in Requests, CreateArea(p), UNCHANGED <<books, traffic>>
  PROVE  State' /\ Line'
<1> PICK a \in Areas :
      Admit(p, About("createArea", <<"area", a>>, {}, None), << <<"insert">> >>)
  BY Zenon DEF CreateArea
<1> PICK row, t : row = <<"area", a>> /\ t = << <<"insert">> >>
  OBVIOUS
<1>1. row \in Rows
  BY AnyRow
<1>2. Only(t, "insert")
  BY Endings, Zenon
<1>3. Relied(row, None) = {} /\ row[1] # "subscriber" /\ "createArea" # "idle"
  BY DEF Relied
<1>4. Admit(p, About("createArea", row, {}, None), t)
  OBVIOUS
<1>5. /\ row[1] = "subscriber" => None \in Accounts
      /\ Relied(row, None) \subseteq {} /\ \A n \in Relied(row, None) : n[1] # row[1]
      /\ \A n \in {} : n[1] # "subscriber" /\ (n[2] # None => <<"find", n>> \in Ahead(t))
  BY <1>3
<1> QED
  BY <1>1, <1>2, <1>3, <1>4, <1>5, CreateStep, Zenon

\* An area is to be removed.
LEMMA RemoveAreaStep ==
  ASSUME OfficeOK, State, Line, NEW p \in Requests, RemoveArea(p), UNCHANGED <<books, traffic>>
  PROVE  State' /\ Line'
<1> PICK a \in Areas :
      Admit(p, About("removeArea", <<"area", a>>, {}, None),
            Find(<<"area", a>>) \o << <<"countShips">>, <<"delete">> >>)
  BY Zenon DEF RemoveArea
<1> PICK row, t : row = <<"area", a>> /\ t = << <<"countShips">>, <<"delete">> >>
  OBVIOUS
<1>1. row \in Rows
  BY AnyRow
<1>2. Find(row) \in Seq(Statements) /\ Ahead(Find(row)) \subseteq Looks
  BY <1>1, FindLooks, Zenon
<1>3. Only(t, "delete") /\ <<"countShips">> \in Ahead(t)
  <2>1. <<"countShips">> \in Looks
    BY CheckLooks
  <2> QED
    BY <2>1, Endings, Zenon
<1>4. Only(Find(row) \o t, "delete") /\ Ahead(Find(row) \o t) = Ahead(Find(row)) \union Ahead(t)
  BY <1>2, <1>3, LooksThen
<1>5. row[1] \in DOMAIN LastLook => <<LastLook[row[1]]>> \in Ahead(Find(row) \o t)
  BY <1>3, <1>4 DEF LastLook
<1>6. /\ "removeArea" # "idle" /\ (Destroys("removeArea") \/ row[1] = "subscriber")
      /\ Admit(p, About("removeArea", row, {}, None), Find(row) \o t)
  BY DEF Destroys
<1> QED
  BY <1>1, <1>4, <1>5, <1>6, RemoveStep, Zenon

\* A ship is to be removed.
LEMMA RemoveShipStep ==
  ASSUME OfficeOK, State, Line, NEW p \in Requests, RemoveShip(p), UNCHANGED <<books, traffic>>
  PROVE  State' /\ Line'
<1> PICK s \in Ships :
      Admit(p, About("removeShip", <<"ship", s>>, {}, None),
            Find(<<"ship", s>>) \o << <<"countRouters">>, <<"delete">> >>)
  BY Zenon DEF RemoveShip
<1> PICK row, t : row = <<"ship", s>> /\ t = << <<"countRouters">>, <<"delete">> >>
  OBVIOUS
<1>1. row \in Rows
  BY AnyRow
<1>2. Find(row) \in Seq(Statements) /\ Ahead(Find(row)) \subseteq Looks
  BY <1>1, FindLooks, Zenon
<1>3. Only(t, "delete") /\ <<"countRouters">> \in Ahead(t)
  <2>1. <<"countRouters">> \in Looks
    BY CheckLooks
  <2> QED
    BY <2>1, Endings, Zenon
<1>4. Only(Find(row) \o t, "delete") /\ Ahead(Find(row) \o t) = Ahead(Find(row)) \union Ahead(t)
  BY <1>2, <1>3, LooksThen
<1>5. row[1] \in DOMAIN LastLook => <<LastLook[row[1]]>> \in Ahead(Find(row) \o t)
  BY <1>3, <1>4 DEF LastLook
<1>6. /\ "removeShip" # "idle" /\ (Destroys("removeShip") \/ row[1] = "subscriber")
      /\ Admit(p, About("removeShip", row, {}, None), Find(row) \o t)
  BY DEF Destroys
<1> QED
  BY <1>1, <1>4, <1>5, <1>6, RemoveStep, Zenon

\* A router is to be removed.
LEMMA RemoveRouterStep ==
  ASSUME OfficeOK, State, Line, NEW p \in Requests, RemoveRouter(p), UNCHANGED <<books, traffic>>
  PROVE  State' /\ Line'
<1> PICK s \in Ships :
      Admit(p, About("removeRouter", <<"router", s>>, {}, None),
            Find(<<"router", s>>) \o << <<"delete">> >>)
  BY Zenon DEF RemoveRouter
<1> PICK row, t : row = <<"router", s>> /\ t = << <<"delete">> >>
  OBVIOUS
<1>1. row \in Rows
  BY AnyRow
<1>2. Find(row) \in Seq(Statements) /\ Ahead(Find(row)) \subseteq Looks
  BY <1>1, FindLooks, Zenon
<1>3. Only(t, "delete")
  BY Endings, Zenon
<1>4. Only(Find(row) \o t, "delete") /\ Ahead(Find(row) \o t) = Ahead(Find(row)) \union Ahead(t)
  BY <1>2, <1>3, LooksThen
<1>5. row[1] \in DOMAIN LastLook => <<LastLook[row[1]]>> \in Ahead(Find(row) \o t)
  BY <1>3, <1>4 DEF LastLook
<1>6. /\ "removeRouter" # "idle" /\ (Destroys("removeRouter") \/ row[1] = "subscriber")
      /\ Admit(p, About("removeRouter", row, {}, None), Find(row) \o t)
  BY DEF Destroys
<1> QED
  BY <1>1, <1>4, <1>5, <1>6, RemoveStep, Zenon

\* A tenant is to be removed.
LEMMA RemoveTenantStep ==
  ASSUME OfficeOK, State, Line, NEW p \in Requests, RemoveTenant(p), UNCHANGED <<books, traffic>>
  PROVE  State' /\ Line'
<1> PICK t1 \in Tenants :
      Admit(p, About("removeTenant", <<"tenant", t1>>, {}, None),
            Find(<<"tenant", t1>>) \o << <<"findChild">>, <<"findSubscriber">>, <<"delete">> >>)
  BY Zenon DEF RemoveTenant
<1> PICK row, t : row = <<"tenant", t1>> /\ t = << <<"findChild">>, <<"findSubscriber">>, <<"delete">> >>
  OBVIOUS
<1>1. row \in Rows
  BY AnyRow
<1>2. Find(row) \in Seq(Statements) /\ Ahead(Find(row)) \subseteq Looks
  BY <1>1, FindLooks, Zenon
<1>3. Only(t, "delete") /\ <<"findSubscriber">> \in Ahead(t)
  <2>1. <<"findChild">> \in Looks /\ <<"findSubscriber">> \in Looks
    BY CheckLooks
  <2> QED
    BY <2>1, Endings, Zenon
<1>4. Only(Find(row) \o t, "delete") /\ Ahead(Find(row) \o t) = Ahead(Find(row)) \union Ahead(t)
  BY <1>2, <1>3, LooksThen
<1>5. row[1] \in DOMAIN LastLook => <<LastLook[row[1]]>> \in Ahead(Find(row) \o t)
  BY <1>3, <1>4 DEF LastLook
<1>6. /\ "removeTenant" # "idle" /\ (Destroys("removeTenant") \/ row[1] = "subscriber")
      /\ Admit(p, About("removeTenant", row, {}, None), Find(row) \o t)
  BY DEF Destroys
<1> QED
  BY <1>1, <1>4, <1>5, <1>6, RemoveStep, Zenon

\* A package is to be created.
LEMMA CreatePackageStep ==
  ASSUME OfficeOK, State, Line, NEW p \in Requests, CreatePackage(p), UNCHANGED <<books, traffic>>
  PROVE  State' /\ Line'
<1> PICK k \in Packages :
      Admit(p, About("createPackage", <<"package", k>>, {}, None), << <<"insert">> >>)
  BY Zenon DEF CreatePackage
<1> PICK row, t : row = <<"package", k>> /\ t = << <<"insert">> >>
  OBVIOUS
<1>1. row \in Rows
  BY AnyRow
<1>2. Only(t, "insert")
  BY Endings, Zenon
<1>3. Relied(row, None) = {} /\ row[1] # "subscriber" /\ "createPackage" # "idle"
  BY DEF Relied
<1>4. Admit(p, About("createPackage", row, {}, None), t)
  OBVIOUS
<1>5. /\ row[1] = "subscriber" => None \in Accounts
      /\ Relied(row, None) \subseteq {} /\ \A n \in Relied(row, None) : n[1] # row[1]
      /\ \A n \in {} : n[1] # "subscriber" /\ (n[2] # None => <<"find", n>> \in Ahead(t))
  BY <1>3
<1> QED
  BY <1>1, <1>2, <1>3, <1>4, <1>5, CreateStep, Zenon

\* A package is to be removed.
LEMMA RemovePackageStep ==
  ASSUME OfficeOK, State, Line, NEW p \in Requests, RemovePackage(p), UNCHANGED <<books, traffic>>
  PROVE  State' /\ Line'
<1> PICK k \in Packages :
      Admit(p, About("removePackage", <<"package", k>>, {}, None),
            Find(<<"package", k>>) \o << <<"findInUse">>, <<"delete">> >>)
  BY Zenon DEF RemovePackage
<1> PICK row, t : row = <<"package", k>> /\ t = << <<"findInUse">>, <<"delete">> >>
  OBVIOUS
<1>1. row \in Rows
  BY AnyRow
<1>2. Find(row) \in Seq(Statements) /\ Ahead(Find(row)) \subseteq Looks
  BY <1>1, FindLooks, Zenon
<1>3. Only(t, "delete") /\ <<"findInUse">> \in Ahead(t)
  <2>1. <<"findInUse">> \in Looks
    BY CheckLooks
  <2> QED
    BY <2>1, Endings, Zenon
<1>4. Only(Find(row) \o t, "delete") /\ Ahead(Find(row) \o t) = Ahead(Find(row)) \union Ahead(t)
  BY <1>2, <1>3, LooksThen
<1>5. row[1] \in DOMAIN LastLook => <<LastLook[row[1]]>> \in Ahead(Find(row) \o t)
  BY <1>3, <1>4 DEF LastLook
<1>6. /\ "removePackage" # "idle" /\ (Destroys("removePackage") \/ row[1] = "subscriber")
      /\ Admit(p, About("removePackage", row, {}, None), Find(row) \o t)
  BY DEF Destroys
<1> QED
  BY <1>1, <1>4, <1>5, <1>6, RemoveStep, Zenon

\* A subscriber is to be removed.
LEMMA RemoveSubscriberStep ==
  ASSUME OfficeOK, State, Line, NEW p \in Requests, RemoveSubscriber(p), UNCHANGED <<books, traffic>>
  PROVE  State' /\ Line'
<1> PICK u \in Subscribers :
      Admit(p, About("removeSubscriber", <<"subscriber", u>>, {}, None),
            Find(<<"subscriber", u>>) \o << <<"delete">> >>)
  BY Zenon DEF RemoveSubscriber
<1> PICK row, t : row = <<"subscriber", u>> /\ t = << <<"delete">> >>
  OBVIOUS
<1>1. row \in Rows
  BY AnyRow
<1>2. Find(row) \in Seq(Statements) /\ Ahead(Find(row)) \subseteq Looks
  BY <1>1, FindLooks, Zenon
<1>3. Only(t, "delete")
  BY Endings, Zenon
<1>4. Only(Find(row) \o t, "delete") /\ Ahead(Find(row) \o t) = Ahead(Find(row)) \union Ahead(t)
  BY <1>2, <1>3, LooksThen
<1>5. row[1] \in DOMAIN LastLook => <<LastLook[row[1]]>> \in Ahead(Find(row) \o t)
  BY <1>3, <1>4 DEF LastLook
<1>6. /\ "removeSubscriber" # "idle" /\ (Destroys("removeSubscriber") \/ row[1] = "subscriber")
      /\ Admit(p, About("removeSubscriber", row, {}, None), Find(row) \o t)
  BY DEF Destroys
<1> QED
  BY <1>1, <1>4, <1>5, <1>6, RemoveStep, Zenon

\* A ship is to be created.
LEMMA CreateShipStep ==
  ASSUME OfficeOK, State, Line, NEW p \in Requests, CreateShip(p), UNCHANGED <<books, traffic>>
  PROVE  State' /\ Line'
<1> PICK s \in Ships, c \in Tenants \union {None} :
      Admit(p, About("createShip", <<"ship", s>>, {<<"area", AreaOf[s]>>, <<"tenant", c>>}, None),
            Find(<<"area", AreaOf[s]>>) \o Find(<<"tenant", c>>) \o << <<"findCode">>, <<"insert">> >>)
  BY DEF CreateShip
<1> PICK row, t, x, y, names :
      /\ row = <<"ship", s>> /\ t = << <<"findCode">>, <<"insert">> >>
      /\ x = <<"area", AreaOf[s]>> /\ y = <<"tenant", c>> /\ names = {x, y}
  OBVIOUS
<1>1. row \in Rows /\ x \in Rows /\ (c = None \/ y \in Rows)
  BY AnyRow DEF OfficeOK
<1>2. /\ Find(x) \in Seq(Statements) /\ Ahead(Find(x)) \subseteq Looks
      /\ AreaOf[s] # None => <<"find", x>> \in Ahead(Find(x))
  BY <1>1, FindLooks, Zenon
<1>3. /\ Find(y) \in Seq(Statements) /\ Ahead(Find(y)) \subseteq Looks
      /\ c # None => <<"find", y>> \in Ahead(Find(y))
  BY <1>1, FindLooks, Zenon
<1> PICK looks : looks = Find(x) \o Find(y)
  OBVIOUS
<1>4. looks \in Seq(Statements) /\ Ahead(looks) = Ahead(Find(x)) \union Ahead(Find(y)) /\ Ahead(looks) \subseteq Looks
  BY <1>2, <1>3, LooksJoined
<1>5. Only(t, "insert")
  BY CodeThenInsert
<1>6. Only(looks \o t, "insert") /\ Ahead(looks \o t) = Ahead(looks) \union Ahead(t)
  BY <1>4, <1>5, LooksThen
<1>7. Relied(row, None) = {x} /\ row[1] = "ship" /\ x[1] = "area" /\ y[1] = "tenant"
      /\ x[2] = AreaOf[s] /\ y[2] = c /\ "createShip" # "idle"
  BY DEF Relied
<1>8. /\ row[1] = "subscriber" => None \in Accounts
      /\ Relied(row, None) \subseteq names /\ \A n \in Relied(row, None) : n[1] # row[1]
  BY <1>7
<1>9. \A n \in names : n[1] # "subscriber" /\ (n[2] # None => <<"find", n>> \in Ahead(looks \o t))
  BY <1>2, <1>3, <1>4, <1>6, <1>7
<1>10. Admit(p, About("createShip", row, names, None), looks \o t)
  OBVIOUS
<1> QED
  BY <1>1, <1>6, <1>7, <1>8, <1>9, <1>10, CreateStep, Zenon

\* A router is to be created.
LEMMA CreateRouterStep ==
  ASSUME OfficeOK, State, Line, NEW p \in Requests, CreateRouter(p), UNCHANGED <<books, traffic>>
  PROVE  State' /\ Line'
<1> PICK s \in Ships :
      Admit(p, About("createRouter", <<"router", s>>, {<<"ship", s>>}, None),
            Find(<<"ship", s>>) \o << <<"findCode">>, <<"insert">> >>)
  BY DEF CreateRouter
<1> PICK row, t, x, names :
      /\ row = <<"router", s>> /\ t = << <<"findCode">>, <<"insert">> >>
      /\ x = <<"ship", s>> /\ names = {x}
  OBVIOUS
<1>1. row \in Rows /\ x \in Rows
  BY AnyRow
<1>2. /\ Find(x) \in Seq(Statements) /\ Ahead(Find(x)) \subseteq Looks
      /\ s # None => <<"find", x>> \in Ahead(Find(x))
  BY <1>1, FindLooks, Zenon
<1>5. Only(t, "insert")
  BY CodeThenInsert
<1>6. Only(Find(x) \o t, "insert") /\ Ahead(Find(x) \o t) = Ahead(Find(x)) \union Ahead(t)
  BY <1>2, <1>5, LooksThen
<1>7. Relied(row, None) = {x} /\ row[1] = "router" /\ x[1] = "ship" /\ x[2] = s /\ "createRouter" # "idle"
  BY DEF Relied
<1>8. /\ row[1] = "subscriber" => None \in Accounts
      /\ Relied(row, None) \subseteq names /\ \A n \in Relied(row, None) : n[1] # row[1]
  BY <1>7
<1>9. \A n \in names : n[1] # "subscriber" /\ (n[2] # None => <<"find", n>> \in Ahead(Find(x) \o t))
  BY <1>2, <1>6, <1>7
<1>10. Admit(p, About("createRouter", row, names, None), Find(x) \o t)
  OBVIOUS
<1> QED
  BY <1>1, <1>6, <1>7, <1>8, <1>9, <1>10, CreateStep, Zenon

\* A tenant is to be created.
LEMMA CreateTenantStep ==
  ASSUME OfficeOK, State, Line, NEW p \in Requests, CreateTenant(p), UNCHANGED <<books, traffic>>
  PROVE  State' /\ Line'
<1> PICK c \in Tenants, over \in Tenants \union {None} :
      Admit(p, About("createTenant", <<"tenant", c>>, {<<"tenant", over>>}, over),
            Find(<<"tenant", over>>) \o << <<"findCode">>, <<"insert">> >>)
  BY DEF CreateTenant
<1> PICK row, t, x, names :
      /\ row = <<"tenant", c>> /\ t = << <<"findCode">>, <<"insert">> >>
      /\ x = <<"tenant", over>> /\ names = {x}
  OBVIOUS
<1>1. row \in Rows /\ (over = None \/ x \in Rows)
  BY AnyRow
<1>2. /\ Find(x) \in Seq(Statements) /\ Ahead(Find(x)) \subseteq Looks
      /\ over # None => <<"find", x>> \in Ahead(Find(x))
  BY <1>1, FindLooks, Zenon
<1>5. Only(t, "insert")
  BY CodeThenInsert
<1>6. Only(Find(x) \o t, "insert") /\ Ahead(Find(x) \o t) = Ahead(Find(x)) \union Ahead(t)
  BY <1>2, <1>5, LooksThen
<1>7. Relied(row, over) = {} /\ row[1] = "tenant" /\ x[1] = "tenant" /\ x[2] = over /\ "createTenant" # "idle"
  BY DEF Relied
<1>8. /\ row[1] = "subscriber" => over \in Accounts
      /\ Relied(row, over) \subseteq names /\ \A n \in Relied(row, over) : n[1] # row[1]
  BY <1>7
<1>9. \A n \in names : n[1] # "subscriber" /\ (n[2] # None => <<"find", n>> \in Ahead(Find(x) \o t))
  BY <1>2, <1>6, <1>7
<1>10. Admit(p, About("createTenant", row, names, over), Find(x) \o t)
  OBVIOUS
<1> QED
  BY <1>1, <1>6, <1>7, <1>8, <1>9, <1>10, CreateStep, Zenon

\* A subscriber is to be created.
LEMMA CreateSubscriberStep ==
  ASSUME OfficeOK, State, Line, NEW p \in Requests, CreateSubscriber(p), UNCHANGED <<books, traffic>>
  PROVE  State' /\ Line'
<1> PICK u \in Subscribers, r \in plan.accounts :
      Admit(p, About("createSubscriber", <<"subscriber", u>>,
                     {<<"tenant", r.tenant>>, <<"package", r.package>>, <<"router", r.nas>>},
                      [r EXCEPT !.status = "ACTIVE"]),
            Find(<<"tenant", r.tenant>>) \o Find(<<"package", r.package>>) \o Find(<<"router", r.nas>>)
              \o << <<"findCode">>, <<"insert">> >>)
  BY DEF CreateSubscriber
<1>0. r \in Accounts
  BY DEF State, RowsTyped
<1> PICK row, t, x, y, z, names, patch :
      /\ row = <<"subscriber", u>> /\ t = << <<"findCode">>, <<"insert">> >>
      /\ x = <<"tenant", r.tenant>> /\ y = <<"package", r.package>> /\ z = <<"router", r.nas>>
      /\ names = {x, y, z} /\ patch = [r EXCEPT !.status = "ACTIVE"]
  OBVIOUS
<1>1. row \in Rows /\ x \in Rows /\ y \in Rows /\ (r.nas = None \/ z \in Rows)
  BY <1>0, AnyRow DEF Accounts
<1>2. /\ Find(x) \in Seq(Statements) /\ Ahead(Find(x)) \subseteq Looks
      /\ r.tenant # None => <<"find", x>> \in Ahead(Find(x))
  BY <1>1, FindLooks, Zenon
<1>3. /\ Find(y) \in Seq(Statements) /\ Ahead(Find(y)) \subseteq Looks
      /\ r.package # None => <<"find", y>> \in Ahead(Find(y))
  BY <1>1, FindLooks, Zenon
<1>4. /\ Find(z) \in Seq(Statements) /\ Ahead(Find(z)) \subseteq Looks
      /\ r.nas # None => <<"find", z>> \in Ahead(Find(z))
  BY <1>1, FindLooks, Zenon
<1> PICK two, looks : two = Find(x) \o Find(y) /\ looks = two \o Find(z)
  OBVIOUS
<1>5. two \in Seq(Statements) /\ Ahead(two) = Ahead(Find(x)) \union Ahead(Find(y)) /\ Ahead(two) \subseteq Looks
  BY <1>2, <1>3, LooksJoined
<1>6. looks \in Seq(Statements) /\ Ahead(looks) = Ahead(two) \union Ahead(Find(z)) /\ Ahead(looks) \subseteq Looks
  BY <1>4, <1>5, LooksJoined
<1>7. Only(t, "insert")
  BY CodeThenInsert
<1>8. Only(looks \o t, "insert") /\ Ahead(looks \o t) = Ahead(looks) \union Ahead(t)
  BY <1>6, <1>7, LooksThen
<1>9. patch \in Accounts /\ patch.tenant = r.tenant /\ patch.package = r.package
  BY <1>0 DEF Accounts, Statuses
<1>10. Relied(row, patch) = {x, y} /\ row[1] = "subscriber" /\ x[1] = "tenant" /\ y[1] = "package" /\ z[1] = "router"
       /\ x[2] = r.tenant /\ y[2] = r.package /\ z[2] = r.nas /\ "createSubscriber" # "idle"
  BY <1>9 DEF Relied
<1>11. /\ row[1] = "subscriber" => patch \in Accounts
       /\ Relied(row, patch) \subseteq names /\ \A n \in Relied(row, patch) : n[1] # row[1]
  BY <1>9, <1>10
<1>12. \A n \in names : n[1] # "subscriber" /\ (n[2] # None => <<"find", n>> \in Ahead(looks \o t))
  <2>1. /\ x[2] # None => <<"find", x>> \in Ahead(looks \o t)
        /\ y[2] # None => <<"find", y>> \in Ahead(looks \o t)
        /\ z[2] # None => <<"find", z>> \in Ahead(looks \o t)
    BY <1>2, <1>3, <1>4, <1>5, <1>6, <1>8, <1>10
  <2> QED
    BY <1>10, <2>1
<1>13. Admit(p, About("createSubscriber", row, names, patch), looks \o t)
  OBVIOUS
<1> QED
  BY <1>1, <1>8, <1>10, <1>11, <1>12, <1>13, CreateStep, Zenon

\* A subscriber is to be changed, in either way.
LEMMA UpdateSubscriberStep ==
  ASSUME OfficeOK, State, Line, NEW p \in Requests, UpdateSubscriber(p), UNCHANGED <<books, traffic>>
  PROVE  State' /\ Line'
<1> PICK u \in Subscribers, r \in plan.accounts :
      \/ Admit(p, About("updateSubscriber", <<"subscriber", u>>, {<<"package", r.package>>, <<"router", r.nas>>},
                        [package |-> r.package, nas |-> r.nas]),
               Find(<<"subscriber", u>>) \o Find(<<"package", r.package>>) \o Find(<<"router", r.nas>>)
                 \o << <<"update">> >>)
      \/ Admit(p, About("updateSubscriber", <<"subscriber", u>>, {}, [status |-> r.status, ends |-> r.ends]),
               Find(<<"subscriber", u>>) \o << <<"update">> >>)
  BY DEF UpdateSubscriber
<1>0. r \in Accounts
  BY DEF State, RowsTyped
<1> PICK row, t, y, z, names :
      /\ row = <<"subscriber", u>> /\ t = << <<"update">> >>
      /\ y = <<"package", r.package>> /\ z = <<"router", r.nas>> /\ names = {y, z}
  OBVIOUS
<1>1. row \in Rows /\ y \in Rows /\ (r.nas = None \/ z \in Rows)
  BY <1>0, AnyRow DEF Accounts
<1>2. Find(row) \in Seq(Statements) /\ Ahead(Find(row)) \subseteq Looks
  BY <1>1, FindLooks, Zenon
<1>3. Only(t, "update") /\ "updateSubscriber" # "idle"
  BY Endings
<1>4. CASE Admit(p, About("updateSubscriber", row, names, [package |-> r.package, nas |-> r.nas]),
                 Find(row) \o Find(y) \o Find(z) \o t)
  <2>1. /\ Find(y) \in Seq(Statements) /\ Ahead(Find(y)) \subseteq Looks
        /\ r.package # None => <<"find", y>> \in Ahead(Find(y))
    BY <1>1, FindLooks, Zenon
  <2>2. /\ Find(z) \in Seq(Statements) /\ Ahead(Find(z)) \subseteq Looks
        /\ r.nas # None => <<"find", z>> \in Ahead(Find(z))
    BY <1>1, FindLooks, Zenon
  <2> PICK two, looks, patch : /\ two = Find(row) \o Find(y) /\ looks = two \o Find(z)
                               /\ patch = [package |-> r.package, nas |-> r.nas]
    OBVIOUS
  <2>3. two \in Seq(Statements) /\ Ahead(two) = Ahead(Find(row)) \union Ahead(Find(y)) /\ Ahead(two) \subseteq Looks
    BY <1>2, <2>1, LooksJoined
  <2>4. looks \in Seq(Statements) /\ Ahead(looks) = Ahead(two) \union Ahead(Find(z)) /\ Ahead(looks) \subseteq Looks
    BY <2>2, <2>3, LooksJoined
  <2>5. Only(looks \o t, "update") /\ Ahead(looks \o t) = Ahead(looks) \union Ahead(t)
    BY <1>3, <2>4, LooksThen
  <2>6. patch \in [package : Packages, nas : Ships \union {None}] /\ <<"package", patch.package>> \in names
    BY <1>0 DEF Accounts
  <2>7. y[1] = "package" /\ z[1] = "router" /\ y[2] = r.package /\ z[2] = r.nas
    OBVIOUS
  <2>8. \A n \in names : n[1] # "subscriber" /\ (n[2] # None => <<"find", n>> \in Ahead(looks \o t))
    <3>1. /\ y[2] # None => <<"find", y>> \in Ahead(looks \o t)
          /\ z[2] # None => <<"find", z>> \in Ahead(looks \o t)
      BY <2>1, <2>2, <2>3, <2>4, <2>5, <2>7
    <3> QED
      BY <2>7, <3>1
  <2>9. Admit(p, About("updateSubscriber", <<"subscriber", u>>, names, patch), looks \o t)
    BY <1>4
  <2> QED
    BY <1>3, <2>5, <2>6, <2>8, <2>9, ChangeStep, Zenon
<1>5. CASE Admit(p, About("updateSubscriber", row, {}, [status |-> r.status, ends |-> r.ends]), Find(row) \o t)
  <2> PICK patch, none : patch = [status |-> r.status, ends |-> r.ends] /\ none = {}
    OBVIOUS
  <2>1. Only(Find(row) \o t, "update")
    BY <1>2, <1>3, LooksThen
  <2>2. patch \in [status : Statuses, ends : Ends]
    BY <1>0 DEF Accounts
  <2>3. \A n \in none : n[1] # "subscriber" /\ (n[2] # None => <<"find", n>> \in Ahead(Find(row) \o t))
    OBVIOUS
  <2>4. Admit(p, About("updateSubscriber", <<"subscriber", u>>, none, patch), Find(row) \o t)
    BY <1>5
  <2> QED
    BY <1>3, <2>1, <2>2, <2>3, <2>4, ChangeStep, Zenon
<1> QED
  BY <1>4, <1>5

\* Any of these requests.
LEMMA ArriveStep ==
  ASSUME OfficeOK, State, Line, NEW p \in Requests, Arrive(p), UNCHANGED <<books, traffic>>
  PROVE  State' /\ Line'
BY CreateAreaStep, RemoveAreaStep, CreateShipStep, RemoveShipStep, CreateRouterStep, RemoveRouterStep,
   CreateTenantStep, RemoveTenantStep, CreatePackageStep, RemovePackageStep, CreateSubscriberStep,
   UpdateSubscriberStep, RemoveSubscriberStep, Zenon DEF Arrive

\* Any statement of a request about rows.
LEMMA StatementStep ==
  ASSUME OfficeOK, State, Line, NEW p \in Requests, Statement(p), UNCHANGED <<books, traffic>>
  PROVE  State' /\ Line'
BY FindRowStep, CheckStep, InsertStep, UpdateStep, DeleteStep, Zenon DEF Statement

\* What leaves rows, books and requests alone.
LEMMA QuietStep ==
  ASSUME State, Line, UNCHANGED <<officeVars, books>>, PlanStays, TrafficTypeOK', NoPacketCountedTwice'
  PROVE  State' /\ Line'
<1>1. UNCHANGED <<live, account, req, todo, raced, entered, parent, group, counted>>
  BY DEF officeVars, books
<1>2. RowsTyped'
  BY <1>1 DEF State, RowsTyped, PlanStays
<1>3. \A x : Relies(x)' = Relies(x)
  BY <1>1 DEF Relies
<1>4. RowsStand'
  BY <1>1, <1>3 DEF State, RowsStand
<1>5. /\ \A i : Related(i)' = Related(i)
      /\ \A i, j : Noted(i, j) => Noted(i, j)'
      /\ \A i, j : Doubled(i, j)' <=> Doubled(i, j)
  BY <1>1 DEF Related, Noted, Doubled
<1>6. BooksApart'
  BY <1>1, <1>5 DEF State, BooksApart
<1>7. RequestsTyped' /\ RacesNoted'
  BY <1>1 DEF Line, RequestsTyped, RacesNoted, Busy
<1>8. EachFits'
  <2> SUFFICES ASSUME NEW q \in Requests, NEW r, NEW steps, r = req[q], steps = todo[q]
               PROVE  Fits(r, steps)'
    BY <1>1, Zenon DEF EachFits
  <2>1. Fits(r, steps)
    BY Zenon DEF Line, EachFits
  <2>2. raced \subseteq raced' /\ UNCHANGED <<live, account, books>>
    BY <1>1
  <2> QED
    BY <2>1, <2>2, FitsStay, Zenon
<1> QED
  BY <1>2, <1>4, <1>6, <1>7, <1>8, Zenon DEF State, Line

\* Traffic leaves the back office and the books as they are.
LEMMA HappensQuietly ==
  ASSUME State, NEW what, NEW s, NEW t, Happens(what, s, t)
  PROVE  UNCHANGED <<officeVars, books>> /\ PlanStays /\ UNCHANGED <<entered, parent, group, counted, raced>>
BY DEF Happens, State, RowsTyped, TrafficTypeOK, PlanStays, books, officeVars

\* An interface is a member of none but those that are entered.
LEMMA AboveEntered ==
  ASSUME TrafficTypeOK, NEW i \in entered
  PROVE  Above(i) \subseteq entered
<1>1. entered \in SUBSET Interfaces /\ \A k \in entered : parent[k] \in entered \union {None}
  BY DEF TrafficTypeOK
<1> QED
  BY <1>1 DEF Above

\* A packet is carried: what its interfaces count is counted once in each group.
LEMMA CarryStep ==
  ASSUME OfficeOK, TrafficOK, State, Line, NEW s \in Ships, NEW t \in Times, Carry(s, t)
  PROVE  State' /\ Line'
<1> PICK from \in (Uplinks \intersect entered) \union {None}, to \in (entered \ Uplinks) \union {None},
         down \in BOOLEAN :
      LET ends == {from, to} \ {None}
          packet == [ship |-> s, at |-> t, down |-> down, bytes |-> Cardinality(packets) + 1]
      IN /\ Happens("carry", s, t)
         /\ packets' = packets \union {packet}
         /\ deltas' = deltas \union
              {[iface |-> i, group |-> group[i], counted |-> counted[i], packet |-> packet] :
                 i \in UNION {Above(j) : j \in ends}}
         /\ UNCHANGED <<sessions, flows>>
  BY DEF Carry
<1> PICK ends, packet, crossed :
      /\ ends = {from, to} \ {None} /\ crossed = UNION {Above(j) : j \in ends}
      /\ packet = [ship |-> s, at |-> t, down |-> down, bytes |-> Cardinality(packets) + 1]
  OBVIOUS
<1> PICK made : made = [i \in crossed |->
      [iface |-> i, group |-> group[i], counted |-> counted[i], packet |-> packet]]
  OBVIOUS
<1>a. /\ Happens("carry", s, t) /\ packets' = packets \union {packet}
      /\ deltas' = deltas \union {made[i] : i \in crossed} /\ UNCHANGED <<sessions, flows>>
  OBVIOUS
<1>0. TrafficTypeOK /\ None \notin Interfaces /\ IsFiniteSet(Interfaces)
  BY DEF State, TrafficOK
<1>1. UNCHANGED <<officeVars, books>> /\ PlanStays /\ UNCHANGED <<entered, parent, group, counted, raced>>
  BY <1>a, HappensQuietly, Zenon
<1>2. crossed \subseteq entered /\ IsFiniteSet(crossed)
  <2>1. \A j \in ends : j \in entered
    OBVIOUS
  <2>2. crossed \subseteq entered
    BY <1>0, <2>1, AboveEntered
  <2>3. crossed \subseteq Interfaces
    BY <1>0, <2>2 DEF TrafficTypeOK
  <2> QED
    BY <1>0, <2>2, <2>3, FS_Subset
<1>3. packet \notin packets /\ IsFiniteSet(packets') /\ Cardinality(packets') = Cardinality(packets) + 1
      /\ Cardinality(packets) \in Nat
  <2>1. Cardinality(packets) \in Nat
    BY <1>0, FS_CardinalityType DEF TrafficTypeOK
  <2>2. packet \notin packets
    <3>1. packet.bytes = Cardinality(packets) + 1
      OBVIOUS
    <3>2. \A k \in packets : k.bytes \in 1..Cardinality(packets)
      BY <1>0 DEF TrafficTypeOK
    <3> QED
      BY <2>1, <3>1, <3>2
  <2> QED
    BY <1>0, <2>1, <2>2, FS_AddElement DEF TrafficTypeOK
<1>4. TrafficTypeOK'
  <2>1. packets' \subseteq [ship : Ships, at : Times, down : BOOLEAN, bytes : 1..Cardinality(packets')]
    <3>1. \A n \in 1..Cardinality(packets) : n \in 1..Cardinality(packets')
      BY <1>3
    <3>2. packets \subseteq [ship : Ships, at : Times, down : BOOLEAN, bytes : 1..Cardinality(packets)]
      BY <1>0 DEF TrafficTypeOK
    <3>3. packets \subseteq [ship : Ships, at : Times, down : BOOLEAN, bytes : 1..Cardinality(packets')]
      BY <3>1, <3>2
    <3>4. Cardinality(packets) + 1 \in 1..Cardinality(packets')
      BY <1>3
    <3>5. packet \in [ship : Ships, at : Times, down : BOOLEAN, bytes : 1..Cardinality(packets')]
      BY <3>4
    <3> QED
      BY <3>3, <3>5
  <2>2. IsFiniteSet(deltas')
    <3> PICK new : new = {made[i] : i \in crossed}
      OBVIOUS
    <3>1. IsFiniteSet(new)
      <4>1. made \in Surjection(crossed, new)
        BY DEF Surjection
      <4> QED
        BY <1>2, <4>1, FS_Surjection
    <3>2. deltas' = deltas \union new /\ IsFiniteSet(deltas)
      BY <1>0, <1>a DEF TrafficTypeOK
    <3>3. IsFiniteSet(deltas \union new)
      BY <3>1, <3>2, FS_Union, Zenon
    <3> QED
      BY <3>2, <3>3, Zenon
  <2>3. \A d \in deltas' : d.iface \in entered' /\ d.packet \in packets'
    BY <1>0, <1>1, <1>2 DEF TrafficTypeOK
  <2>4. /\ "interfaces" \in DOMAIN plan' /\ plan'.interfaces \subseteq Interfaces
        /\ DOMAIN parent' = Interfaces /\ DOMAIN group' = Interfaces /\ DOMAIN counted' = Interfaces
        /\ entered' \subseteq Interfaces
        /\ \A i \in entered' : parent'[i] \in (entered' \ {i}) \union {None}
        /\ \A i \in Interfaces \ entered' : group'[i] = "NONE"
        /\ IsFiniteSet(sessions') /\ IsFiniteSet(flows')
        /\ sessions' \subseteq [ship : Ships, user : Users, start : Times, stop : 0..Open, up : SUBSET Nat, down : SUBSET Nat]
        /\ flows' \subseteq [ship : Ships, iface : entered' \union {None}, user : Users \union {None},
                             at : Times, name : Domains \union {None}, bytes : Nat]
    BY <1>0, <1>1 DEF TrafficTypeOK, PlanStays
  <2> QED
    BY <1>3, <2>1, <2>2, <2>3, <2>4, Zenon DEF TrafficTypeOK
<1>5. NoPacketCountedTwice'
  <2> SUFFICES ASSUME NEW d \in deltas', NEW e \in deltas', d.packet = e.packet, parent[d.iface] = e.iface,
                      d.group = e.group, d.group # "NONE", d.counted, e.counted
               PROVE  {<<"interface", d.iface>>, <<"interface", e.iface>>} \intersect raced # {}
    BY <1>1 DEF NoPacketCountedTwice
  <2>1. CASE d \in deltas /\ e \in deltas
    BY <2>1 DEF State, NoPacketCountedTwice
  <2>2. CASE d \notin deltas \/ e \notin deltas
    <3>1. d.packet = packet /\ e.packet = packet
      BY <2>2
    <3>2. d \notin deltas /\ e \notin deltas
      BY <1>0, <1>3, <3>1 DEF TrafficTypeOK
    <3> PICK i \in crossed : d = made[i]
      BY <1>a, <3>2
    <3> PICK j \in crossed : e = made[j]
      BY <1>a, <3>2
    <3>3. i \in entered /\ parent[i] = j /\ j # None /\ Doubled(i, j)
      BY <1>0, <1>2 DEF Doubled, TrafficTypeOK
    <3>4. Noted(i, j)
      BY <3>3 DEF State, BooksApart, Related
    <3> QED
      BY <3>4 DEF Noted
  <2> QED
    BY <2>1, <2>2
<1> QED
  BY <1>1, <1>4, <1>5, QuietStep, Zenon

\* A session is accounted.
LEMMA AccountStep ==
  ASSUME OfficeOK, TrafficOK, State, Line, NEW s \in Ships, NEW t \in Times, Account(s, t)
  PROVE  State' /\ Line'
<1> PICK u \in Users, stop \in {x \in t..LastTime : x - t \in plan.lasts} \union {Open},
         up \in {{}, {2 * Cardinality(sessions) + 1}}, down \in {{}, {2 * Cardinality(sessions) + 2}} :
      /\ Happens("account", s, t)
      /\ sessions' = sessions \union
           {[ship |-> s, user |-> u, start |-> t, stop |-> stop, up |-> up, down |-> down]}
      /\ UNCHANGED <<packets, deltas, flows>>
  BY DEF Account
<1>0. TrafficTypeOK
  BY DEF State
<1>1. UNCHANGED <<officeVars, books>> /\ PlanStays /\ UNCHANGED <<entered, parent, group, counted, raced>>
  BY HappensQuietly, Zenon
<1>2. sessions' \subseteq [ship : Ships, user : Users, start : Times, stop : 0..Open, up : SUBSET Nat, down : SUBSET Nat]
      /\ IsFiniteSet(sessions')
  <2>1. up \in SUBSET Nat /\ down \in SUBSET Nat
    <3>1. Cardinality(sessions) \in Nat
      BY <1>0, FS_CardinalityType DEF TrafficTypeOK
    <3>2. 2 * Cardinality(sessions) + 1 \in Nat /\ 2 * Cardinality(sessions) + 2 \in Nat
      BY <3>1
    <3> QED
      BY <3>2
  <2>2. stop \in 0..Open
    BY DEF Times, Open, TrafficOK
  <2>3. IsFiniteSet(sessions')
    BY <1>0, FS_AddElement DEF TrafficTypeOK
  <2> QED
    BY <1>0, <2>1, <2>2, <2>3 DEF TrafficTypeOK
<1>3. TrafficTypeOK'
  BY <1>0, <1>1, <1>2 DEF TrafficTypeOK, PlanStays
<1>4. NoPacketCountedTwice'
  BY <1>1 DEF State, NoPacketCountedTwice
<1> QED
  BY <1>1, <1>3, <1>4, QuietStep, Zenon

\* A flow is recorded.
LEMMA RecordStep ==
  ASSUME OfficeOK, TrafficOK, State, Line, NEW s \in Ships, NEW t \in Times, Record(s, t)
  PROVE  State' /\ Line'
<1> PICK i \in entered \union {None}, u \in Users \union {None}, name \in Domains \union {None} :
      /\ Happens("record", s, t)
      /\ flows' = flows \union
           {[ship |-> s, iface |-> i, user |-> u, at |-> t, name |-> name, bytes |-> Cardinality(flows) + 1]}
      /\ UNCHANGED <<packets, deltas, sessions>>
  BY DEF Record
<1>0. TrafficTypeOK
  BY DEF State
<1>1. UNCHANGED <<officeVars, books>> /\ PlanStays /\ UNCHANGED <<entered, parent, group, counted, raced>>
  BY HappensQuietly, Zenon
<1>2. flows' \subseteq [ship : Ships, iface : entered' \union {None}, user : Users \union {None},
                        at : Times, name : Domains \union {None}, bytes : Nat]
      /\ IsFiniteSet(flows')
  <2>1. Cardinality(flows) + 1 \in Nat
    BY <1>0, FS_CardinalityType DEF TrafficTypeOK
  <2>2. IsFiniteSet(flows')
    BY <1>0, FS_AddElement DEF TrafficTypeOK
  <2> QED
    BY <1>0, <1>1, <2>1, <2>2 DEF TrafficTypeOK
<1>3. TrafficTypeOK'
  BY <1>0, <1>1, <1>2 DEF TrafficTypeOK, PlanStays
<1>4. NoPacketCountedTwice'
  BY <1>1 DEF State, NoPacketCountedTwice
<1> QED
  BY <1>1, <1>3, <1>4, QuietStep, Zenon

\* Every step keeps the invariant.
LEMMA AnyStep ==
  ASSUME OfficeOK, TrafficOK, State, Line, [NextFleet]_fleetVars
  PROVE  State' /\ Line'
<1>1. ASSUME NEW p \in Requests, Arrive(p) \/ Statement(p), UNCHANGED <<books, traffic>> PROVE State' /\ Line'
  BY <1>1, ArriveStep, StatementStep, Zenon
<1>2. ASSUME NEW p \in Requests,
             \/ CreateInterface(p) \/ AssignZone(p) \/ InsertInterface(p) \/ FindChildren(p)
             \/ FindConflicts(p) \/ WriteAssignment(p)
      PROVE  State' /\ Line'
  BY <1>2, CreateInterfaceStep, AssignZoneStep, InsertInterfaceStep, FindChildrenStep, FindConflictsStep,
     WriteAssignmentStep, Zenon
<1>3. ASSUME NEW s \in Ships, NEW t \in Times, Carry(s, t) \/ Account(s, t) \/ Record(s, t)
      PROVE  State' /\ Line'
  BY <1>3, CarryStep, AccountStep, RecordStep, Zenon
<1>4. CASE UNCHANGED fleetVars
  <2>1. UNCHANGED <<officeVars, books>> /\ UNCHANGED <<plan, books, traffic, raced>>
    BY <1>4 DEF fleetVars, officeVars
  <2>2. PlanStays
    BY <2>1 DEF PlanStays, State, RowsTyped, TrafficTypeOK
  <2>3. TrafficTypeOK' /\ NoPacketCountedTwice'
    BY <2>1 DEF State, TrafficTypeOK, NoPacketCountedTwice, books, traffic
  <2> QED
    BY <2>1, <2>2, <2>3, QuietStep, Zenon
<1> QED
  BY <1>1, <1>2, <1>3, <1>4, Zenon DEF NextFleet

\* The first state has it.
LEMMA FirstState ==
  ASSUME OfficeOK, TrafficOK, InitFleet
  PROVE  State /\ Line
<1>1. /\ plan \in Plans /\ live = plan.rows /\ account = [u \in Subscribers |-> plan.customer]
      /\ req = [p \in Requests |-> Resting] /\ todo = [p \in Requests |-> <<>>]
  BY DEF InitFleet, InitOffice
<1>2. RowsTyped
  BY <1>1 DEF RowsTyped, OfficeOK
<1>3. RowsStand
  <2> SUFFICES ASSUME NEW r \in live PROVE Relies(r) \subseteq live
    BY DEF RowsStand
  <2>1. r \in Rows /\ Relied(r, plan.customer) \subseteq live /\ plan.customer \in Accounts
    BY <1>1 DEF OfficeOK
  <2>2. CASE r[1] = "subscriber"
    <3>1. r[2] \in Subscribers
      BY <2>1, <2>2 DEF Rows
    <3>2. account[r[2]] = plan.customer
      BY <1>1, <3>1
    <3> QED
      BY <2>1, <3>2 DEF Relies
  <2>3. CASE r[1] # "subscriber"
    <3>1. Relied(r, account[r[2]]) = Relied(r, plan.customer)
      BY <2>1, <2>3, ReliedRows
    <3> QED
      BY <2>1, <3>1 DEF Relies
  <2> QED
    BY <2>2, <2>3
<1> PICK first \in plan.first :
      /\ entered = {i \in Interfaces : first[i] # "ABSENT"}
      /\ group = [i \in Interfaces |-> IF i \in entered THEN first[i] ELSE "NONE"]
  BY DEF InitFleet
<1>4. /\ parent = [i \in Interfaces |-> None] /\ counted = [i \in Interfaces |-> i \in entered]
      /\ packets = {} /\ deltas = {} /\ sessions = {} /\ flows = {}
  BY DEF InitFleet
<1>5. TrafficTypeOK
  <2>1. "interfaces" \in DOMAIN plan /\ plan.interfaces \subseteq Interfaces
    BY <1>1 DEF TrafficOK
  <2>2. IsFiniteSet({})
    BY FS_EmptySet
  <2> QED
    BY <1>4, <2>1, <2>2 DEF TrafficTypeOK
<1>6. BooksApart
  <2>1. \A i \in entered : Related(i) = {}
    BY <1>4 DEF Related, TrafficOK
  <2> QED
    BY <2>1 DEF BooksApart
<1>7. NoPacketCountedTwice
  BY <1>4 DEF NoPacketCountedTwice
<1>8. RequestsTyped /\ RacesNoted
  <2>1. \A p \in Requests : req[p] = Resting /\ todo[p] = <<>>
    BY <1>1
  <2>2. todo \in [Requests -> Seq(Statements)] /\ DOMAIN req = Requests
    <3> HIDE DEF Statements
    <3> QED
      BY <1>1
  <2>3. \A p \in Requests : ~Busy(p)
    BY <2>1, RestType DEF Busy
  <2> QED
    BY <2>1, <2>2, <2>3, RestType, Zenon DEF RequestsTyped, RacesNoted
<1>9. EachFits
  <2> SUFFICES ASSUME NEW p \in Requests, NEW r, NEW steps, steps = todo[p]
               PROVE  Fits(r, steps)
    BY Zenon DEF EachFits
  <2>1. steps = <<>>
    BY <1>1
  <2>2. Fits(r, <<>>)
    BY RestingFits
  <2> QED
    BY <2>1, <2>2, Zenon
<1> QED
  BY <1>2, <1>3, <1>5, <1>6, <1>7, <1>8, <1>9, Zenon DEF State, Line

\* The inductive invariant.
THEOREM FleetInvariant == Spec => [](State /\ Line)
<1>1. InitFleet => State /\ Line
  BY OfficeOK, TrafficOK, FirstState
<1>2. State /\ Line /\ [NextFleet]_fleetVars => (State /\ Line)'
  BY OfficeOK, TrafficOK, AnyStep
<1> QED
  BY <1>1, <1>2, PTL DEF Spec

-----------------------------------------------------------------------------
(* Reports of the back office.                                             *)

\* A set counted by keys.
LEMMA CountByKey ==
  ASSUME NEW S, NEW K, NEW g, HasKeys(S, g, K), NEW c, Counts(c, S, g, K)
  PROVE  Cardinality(S) = Total(c, K)
<1> PICK w : w = [x \in S |-> 1]
  OBVIOUS
<1>1. Total(w, S) = Cardinality(S)
  BY TotalOfOnes DEF HasKeys
<1>2. Integral(w, S)
  BY DEF Integral
<1>3. Shares(c, w, S, g, K)
  <2> SUFFICES ASSUME NEW k \in K PROVE Total(w, Keyed(S, g, k)) = Cardinality(Keyed(S, g, k))
    BY DEF Shares, Counts
  <2>1. Keyed(S, g, k) \subseteq S
    BY DEF Keyed
  <2>2. IsFiniteSet(Keyed(S, g, k))
    BY <2>1, FS_Subset DEF HasKeys
  <2>3. \A x \in Keyed(S, g, k) : w[x] = 1
    BY <2>1
  <2> QED
    BY <2>2, <2>3, TotalOfOnes
<1> QED
  BY <1>1, <1>2, <1>3, TotalOfShares

\* There are finitely many rows of each kind.
LEMMA KindsFinite == State => \A kind : IsFiniteSet(Of(kind)) /\ Of(kind) \subseteq live
BY FS_Subset DEF State, RowsTyped, Of

\* There are finitely many ships.
LEMMA SailingFinite ==
  ASSUME State
  PROVE  IsFiniteSet(Sailing)
<1> PICK f : f = [r \in Of("ship") |-> r[2]]
  OBVIOUS
<1>1. \A r \in Of("ship") : r[2] \in Sailing
  BY DEF State, RowsTyped, Of, Sailing, Rows
<1>2. \A s \in Sailing : <<"ship", s>> \in Of("ship") /\ f[<<"ship", s>>] = s
  BY DEF Of, Sailing
<1>3. f \in Surjection(Of("ship"), Sailing)
  BY <1>1, <1>2 DEF Surjection
<1> QED
  BY <1>3, KindsFinite, FS_Surjection

\* The ships of the areas are all the ships.
LEMMA AreasAddUp ==
  ASSUME OfficeOK, State, ~ \E r \in raced : r[1] = "area"
  PROVE  /\ Totals.ships = SumFunction([r \in Of("area") |-> ShipCount(r[2])])
         /\ \A s \in Sailing : \E r \in Of("area") : s \in AreaPage(r[2]) /\ ShipPage(s).area = r[2]
<1> PICK g : g = [x \in Of("ship") |-> <<"area", AreaOf[x[2]]>>]
  OBVIOUS
<1> PICK c : c = [r \in Of("area") |-> ShipCount(r[2])]
  OBVIOUS
<1>1. \A x \in Of("ship") : g[x] \in Of("area") /\ x[2] \in Ships
  <2> SUFFICES ASSUME NEW x \in Of("ship") PROVE g[x] \in Of("area") /\ x[2] \in Ships
    OBVIOUS
  <2>1. x \in live /\ x[1] = "ship" /\ x \in Rows
    BY DEF Of, State, RowsTyped
  <2>2. g[x] \in Relies(x) /\ g[x][1] = "area"
    BY <2>1 DEF Relies, Relied
  <2>3. g[x] \in live
    BY <2>1, <2>2 DEF State, RowsStand
  <2> QED
    BY <2>1, <2>2, <2>3 DEF Of, Rows
<1>2. Counts(c, Of("ship"), g, Of("area"))
  <2> SUFFICES ASSUME NEW r \in Of("area") PROVE ShipsOf(r[2]) = Keyed(Of("ship"), g, r)
    BY DEF ShipCount, Counts
  <2>1. r = <<"area", r[2]>>
    BY DEF Of, State, RowsTyped, Rows
  <2>2. \A x \in Of("ship") : g[x] = r <=> AreaOf[x[2]] = r[2]
    BY <2>1
  <2> QED
    BY <2>2 DEF ShipsOf, Keyed
<1>3. Cardinality(Of("ship")) = Total(c, Of("area"))
  <2>1. HasKeys(Of("ship"), g, Of("area"))
    BY <1>1, KindsFinite DEF HasKeys
  <2> QED
    BY <1>2, <2>1, CountByKey, Zenon
<1>4. SumFunction(c) = Total(c, Of("area"))
  BY SumIsTotal
<1>5. ASSUME NEW s \in Sailing PROVE \E r \in Of("area") : s \in AreaPage(r[2]) /\ ShipPage(s).area = r[2]
  <2>1. <<"ship", s>> \in Of("ship")
    BY DEF Of, Sailing
  <2>2. <<"area", AreaOf[s]>> \in Of("area")
    BY <1>1, <2>1
  <2>3. s \in AreaPage(AreaOf[s]) /\ ShipPage(s).area = AreaOf[s]
    BY <2>1 DEF AreaPage, ShipsOf, ShipPage
  <2> QED
    BY <2>2, <2>3
<1> QED
  BY <1>3, <1>4, <1>5 DEF Totals

\* The routers of the ships are all the routers.
LEMMA ShipsAddUp ==
  ASSUME OfficeOK, State, ~ \E r \in raced : r[1] = "ship"
  PROVE  /\ Totals.routers = SumFunction([r \in Of("ship") |-> RouterCount(r[2])])
         /\ Totals.routers = SumFunction([s \in Sailing |-> ShipPage(s).routers])
<1> PICK g, h : g = [x \in Of("router") |-> <<"ship", x[2]>>] /\ h = [x \in Of("router") |-> x[2]]
  OBVIOUS
<1> PICK c, d : c = [r \in Of("ship") |-> RouterCount(r[2])] /\ d = [s \in Sailing |-> ShipPage(s).routers]
  OBVIOUS
<1>1. \A x \in Of("router") : g[x] \in Of("ship") /\ h[x] \in Sailing
  <2> SUFFICES ASSUME NEW x \in Of("router") PROVE g[x] \in Of("ship") /\ h[x] \in Sailing
    OBVIOUS
  <2>1. x \in live /\ x[1] = "router" /\ x[2] \in Ships
    BY DEF Of, State, RowsTyped, Rows
  <2>2. g[x] \in Relies(x) /\ g[x][1] = "ship"
    BY <2>1 DEF Relies, Relied
  <2>3. g[x] \in live
    BY <2>1, <2>2 DEF State, RowsStand
  <2> QED
    BY <2>1, <2>2, <2>3 DEF Of, Sailing
<1>2. Counts(c, Of("router"), g, Of("ship"))
  <2> SUFFICES ASSUME NEW r \in Of("ship") PROVE RoutersOf(r[2]) = Keyed(Of("router"), g, r)
    BY DEF RouterCount, Counts
  <2>1. r = <<"ship", r[2]>>
    BY DEF Of, State, RowsTyped, Rows
  <2>2. \A x \in Of("router") : g[x] = r <=> x[2] = r[2]
    BY <2>1
  <2> QED
    BY <2>2 DEF RoutersOf, Keyed
<1>3. Counts(d, Of("router"), h, Sailing)
  <2> SUFFICES ASSUME NEW s \in Sailing PROVE RoutersOf(s) = Keyed(Of("router"), h, s)
    BY DEF ShipPage, Counts
  <2> QED
    BY DEF RoutersOf, Keyed
<1>4. Cardinality(Of("router")) = Total(c, Of("ship"))
  <2>1. HasKeys(Of("router"), g, Of("ship"))
    BY <1>1, KindsFinite DEF HasKeys
  <2> QED
    BY <1>2, <2>1, CountByKey, Zenon
<1>5. Cardinality(Of("router")) = Total(d, Sailing)
  <2>1. HasKeys(Of("router"), h, Sailing)
    BY <1>1, KindsFinite, SailingFinite DEF HasKeys
  <2> QED
    BY <1>3, <2>1, CountByKey, Zenon
<1>6. SumFunction(c) = Total(c, Of("ship")) /\ SumFunction(d) = Total(d, Sailing)
  BY SumIsTotal
<1> QED
  BY <1>4, <1>5, <1>6 DEF Totals

\* Both together.
LEMMA FleetAdds == OfficeOK /\ State => FleetAddsUp
BY AreasAddUp, ShipsAddUp DEF FleetAddsUp

-----------------------------------------------------------------------------
(* Subscriptions.                                                          *)

LEMMA SubscriberRows ==
  ASSUME OfficeOK, State, NEW r \in Of("subscriber")
  PROVE  /\ r[2] \in Subscribers /\ r = <<"subscriber", r[2]>> /\ account[r[2]] \in Accounts
         /\ account[r[2]].package \in Packages /\ PriceOf(r) \in Nat
         /\ <<"tenant", account[r[2]].tenant>> \in live \union raced
         /\ <<"package", account[r[2]].package>> \in live \union raced
<1>1. r \in live /\ r[1] = "subscriber" /\ r[2] \in Subscribers /\ r = <<"subscriber", r[2]>>
  BY DEF Of, State, RowsTyped, Rows
<1>2. account[r[2]] \in Accounts /\ account[r[2]].package \in Packages
  BY <1>1 DEF State, RowsTyped, Accounts
<1>3. Relies(r) = {<<"tenant", account[r[2]].tenant>>, <<"package", account[r[2]].package>>}
  BY <1>1 DEF Relies, Relied
<1>4. PriceOf(r) \in Nat
  BY <1>2 DEF OfficeOK, PriceOf
<1> QED
  BY <1>1, <1>2, <1>3, <1>4 DEF State, RowsStand

\* The worth of a set of subscriptions, and of its parts.
LEMMA WorthByKey ==
  ASSUME OfficeOK, State, NEW S, S \subseteq Of("subscriber"), NEW K, NEW g, \A r \in S : g[r] \in K,
         IsFiniteSet(K), NEW report, DOMAIN report = K, \A k \in K : report[k] = Worth(Keyed(S, g, k))
  PROVE  SumOf(report) = Worth(S).value
<1> PICK w : w = [r \in Of("subscriber") |-> PriceOf(r)]
  OBVIOUS
<1>1. \A U \in SUBSET Of("subscriber") : IsFiniteSet(U) /\ Worth(U).value = Total(w, U)
  <2> SUFFICES ASSUME NEW U \in SUBSET Of("subscriber")
               PROVE  IsFiniteSet(U) /\ SumFunction([r \in U |-> PriceOf(r)]) = Total(w, U)
    BY DEF Worth
  <2> PICK v : v = [r \in U |-> PriceOf(r)]
    OBVIOUS
  <2>1. IsFiniteSet(U)
    BY KindsFinite, FS_Subset
  <2>2. SumFunction(v) = Total(v, U)
    BY SumIsTotal
  <2>3. \A r \in U : v[r] = w[r]
    OBVIOUS
  <2>4. Total(v, U) = Total(w, U)
    BY <2>1, <2>3, TotalAgrees
  <2> QED
    BY <2>1, <2>2, <2>4
<1>2. \A r \in S : w[r] \in Int
  <2> SUFFICES ASSUME NEW r \in S PROVE PriceOf(r) \in Int
    OBVIOUS
  <2>1. r \in Of("subscriber")
    OBVIOUS
  <2>2. PriceOf(r) \in Nat
    BY <2>1, SubscriberRows, Zenon
  <2> QED
    BY <2>2
<1> PICK values, u : values = [k \in K |-> report[k].value] /\ u = [k \in K |-> Total(w, Keyed(S, g, k))]
  OBVIOUS
<1>3. SumOf(report) = Total(values, K)
  BY SumIsTotal DEF SumOf
<1>4. \A k \in K : values[k] = u[k]
  <2>1. \A k \in K : Keyed(S, g, k) \in SUBSET Of("subscriber")
    BY DEF Keyed
  <2> QED
    BY <1>1, <2>1
<1>5. Total(values, K) = Total(u, K)
  BY <1>4, TotalAgrees
<1>6. Total(w, S) = Total(u, K)
  <2>1. Shares(u, w, S, g, K)
    BY DEF Shares
  <2>2. HasKeys(S, g, K) /\ Integral(w, S)
    BY <1>1, <1>2 DEF HasKeys, Integral
  <2> QED
    BY <2>1, <2>2, TotalOfShares
<1> QED
  BY <1>1, <1>3, <1>5, <1>6

\* What a finite set is mapped to is finite.
LEMMA ImageFinite ==
  ASSUME NEW S, IsFiniteSet(S), NEW g
  PROVE  IsFiniteSet({g[x] : x \in S})
<1> PICK f, T : T = {g[x] : x \in S} /\ f = [x \in S |-> g[x]]
  OBVIOUS
<1>1. f \in Surjection(S, T)
  BY DEF Surjection
<1> QED
  BY <1>1, FS_Surjection

\* The subscribers are counted by what each has.
LEMMA HeldRows == \A field, x : HeldBy(field, x) \subseteq Of("subscriber")
BY DEF HeldBy

\* Subscriptions by ship: each has one, or the row of none.
LEMMA RevenueByShip ==
  ASSUME OfficeOK, State
  PROVE  SumOf(ByShip) = Worth(Active).value
<1>0. PICK g, K : /\ g = [r \in Active |-> IF account[r[2]].nas \in Sailing THEN account[r[2]].nas ELSE None]
                  /\ K = {g[r] : r \in Active}
  OBVIOUS
<1>1. Active \subseteq Of("subscriber") /\ IsFiniteSet(Active)
  BY HeldRows, KindsFinite, FS_Subset DEF Active
<1>2. IsFiniteSet(K)
  BY <1>0, <1>1, ImageFinite
<1>3. K = {IF account[r[2]].nas \in Sailing THEN account[r[2]].nas ELSE None : r \in Active}
  BY <1>0
<1>4. ByShip =
        [k \in K |-> Worth({r \in Active : (IF account[r[2]].nas \in Sailing THEN account[r[2]].nas ELSE None) = k})]
  BY <1>3 DEF ByShip
<1>5. \A k \in K :
        Keyed(Active, g, k) = {r \in Active : (IF account[r[2]].nas \in Sailing THEN account[r[2]].nas ELSE None) = k}
  BY <1>0 DEF Keyed
<1>6. DOMAIN ByShip = K /\ \A k \in K : ByShip[k] = Worth(Keyed(Active, g, k))
  BY <1>4, <1>5
<1>7. \A r \in Active : g[r] \in K
  BY <1>0
<1> QED
  BY <1>1, <1>2, <1>6, <1>7, WorthByKey

\* By package: each has one that is there.
LEMMA RevenueByPackage ==
  ASSUME OfficeOK, State, ~ \E r \in raced : r[1] = "package"
  PROVE  SumOf(ByPackage) = Worth(Active).value
<1> PICK g, K : g = [r \in Active |-> account[r[2]].package] /\ K = {r[2] : r \in Of("package")}
  OBVIOUS
<1>1. Active \subseteq Of("subscriber")
  BY HeldRows DEF Active
<1>2. IsFiniteSet(K)
  <2> PICK f : f = [r \in Of("package") |-> r[2]]
    OBVIOUS
  <2>1. K = {f[r] : r \in Of("package")}
    OBVIOUS
  <2> QED
    BY <2>1, KindsFinite, ImageFinite
<1>3. \A r \in Active : g[r] \in K
  <2> SUFFICES ASSUME NEW r \in Active PROVE account[r[2]].package \in K
    OBVIOUS
  <2>1. r \in Of("subscriber")
    BY <1>1
  <2>2. <<"package", account[r[2]].package>> \in live \union raced
    BY <2>1, SubscriberRows, Zenon
  <2>3. <<"package", account[r[2]].package>> \in Of("package")
    BY <2>2 DEF Of
  <2> QED
    BY <2>3
<1>4. \A k \in K : Keyed(Active, g, k) = Active \intersect HeldBy("package", k)
  <2> SUFFICES ASSUME NEW k \in K, NEW r \in Active
               PROVE  g[r] = k <=> r \in HeldBy("package", k)
    BY DEF Keyed
  <2>1. account[r[2]]["package"] = account[r[2]].package
    OBVIOUS
  <2> QED
    BY <1>1, <2>1 DEF HeldBy
<1>5. DOMAIN ByPackage = K /\ \A k \in K : ByPackage[k] = Worth(Keyed(Active, g, k))
  BY <1>4 DEF ByPackage
<1> QED
  BY <1>1, <1>2, <1>3, <1>5, WorthByKey

\* By tenant: each has one that is there.
LEMMA RevenueByTenant ==
  ASSUME OfficeOK, State, ~ \E r \in raced : r[1] = "tenant"
  PROVE  SumOf(ByTenant) = Worth(Active).value
<1> PICK g, K : g = [r \in Active |-> account[r[2]].tenant] /\ K = {r[2] : r \in Of("tenant")}
  OBVIOUS
<1>1. Active \subseteq Of("subscriber")
  BY HeldRows DEF Active
<1>2. IsFiniteSet(K)
  <2> PICK f : f = [r \in Of("tenant") |-> r[2]]
    OBVIOUS
  <2>1. K = {f[r] : r \in Of("tenant")}
    OBVIOUS
  <2> QED
    BY <2>1, KindsFinite, ImageFinite
<1>3. \A r \in Active : g[r] \in K
  <2> SUFFICES ASSUME NEW r \in Active PROVE account[r[2]].tenant \in K
    OBVIOUS
  <2>1. r \in Of("subscriber")
    BY <1>1
  <2>2. <<"tenant", account[r[2]].tenant>> \in live \union raced
    BY <2>1, SubscriberRows, Zenon
  <2>3. <<"tenant", account[r[2]].tenant>> \in Of("tenant")
    BY <2>2 DEF Of
  <2> QED
    BY <2>3
<1>4. \A k \in K : Keyed(Active, g, k) = Active \intersect HeldBy("tenant", k)
  <2> SUFFICES ASSUME NEW k \in K, NEW r \in Active
               PROVE  g[r] = k <=> r \in HeldBy("tenant", k)
    BY DEF Keyed
  <2>1. account[r[2]]["tenant"] = account[r[2]].tenant
    OBVIOUS
  <2> QED
    BY <1>1, <2>1 DEF HeldBy
<1>5. DOMAIN ByTenant = K /\ \A k \in K : ByTenant[k] = Worth(Keyed(Active, g, k))
  BY <1>4 DEF ByTenant
<1> QED
  BY <1>1, <1>2, <1>3, <1>5, WorthByKey

\* Those that expire are some of those that are active.
LEMMA ExpiringIsPart ==
  ASSUME OfficeOK, State
  PROVE  Worth(Active \intersect HeldBy("ends", "soon")).value <= Worth(Active).value
<1> PICK A, U : A = Active /\ U = Active \intersect HeldBy("ends", "soon")
  OBVIOUS
<1> PICK w, v : w = [r \in A |-> PriceOf(r)] /\ v = [r \in U |-> PriceOf(r)]
  OBVIOUS
<1>1. A \subseteq Of("subscriber") /\ IsFiniteSet(A) /\ U \in SUBSET A /\ IsFiniteSet(U)
  BY HeldRows, KindsFinite, FS_Subset DEF Active
<1>2. \A r \in A : w[r] \in Nat
  <2> SUFFICES ASSUME NEW r \in A PROVE PriceOf(r) \in Nat
    OBVIOUS
  <2>1. r \in Of("subscriber")
    BY <1>1
  <2> QED
    BY <2>1, SubscriberRows, Zenon
<1>3. Worth(A).value = Total(w, A) /\ Worth(U).value = Total(v, U)
  BY SumIsTotal DEF Worth
<1>4. Total(v, U) = Total(w, U)
  <2>1. \A r \in U : v[r] = w[r]
    BY <1>1
  <2> QED
    BY <1>1, <2>1, TotalAgrees
<1>5. Total(w, U) <= Total(w, A)
  BY <1>1, <1>2, TotalOfPart
<1> QED
  BY <1>3, <1>4, <1>5

\* Each subscriber has one status.
LEMMA StatusesAddUp ==
  ASSUME OfficeOK, State
  PROVE  SumFunction([x \in Statuses |-> Cardinality(HeldBy("status", x))]) = Cardinality(Of("subscriber"))
<1> PICK S, g, c : /\ S = Of("subscriber") /\ g = [r \in S |-> account[r[2]].status]
                   /\ c = [x \in Statuses |-> Cardinality(HeldBy("status", x))]
  OBVIOUS
<1>1. HasKeys(S, g, Statuses)
  <2>1. IsFiniteSet(Statuses)
    <3>1. IsFiniteSet({"ACTIVE"}) /\ IsFiniteSet({"SUSPENDED"}) /\ IsFiniteSet({"EXPIRED"})
      BY FS_Singleton
    <3>2. IsFiniteSet({"ACTIVE"} \union {"SUSPENDED"})
      BY <3>1, FS_Union, Zenon
    <3>3. IsFiniteSet({"ACTIVE"} \union {"SUSPENDED"} \union {"EXPIRED"})
      BY <3>1, <3>2, FS_Union, Zenon
    <3>4. Statuses = {"ACTIVE"} \union {"SUSPENDED"} \union {"EXPIRED"}
      BY DEF Statuses
    <3> QED
      BY <3>3, <3>4
  <2>2. IsFiniteSet(S)
    BY KindsFinite
  <2>3. \A r \in S : g[r] \in Statuses
    <3> SUFFICES ASSUME NEW r \in S PROVE account[r[2]].status \in Statuses
      OBVIOUS
    <3>1. account[r[2]] \in Accounts
      BY SubscriberRows, Zenon
    <3> QED
      BY <3>1 DEF Accounts
  <2> QED
    BY <2>1, <2>2, <2>3 DEF HasKeys
<1>2. Counts(c, S, g, Statuses)
  <2> SUFFICES ASSUME NEW x \in Statuses PROVE HeldBy("status", x) = Keyed(S, g, x)
    BY DEF Counts
  <2>1. \A r \in S : g[r] = account[r[2]]["status"]
    OBVIOUS
  <2> QED
    BY <2>1 DEF HeldBy, Keyed
<1>3. Cardinality(S) = Total(c, Statuses)
  BY <1>1, <1>2, CountByKey, Zenon
<1>4. SumFunction(c) = Total(c, Statuses)
  BY SumIsTotal
<1> QED
  BY <1>3, <1>4

\* The reports of revenue add up.
LEMMA RevenueAdds ==
  ASSUME OfficeOK, State
  PROVE  RevenueAddsUp
<1>1. /\ Revenue.totals.value = Worth(Active).value
      /\ Revenue.expiring.value = Worth(Active \intersect HeldBy("ends", "soon")).value
      /\ Revenue.breakdown = [x \in Statuses |-> Cardinality(HeldBy("status", x))]
  BY DEF Revenue
<1>2. Revenue.breakdown["ACTIVE"] = Revenue.totals.count
  BY DEF Revenue, Worth, Active, Statuses
<1> QED
  BY <1>1, <1>2, RevenueByShip, RevenueByPackage, RevenueByTenant, ExpiringIsPart,
     StatusesAddUp, Zenon DEF RevenueAddsUp

-----------------------------------------------------------------------------
(* Numbers that may be null: the number x is, or would be.                 *)

Weighs(x, n) == Zero(x) = n /\ \A m \in x : m = n

\* A number that is not null.
LEMMA NumberWeighs == \A n : Weighs({n}, n)
BY DEF Weighs, Zero

\* A sum, which is null where nothing is summed.
LEMMA TotalWeighs ==
  ASSUME NEW f, NEW S, DOMAIN f = S
  PROVE  Weighs(TotalOf(f), Total(f, S))
<1>1. CASE S = {}
  <2>1. TotalOf(f) = {} /\ Total(f, S) = 0
    BY <1>1, TotalOfFew DEF TotalOf
  <2> QED
    BY <2>1 DEF Weighs, Zero
<1>2. CASE S # {}
  <2>1. TotalOf(f) = {Total(f, S)}
    BY <1>2, SumIsTotal DEF TotalOf
  <2> QED
    BY <2>1, NumberWeighs
<1> QED
  BY <1>1, <1>2

\* The sum of two, null where both are.
LEMMA PlusWeighs ==
  ASSUME NEW x, NEW y, NEW m \in Int, NEW n \in Int, Weighs(x, m), Weighs(y, n)
  PROVE  Weighs(Plus(x, y), m + n)
<1>1. CASE x \union y = {}
  <2>1. Plus(x, y) = {} /\ Zero(x) = 0 /\ Zero(y) = 0
    BY <1>1 DEF Plus, Zero
  <2>2. m + n = 0
    BY <2>1 DEF Weighs
  <2> QED
    BY <2>1, <2>2 DEF Weighs, Zero
<1>2. CASE x \union y # {}
  <2>1. Plus(x, y) = {m + n}
    BY <1>2 DEF Plus, Weighs
  <2> QED
    BY <2>1, NumberWeighs
<1> QED
  BY <1>1, <1>2

\* A gap, null where one of the two is.
LEMMA GapWeighs ==
  ASSUME NEW x, NEW y, NEW m \in Int, NEW n \in Int, Weighs(x, m), Weighs(y, n)
  PROVE  \A gap \in Gap(x, y) : gap = m - n
BY DEF Gap, Weighs

-----------------------------------------------------------------------------
(* The gap.                                                                *)

\* What each packet is measured as outside, less what it is measured as
\* inside, is what those weigh that are not inside.
OnceEach(W, A, P, g) ==
  /\ IsFiniteSet(W) /\ IsFiniteSet(A) /\ IsFiniteSet(P)
  /\ \A x \in W \union A : g[x] \in P
  /\ \A x, y \in W : g[x] = g[y] => x = y
  /\ \A x, y \in A : g[x] = g[y] => x = y
  /\ \A k \in P : \E x \in W : g[x] = k
Rest(P, A, g) == {k \in P : \A x \in A : g[x] # k}
Measures(v, W, A, D, P, g) ==
  /\ \A k \in P : D[k] \in Int
  /\ \A x \in W \union A : v[x] = D[g[x]]
Differ(v, W, A, n) == Total(v, W) \in Int /\ Total(v, A) \in Int /\ Total(v, W) - Total(v, A) = n

\* Two sums differ by what is in the one only.
LEMMA GapIsRest ==
  ASSUME NEW W, NEW A, NEW P, NEW g, OnceEach(W, A, P, g),
         NEW D, NEW v, Measures(v, W, A, D, P, g)
  PROVE  Differ(v, W, A, Total(D, Rest(P, A, g)))
<1> USE DEF OnceEach, Measures, Rest, Differ
<1> PICK Q, R : Q = {k \in P : \E x \in A : g[x] = k} /\ R = Rest(P, A, g)
  OBVIOUS
<1>1. IsFiniteSet(Q) /\ IsFiniteSet(R) /\ Q \union R = P /\ Q \intersect R = {}
  <2>1. Q \in SUBSET P /\ R \in SUBSET P
    OBVIOUS
  <2>2. IsFiniteSet(Q) /\ IsFiniteSet(R)
    BY <2>1, FS_Subset, Zenon
  <2> QED
    BY <2>2
<1>2. \A x \in W \union A : v[x] \in Int
  OBVIOUS
<1>3. Total(v, W) = Total(D, P)
  <2>1. \A x \in W : g[x] \in P /\ v[x] \in Int /\ D[g[x]] = v[x]
    BY <1>2
  <2> QED
    BY <2>1, TotalRenamed
<1>4. Total(v, A) = Total(D, Q)
  <2>1. \A x \in A : g[x] \in Q /\ v[x] \in Int /\ D[g[x]] = v[x]
    BY <1>2
  <2>2. \A k \in Q : \E x \in A : g[x] = k
    OBVIOUS
  <2> QED
    BY <1>1, <2>1, <2>2, TotalRenamed
<1>5. Total(D, P) = Total(D, Q) + Total(D, R)
  <2>1. \A k \in Q \union R : D[k] \in Int
    BY <1>1
  <2> QED
    BY <1>1, <2>1, TotalSplit
<1>6. Total(D, Q) \in Int /\ Total(D, R) \in Int
  <2>1. (\A k \in Q : D[k] \in Int) /\ \A k \in R : D[k] \in Int
    OBVIOUS
  <2> QED
    BY <1>1, <2>1, TotalIsInt
<1> QED
  BY <1>3, <1>4, <1>5, <1>6

\* The packets of some deltas; all sums of deltas are of finitely many numbers.
LEMMA MeasuredTypes ==
  ASSUME OfficeOK, TrafficOK, State, NEW S \in SUBSET deltas
  PROVE  /\ IsFiniteSet(S) /\ IsFiniteSet({d.packet : d \in S})
         /\ \A d \in S : /\ d.packet.bytes \in Nat /\ d.packet.down \in BOOLEAN
                         /\ Down(d) \in Nat /\ Up(d) \in Nat
<1>1. IsFiniteSet(S) /\ IsFiniteSet(packets)
  BY FS_Subset DEF State, TrafficTypeOK
<1>2. {d.packet : d \in S} \subseteq packets
  BY DEF State, TrafficTypeOK
<1>3. \A d \in S : d.packet.bytes \in Nat /\ d.packet.down \in BOOLEAN
  <2> SUFFICES ASSUME NEW d \in S PROVE d.packet.bytes \in Nat /\ d.packet.down \in BOOLEAN
    OBVIOUS
  <2>1. d.packet \in [ship : Ships, at : Times, down : BOOLEAN, bytes : 1..Cardinality(packets)]
    BY DEF State, TrafficTypeOK
  <2>2. \A n \in 1..Cardinality(packets) : n \in Nat
    BY <1>1, FS_CardinalityType
  <2> QED
    BY <2>1, <2>2
<1>4. \A d \in S : Down(d) \in Nat /\ Up(d) \in Nat
  BY <1>3 DEF Down, Up, Rx, Tx
<1> QED
  BY <1>1, <1>2, <1>3, <1>4, FS_Subset

\* What some deltas measure, in either direction.
LEMMA ZoneWeighs ==
  ASSUME OfficeOK, TrafficOK, State, NEW S \in SUBSET deltas, NEW v, NEW T \in SUBSET S
  PROVE  /\ v = [d \in S |-> Down(d)] => Weighs(DownOf(T), Total(v, T)) /\ Total(v, T) \in Nat
         /\ v = [d \in S |-> Up(d)] => Weighs(UpOf(T), Total(v, T)) /\ Total(v, T) \in Nat
<1> PICK down, up : down = [d \in T |-> Down(d)] /\ up = [d \in T |-> Up(d)]
  OBVIOUS
<1>1. IsFiniteSet(T) /\ \A d \in T : Down(d) \in Nat /\ Up(d) \in Nat
  BY MeasuredTypes, Zenon
<1>2. DownOf(T) = TotalOf(down) /\ UpOf(T) = TotalOf(up) /\ DOMAIN down = T /\ DOMAIN up = T
  BY DEF DownOf, UpOf
<1>3. Weighs(DownOf(T), Total(down, T)) /\ Weighs(UpOf(T), Total(up, T))
  BY <1>2, TotalWeighs
<1>4. /\ v = [d \in S |-> Down(d)] => \A d \in T : v[d] = down[d] /\ v[d] \in Nat
      /\ v = [d \in S |-> Up(d)] => \A d \in T : v[d] = up[d] /\ v[d] \in Nat
  BY <1>1
<1>5. (\A d \in T : v[d] = down[d] /\ v[d] \in Nat) => Total(v, T) = Total(down, T) /\ Total(v, T) \in Nat
  <2> SUFFICES ASSUME \A d \in T : v[d] = down[d], \A d \in T : v[d] \in Nat
               PROVE  Total(v, T) = Total(down, T) /\ Total(v, T) \in Nat
    BY Zenon
  <2>1. \A d \in T : v[d] \in Int
    OBVIOUS
  <2> QED
    BY <1>1, <2>1, TotalAgrees, TotalIsInt
<1>6. (\A d \in T : v[d] = up[d] /\ v[d] \in Nat) => Total(v, T) = Total(up, T) /\ Total(v, T) \in Nat
  <2> SUFFICES ASSUME \A d \in T : v[d] = up[d], \A d \in T : v[d] \in Nat
               PROVE  Total(v, T) = Total(up, T) /\ Total(v, T) \in Nat
    BY Zenon
  <2>1. \A d \in T : v[d] \in Int
    OBVIOUS
  <2> QED
    BY <1>1, <2>1, TotalAgrees, TotalIsInt
<1> QED
  BY <1>3, <1>4, <1>5, <1>6, Zenon

Inside(S) == {d \in S : d.group \in Access}

\* A packet has one delta outside and at most one inside.
LEMMA StraightCounts ==
  ASSUME OfficeOK, TrafficOK, State, NEW S \in SUBSET deltas, Straight(S), NEW k \in {d.packet : d \in S}
  PROVE  /\ \E x \in In("WAN_INPUT", S) : x.packet = k
         /\ \A x, y \in In("WAN_INPUT", S) : x.packet = k /\ y.packet = k => x = y
         /\ \A x, y \in Inside(S) : x.packet = k /\ y.packet = k => x = y
<1> PICK U, V : U = In("WAN_INPUT", Crossings(S, k)) /\ V = {d \in Crossings(S, k) : d.group \in Access}
  OBVIOUS
<1>1. IsFiniteSet(U) /\ IsFiniteSet(V)
  <2>1. U \in SUBSET S /\ V \in SUBSET S
    BY DEF In, Crossings
  <2>2. IsFiniteSet(S)
    BY MeasuredTypes, Zenon
  <2> QED
    BY <2>1, <2>2, FS_Subset, Zenon
<1>2. Cardinality(U) = 1 /\ Cardinality(V) <= 1
  BY DEF Straight
<1>3. \E x : U = {x}
  BY <1>1, <1>2, FS_Singleton
<1>4. V = {} \/ \E x : V = {x}
  <2>1. Cardinality(V) \in Nat
    BY <1>1, FS_CardinalityType
  <2>2. Cardinality(V) = 0 \/ Cardinality(V) = 1
    BY <1>2, <2>1
  <2> QED
    BY <1>1, <2>2, FS_Singleton, FS_EmptySet
<1>5. \A x : x \in U <=> x \in In("WAN_INPUT", S) /\ x.packet = k
  BY DEF In, Crossings
<1>6. \A x : x \in V <=> x \in Inside(S) /\ x.packet = k
  BY DEF Inside, Crossings
<1>7. \E x \in In("WAN_INPUT", S) : x.packet = k
  BY <1>3, <1>5
<1>8. \A x, y \in In("WAN_INPUT", S) : x.packet = k /\ y.packet = k => x = y
  BY <1>3, <1>5
<1>9. \A x, y \in Inside(S) : x.packet = k /\ y.packet = k => x = y
  BY <1>4, <1>6
<1> QED
  BY <1>7, <1>8, <1>9

\* One direction of what deltas measure.
LEMMA OneWay ==
  ASSUME OfficeOK, TrafficOK, State, NEW S \in SUBSET deltas, Straight(S), NEW way \in BOOLEAN, NEW v,
         \A d \in In("WAN_INPUT", S) \union Inside(S) : v[d] = IF d.packet.down = way THEN d.packet.bytes ELSE 0
  PROVE  /\ Total(v, In("WAN_INPUT", S)) \in Int /\ Total(v, Inside(S)) \in Int
         /\ Total(v, In("WAN_INPUT", S)) - Total(v, Inside(S)) = Lost(S, way)
<1>a. PICK P, W, A : P = {d.packet : d \in S} /\ W = In("WAN_INPUT", S) /\ A = Inside(S)
  OBVIOUS
<1>b. PICK g, D : /\ g = [d \in S |-> d.packet]
                  /\ D = [k \in P |-> IF k.down = way THEN k.bytes ELSE 0]
  OBVIOUS
<1>1. W \in SUBSET S /\ A \in SUBSET S /\ W \union A \subseteq S
  BY <1>a DEF In, Inside
<1>2. IsFiniteSet(W) /\ IsFiniteSet(A) /\ IsFiniteSet(P)
  <2>1. IsFiniteSet(S) /\ IsFiniteSet(P)
    BY <1>a, MeasuredTypes, Zenon
  <2> QED
    BY <1>1, <2>1, FS_Subset, Zenon
<1>3. \A k \in P : k.bytes \in Int /\ D[k] \in Int
  <2> SUFFICES ASSUME NEW d \in S PROVE d.packet.bytes \in Int
    BY <1>a, <1>b
  <2>1. d.packet.bytes \in Nat
    BY MeasuredTypes, Zenon
  <2> QED
    BY <2>1
<1>4. \A x \in W \union A : g[x] \in P /\ v[x] = D[g[x]]
  BY <1>1, <1>a, <1>b
<1>5. /\ \A k \in P : \E x \in W : g[x] = k
      /\ \A x, y \in W : g[x] = g[y] => x = y
      /\ \A x, y \in A : g[x] = g[y] => x = y
  <2>1. \A k \in P : /\ \E x \in W : x.packet = k
                     /\ \A x, y \in W : x.packet = k /\ y.packet = k => x = y
                     /\ \A x, y \in A : x.packet = k /\ y.packet = k => x = y
    <3> SUFFICES ASSUME NEW k \in {d.packet : d \in S}
                 PROVE  /\ \E x \in In("WAN_INPUT", S) : x.packet = k
                        /\ \A x, y \in In("WAN_INPUT", S) : x.packet = k /\ y.packet = k => x = y
                        /\ \A x, y \in Inside(S) : x.packet = k /\ y.packet = k => x = y
      BY <1>a, Zenon
    <3> QED
      BY StraightCounts
  <2>2. \A x \in W \union A : g[x] = x.packet /\ x.packet \in P
    BY <1>1, <1>a, <1>b
  <2>3. \A k \in P : \E x \in W : g[x] = k
    BY <2>1, <2>2
  <2>4. \A x, y \in W : g[x] = g[y] => x = y
    BY <2>1, <2>2
  <2>5. \A x, y \in A : g[x] = g[y] => x = y
    BY <2>1, <2>2
  <2> QED
    BY <2>3, <2>4, <2>5
<1>c. PICK R : R = {k \in P : \A x \in A : g[x] # k}
  OBVIOUS
<1>6. /\ Total(v, W) \in Int /\ Total(v, A) \in Int
      /\ Total(v, W) - Total(v, A) = Total(D, R)
  <2>1. OnceEach(W, A, P, g)
    BY <1>2, <1>4, <1>5, Zenon DEF OnceEach
  <2>2. Measures(v, W, A, D, P, g)
    BY <1>3, <1>4, Zenon DEF Measures
  <2>3. R = Rest(P, A, g)
    BY <1>c DEF Rest
  <2>4. Differ(v, W, A, Total(D, Rest(P, A, g)))
    BY <2>1, <2>2, GapIsRest, Zenon
  <2> QED
    BY <2>3, <2>4 DEF Differ
<1>7. Total(D, R) = Lost(S, way)
  <2>a. PICK L : L = {k \in R : k.down = way}
    OBVIOUS
  <2>b. PICK w, same : w = [k \in L |-> k.bytes] /\ same = [k \in L |-> k]
    OBVIOUS
  <2>1. L = {k \in P : k.down = way /\ \A d \in Crossings(S, k) : d.group \notin Access}
    <3>1. \A k : (\A d \in Crossings(S, k) : d.group \notin Access) <=> \A x \in A : g[x] # k
      BY <1>a, <1>b DEF Crossings, Inside
    <3> QED
      BY <3>1, <1>c, <2>a
  <2>2. Lost(S, way) = SumFunction(w)
    BY <2>1, <1>a, <2>b DEF Lost
  <2>3. SumFunction(w) = Total(w, L)
    BY SumIsTotal, <2>b
  <2>4. IsFiniteSet(L) /\ IsFiniteSet(R)
    <3>1. L \in SUBSET P /\ R \in SUBSET P
      BY <2>a, <1>c
    <3> QED
      BY <1>2, <3>1, FS_Subset, Zenon
  <2>5. /\ \A k \in L : same[k] \in R /\ w[k] \in Int /\ D[same[k]] = w[k]
        /\ \A j, k \in L : same[j] = same[k] => j = k
        /\ \A k \in R : (\E j \in L : same[j] = k) \/ D[k] = 0
    BY <1>3, <1>a, <1>b, <1>c, <2>a, <2>b
  <2>6. Total(w, L) = Total(D, R)
    BY <2>4, <2>5, TotalRenamed
  <2> QED
    BY <2>2, <2>3, <2>6
<1> QED
  BY <1>6, <1>7, <1>a

\* What is measured inside is what the three zones measure.
LEMMA InsideByZone ==
  ASSUME NEW S, IsFiniteSet(S), NEW v, \A d \in S : v[d] \in Int
  PROVE  Total(v, Inside(S)) =
           (Total(v, In("CREW_ACCESS", S)) + Total(v, In("BUSINESS_ACCESS", S))) + Total(v, In("MANAGEMENT", S))
<1>a. PICK C, B, M : C = In("CREW_ACCESS", S) /\ B = In("BUSINESS_ACCESS", S) /\ M = In("MANAGEMENT", S)
  OBVIOUS
<1>1. /\ C \in SUBSET S /\ B \in SUBSET S /\ M \in SUBSET S
      /\ C \intersect B = {} /\ (C \union B) \intersect M = {} /\ (C \union B) \union M = Inside(S)
  BY <1>a DEF In, Inside, Access
<1>2. IsFiniteSet(C) /\ IsFiniteSet(B) /\ IsFiniteSet(M)
  BY <1>1, FS_Subset, Zenon
<1>3. IsFiniteSet(C \union B)
  BY <1>2, FS_Union, Zenon
<1>4. /\ \A d \in C \union B : v[d] \in Int
      /\ \A d \in (C \union B) \union M : v[d] \in Int
  BY <1>1
<1>5. Total(v, C \union B) = Total(v, C) + Total(v, B)
  BY <1>1, <1>2, <1>4, TotalSplit, Zenon
<1>6. Total(v, (C \union B) \union M) = Total(v, C \union B) + Total(v, M)
  BY <1>1, <1>2, <1>3, <1>4, TotalSplit, Zenon
<1> QED
  BY <1>1, <1>5, <1>6, <1>a

\* The zone that is asked for and the group of each delta say the same.
LEMMA ZonesByGroup ==
  ASSUME NEW s, NEW p, NEW g
  PROVE  SumZone(s, p, g) = ByGroup(s, p, g)
<1>a. PICK S : S = In(g, Measured(s, p))
  OBVIOUS
<1>1. \A d \in S : d.group = g
  BY <1>a DEF In
<1>2. CASE g = "WAN_INPUT"
  <2>1. [d \in S |-> Down(d)] = [d \in S |-> Rx(d)]
    <3>1. \A d \in S : Down(d) = Rx(d)
      BY <1>1, <1>2 DEF Down
    <3> QED
      BY <3>1
  <2>2. [d \in S |-> Up(d)] = [d \in S |-> Tx(d)]
    <3>1. \A d \in S : Up(d) = Tx(d)
      BY <1>1, <1>2 DEF Up
    <3> QED
      BY <3>1
  <2>3. DownOf(S) = Received(S) /\ UpOf(S) = Sent(S)
    BY <2>1, <2>2 DEF DownOf, UpOf, Received, Sent
  <2> QED
    BY <1>2, <1>a, <2>3 DEF SumZone, ByGroup
<1>3. CASE g # "WAN_INPUT"
  <2>1. [d \in S |-> Down(d)] = [d \in S |-> Tx(d)]
    <3>1. \A d \in S : Down(d) = Tx(d)
      BY <1>1, <1>3 DEF Down
    <3> QED
      BY <3>1
  <2>2. [d \in S |-> Up(d)] = [d \in S |-> Rx(d)]
    <3>1. \A d \in S : Up(d) = Rx(d)
      BY <1>1, <1>3 DEF Up
    <3> QED
      BY <3>1
  <2>3. DownOf(S) = Sent(S) /\ UpOf(S) = Received(S)
    BY <2>1, <2>2 DEF DownOf, UpOf, Received, Sent
  <2> QED
    BY <1>3, <1>a, <2>3 DEF SumZone, ByGroup
<1> QED
  BY <1>2, <1>3

\* The gaps of a ship.
LEMMA GapHolds ==
  ASSUME OfficeOK, TrafficOK, State
  PROVE  GapIsWhatWasNotCounted
<1> SUFFICES ASSUME NEW s \in Sailing, NEW p \in Periods, Straight(Measured(s, p))
             PROVE  /\ \A gap \in Summary(s, p).wanGap.down : gap = Lost(Measured(s, p), TRUE)
                    /\ \A gap \in Summary(s, p).wanGap.up : gap = Lost(Measured(s, p), FALSE)
  BY DEF GapIsWhatWasNotCounted
<1>a. PICK S, C, B, M, W : /\ S = Measured(s, p) /\ W = In("WAN_INPUT", S)
                           /\ C = In("CREW_ACCESS", S) /\ B = In("BUSINESS_ACCESS", S) /\ M = In("MANAGEMENT", S)
  OBVIOUS
<1>b. PICK v, u : v = [d \in S |-> Down(d)] /\ u = [d \in S |-> Up(d)]
  OBVIOUS
<1>1. S \in SUBSET deltas
  BY <1>a DEF Measured
<1>2. W \in SUBSET S /\ C \in SUBSET S /\ B \in SUBSET S /\ M \in SUBSET S
  BY <1>a DEF In
<1>3. /\ IsFiniteSet(S)
      /\ \A d \in S : d.packet.down \in BOOLEAN /\ Down(d) \in Nat /\ Up(d) \in Nat
  BY <1>1, MeasuredTypes, Zenon
<1>4. \A d \in S : v[d] \in Int /\ u[d] \in Int
  BY <1>3, <1>b
<1>5. \A d \in W \union Inside(S) :
        /\ v[d] = IF d.packet.down = TRUE THEN d.packet.bytes ELSE 0
        /\ u[d] = IF d.packet.down = FALSE THEN d.packet.bytes ELSE 0
  <2> SUFFICES ASSUME NEW d \in W \union Inside(S)
               PROVE  /\ Down(d) = IF d.packet.down = TRUE THEN d.packet.bytes ELSE 0
                      /\ Up(d) = IF d.packet.down = FALSE THEN d.packet.bytes ELSE 0
    BY <1>a, <1>b DEF In, Inside
  <2>1. d \in S /\ d.packet.down \in BOOLEAN
    BY <1>2, <1>3 DEF Inside
  <2>2. CASE d.group = "WAN_INPUT"
    <3>1. d.iface \in Uplinks
      BY <1>a, <2>1, <2>2 DEF Straight
    <3>2. Down(d) = Rx(d) /\ Up(d) = Tx(d)
      BY <2>2 DEF Down, Up
    <3>3. CASE d.packet.down = TRUE
      BY <3>1, <3>2, <3>3 DEF Rx, Tx
    <3>4. CASE d.packet.down = FALSE
      BY <3>1, <3>2, <3>4 DEF Rx, Tx
    <3> QED
      BY <2>1, <3>3, <3>4
  <2>3. CASE d.group \in Access
    <3>1. d.iface \notin Uplinks
      BY <1>a, <2>1, <2>3 DEF Straight
    <3>2. Down(d) = Tx(d) /\ Up(d) = Rx(d)
      BY <2>3 DEF Down, Up, Access
    <3>3. CASE d.packet.down = TRUE
      BY <3>1, <3>2, <3>3 DEF Rx, Tx
    <3>4. CASE d.packet.down = FALSE
      <4>0. (d.iface \in Uplinks) = FALSE
        BY <3>1
      <4>1. d.packet.down = (d.iface \in Uplinks)
        BY <3>4, <4>0
      <4>2. Rx(d) = d.packet.bytes /\ Tx(d) = 0
        BY <4>1 DEF Rx, Tx
      <4> QED
        BY <3>2, <3>4, <4>2
    <3> QED
      BY <2>1, <3>3, <3>4
  <2> QED
    BY <2>2, <2>3, <1>a DEF In, Inside
<1>6. Total(v, W) - Total(v, Inside(S)) = Lost(S, TRUE) /\ Total(u, W) - Total(u, Inside(S)) = Lost(S, FALSE)
  <2>1. \A d \in In("WAN_INPUT", S) \union Inside(S) :
          v[d] = IF d.packet.down = TRUE THEN d.packet.bytes ELSE 0
    BY <1>5, <1>a
  <2>2. \A d \in In("WAN_INPUT", S) \union Inside(S) :
          u[d] = IF d.packet.down = FALSE THEN d.packet.bytes ELSE 0
    BY <1>5, <1>a
  <2>3. Straight(S) /\ TRUE \in BOOLEAN /\ FALSE \in BOOLEAN
    BY <1>a
  <2>4. Total(v, In("WAN_INPUT", S)) - Total(v, Inside(S)) = Lost(S, TRUE)
    BY <1>1, <2>1, <2>3, OneWay
  <2>5. Total(u, In("WAN_INPUT", S)) - Total(u, Inside(S)) = Lost(S, FALSE)
    BY <1>1, <2>2, <2>3, OneWay
  <2> QED
    BY <2>4, <2>5, <1>a
<1>7. /\ Total(v, Inside(S)) = (Total(v, C) + Total(v, B)) + Total(v, M)
      /\ Total(u, Inside(S)) = (Total(u, C) + Total(u, B)) + Total(u, M)
  BY <1>3, <1>4, <1>a, InsideByZone
<1>8. \A T \in SUBSET S : /\ Weighs(DownOf(T), Total(v, T)) /\ Total(v, T) \in Int
                          /\ Weighs(UpOf(T), Total(u, T)) /\ Total(u, T) \in Int
  BY <1>1, <1>b, ZoneWeighs
<1>c. PICK zone : zone = [g \in Zones |-> SumZone(s, p, g)]
  OBVIOUS
<1>9. /\ zone["WAN_INPUT"] = [down |-> DownOf(W), up |-> UpOf(W)]
      /\ zone["CREW_ACCESS"] = [down |-> DownOf(C), up |-> UpOf(C)]
      /\ zone["BUSINESS_ACCESS"] = [down |-> DownOf(B), up |-> UpOf(B)]
      /\ zone["MANAGEMENT"] = [down |-> DownOf(M), up |-> UpOf(M)]
  BY <1>a, <1>c, ZonesByGroup DEF ByGroup, Zones, Access
<1>10. /\ Summary(s, p).wanGap.down = Gap(zone["WAN_INPUT"].down, CountedDown(zone))
       /\ Summary(s, p).wanGap.up = Gap(zone["WAN_INPUT"].up, CountedUp(zone))
  BY <1>c DEF Summary
<1>11. ASSUME NEW gap \in Summary(s, p).wanGap.down PROVE gap = Lost(S, TRUE)
  <2>a. PICK x, y, z, w : x = DownOf(C) /\ y = DownOf(B) /\ z = DownOf(M) /\ w = DownOf(W)
    OBVIOUS
  <2>b. PICK l, m, n, o : l = Total(v, C) /\ m = Total(v, B) /\ n = Total(v, M) /\ o = Total(v, W)
    OBVIOUS
  <2>1. /\ Weighs(x, l) /\ Weighs(y, m) /\ Weighs(z, n) /\ Weighs(w, o)
        /\ l \in Int /\ m \in Int /\ n \in Int /\ o \in Int
    BY <1>2, <1>8, <2>a, <2>b
  <2>2. CountedDown(zone) = Plus(Plus(x, y), z)
    BY <1>9, <2>a DEF CountedDown
  <2>3. l + m \in Int /\ (l + m) + n \in Int
    BY <2>1
  <2>4. Weighs(Plus(x, y), l + m)
    BY <2>1, PlusWeighs, Zenon
  <2>5. Weighs(Plus(Plus(x, y), z), (l + m) + n)
    BY <2>1, <2>3, <2>4, PlusWeighs, Zenon
  <2>6. gap \in Gap(w, Plus(Plus(x, y), z))
    BY <1>9, <1>10, <2>a, <2>2
  <2>7. gap = o - ((l + m) + n)
    BY <2>1, <2>3, <2>5, <2>6, GapWeighs, Zenon
  <2> QED
    BY <1>6, <1>7, <2>7, <2>b
<1>12. ASSUME NEW gap \in Summary(s, p).wanGap.up PROVE gap = Lost(S, FALSE)
  <2>a. PICK x, y, z, w : x = UpOf(C) /\ y = UpOf(B) /\ z = UpOf(M) /\ w = UpOf(W)
    OBVIOUS
  <2>b. PICK l, m, n, o : l = Total(u, C) /\ m = Total(u, B) /\ n = Total(u, M) /\ o = Total(u, W)
    OBVIOUS
  <2>1. /\ Weighs(x, l) /\ Weighs(y, m) /\ Weighs(z, n) /\ Weighs(w, o)
        /\ l \in Int /\ m \in Int /\ n \in Int /\ o \in Int
    BY <1>2, <1>8, <2>a, <2>b
  <2>2. CountedUp(zone) = Plus(Plus(x, y), z)
    BY <1>9, <2>a DEF CountedUp
  <2>3. l + m \in Int /\ (l + m) + n \in Int
    BY <2>1
  <2>4. Weighs(Plus(x, y), l + m)
    BY <2>1, PlusWeighs, Zenon
  <2>5. Weighs(Plus(Plus(x, y), z), (l + m) + n)
    BY <2>1, <2>3, <2>4, PlusWeighs, Zenon
  <2>6. gap \in Gap(w, Plus(Plus(x, y), z))
    BY <1>9, <1>10, <2>a, <2>2
  <2>7. gap = o - ((l + m) + n)
    BY <2>1, <2>3, <2>5, <2>6, GapWeighs, Zenon
  <2> QED
    BY <1>6, <1>7, <2>7, <2>b
<1> QED
  BY <1>11, <1>12, <1>a

-----------------------------------------------------------------------------
(* Flows.                                                                  *)

LEMMA BytesAreTotal ==
  ASSUME OfficeOK, TrafficOK, State, NEW S \in SUBSET flows, NEW b, b = [f \in flows |-> f.bytes]
  PROVE  /\ IsFiniteSet(S) /\ (\A f \in S : b[f] \in Nat)
         /\ FlowBytes(S) = Total(b, S) /\ FlowBytes(S) \in Nat
         /\ \A T \in SUBSET S : FlowBytes(T) <= FlowBytes(S)
<1>1. \A T \in SUBSET flows : IsFiniteSet(T) /\ \A f \in T : b[f] \in Nat
  <2>1. \A f \in flows : f.bytes \in Nat
    BY DEF State, TrafficTypeOK
  <2>2. IsFiniteSet(flows)
    BY DEF State, TrafficTypeOK
  <2> QED
    BY <2>1, <2>2, FS_Subset
<1>2. ASSUME NEW T \in SUBSET flows PROVE FlowBytes(T) = Total(b, T) /\ FlowBytes(T) \in Nat
  <2>a. PICK c : c = [f \in T |-> f.bytes]
    OBVIOUS
  <2>1. FlowBytes(T) = Total(c, T)
    BY <2>a, SumIsTotal DEF FlowBytes
  <2>2. (\A f \in T : b[f] \in Nat) /\ IsFiniteSet(T)
    BY <1>1
  <2>5. \A f \in T : c[f] = b[f]
    BY <2>a
  <2>6. \A f \in T : b[f] \in Int
    BY <2>2
  <2>3. Total(c, T) = Total(b, T)
    BY <2>2, <2>5, TotalAgrees
  <2>4. Total(b, T) \in Nat
    BY <2>2, <2>6, TotalIsInt
  <2> QED
    BY <2>1, <2>3, <2>4
<1>3. ASSUME NEW T \in SUBSET S PROVE FlowBytes(T) <= FlowBytes(S)
  <2>1. FlowBytes(T) = Total(b, T) /\ FlowBytes(S) = Total(b, S)
    BY <1>2
  <2>2. Total(b, T) <= Total(b, S)
    BY <1>1, TotalOfPart
  <2> QED
    BY <2>1, <2>2
<1> QED
  BY <1>1, <1>2, <1>3

-----------------------------------------------------------------------------
(* The reports of a ship.                                                  *)

LEMMA ZonesOrNone ==
  ASSUME NEW s, NEW p, ~HasSummary(s, p)
  PROVE  ByZone(s, p) = <<>>
<1>a. PICK Z : Z = {z \in Zones : \E y \in Zones : In(y, Measured(s, p)) # {}}
  OBVIOUS
<1>1. ByZone(s, p) = [g \in Z |-> SumZone(s, p, g)]
  BY <1>a DEF ByZone
<1>2. Z = {}
  BY <1>a DEF HasSummary
<1>3. [g \in Z |-> SumZone(s, p, g)] = <<>>
  BY <1>2
<1> QED
  BY <1>1, <1>3

\* What a zone is measured, in either direction, is null where there is no delta.
LEMMA NullWhereNone ==
  ASSUME NEW S
  PROVE  /\ (DownOf(S) = {} <=> S = {}) /\ (UpOf(S) = {} <=> S = {})
<1>a. PICK f, g : f = [d \in S |-> Down(d)] /\ g = [d \in S |-> Up(d)]
  OBVIOUS
<1>1. DownOf(S) = TotalOf(f) /\ UpOf(S) = TotalOf(g) /\ DOMAIN f = S /\ DOMAIN g = S
  BY <1>a DEF DownOf, UpOf
<1> QED
  BY <1>1 DEF TotalOf

RowOf(s, p, i, g) ==
  [iface |-> i, group |-> g,
   down |-> DownOf({d \in In(g, Measured(s, p)) : d.iface = i}),
   up |-> UpOf({d \in In(g, Measured(s, p)) : d.iface = i})]

\* The rows of the report by interface.
LEMMA RowsOfInterfaces ==
  ASSUME NEW s, NEW p
  PROVE  ByInterface(s, p) = {RowOf(s, p, i, g) : i \in Interfaces, g \in {d.group : d \in Measured(s, p)}}
BY DEF ByInterface, RowOf

\* Every delta is counted in a row of that report that is shown.
LEMMA RowOfDelta ==
  ASSUME OfficeOK, TrafficOK, State, NEW s, NEW p, NEW d \in Measured(s, p)
  PROVE  RowOf(s, p, d.iface, d.group) \in Filled(ByInterface(s, p))
<1>a. PICK i, g : i = d.iface /\ g = d.group
  OBVIOUS
<1>1. i \in Interfaces /\ g \in {e.group : e \in Measured(s, p)}
  <2>1. d \in deltas
    BY DEF Measured
  <2> QED
    BY <1>a, <2>1 DEF State, TrafficTypeOK
<1>2. RowOf(s, p, i, g) \in ByInterface(s, p)
  BY <1>1, RowsOfInterfaces
<1>3. RowOf(s, p, i, g).down # {}
  <2>1. d \in {e \in In(g, Measured(s, p)) : e.iface = i}
    BY <1>a DEF In
  <2>2. DownOf({e \in In(g, Measured(s, p)) : e.iface = i}) # {}
    BY <2>1, NullWhereNone
  <2> QED
    BY <2>2 DEF RowOf
<1> QED
  BY <1>2, <1>3, <1>a DEF Filled

\* Where no row is shown there is no delta, so no zone.
LEMMA NoRowsNoZones ==
  ASSUME OfficeOK, TrafficOK, State, NEW s, NEW p, Filled(ByInterface(s, p)) = {}
  PROVE  ByZone(s, p) = <<>>
<1> SUFFICES ASSUME HasSummary(s, p) PROVE FALSE
  BY ZonesOrNone
<1>1. PICK d : d \in Measured(s, p)
  BY DEF HasSummary, In
<1> QED
  BY <1>1, RowOfDelta

\* The usage of the business zone is what the summary says of it.
LEMMA BusinessAgrees ==
  ASSUME NEW s, NEW p
  PROVE  SumZone(s, p, "BUSINESS_ACCESS") = BusinessUsage(s, p)
BY DEF SumZone, BusinessUsage

\* A zone is the sum of its interfaces.
LEMMA InterfacesAddUp ==
  ASSUME OfficeOK, TrafficOK, State, NEW s, NEW p, NEW g
  PROVE  DownOf(In(g, Measured(s, p))) = TotalOf([r \in In(g, Filled(ByInterface(s, p))) |-> Zero(r.down)])
<1>a. PICK M, S : M = Measured(s, p) /\ S = In(g, M)
  OBVIOUS
<1>b. PICK R, key, v : /\ R = In(g, Filled(ByInterface(s, p)))
                       /\ key = [d \in S |-> RowOf(s, p, d.iface, g)] /\ v = [d \in M |-> Down(d)]
  OBVIOUS
<1>1. M \in SUBSET deltas /\ S \in SUBSET M /\ \A d \in S : d.group = g
  BY <1>a DEF Measured, In
<1>2. IsFiniteSet(S)
  <2>1. S \in SUBSET deltas
    BY <1>1
  <2> QED
    BY <2>1, MeasuredTypes, Zenon
<1>3. \A d \in S : key[d] \in R
  <2> SUFFICES ASSUME NEW d \in S PROVE RowOf(s, p, d.iface, g) \in R
    BY <1>b
  <2>1. RowOf(s, p, d.iface, g) \in Filled(ByInterface(s, p))
    BY <1>1, <1>a, RowOfDelta
  <2>2. RowOf(s, p, d.iface, g).group = g
    BY DEF RowOf
  <2> QED
    BY <2>1, <2>2, <1>b DEF In
<1>4. \A r \in R : r = RowOf(s, p, r.iface, g) /\ r.down # {}
  <2> SUFFICES ASSUME NEW r \in R PROVE r = RowOf(s, p, r.iface, g) /\ r.down # {}
    OBVIOUS
  <2>1. r \in ByInterface(s, p) /\ r.group = g /\ r.down # {}
    BY <1>b DEF In, Filled
  <2>2. PICK i \in Interfaces, h \in {d.group : d \in Measured(s, p)} : r = RowOf(s, p, i, h)
    BY <2>1, RowsOfInterfaces
  <2>3. r.iface = i /\ r.group = h
    BY <2>2 DEF RowOf
  <2> QED
    BY <2>1, <2>2, <2>3
<1>5. \A r \in R : Keyed(S, key, r) = {d \in In(g, Measured(s, p)) : d.iface = r.iface}
  <2> SUFFICES ASSUME NEW r \in R, NEW d \in S PROVE key[d] = r <=> d.iface = r.iface
    BY <1>a DEF Keyed
  <2>1. key[d] = RowOf(s, p, d.iface, g)
    BY <1>b
  <2>2. key[d].iface = d.iface
    BY <2>1 DEF RowOf
  <2> QED
    BY <2>1, <2>2, <1>4
<1>6. \A r \in R : r.down = DownOf(Keyed(S, key, r)) /\ Keyed(S, key, r) # {}
  <2> SUFFICES ASSUME NEW r \in R PROVE r.down = DownOf(Keyed(S, key, r)) /\ Keyed(S, key, r) # {}
    OBVIOUS
  <2>1. r.down = DownOf(Keyed(S, key, r))
    <3>1. RowOf(s, p, r.iface, g).down = DownOf({d \in In(g, Measured(s, p)) : d.iface = r.iface})
      BY DEF RowOf
    <3> QED
      BY <1>4, <1>5, <3>1
  <2> QED
    BY <2>1, <1>4, NullWhereNone
<1>7. R = {key[d] : d \in S}
  <2>1. ASSUME NEW r \in R PROVE \E d \in S : key[d] = r
    <3>1. PICK d : d \in Keyed(S, key, r)
      BY <1>6
    <3> QED
      BY <3>1 DEF Keyed
  <2> QED
    BY <1>3, <2>1
<1>8. HasKeys(S, key, R)
  <2>1. IsFiniteSet(R)
    BY <1>2, <1>7, ImageFinite
  <2> QED
    BY <1>2, <1>3, <2>1 DEF HasKeys
<1>c. PICK f : f = [r \in R |-> Zero(r.down)]
  OBVIOUS
<1>9. \A T \in SUBSET S : Weighs(DownOf(T), Total(v, T)) /\ Total(v, T) \in Nat
  <2>1. \A T \in SUBSET S : T \in SUBSET M
    BY <1>1
  <2> QED
    BY <1>1, <1>b, <2>1, ZoneWeighs
<1>10. Shares(f, v, S, key, R)
  <2> SUFFICES ASSUME NEW r \in R PROVE Zero(r.down) = Total(v, Keyed(S, key, r))
    BY <1>c DEF Shares
  <2>1. Keyed(S, key, r) \in SUBSET S
    BY DEF Keyed
  <2> QED
    BY <1>6, <1>9, <2>1 DEF Weighs
<1>11. Integral(v, S)
  <2> SUFFICES ASSUME NEW d \in S PROVE Down(d) \in Int
    BY <1>1, <1>b DEF Integral
  <2>1. d \in M /\ Down(d) \in Nat
    BY <1>1, MeasuredTypes, Zenon
  <2> QED
    BY <2>1
<1>12. Total(v, S) = Total(f, R)
  BY <1>8, <1>10, <1>11, TotalOfShares
<1>13. S = {} <=> R = {}
  BY <1>7
<1>14. CASE S = {}
  <2>1. DownOf(S) = {}
    BY <1>14, NullWhereNone
  <2>2. TotalOf(f) = {}
    BY <1>14, <1>13, <1>c DEF TotalOf
  <2> QED
    BY <2>1, <2>2, <1>a, <1>b, <1>c
<1>15. CASE S # {}
  <2>1. TotalOf(f) = {Total(f, R)}
    BY <1>15, <1>13, <1>c, SumIsTotal DEF TotalOf
  <2>2. \E n : DownOf(S) = {n}
    BY <1>15 DEF DownOf, TotalOf
  <2>3. DownOf(S) = {Total(v, S)}
    BY <2>2, <1>9 DEF Weighs
  <2> QED
    BY <2>1, <2>3, <1>12, <1>a, <1>b, <1>c
<1> QED
  BY <1>14, <1>15

\* A zone is the sum of its points in time.
LEMMA MomentsAddUp ==
  ASSUME OfficeOK, TrafficOK, State, NEW s, NEW p, NEW g \in Zones
  PROVE  Zero(UpOf(In(g, Measured(s, p)))) =
           SumFunction([t \in DOMAIN Timeseries(s, p) |-> Zero(Timeseries(s, p)[t][g].up)])
<1>a. PICK M, S : M = Measured(s, p) /\ S = In(g, M)
  OBVIOUS
<1>b. PICK K, key, v : /\ K = {d.packet.at : d \in M} /\ key = [d \in M |-> d.packet.at]
                       /\ v = [d \in M |-> Up(d)]
  OBVIOUS
<1>c. PICK f : f = [t \in K |-> Zero(Timeseries(s, p)[t][g].up)]
  OBVIOUS
<1>1. M \in SUBSET deltas /\ S \in SUBSET M
  BY <1>a DEF Measured, In
<1>2. IsFiniteSet(S) /\ IsFiniteSet(M)
  <2>1. S \in SUBSET deltas
    BY <1>1
  <2> QED
    BY <1>1, <2>1, MeasuredTypes, Zenon
<1>3. HasKeys(S, key, K)
  <2>1. K = {key[d] : d \in M}
    BY <1>b
  <2>2. IsFiniteSet(K)
    BY <1>2, <2>1, ImageFinite
  <2>3. \A d \in S : key[d] \in K
    BY <1>1, <1>b
  <2> QED
    BY <1>2, <2>2, <2>3 DEF HasKeys
<1>4. \A T \in SUBSET M : Weighs(UpOf(T), Total(v, T)) /\ Total(v, T) \in Nat
  BY <1>1, <1>b, ZoneWeighs
<1>5. DOMAIN Timeseries(s, p) = K
  BY <1>a, <1>b DEF Timeseries
<1>6. Shares(f, v, S, key, K)
  <2> SUFFICES ASSUME NEW t \in K PROVE Zero(Timeseries(s, p)[t][g].up) = Total(v, Keyed(S, key, t))
    BY <1>c DEF Shares
  <2>1. Keyed(S, key, t) \in SUBSET M
    BY <1>1 DEF Keyed
  <2>2. Keyed(S, key, t) = {d \in In(g, Measured(s, p)) : d.packet.at = t}
    BY <1>1, <1>a, <1>b DEF Keyed
  <2>3. Timeseries(s, p)[t][g].up = UpOf({d \in In(g, Measured(s, p)) : d.packet.at = t})
    BY <1>a, <1>b DEF Timeseries
  <2> QED
    BY <1>4, <2>1, <2>2, <2>3 DEF Weighs
<1>7. Integral(v, S)
  <2> SUFFICES ASSUME NEW d \in S PROVE Up(d) \in Int
    BY <1>1, <1>b DEF Integral
  <2>1. d \in M /\ Up(d) \in Nat
    BY <1>1, MeasuredTypes, Zenon
  <2> QED
    BY <2>1
<1>8. Total(v, S) = Total(f, K)
  BY <1>3, <1>6, <1>7, TotalOfShares
<1>9. SumFunction(f) = Total(f, K)
  BY <1>c, SumIsTotal
<1>10. Zero(UpOf(S)) = Total(v, S)
  BY <1>1, <1>4 DEF Weighs
<1> QED
  BY <1>5, <1>8, <1>9, <1>10, <1>a, <1>c

-----------------------------------------------------------------------------
(* The crew.                                                               *)

\* A number that is not negative, or none.
LEMMA ZeroIsNumber ==
  ASSUME NEW x \in SUBSET Nat
  PROVE  Zero(x) \in Nat
<1>1. CASE x = {}
  BY <1>1 DEF Zero
<1>2. CASE x # {}
  <2>1. (CHOOSE n \in x : TRUE) \in x
    BY <1>2
  <2> QED
    BY <1>2, <2>1 DEF Zero
<1> QED
  BY <1>1, <1>2

LEMMA ZeroOfNone == \A x : x = {} => Zero(x) = 0
BY DEF Zero

\* A sum that leaves out what is null counts it as nought.
LEMMA TotalOfGiven ==
  ASSUME NEW T, IsFiniteSet(T), NEW v, \A r \in T : v[r] \in Nat, NEW G \in SUBSET T, \A r \in T \ G : v[r] = 0
  PROVE  Zero(TotalOf([r \in G |-> v[r]])) = Total(v, T)
<1>a. PICK f : f = [r \in G |-> v[r]]
  OBVIOUS
<1>1. IsFiniteSet(G)
  BY FS_Subset
<1>2. Weighs(TotalOf(f), Total(f, G))
  BY <1>a, TotalWeighs
<1>3. \A r \in G : f[r] = v[r]
  BY <1>a
<1>4. Total(f, G) = Total(v, G)
  BY <1>1, <1>3, TotalAgrees
<1>5. \A r \in T : v[r] \in Int
  OBVIOUS
<1>6. Total(v, G) = Total(v, T)
  BY <1>5, TotalOfOthers
<1> QED
  BY <1>2, <1>4, <1>6, <1>a DEF Weighs

\* What some sessions have had in each direction.
LEMMA SessionBytes ==
  ASSUME OfficeOK, TrafficOK, State, NEW T \in SUBSET sessions, NEW v
  PROVE  /\ IsFiniteSet(T)
         /\ v = [r \in sessions |-> Zero(r.down)] => Zero(UserDown(T)) = Total(v, T) /\ \A r \in T : v[r] \in Nat
         /\ v = [r \in sessions |-> Zero(r.up)] => Zero(UserUp(T)) = Total(v, T) /\ \A r \in T : v[r] \in Nat
<1>1. IsFiniteSet(T)
  BY FS_Subset DEF State, TrafficTypeOK
<1>2. \A r \in T : r.down \in SUBSET Nat /\ r.up \in SUBSET Nat
  BY DEF State, TrafficTypeOK
<1>3. \A r \in T : Zero(r.down) \in Nat /\ Zero(r.up) \in Nat
  BY <1>2, ZeroIsNumber
<1>4. ASSUME v = [r \in sessions |-> Zero(r.down)]
      PROVE  Zero(UserDown(T)) = Total(v, T) /\ \A r \in T : v[r] \in Nat
  <2>a. PICK G : G = {r \in T : r.down # {}}
    OBVIOUS
  <2>b. \A r \in T \ G : r.down = {}
    BY <2>a
  <2>1. \A r \in T : v[r] = Zero(r.down)
    BY <1>4
  <2>2. G \in SUBSET T /\ (\A r \in T : v[r] \in Nat) /\ \A r \in T \ G : v[r] = 0
    <3>1. G \in SUBSET T /\ \A r \in T : v[r] \in Nat
      BY <1>3, <2>1, <2>a
    <3>2. \A r \in T \ G : v[r] = 0
      BY <2>1, <2>b, ZeroOfNone
    <3> QED
      BY <3>1, <3>2
  <2>3. [r \in G |-> Zero(r.down)] = [r \in G |-> v[r]]
    BY <2>1, <2>2
  <2>4. UserDown(T) = TotalOf([r \in G |-> v[r]])
    BY <2>3, <2>a DEF UserDown
  <2>5. Zero(TotalOf([r \in G |-> v[r]])) = Total(v, T)
    BY <1>1, <2>2, TotalOfGiven
  <2> QED
    BY <2>2, <2>4, <2>5
<1>5. ASSUME v = [r \in sessions |-> Zero(r.up)]
      PROVE  Zero(UserUp(T)) = Total(v, T) /\ \A r \in T : v[r] \in Nat
  <2>a. PICK G : G = {r \in T : r.up # {}}
    OBVIOUS
  <2>b. \A r \in T \ G : r.up = {}
    BY <2>a
  <2>1. \A r \in T : v[r] = Zero(r.up)
    BY <1>5
  <2>2. G \in SUBSET T /\ (\A r \in T : v[r] \in Nat) /\ \A r \in T \ G : v[r] = 0
    <3>1. G \in SUBSET T /\ \A r \in T : v[r] \in Nat
      BY <1>3, <2>1, <2>a
    <3>2. \A r \in T \ G : v[r] = 0
      BY <2>1, <2>b, ZeroOfNone
    <3> QED
      BY <3>1, <3>2
  <2>3. [r \in G |-> Zero(r.up)] = [r \in G |-> v[r]]
    BY <2>1, <2>2
  <2>4. UserUp(T) = TotalOf([r \in G |-> v[r]])
    BY <2>3, <2>a DEF UserUp
  <2>5. Zero(TotalOf([r \in G |-> v[r]])) = Total(v, T)
    BY <1>1, <2>2, TotalOfGiven
  <2> QED
    BY <2>2, <2>4, <2>5
<1> QED
  BY <1>1, <1>4, <1>5

\* Users who have all the sessions of a ship between them have had what it has had.
DownOfUser(u, s, p) == Zero(UserDown(SessionsOf(u, s, p)))
UpOfUser(u, s, p) == Zero(UserUp(SessionsOf(u, s, p)))

LEMMA UserBytes ==
  ASSUME OfficeOK, TrafficOK, State, NEW s, NEW p, NEW K, IsFiniteSet(K),
         \A r \in SessionsIn(s, p) : r.user \in K,
         NEW down, \A u \in K : down[u] = DownOfUser(u, s, p),
         NEW up, \A u \in K : up[u] = UpOfUser(u, s, p)
  PROVE  /\ Total(down, K) = Zero(UserDown(SessionsIn(s, p))) /\ Total(up, K) = Zero(UserUp(SessionsIn(s, p)))
         /\ \A u \in K : down[u] \in Nat /\ up[u] \in Nat
<1>a. PICK S, key, v, w : /\ S = SessionsIn(s, p) /\ key = [r \in sessions |-> r.user]
                          /\ v = [r \in sessions |-> Zero(r.down)] /\ w = [r \in sessions |-> Zero(r.up)]
  OBVIOUS
<1>1. S \in SUBSET sessions
  BY <1>a DEF SessionsIn
<1>2. \A T \in SUBSET S : /\ IsFiniteSet(T)
                          /\ Zero(UserDown(T)) = Total(v, T) /\ (\A r \in T : v[r] \in Nat)
                          /\ Zero(UserUp(T)) = Total(w, T) /\ (\A r \in T : w[r] \in Nat)
  <2> SUFFICES ASSUME NEW T \in SUBSET S
               PROVE  /\ IsFiniteSet(T)
                      /\ Zero(UserDown(T)) = Total(v, T) /\ (\A r \in T : v[r] \in Nat)
                      /\ Zero(UserUp(T)) = Total(w, T) /\ (\A r \in T : w[r] \in Nat)
    OBVIOUS
  <2>1. T \in SUBSET sessions
    BY <1>1
  <2> QED
    BY <1>a, <2>1, SessionBytes
<1>3. HasKeys(S, key, K)
  <2>1. \A r \in S : key[r] \in K
    BY <1>1, <1>a
  <2>2. IsFiniteSet(S)
    BY <1>2
  <2> QED
    BY <2>1, <2>2 DEF HasKeys
<1>4. \A u \in K : Keyed(S, key, u) = SessionsOf(u, s, p) /\ SessionsOf(u, s, p) \in SUBSET S
  BY <1>1, <1>a DEF Keyed, SessionsOf
<1>5. Shares(down, v, S, key, K) /\ Shares(up, w, S, key, K)
  <2> SUFFICES ASSUME NEW u \in K
               PROVE  down[u] = Total(v, Keyed(S, key, u)) /\ up[u] = Total(w, Keyed(S, key, u))
    BY DEF Shares
  <2> QED
    BY <1>2, <1>4 DEF DownOfUser, UpOfUser
<1>6. Integral(v, S) /\ Integral(w, S)
  <2>1. (\A r \in S : v[r] \in Nat) /\ \A r \in S : w[r] \in Nat
    BY <1>2
  <2> QED
    BY <2>1 DEF Integral
<1>7. Total(v, S) = Total(down, K) /\ Total(w, S) = Total(up, K)
  BY <1>3, <1>5, <1>6, TotalOfShares
<1>8. Zero(UserDown(S)) = Total(v, S) /\ Zero(UserUp(S)) = Total(w, S)
  BY <1>2
<1>9. ASSUME NEW u \in K PROVE down[u] \in Nat /\ up[u] \in Nat
  <2>a. PICK T : T = SessionsOf(u, s, p)
    OBVIOUS
  <2>1. T \in SUBSET S /\ down[u] = Zero(UserDown(T)) /\ up[u] = Zero(UserUp(T))
    BY <1>4, <2>a DEF DownOfUser, UpOfUser
  <2>2. /\ IsFiniteSet(T) /\ (\A r \in T : v[r] \in Nat) /\ (\A r \in T : w[r] \in Nat)
        /\ down[u] = Total(v, T) /\ up[u] = Total(w, T)
    BY <1>2, <2>1
  <2>3. (\A r \in T : v[r] \in Int) /\ \A r \in T : w[r] \in Int
    BY <2>2
  <2> QED
    BY <2>2, <2>3, TotalIsInt
<1> QED
  BY <1>7, <1>8, <1>9, <1>a

\* The users of a ship: finitely many, all who have sessions, and none that is no user.
LEMMA CrewIsWhole ==
  ASSUME OfficeOK, TrafficOK, State, NEW s, NEW p
  PROVE  /\ IsFiniteSet(DOMAIN CrewUsers(s, p)) /\ IsFiniteSet({r.user : r \in SessionsIn(s, p)})
         /\ (\A r \in SessionsIn(s, p) : r.user \in DOMAIN CrewUsers(s, p))
         /\ None \notin DOMAIN CrewUsers(s, p)
<1>a. PICK S, H, U, V : /\ S = SessionsIn(s, p) /\ H = HeldBy("nas", s)
                        /\ U = {r.user : r \in S} /\ V = {r[2] : r \in H}
  OBVIOUS
<1>1. DOMAIN CrewUsers(s, p) = U \union V
  BY <1>a DEF CrewUsers
<1>2. S \in SUBSET sessions /\ H \subseteq Of("subscriber")
  BY <1>a, HeldRows DEF SessionsIn
<1>3. IsFiniteSet(S) /\ IsFiniteSet(H)
  <2>1. IsFiniteSet(S)
    BY <1>2, FS_Subset DEF State, TrafficTypeOK
  <2>2. IsFiniteSet(H)
    BY <1>2, KindsFinite, FS_Subset
  <2> QED
    BY <2>1, <2>2
<1>4. IsFiniteSet(U) /\ IsFiniteSet(V)
  <2>a. PICK f, g : f = [r \in S |-> r.user] /\ g = [r \in H |-> r[2]]
    OBVIOUS
  <2>1. U = {f[r] : r \in S} /\ V = {g[r] : r \in H}
    BY <1>a, <2>a
  <2> QED
    BY <1>3, <2>1, ImageFinite
<1>5. IsFiniteSet(U \union V)
  BY <1>4, FS_Union, Zenon
<1>6. U \subseteq Users
  BY <1>2, <1>a DEF State, TrafficTypeOK
<1>7. V \subseteq Subscribers
  <2>1. \A r \in H : r[2] \in Subscribers
    BY <1>2, SubscriberRows, Zenon
  <2> QED
    BY <1>a, <2>1
<1>8. None \notin U \union V
  BY <1>6, <1>7 DEF TrafficOK
<1> QED
  BY <1>1, <1>4, <1>5, <1>8, <1>a

\* A sum is no greater if no number is.
LEMMA TotalAtMost ==
  ASSUME NEW S, IsFiniteSet(S), NEW w, NEW v, \A x \in S : w[x] \in Nat /\ v[x] \in Nat /\ w[x] <= v[x]
  PROVE  Total(w, S) <= Total(v, S) /\ Total(w, S) \in Nat /\ Total(v, S) \in Nat
<1>a. PICK d : d = [x \in S |-> v[x] - w[x]]
  OBVIOUS
<1>1. \A x \in S : d[x] \in Nat /\ w[x] \in Int /\ d[x] \in Int /\ v[x] \in Int /\ v[x] = w[x] + d[x]
  <2> SUFFICES ASSUME NEW x \in S
               PROVE  d[x] \in Nat /\ w[x] \in Int /\ d[x] \in Int /\ v[x] \in Int /\ v[x] = w[x] + d[x]
    OBVIOUS
  <2>1. d[x] = v[x] - w[x] /\ w[x] \in Nat /\ v[x] \in Nat /\ w[x] <= v[x]
    BY <1>a
  <2> QED
    BY <2>1
<1>2. Total(v, S) = Total(w, S) + Total(d, S)
  BY <1>1, TotalPlus
<1>3. Total(d, S) \in Nat /\ Total(w, S) \in Nat /\ Total(v, S) \in Nat
  BY <1>1, TotalIsInt
<1> QED
  BY <1>2, <1>3

\* The total of a user: what is billed, or nothing where one direction is null.
LEMMA TotalOfUser ==
  ASSUME NEW s, NEW p, NEW u \in DOMAIN CrewUsers(s, p), DownOfUser(u, s, p) \in Nat, UpOfUser(u, s, p) \in Nat
  PROVE  /\ Zero(CrewUsers(s, p)[u].down) = DownOfUser(u, s, p)
         /\ Zero(CrewUsers(s, p)[u].up) = UpOfUser(u, s, p)
         /\ Zero(CrewUsers(s, p)[u].total) \in {0, UpOfUser(u, s, p) + DownOfUser(u, s, p)}
         /\ (CrewUsers(s, p)[u].up = {} <=> CrewUsers(s, p)[u].down = {}) =>
              Zero(CrewUsers(s, p)[u].total) = UpOfUser(u, s, p) + DownOfUser(u, s, p)
<1>a. PICK x, y : x = UserUp(SessionsOf(u, s, p)) /\ y = UserDown(SessionsOf(u, s, p))
  OBVIOUS
<1>b. PICK t : t = CrewUsers(s, p)[u].total
  OBVIOUS
<1>1. CrewUsers(s, p)[u].up = x /\ CrewUsers(s, p)[u].down = y /\ CrewUsers(s, p)[u].total = t
  BY <1>a, <1>b DEF CrewUsers
<1>c. t = {m + n : m \in x, n \in y}
  BY <1>a, <1>b DEF CrewUsers
<1>2. \A f : TotalOf(f) = {} \/ \E n : TotalOf(f) = {n}
  BY DEF TotalOf
<1>3. (x = {} \/ \E n : x = {n}) /\ (y = {} \/ \E n : y = {n})
  BY <1>2, <1>a DEF UserUp, UserDown
<1>4. UpOfUser(u, s, p) = Zero(x) /\ DownOfUser(u, s, p) = Zero(y)
  BY <1>a DEF UpOfUser, DownOfUser
<1>5. CASE x = {} \/ y = {}
  <2>1. t = {} /\ Zero(t) = 0
    BY <1>5, <1>c DEF Zero
  <2>2. (x = {} <=> y = {}) => Zero(x) + Zero(y) = 0
    BY <1>5 DEF Zero
  <2> QED
    BY <1>1, <1>4, <2>1, <2>2
<1>6. CASE x # {} /\ y # {}
  <2>1. PICK m, n : x = {m} /\ y = {n}
    BY <1>3, <1>6
  <2>2. t = {m + n}
    BY <1>c, <2>1
  <2>3. Zero(x) = m /\ Zero(y) = n /\ Zero(t) = m + n
    BY <2>1, <2>2, NumberWeighs DEF Weighs
  <2> QED
    BY <1>1, <1>4, <2>3
<1> QED
  BY <1>5, <1>6

\* The crew has had what the summary says, and is billed that.
LEMMA CrewHolds ==
  ASSUME OfficeOK, TrafficOK, State
  PROVE  CrewAgrees
<1> SUFFICES ASSUME NEW s \in Sailing, NEW p \in Periods
             PROVE  /\ SumFunction([u \in DOMAIN CrewUsers(s, p) |-> Zero(CrewUsers(s, p)[u].down)]) = Zero(Summary(s, p).user.down)
                    /\ SumFunction([u \in DOMAIN CrewUsers(s, p) |-> Zero(CrewUsers(s, p)[u].up)]) = Zero(Summary(s, p).user.up)
                    /\ Billing(s, p).billed = Zero(Summary(s, p).user.up) + Zero(Summary(s, p).user.down)
                    /\ SumFunction([u \in DOMAIN CrewUsers(s, p) |-> Zero(CrewUsers(s, p)[u].total)]) <= Billing(s, p).billed
                    /\ (\A u \in DOMAIN CrewUsers(s, p) : CrewUsers(s, p)[u].up = {} <=> CrewUsers(s, p)[u].down = {}) =>
                         SumFunction([u \in DOMAIN CrewUsers(s, p) |-> Zero(CrewUsers(s, p)[u].total)]) = Billing(s, p).billed
  BY DEF CrewAgrees
<1>e. PICK crew, user, billed, totals :
        /\ crew = CrewUsers(s, p) /\ user = Summary(s, p).user /\ billed = Billing(s, p).billed
        /\ totals = SumFunction([u \in DOMAIN crew |-> Zero(crew[u].total)])
  OBVIOUS
<1>a. PICK K, N : K = DOMAIN crew /\ N = {r.user : r \in SessionsIn(s, p)}
  OBVIOUS
<1>b. PICK down, up, both, total :
        /\ down = [u \in K |-> Zero(crew[u].down)] /\ up = [u \in K |-> Zero(crew[u].up)]
        /\ both = [u \in K |-> UpOfUser(u, s, p) + DownOfUser(u, s, p)]
        /\ total = [u \in K |-> Zero(crew[u].total)]
  OBVIOUS
<1>c. PICK ours, yours, bills :
        /\ ours = [u \in K \union N |-> DownOfUser(u, s, p)] /\ yours = [u \in K \union N |-> UpOfUser(u, s, p)]
        /\ bills = [u \in N |-> UpOfUser(u, s, p) + DownOfUser(u, s, p)]
  OBVIOUS
<1>1. IsFiniteSet(K) /\ IsFiniteSet(N) /\ \A r \in SessionsIn(s, p) : r.user \in K
  BY <1>a, <1>e, CrewIsWhole
<1>2. \A r \in SessionsIn(s, p) : r.user \in N
  BY <1>a
<1>d. PICK D, U : D = Zero(UserDown(SessionsIn(s, p))) /\ U = Zero(UserUp(SessionsIn(s, p)))
  OBVIOUS
<1>3. Zero(user.down) = D /\ Zero(user.up) = U
  BY <1>d, <1>e DEF Summary
<1>4. /\ Total(ours, K) = D /\ Total(yours, K) = U
      /\ \A u \in K : ours[u] \in Nat /\ yours[u] \in Nat
  BY <1>1, <1>c, <1>d, UserBytes
<1>5. /\ Total(ours, N) = D /\ Total(yours, N) = U
      /\ \A u \in N : ours[u] \in Nat /\ yours[u] \in Nat
  BY <1>1, <1>2, <1>c, <1>d, UserBytes
<1>6. \A u \in K : /\ down[u] = ours[u] /\ up[u] = yours[u] /\ both[u] = yours[u] + ours[u]
                   /\ total[u] \in {0, both[u]}
                   /\ (crew[u].up = {} <=> crew[u].down = {}) => total[u] = both[u]
  <2> SUFFICES ASSUME NEW u \in K
               PROVE  /\ down[u] = ours[u] /\ up[u] = yours[u] /\ both[u] = yours[u] + ours[u]
                      /\ total[u] \in {0, both[u]}
                      /\ (crew[u].up = {} <=> crew[u].down = {}) => total[u] = both[u]
    OBVIOUS
  <2>1. ours[u] = DownOfUser(u, s, p) /\ yours[u] = UpOfUser(u, s, p)
    BY <1>c
  <2>2. DownOfUser(u, s, p) \in Nat /\ UpOfUser(u, s, p) \in Nat /\ u \in DOMAIN CrewUsers(s, p)
    BY <1>4, <1>a, <1>e, <2>1
  <2>3. /\ Zero(crew[u].down) = DownOfUser(u, s, p)
        /\ Zero(crew[u].up) = UpOfUser(u, s, p)
        /\ Zero(crew[u].total) \in {0, UpOfUser(u, s, p) + DownOfUser(u, s, p)}
        /\ (crew[u].up = {} <=> crew[u].down = {}) =>
              Zero(crew[u].total) = UpOfUser(u, s, p) + DownOfUser(u, s, p)
    BY <1>e, <2>2, TotalOfUser
  <2> QED
    BY <1>b, <2>1, <2>3
<1>7. Total(down, K) = D /\ Total(up, K) = U
  <2>1. (\A u \in K : down[u] = ours[u]) /\ \A u \in K : up[u] = yours[u]
    BY <1>6
  <2> QED
    BY <1>1, <1>4, <2>1, TotalAgrees
<1>8. Total(both, K) = U + D
  <2>1. \A u \in K : yours[u] \in Int /\ ours[u] \in Int /\ both[u] = yours[u] + ours[u]
    BY <1>4, <1>6
  <2>2. Total(both, K) = Total(yours, K) + Total(ours, K)
    BY <1>1, <2>1, TotalPlus
  <2> QED
    BY <1>4, <2>2
<1>9. Total(bills, N) = U + D
  <2>1. \A u \in N : yours[u] \in Int /\ ours[u] \in Int /\ bills[u] = yours[u] + ours[u]
    BY <1>5, <1>c
  <2>2. Total(bills, N) = Total(yours, N) + Total(ours, N)
    BY <1>1, <2>1, TotalPlus
  <2> QED
    BY <1>5, <2>2
<1>10. billed = Total(bills, N)
  <2>1. billed = SumFunction(bills)
    BY <1>a, <1>c, <1>e DEF Billing, UpOfUser, DownOfUser
  <2>2. SumFunction(bills) = Total(bills, N)
    BY <1>c, SumIsTotal
  <2> QED
    BY <2>1, <2>2
<1>11. totals = Total(total, K)
  <2>1. SumFunction(total) = Total(total, K)
    BY <1>b, SumIsTotal
  <2> QED
    BY <1>a, <1>b, <1>e, <2>1
<1>12. Total(total, K) <= Total(both, K)
  <2>1. \A u \in K : total[u] \in Nat /\ both[u] \in Nat /\ total[u] <= both[u]
    <3> SUFFICES ASSUME NEW u \in K PROVE total[u] \in Nat /\ both[u] \in Nat /\ total[u] <= both[u]
      OBVIOUS
    <3>1. ours[u] \in Nat /\ yours[u] \in Nat /\ both[u] = yours[u] + ours[u] /\ total[u] \in {0, both[u]}
      BY <1>4, <1>6
    <3> QED
      BY <3>1
  <2> QED
    BY <1>1, <2>1, TotalAtMost
<1>13. ASSUME \A u \in DOMAIN crew : crew[u].up = {} <=> crew[u].down = {}
       PROVE  Total(total, K) = Total(both, K)
  <2>1. \A u \in K : total[u] = both[u]
    BY <1>6, <1>13, <1>a
  <2> QED
    BY <1>1, <2>1, TotalAgrees
<1>14. SumFunction(down) = Total(down, K) /\ SumFunction(up) = Total(up, K)
  BY <1>b, SumIsTotal
<1>15. /\ SumFunction([u \in DOMAIN crew |-> Zero(crew[u].down)]) = D
       /\ SumFunction([u \in DOMAIN crew |-> Zero(crew[u].up)]) = U
  BY <1>7, <1>14, <1>a, <1>b
<1>16. billed = U + D /\ totals <= billed
  BY <1>8, <1>9, <1>10, <1>11, <1>12
<1>17. (\A u \in DOMAIN crew : crew[u].up = {} <=> crew[u].down = {}) => totals = billed
  BY <1>8, <1>9, <1>10, <1>11, <1>13
<1> QED
  BY <1>3, <1>15, <1>16, <1>17, <1>e

\* The names of some flows, all of them shown, have the bytes of the flows.
LEMMA NamesAddUp ==
  ASSUME OfficeOK, TrafficOK, State, NEW G \in SUBSET flows, Cardinality({f.name : f \in G}) <= ShownDomains
  PROVE  SumFunction(DomainUsage(G)) = FlowBytes(G)
<1>a. PICK M, b, key : M = {f.name : f \in G} /\ b = [f \in flows |-> f.bytes] /\ key = [f \in flows |-> f.name]
  OBVIOUS
<1>b. PICK d : d = [n \in M |-> FlowBytes({f \in G : f.name = n})]
  OBVIOUS
<1>1. DomainUsage(G) = d
  <2>1. DomainUsage(G) = Restrict(d, M)
    BY <1>a, <1>b DEF DomainUsage
  <2>2. Restrict(d, M) = d
    BY <1>b DEF Restrict
  <2> QED
    BY <2>1, <2>2
<1>2. \A T \in SUBSET G : IsFiniteSet(T) /\ (\A f \in T : b[f] \in Nat) /\ FlowBytes(T) = Total(b, T)
  <2> SUFFICES ASSUME NEW T \in SUBSET G
               PROVE  IsFiniteSet(T) /\ (\A f \in T : b[f] \in Nat) /\ FlowBytes(T) = Total(b, T)
    OBVIOUS
  <2>1. T \in SUBSET flows
    OBVIOUS
  <2> QED
    BY <1>a, <2>1, BytesAreTotal
<1>3. HasKeys(G, key, M)
  <2>1. M = {key[f] : f \in G}
    BY <1>a
  <2>2. IsFiniteSet(G)
    BY <1>2
  <2>3. IsFiniteSet(M)
    BY <2>1, <2>2, ImageFinite
  <2> QED
    BY <2>1, <2>2, <2>3 DEF HasKeys
<1>4. Shares(d, b, G, key, M)
  <2> SUFFICES ASSUME NEW n \in M PROVE d[n] = Total(b, Keyed(G, key, n))
    BY DEF Shares
  <2>1. Keyed(G, key, n) = {f \in G : f.name = n} /\ Keyed(G, key, n) \in SUBSET G
    BY <1>a DEF Keyed
  <2> QED
    BY <1>2, <1>b, <2>1
<1>5. Integral(b, G)
  <2>1. \A f \in G : b[f] \in Nat
    BY <1>2
  <2> QED
    BY <2>1 DEF Integral
<1>6. Total(b, G) = Total(d, M)
  BY <1>3, <1>4, <1>5, TotalOfShares
<1>7. SumFunction(d) = Total(d, M)
  BY <1>b, SumIsTotal
<1> QED
  BY <1>1, <1>2, <1>6, <1>7

\* What users have had of services is part of what the ship has had of them, and of
\* what any of its users has had.
LEMMA ServicesArePart ==
  ASSUME OfficeOK, TrafficOK, State, NEW s, NEW p, NEW C, C = CrewUsers(s, p),
         NEW v, v = [u \in DOMAIN C |-> C[u].services]
  PROVE  /\ SumFunction(v) <= FlowsSummary(s, p).byApp.service
         /\ SumFunction(v) <= Billing(s, p).netflow
<1>a. PICK K, F, A, O, Q : /\ K = DOMAIN C /\ F = FlowsIn(s, p)
                           /\ A = {f \in F : f.name \in Catalogue /\ f.user \in K}
                           /\ O = {f \in Named(F) : f.name \in Catalogue} /\ Q = {f \in F : f.user # None}
  OBVIOUS
<1>b. PICK b, key : b = [f \in flows |-> f.bytes] /\ key = [f \in flows |-> f.user]
  OBVIOUS
<1>1. IsFiniteSet(K) /\ None \notin K
  BY <1>a, CrewIsWhole
<1>2. F \in SUBSET flows /\ O \in SUBSET flows /\ Q \in SUBSET flows
  BY <1>a DEF FlowsIn, Named
<1>3. A \in SUBSET O /\ A \in SUBSET Q /\ A \in SUBSET flows
  BY <1>1, <1>2, <1>a DEF Named, TrafficOK
<1>4. \A T \in SUBSET A : IsFiniteSet(T) /\ (\A f \in T : b[f] \in Nat) /\ FlowBytes(T) = Total(b, T)
  <2> SUFFICES ASSUME NEW T \in SUBSET A
               PROVE  IsFiniteSet(T) /\ (\A f \in T : b[f] \in Nat) /\ FlowBytes(T) = Total(b, T)
    OBVIOUS
  <2>1. T \in SUBSET flows
    BY <1>3
  <2> QED
    BY <1>b, <2>1, BytesAreTotal
<1>5. HasKeys(A, key, K)
  <2>1. \A f \in A : key[f] \in K
    BY <1>3, <1>a, <1>b
  <2> QED
    BY <1>1, <1>4, <2>1 DEF HasKeys
<1>6. Shares(v, b, A, key, K)
  <2> SUFFICES ASSUME NEW u \in K PROVE v[u] = Total(b, Keyed(A, key, u))
    BY DEF Shares
  <2>1. Keyed(A, key, u) = {f \in FlowsOf(u, s, p) : f.name \in Catalogue} /\ Keyed(A, key, u) \in SUBSET A
    BY <1>3, <1>a, <1>b DEF Keyed, FlowsOf
  <2>2. C[u].services = FlowBytes({f \in FlowsOf(u, s, p) : f.name \in Catalogue})
    BY <1>a DEF CrewUsers
  <2> QED
    BY <1>4, <1>a, <2>1, <2>2
<1>7. Integral(b, A)
  <2>1. \A f \in A : b[f] \in Nat
    BY <1>4
  <2> QED
    BY <2>1 DEF Integral
<1>8. Total(b, A) = Total(v, K)
  BY <1>5, <1>6, <1>7, TotalOfShares
<1>9. SumFunction(v) = Total(v, K)
  BY <1>a, SumIsTotal
<1>10. SumFunction(v) = FlowBytes(A)
  BY <1>4, <1>8, <1>9
<1>11. FlowBytes(A) <= FlowBytes(O) /\ FlowBytes(A) <= FlowBytes(Q)
  BY <1>2, <1>3, BytesAreTotal
<1>12. FlowsSummary(s, p).byApp.service = FlowBytes(O) /\ Billing(s, p).netflow = FlowBytes(Q)
  BY <1>a DEF FlowsSummary, Billing
<1> QED
  BY <1>10, <1>11, <1>12

\* The reports of flows agree.
LEMMA FlowsHold ==
  ASSUME OfficeOK, TrafficOK, State
  PROVE  FlowsAgree
<1> SUFFICES ASSUME NEW s \in Sailing, NEW p \in Periods, NEW crew, crew = CrewUsers(s, p)
             PROVE  /\ SumFunction([u \in DOMAIN crew |-> crew[u].services]) <= FlowsSummary(s, p).byApp.service
                    /\ SumFunction([u \in DOMAIN crew |-> crew[u].services]) <= Billing(s, p).netflow
                    /\ \A u \in DOMAIN crew :
                         Cardinality({f.name : f \in Named(FlowsOf(u, s, p))}) <= ShownDomains
                           => crew[u].services <= SumFunction(crew[u].domains)
  BY DEF FlowsAgree
<1>1. /\ SumFunction([u \in DOMAIN crew |-> crew[u].services]) <= FlowsSummary(s, p).byApp.service
      /\ SumFunction([u \in DOMAIN crew |-> crew[u].services]) <= Billing(s, p).netflow
  BY ServicesArePart
<1>2. ASSUME NEW u \in DOMAIN crew, Cardinality({f.name : f \in Named(FlowsOf(u, s, p))}) <= ShownDomains
      PROVE  crew[u].services <= SumFunction(crew[u].domains)
  <2>a. PICK G, A : G = Named(FlowsOf(u, s, p)) /\ A = {f \in FlowsOf(u, s, p) : f.name \in Catalogue}
    OBVIOUS
  <2>1. G \in SUBSET flows /\ A \in SUBSET G
    BY <2>a DEF Named, FlowsOf, FlowsIn, TrafficOK
  <2>2. crew[u].services = FlowBytes(A) /\ crew[u].domains = DomainUsage(G)
    BY <2>a DEF CrewUsers
  <2>3. SumFunction(DomainUsage(G)) = FlowBytes(G)
    BY <1>2, <2>1, <2>a, NamesAddUp
  <2>4. FlowBytes(A) <= FlowBytes(G)
    BY <2>1, BytesAreTotal
  <2> QED
    BY <2>2, <2>3, <2>4
<1> QED
  BY <1>1, <1>2

\* The zones of a ship beside its interfaces, points and business usage.
LEMMA ZoneRows ==
  ASSUME OfficeOK, TrafficOK, State, NEW s, NEW p, NEW g \in DOMAIN ByZone(s, p)
  PROVE  /\ ByZone(s, p)[g].down = TotalOf([r \in In(g, Filled(ByInterface(s, p))) |-> Zero(r.down)])
         /\ Zero(ByZone(s, p)[g].up) =
              SumFunction([t \in DOMAIN Timeseries(s, p) |-> Zero(Timeseries(s, p)[t][g].up)])
         /\ g = "BUSINESS_ACCESS" => ByZone(s, p)[g] = BusinessUsage(s, p)
<1>1. g \in Zones /\ ByZone(s, p)[g] = SumZone(s, p, g)
  BY DEF ByZone
<1>2. /\ ByZone(s, p)[g].down = DownOf(In(g, Measured(s, p)))
      /\ ByZone(s, p)[g].up = UpOf(In(g, Measured(s, p)))
  BY <1>1, ZonesByGroup DEF ByGroup
<1>3. ByZone(s, p)[g].down = TotalOf([r \in In(g, Filled(ByInterface(s, p))) |-> Zero(r.down)])
  BY <1>2, InterfacesAddUp
<1>4. Zero(ByZone(s, p)[g].up) =
        SumFunction([t \in DOMAIN Timeseries(s, p) |-> Zero(Timeseries(s, p)[t][g].up)])
  BY <1>1, <1>2, MomentsAddUp
<1>5. g = "BUSINESS_ACCESS" => ByZone(s, p)[g] = BusinessUsage(s, p)
  BY <1>1, BusinessAgrees
<1> QED
  BY <1>3, <1>4, <1>5

\* The zones of a ship agree with its other reports.
LEMMA ZonesHold ==
  ASSUME OfficeOK, TrafficOK, State
  PROVE  ZonesAgree
<1> SUFFICES ASSUME NEW s \in Sailing, NEW p \in Periods
             PROVE  /\ Filled(ByInterface(s, p)) = {} => ByZone(s, p) = <<>>
                    /\ \A g \in DOMAIN ByZone(s, p) :
                         /\ ByZone(s, p)[g].down = TotalOf([r \in In(g, Filled(ByInterface(s, p))) |-> Zero(r.down)])
                         /\ Zero(ByZone(s, p)[g].up) =
                              SumFunction([t \in DOMAIN Timeseries(s, p) |-> Zero(Timeseries(s, p)[t][g].up)])
                         /\ g = "BUSINESS_ACCESS" => ByZone(s, p)[g] = BusinessUsage(s, p)
  BY Zenon DEF ZonesAgree
<1>1. Filled(ByInterface(s, p)) = {} => ByZone(s, p) = <<>>
  BY NoRowsNoZones, Zenon
<1>2. ASSUME NEW g \in DOMAIN ByZone(s, p)
      PROVE  /\ ByZone(s, p)[g].down = TotalOf([r \in In(g, Filled(ByInterface(s, p))) |-> Zero(r.down)])
             /\ Zero(ByZone(s, p)[g].up) =
                  SumFunction([t \in DOMAIN Timeseries(s, p) |-> Zero(Timeseries(s, p)[t][g].up)])
             /\ g = "BUSINESS_ACCESS" => ByZone(s, p)[g] = BusinessUsage(s, p)
  BY ZoneRows, Zenon
<1> QED
  BY <1>1, <1>2, Zenon

-----------------------------------------------------------------------------
(* The reports of the fleet.                                               *)

\* The ships of the fleet's report, which have a delta.
Seen(p) == {s \in Sailing : Measured(s, p) # {}}
ZoneOf(s, p) == [g \in Zones |-> ByGroup(s, p, g)]
Having(p, g) == {s \in Seen(p) : ZoneOf(s, p)[g].down # {}}

FleetDown(p, g) == TotalOf([s \in Having(p, g) |-> Zero(ZoneOf(s, p)[g].down)])
FleetUp(p, g) == TotalOf([s \in Having(p, g) |-> Zero(ZoneOf(s, p)[g].up)])

\* The fields of the report of the fleet.
LEMMA GlobalFields ==
  ASSUME NEW p, NEW g \in Zones
  PROVE  /\ GlobalSummary(p).zone[g].down = FleetDown(p, g)
         /\ GlobalSummary(p).zone[g].up = FleetUp(p, g)
         /\ DOMAIN GlobalSummary(p).ships = Seen(p)
         /\ \A s \in Seen(p) : GlobalSummary(p).ships[s].gap =
                                 Gap(ZoneOf(s, p)["WAN_INPUT"].down, CountedDown(ZoneOf(s, p)))
         /\ GlobalSummary(p).user.down = UserDown(FleetSessions(p))
         /\ GlobalSummary(p).wanGap =
              Gap(GlobalSummary(p).zone["WAN_INPUT"].down, CountedDown(GlobalSummary(p).zone))
<1>a. PICK ships : ships = Seen(p)
  OBVIOUS
<1>b. PICK zone : zone = [s \in ships |-> [z \in Zones |-> ByGroup(s, p, z)]]
  OBVIOUS
<1>c. PICK fleet : fleet = [z \in Zones |->
                  [down |-> TotalOf([s \in {x \in ships : zone[x][z].down # {}} |-> Zero(zone[s][z].down)]),
                   up |-> TotalOf([s \in {x \in ships : zone[x][z].down # {}} |-> Zero(zone[s][z].up)])]]
  OBVIOUS
<1>1. GlobalSummary(p) =
      [ships |-> [s \in ships |-> [gap |-> Gap(zone[s]["WAN_INPUT"].down, CountedDown(zone[s])),
                                  counted |-> CountedDown(zone[s])]],
      zone |-> fleet,
      user |-> [down |-> UserDown(FleetSessions(p)), up |-> UserUp(FleetSessions(p))],
      wanGap |-> Gap(fleet["WAN_INPUT"].down, CountedDown(fleet)),
      crewGap |-> Gap(fleet["CREW_ACCESS"].down, UserDown(FleetSessions(p)))]
  BY <1>a, <1>b, <1>c DEF GlobalSummary, Seen
<1>2. \A s \in ships : zone[s] = ZoneOf(s, p)
  BY <1>b DEF ZoneOf
<1>3. /\ fleet[g].down = TotalOf([s \in Having(p, g) |-> Zero(ZoneOf(s, p)[g].down)])
      /\ fleet[g].up = TotalOf([s \in Having(p, g) |-> Zero(ZoneOf(s, p)[g].up)])
  <2>1. {x \in ships : zone[x][g].down # {}} = Having(p, g)
    BY <1>2, <1>a DEF Having
  <2>2. /\ fleet[g].down = TotalOf([s \in Having(p, g) |-> Zero(zone[s][g].down)])
        /\ fleet[g].up = TotalOf([s \in Having(p, g) |-> Zero(zone[s][g].up)])
    BY <1>c, <2>1
  <2>3. \A s \in Having(p, g) : zone[s] = ZoneOf(s, p)
    BY <1>2, <1>a DEF Having
  <2>4. /\ [s \in Having(p, g) |-> Zero(zone[s][g].down)] = [s \in Having(p, g) |-> Zero(ZoneOf(s, p)[g].down)]
        /\ [s \in Having(p, g) |-> Zero(zone[s][g].up)] = [s \in Having(p, g) |-> Zero(ZoneOf(s, p)[g].up)]
    BY <2>3
  <2> QED
    BY <2>2, <2>4
<1>4. DOMAIN GlobalSummary(p).ships = Seen(p) /\ GlobalSummary(p).zone = fleet
      /\ GlobalSummary(p).user.down = UserDown(FleetSessions(p))
      /\ GlobalSummary(p).wanGap = Gap(fleet["WAN_INPUT"].down, CountedDown(fleet))
  BY <1>1, <1>a
<1>5. \A s \in Seen(p) : GlobalSummary(p).ships[s].gap =
                           Gap(ZoneOf(s, p)["WAN_INPUT"].down, CountedDown(ZoneOf(s, p)))
  BY <1>1, <1>2, <1>a
<1> QED
  BY <1>3, <1>4, <1>5 DEF FleetDown, FleetUp

\* A gap that is not null.
LEMMA GapThere ==
  ASSUME NEW x, NEW y, NEW m \in Int, NEW n \in Int, Weighs(x, m), Weighs(y, n), Gap(x, y) # {}
  PROVE  Gap(x, y) = {m - n} /\ Zero(Gap(x, y)) = m - n
<1>1. \A gap \in Gap(x, y) : gap = m - n
  BY GapWeighs
<1>2. Gap(x, y) = {m - n}
  BY <1>1
<1> QED
  BY <1>2, NumberWeighs DEF Weighs

\* The ships with a delta are finitely many.
LEMMA SeenFinite ==
  ASSUME State, NEW p
  PROVE  IsFiniteSet(Seen(p))
<1>1. Seen(p) \subseteq Sailing
  BY DEF Seen
<1> QED
  BY <1>1, SailingFinite, FS_Subset

\* What the report of the fleet takes from a ship is what its deltas measure.
LEMMA ShipZone ==
  ASSUME OfficeOK, TrafficOK, State, NEW s, NEW p, NEW g \in Zones
  PROVE  /\ Weighs(ZoneOf(s, p)[g].down, Zero(ZoneOf(s, p)[g].down)) /\ Zero(ZoneOf(s, p)[g].down) \in Nat
         /\ ZoneOf(s, p)[g].down = DownOf(In(g, Measured(s, p)))
<1>a. PICK M, T, v : M = Measured(s, p) /\ T = In(g, Measured(s, p)) /\ v = [d \in M |-> Down(d)]
  OBVIOUS
<1>1. M \in SUBSET deltas /\ T \in SUBSET M
  BY <1>a DEF Measured, In
<1>2. Weighs(DownOf(T), Total(v, T)) /\ Total(v, T) \in Nat
  BY <1>1, <1>a, ZoneWeighs
<1>3. ZoneOf(s, p)[g].down = DownOf(T)
  BY <1>a DEF ZoneOf, ByGroup
<1> QED
  BY <1>2, <1>3, <1>a DEF Weighs

\* The summary of a ship asks for its zones one by one.
LEMMA ShipZones ==
  ASSUME NEW s, NEW p
  PROVE  /\ Summary(s, p).zone = ZoneOf(s, p)
         /\ Summary(s, p).wanGap.down = Gap(ZoneOf(s, p)["WAN_INPUT"].down, CountedDown(ZoneOf(s, p)))
<1>a. PICK zone : zone = [g \in Zones |-> SumZone(s, p, g)]
  OBVIOUS
<1>1. zone = ZoneOf(s, p)
  BY <1>a, ZonesByGroup DEF ZoneOf
<1>2. Summary(s, p).zone = zone /\ Summary(s, p).wanGap.down = Gap(zone["WAN_INPUT"].down, CountedDown(zone))
  BY <1>a DEF Summary
<1> QED
  BY <1>1, <1>2

\* A ship that has a number for a zone has a delta, so the report asks it.
LEMMA HavingAll ==
  ASSUME OfficeOK, TrafficOK, State, NEW p, NEW g \in Zones
  PROVE  /\ Having(p, g) = {s \in Sailing : Summary(s, p).zone[g].down # {}}
         /\ \A s \in Sailing : Summary(s, p).zone = ZoneOf(s, p)
<1>1. \A s \in Sailing : Summary(s, p).zone = ZoneOf(s, p)
  BY ShipZones
<1>2. ASSUME NEW s \in Sailing, ZoneOf(s, p)[g].down # {} PROVE s \in Seen(p)
  <2>1. In(g, Measured(s, p)) # {}
    BY <1>2, ShipZone, NullWhereNone
  <2>2. Measured(s, p) # {}
    BY <2>1 DEF In
  <2> QED
    BY <2>2 DEF Seen
<1>3. \A s : s \in Having(p, g) <=> s \in Sailing /\ Summary(s, p).zone[g].down # {}
  BY <1>1, <1>2 DEF Having, Seen
<1> QED
  BY <1>1, <1>3

\* Its numbers for the zones are sums of the ships'.
LEMMA FleetZone ==
  ASSUME OfficeOK, TrafficOK, State, NEW p, NEW g \in Zones, NEW n,
         \A s \in Seen(p) : n[s] = Zero(ZoneOf(s, p)[g].down)
  PROVE  Weighs(GlobalSummary(p).zone[g].down, Total(n, Seen(p))) /\ Total(n, Seen(p)) \in Int
<1>a. PICK S, T, f : S = Seen(p) /\ T = Having(p, g) /\ f = [s \in T |-> Zero(ZoneOf(s, p)[g].down)]
  OBVIOUS
<1>1. IsFiniteSet(S) /\ T \in SUBSET S
  BY <1>a, SeenFinite DEF Having
<1>2. \A s \in S : n[s] \in Int
  <2> SUFFICES ASSUME NEW s \in S PROVE Zero(ZoneOf(s, p)[g].down) \in Int
    BY <1>a
  <2>1. Zero(ZoneOf(s, p)[g].down) \in Nat
    BY ShipZone, Zenon
  <2> QED
    BY <2>1
<1>3. \A s \in S \ T : n[s] = 0
  <2> SUFFICES ASSUME NEW s \in S \ T PROVE Zero(ZoneOf(s, p)[g].down) = 0
    BY <1>a
  <2>1. ZoneOf(s, p)[g].down = {}
    BY <1>a DEF Having
  <2> QED
    BY <2>1 DEF Zero
<1>4. Total(n, T) = Total(n, S)
  BY <1>1, <1>2, <1>3, TotalOfOthers, ZenonT(30)
<1>5. Total(f, T) = Total(n, T)
  <2>1. IsFiniteSet(T)
    BY <1>1, FS_Subset
  <2>2. \A s \in T : f[s] = n[s]
    BY <1>1, <1>a
  <2> QED
    BY <2>1, <2>2, TotalAgrees
<1>6. Weighs(TotalOf(f), Total(f, T))
  BY <1>a, TotalWeighs
<1>7. GlobalSummary(p).zone[g].down = TotalOf(f)
  <2>1. GlobalSummary(p).zone[g].down = FleetDown(p, g)
    BY GlobalFields
  <2> QED
    BY <1>a, <2>1 DEF FleetDown
<1>8. Total(n, S) \in Int
  BY <1>1, <1>2, TotalIsInt
<1> QED
  BY <1>4, <1>5, <1>6, <1>7, <1>8, <1>a

\* Every session is of one ship.
LEMMA FleetUsers ==
  ASSUME OfficeOK, TrafficOK, State, NEW p
  PROVE  Zero(UserDown(FleetSessions(p))) = SumFunction([s \in Sailing |-> Zero(UserDown(SessionsIn(s, p)))])
<1>a. PICK S, key, v : /\ S = FleetSessions(p) /\ key = [r \in sessions |-> r.ship]
                       /\ v = [r \in sessions |-> Zero(r.down)]
  OBVIOUS
<1>b. PICK f, K : K = Sailing /\ f = [s \in K |-> Zero(UserDown(SessionsIn(s, p)))]
  OBVIOUS
<1>1. S \in SUBSET sessions
  BY <1>a DEF FleetSessions, SessionsIn
<1>2. \A T \in SUBSET sessions : /\ IsFiniteSet(T) /\ Zero(UserDown(T)) = Total(v, T)
                                 /\ \A r \in T : v[r] \in Nat
  BY <1>a, SessionBytes
<1>3. HasKeys(S, key, K)
  <2>1. IsFiniteSet(S) /\ IsFiniteSet(K)
    BY <1>1, <1>2, <1>b, SailingFinite
  <2>2. \A r \in S : key[r] \in K
    BY <1>a, <1>b DEF FleetSessions, SessionsIn
  <2> QED
    BY <2>1, <2>2 DEF HasKeys
<1>4. Shares(f, v, S, key, K)
  <2> SUFFICES ASSUME NEW s \in K PROVE f[s] = Total(v, Keyed(S, key, s))
    BY DEF Shares
  <2>1. Keyed(S, key, s) = SessionsIn(s, p)
    BY <1>a, <1>b DEF Keyed, FleetSessions, SessionsIn
  <2>2. SessionsIn(s, p) \in SUBSET sessions
    BY DEF SessionsIn
  <2> QED
    BY <1>2, <1>b, <2>1, <2>2
<1>5. Integral(v, S)
  <2>1. \A r \in S : v[r] \in Nat
    BY <1>1, <1>2
  <2> QED
    BY <2>1 DEF Integral
<1>6. Total(v, S) = Total(f, K)
  BY <1>3, <1>4, <1>5, TotalOfShares
<1>7. SumFunction(f) = Total(f, K)
  BY <1>b, SumIsTotal
<1>8. Zero(UserDown(S)) = Total(v, S)
  BY <1>1, <1>2
<1> QED
  BY <1>6, <1>7, <1>8, <1>a, <1>b

\* The gap of the fleet, where each ship has one.
LEMMA FleetGap ==
  ASSUME OfficeOK, TrafficOK, State, NEW p, GlobalSummary(p).wanGap # {},
         \A s \in Seen(p) : GlobalSummary(p).ships[s].gap # {}
  PROVE  GlobalSummary(p).wanGap = {SumFunction([s \in Seen(p) |-> Zero(GlobalSummary(p).ships[s].gap)])}
<1>a. PICK S, fleet : S = Seen(p) /\ fleet = GlobalSummary(p).zone
  OBVIOUS
<1>b. PICK w, c, b, m : /\ w = [s \in S |-> Zero(ZoneOf(s, p)["WAN_INPUT"].down)]
                        /\ c = [s \in S |-> Zero(ZoneOf(s, p)["CREW_ACCESS"].down)]
                        /\ b = [s \in S |-> Zero(ZoneOf(s, p)["BUSINESS_ACCESS"].down)]
                        /\ m = [s \in S |-> Zero(ZoneOf(s, p)["MANAGEMENT"].down)]
  OBVIOUS
<1>1. "WAN_INPUT" \in Zones /\ "CREW_ACCESS" \in Zones /\ "BUSINESS_ACCESS" \in Zones /\ "MANAGEMENT" \in Zones
  BY DEF Zones, Access
<1>2. IsFiniteSet(S)
  BY <1>a, SeenFinite
<1>3. \A s \in S : /\ w[s] \in Int /\ c[s] \in Int /\ b[s] \in Int /\ m[s] \in Int
                   /\ Weighs(ZoneOf(s, p)["WAN_INPUT"].down, w[s])
                   /\ Weighs(ZoneOf(s, p)["CREW_ACCESS"].down, c[s])
                   /\ Weighs(ZoneOf(s, p)["BUSINESS_ACCESS"].down, b[s])
                   /\ Weighs(ZoneOf(s, p)["MANAGEMENT"].down, m[s])
  <2> SUFFICES ASSUME NEW s \in S
               PROVE  /\ w[s] \in Int /\ c[s] \in Int /\ b[s] \in Int /\ m[s] \in Int
                      /\ Weighs(ZoneOf(s, p)["WAN_INPUT"].down, w[s])
                      /\ Weighs(ZoneOf(s, p)["CREW_ACCESS"].down, c[s])
                      /\ Weighs(ZoneOf(s, p)["BUSINESS_ACCESS"].down, b[s])
                      /\ Weighs(ZoneOf(s, p)["MANAGEMENT"].down, m[s])
    OBVIOUS
  <2>1. \A g \in Zones : /\ Weighs(ZoneOf(s, p)[g].down, Zero(ZoneOf(s, p)[g].down))
                         /\ Zero(ZoneOf(s, p)[g].down) \in Nat
    BY ShipZone, Zenon
  <2>2. \A n \in Nat : n \in Int
    OBVIOUS
  <2>3. \A g \in Zones : /\ Weighs(ZoneOf(s, p)[g].down, Zero(ZoneOf(s, p)[g].down))
                         /\ Zero(ZoneOf(s, p)[g].down) \in Int
    BY <2>1, <2>2, Zenon
  <2>4. /\ w[s] = Zero(ZoneOf(s, p)["WAN_INPUT"].down) /\ c[s] = Zero(ZoneOf(s, p)["CREW_ACCESS"].down)
        /\ b[s] = Zero(ZoneOf(s, p)["BUSINESS_ACCESS"].down) /\ m[s] = Zero(ZoneOf(s, p)["MANAGEMENT"].down)
    BY <1>b
  <2>5. /\ w[s] \in Int /\ Weighs(ZoneOf(s, p)["WAN_INPUT"].down, w[s])
    BY <1>1, <2>3, <2>4
  <2>6. /\ c[s] \in Int /\ Weighs(ZoneOf(s, p)["CREW_ACCESS"].down, c[s])
    BY <1>1, <2>3, <2>4
  <2>7. /\ b[s] \in Int /\ Weighs(ZoneOf(s, p)["BUSINESS_ACCESS"].down, b[s])
    BY <1>1, <2>3, <2>4
  <2>8. /\ m[s] \in Int /\ Weighs(ZoneOf(s, p)["MANAGEMENT"].down, m[s])
    BY <1>1, <2>3, <2>4
  <2> QED
    BY <2>5, <2>6, <2>7, <2>8
<1>c. PICK f, h, k : /\ h = [s \in S |-> c[s] + b[s]] /\ k = [s \in S |-> (c[s] + b[s]) + m[s]]
                     /\ f = [s \in S |-> w[s] - ((c[s] + b[s]) + m[s])]
  OBVIOUS
<1>4. \A s \in S : Zero(GlobalSummary(p).ships[s].gap) = f[s]
  <2> SUFFICES ASSUME NEW s \in S PROVE Zero(GlobalSummary(p).ships[s].gap) = w[s] - ((c[s] + b[s]) + m[s])
    BY <1>c
  <2>a. PICK x, y, z, o, zone : /\ zone = ZoneOf(s, p) /\ o = zone["WAN_INPUT"].down
                                /\ x = zone["CREW_ACCESS"].down /\ y = zone["BUSINESS_ACCESS"].down
                                /\ z = zone["MANAGEMENT"].down
    OBVIOUS
  <2>b. PICK i, j, l, n : i = c[s] /\ j = b[s] /\ l = m[s] /\ n = w[s]
    OBVIOUS
  <2>1. /\ Weighs(x, i) /\ Weighs(y, j) /\ Weighs(z, l) /\ Weighs(o, n)
        /\ i \in Int /\ j \in Int /\ l \in Int /\ n \in Int
    BY <1>3, <2>a, <2>b
  <2>2. i + j \in Int /\ (i + j) + l \in Int
    BY <2>1
  <2>3. Weighs(Plus(x, y), i + j)
    BY <2>1, PlusWeighs, Zenon
  <2>4. Weighs(Plus(Plus(x, y), z), (i + j) + l)
    BY <2>1, <2>2, <2>3, PlusWeighs, Zenon
  <2>5. GlobalSummary(p).ships[s].gap = Gap(o, Plus(Plus(x, y), z))
    <3>1. GlobalSummary(p).ships[s].gap = Gap(ZoneOf(s, p)["WAN_INPUT"].down, CountedDown(ZoneOf(s, p)))
      BY <1>1, <1>a, GlobalFields
    <3> QED
      BY <3>1, <2>a DEF CountedDown
  <2>6. Gap(o, Plus(Plus(x, y), z)) # {}
    BY <1>a, <2>5
  <2>7. Zero(Gap(o, Plus(Plus(x, y), z))) = n - ((i + j) + l)
    <3> PICK q, r : q = Plus(Plus(x, y), z) /\ r = (i + j) + l
      OBVIOUS
    <3>1. Weighs(o, n) /\ Weighs(q, r) /\ Gap(o, q) # {} /\ n \in Int /\ r \in Int
      BY <2>1, <2>2, <2>4, <2>6
    <3>2. Zero(Gap(o, q)) = n - r
      BY <3>1, GapThere
    <3> QED
      BY <3>2
  <2> QED
    BY <2>5, <2>7, <2>b
<1>5. \A s \in S : /\ h[s] \in Int /\ k[s] \in Int /\ f[s] \in Int
                   /\ h[s] = c[s] + b[s] /\ k[s] = h[s] + m[s] /\ w[s] = f[s] + k[s]
  <2> SUFFICES ASSUME NEW s \in S
               PROVE  /\ h[s] \in Int /\ k[s] \in Int /\ f[s] \in Int
                      /\ h[s] = c[s] + b[s] /\ k[s] = h[s] + m[s] /\ w[s] = f[s] + k[s]
    OBVIOUS
  <2>1. /\ h[s] = c[s] + b[s] /\ k[s] = (c[s] + b[s]) + m[s]
        /\ f[s] = w[s] - ((c[s] + b[s]) + m[s])
    BY <1>c
  <2>2. w[s] \in Int /\ c[s] \in Int /\ b[s] \in Int /\ m[s] \in Int
    BY <1>3
  <2> QED
    BY <2>1, <2>2
<1>6. Total(h, S) = Total(c, S) + Total(b, S)
  BY <1>2, <1>3, <1>5, TotalPlus
<1>7. Total(k, S) = Total(h, S) + Total(m, S)
  BY <1>2, <1>3, <1>5, TotalPlus
<1>8. Total(w, S) = Total(f, S) + Total(k, S)
  BY <1>2, <1>5, TotalPlus
<1>9. Total(f, S) \in Int /\ Total(k, S) \in Int
  BY <1>2, <1>5, TotalIsInt
<1>10. /\ Weighs(fleet["WAN_INPUT"].down, Total(w, S)) /\ Total(w, S) \in Int
       /\ Weighs(fleet["CREW_ACCESS"].down, Total(c, S)) /\ Total(c, S) \in Int
       /\ Weighs(fleet["BUSINESS_ACCESS"].down, Total(b, S)) /\ Total(b, S) \in Int
       /\ Weighs(fleet["MANAGEMENT"].down, Total(m, S)) /\ Total(m, S) \in Int
  <2>1. /\ \A s \in Seen(p) : w[s] = Zero(ZoneOf(s, p)["WAN_INPUT"].down)
        /\ \A s \in Seen(p) : c[s] = Zero(ZoneOf(s, p)["CREW_ACCESS"].down)
        /\ \A s \in Seen(p) : b[s] = Zero(ZoneOf(s, p)["BUSINESS_ACCESS"].down)
        /\ \A s \in Seen(p) : m[s] = Zero(ZoneOf(s, p)["MANAGEMENT"].down)
    BY <1>a, <1>b
  <2>2. /\ Weighs(GlobalSummary(p).zone["WAN_INPUT"].down, Total(w, Seen(p))) /\ Total(w, Seen(p)) \in Int
    BY <1>1, <2>1, FleetZone
  <2>3. /\ Weighs(GlobalSummary(p).zone["CREW_ACCESS"].down, Total(c, Seen(p))) /\ Total(c, Seen(p)) \in Int
    BY <1>1, <2>1, FleetZone
  <2>4. /\ Weighs(GlobalSummary(p).zone["BUSINESS_ACCESS"].down, Total(b, Seen(p))) /\ Total(b, Seen(p)) \in Int
    BY <1>1, <2>1, FleetZone
  <2>5. /\ Weighs(GlobalSummary(p).zone["MANAGEMENT"].down, Total(m, Seen(p))) /\ Total(m, Seen(p)) \in Int
    BY <1>1, <2>1, FleetZone
  <2> QED
    BY <1>a, <2>2, <2>3, <2>4, <2>5
<1>11. GlobalSummary(p).wanGap = {Total(f, S)}
  <2>a. PICK x, y, z, o : /\ o = fleet["WAN_INPUT"].down /\ x = fleet["CREW_ACCESS"].down
                          /\ y = fleet["BUSINESS_ACCESS"].down /\ z = fleet["MANAGEMENT"].down
    OBVIOUS
  <2>b. PICK i, j, l, n : i = Total(c, S) /\ j = Total(b, S) /\ l = Total(m, S) /\ n = Total(w, S)
    OBVIOUS
  <2>1. /\ Weighs(x, i) /\ Weighs(y, j) /\ Weighs(z, l) /\ Weighs(o, n)
        /\ i \in Int /\ j \in Int /\ l \in Int /\ n \in Int
    BY <1>10, <2>a, <2>b
  <2>2. i + j \in Int /\ (i + j) + l \in Int
    BY <2>1
  <2>3. Weighs(Plus(x, y), i + j)
    BY <2>1, PlusWeighs, Zenon
  <2>4. Weighs(Plus(Plus(x, y), z), (i + j) + l)
    BY <2>1, <2>2, <2>3, PlusWeighs, Zenon
  <2>5. GlobalSummary(p).wanGap = Gap(o, Plus(Plus(x, y), z))
    <3>1. GlobalSummary(p).wanGap = Gap(fleet["WAN_INPUT"].down, CountedDown(fleet))
      BY <1>1, <1>a, GlobalFields
    <3> QED
      BY <3>1, <2>a DEF CountedDown
  <2>6. Gap(o, Plus(Plus(x, y), z)) = {n - ((i + j) + l)}
    <3> PICK q, r : q = Plus(Plus(x, y), z) /\ r = (i + j) + l
      OBVIOUS
    <3>1. Weighs(o, n) /\ Weighs(q, r) /\ Gap(o, q) # {} /\ n \in Int /\ r \in Int
      BY <2>1, <2>2, <2>4, <2>5
    <3>2. Gap(o, q) = {n - r}
      BY <3>1, GapThere
    <3> QED
      BY <3>2
  <2>7. n - ((i + j) + l) = Total(f, S)
    BY <1>6, <1>7, <1>8, <1>9, <2>b, <2>1
  <2> QED
    BY <2>5, <2>6, <2>7
<1>d. PICK own : own = [s \in S |-> Zero(GlobalSummary(p).ships[s].gap)]
  OBVIOUS
<1>12. SumFunction(own) = Total(f, S)
  <2>1. SumFunction(own) = Total(own, S)
    BY <1>d, SumIsTotal
  <2>2. \A s \in S : own[s] = f[s]
    BY <1>4, <1>d
  <2>3. Total(own, S) = Total(f, S)
    BY <1>2, <2>2, TotalAgrees
  <2> QED
    BY <2>1, <2>3
<1> QED
  BY <1>11, <1>12, <1>a, <1>d

\* The report of the fleet is the sum of those of its ships.
LEMMA FleetHolds ==
  ASSUME OfficeOK, TrafficOK, State
  PROVE  FleetIsItsShips
<1> SUFFICES ASSUME NEW p \in Periods, NEW own, own = [s \in Sailing |-> Summary(s, p)]
             PROVE
    /\ \A g \in Zones :
         /\ GlobalSummary(p).zone[g].down =
              TotalOf([s \in {x \in Sailing : own[x].zone[g].down # {}} |-> Zero(own[s].zone[g].down)])
         /\ GlobalSummary(p).zone[g].up =
              TotalOf([s \in {x \in Sailing : own[x].zone[g].down # {}} |-> Zero(own[s].zone[g].up)])
    /\ {s \in Sailing : HasSummary(s, p)} \subseteq DOMAIN GlobalSummary(p).ships
    /\ \A s \in DOMAIN GlobalSummary(p).ships :
         HasSummary(s, p) => GlobalSummary(p).ships[s].gap = own[s].wanGap.down
    /\ Zero(GlobalSummary(p).user.down) = SumFunction([s \in Sailing |-> Zero(own[s].user.down)])
    /\ (\A s \in DOMAIN GlobalSummary(p).ships : GlobalSummary(p).ships[s].gap # {})
         /\ GlobalSummary(p).wanGap # {} =>
         GlobalSummary(p).wanGap =
           {SumFunction([s \in DOMAIN GlobalSummary(p).ships |-> Zero(GlobalSummary(p).ships[s].gap)])}
  BY DEF FleetIsItsShips
<1>1. \A s \in Sailing : own[s] = Summary(s, p)
  OBVIOUS
<1>2. /\ DOMAIN GlobalSummary(p).ships = Seen(p)
      /\ \A s \in Seen(p) : GlobalSummary(p).ships[s].gap =
                              Gap(ZoneOf(s, p)["WAN_INPUT"].down, CountedDown(ZoneOf(s, p)))
      /\ GlobalSummary(p).user.down = UserDown(FleetSessions(p))
  <2>1. "WAN_INPUT" \in Zones
    BY DEF Zones
  <2> QED
    BY <2>1, GlobalFields
<1>3. ASSUME NEW g \in Zones
      PROVE  /\ GlobalSummary(p).zone[g].down =
                  TotalOf([s \in {x \in Sailing : own[x].zone[g].down # {}} |-> Zero(own[s].zone[g].down)])
             /\ GlobalSummary(p).zone[g].up =
                  TotalOf([s \in {x \in Sailing : own[x].zone[g].down # {}} |-> Zero(own[s].zone[g].up)])
  <2>a. PICK T : T = {x \in Sailing : own[x].zone[g].down # {}}
    OBVIOUS
  <2>1. /\ Having(p, g) = {s \in Sailing : Summary(s, p).zone[g].down # {}}
        /\ \A s \in Sailing : Summary(s, p).zone = ZoneOf(s, p)
    BY HavingAll
  <2>2. T = Having(p, g) /\ T \subseteq Sailing
    BY <1>1, <2>1, <2>a
  <2>3. \A s \in T : own[s].zone = ZoneOf(s, p)
    BY <1>1, <2>1, <2>2
  <2>4. /\ [s \in T |-> Zero(own[s].zone[g].down)] = [s \in T |-> Zero(ZoneOf(s, p)[g].down)]
        /\ [s \in T |-> Zero(own[s].zone[g].up)] = [s \in T |-> Zero(ZoneOf(s, p)[g].up)]
    <3>1. [s \in T |-> Zero(own[s].zone[g].down)] = [s \in T |-> Zero(ZoneOf(s, p)[g].down)]
      <4>1. \A s \in T : Zero(own[s].zone[g].down) = Zero(ZoneOf(s, p)[g].down)
        BY <2>3
      <4> QED
        BY <4>1
    <3>2. [s \in T |-> Zero(own[s].zone[g].up)] = [s \in T |-> Zero(ZoneOf(s, p)[g].up)]
      <4>1. \A s \in T : Zero(own[s].zone[g].up) = Zero(ZoneOf(s, p)[g].up)
        BY <2>3
      <4> QED
        BY <4>1
    <3> QED
      BY <3>1, <3>2
  <2>5. /\ FleetDown(p, g) = TotalOf([s \in T |-> Zero(ZoneOf(s, p)[g].down)])
        /\ FleetUp(p, g) = TotalOf([s \in T |-> Zero(ZoneOf(s, p)[g].up)])
    BY <2>2 DEF FleetDown, FleetUp
  <2>6. GlobalSummary(p).zone[g].down = FleetDown(p, g) /\ GlobalSummary(p).zone[g].up = FleetUp(p, g)
    BY GlobalFields
  <2> QED
    BY <2>4, <2>5, <2>6, <2>a
<1>4. {s \in Sailing : HasSummary(s, p)} \subseteq Seen(p)
  BY DEF HasSummary, Seen, In
<1>5. ASSUME NEW s \in Seen(p) PROVE GlobalSummary(p).ships[s].gap = own[s].wanGap.down
  <2>1. s \in Sailing
    BY DEF Seen
  <2>2. Summary(s, p).wanGap.down = Gap(ZoneOf(s, p)["WAN_INPUT"].down, CountedDown(ZoneOf(s, p)))
    BY ShipZones
  <2> QED
    BY <1>1, <1>2, <2>1, <2>2
<1>6. Zero(GlobalSummary(p).user.down) = SumFunction([s \in Sailing |-> Zero(own[s].user.down)])
  <2>1. \A s \in Sailing : own[s].user.down = UserDown(SessionsIn(s, p))
    BY <1>1 DEF Summary
  <2>2. [s \in Sailing |-> Zero(own[s].user.down)] = [s \in Sailing |-> Zero(UserDown(SessionsIn(s, p)))]
    BY <2>1
  <2>3. Zero(UserDown(FleetSessions(p))) = SumFunction([s \in Sailing |-> Zero(UserDown(SessionsIn(s, p)))])
    BY FleetUsers
  <2> QED
    BY <1>2, <2>2, <2>3
<1>7. ASSUME \A s \in Seen(p) : GlobalSummary(p).ships[s].gap # {}, GlobalSummary(p).wanGap # {}
      PROVE  GlobalSummary(p).wanGap = {SumFunction([s \in Seen(p) |-> Zero(GlobalSummary(p).ships[s].gap)])}
  BY <1>7, FleetGap
<1> QED
  BY <1>2, <1>3, <1>4, <1>5, <1>6, <1>7

\* All reports of traffic agree.
LEMMA ReportsHold == OfficeOK /\ TrafficOK /\ State => ReportsAgree
BY ZonesHold, CrewHolds, FleetHolds, FlowsHold DEF ReportsAgree

-----------------------------------------------------------------------------
\* TrafficInv holds throughout: rows have what they rely on and interfaces count
\* apart, unless requests about them overlapped.
THEOREM InvariantHolds == Spec => []TrafficInv
<1>1. State /\ Line => TrafficInv
  BY TrafficParts
<1> QED
  BY <1>1, FleetInvariant, PTL

\* Whatever is entered and assigned in whatever order, an interface and the one it
\* is a member of never count a packet in the same group, unless one was said not to
\* count or requests about them overlapped (assertNoDoubleCount).
THEOREM CountedOnce == Spec => []NoPacketCountedTwice
<1>1. State /\ Line => NoPacketCountedTwice
  BY DEF State
<1> QED
  BY <1>1, FleetInvariant, PTL

\* The counts of ships and routers from above and from below are the same
\* (AreasService, ShipsService and DashboardService), unless a row was removed while a
\* request relied on it.
THEOREM FleetCountsAgree == Spec => []FleetAddsUp
<1>1. State /\ Line => FleetAddsUp
  BY OfficeOK, FleetAdds
<1> QED
  BY <1>1, FleetInvariant, PTL

\* What the subscriptions are worth is the same by ship, by package and by tenant
\* (FinanceService), unless such a row was removed in a race.
THEOREM RevenueViewsAgree == Spec => []RevenueAddsUp
<1>1. State /\ Line => RevenueAddsUp
  BY OfficeOK, RevenueAdds
<1> QED
  BY <1>1, FleetInvariant, PTL

\* The gap of a ship is, in each direction, what was counted outside and nowhere
\* inside (getSummary and computeGap), wherever its interfaces are assigned straight.
THEOREM GapIsTheRest == Spec => []GapIsWhatWasNotCounted
<1>1. State /\ Line => GapIsWhatWasNotCounted
  BY OfficeOK, TrafficOK, GapHolds
<1> QED
  BY <1>1, FleetInvariant, PTL

\* A zone is the same asked for, by interface and over time; the crew has had
\* what the summary says and is billed it, null directions and all; services are
\* part of what flows say; the fleet is the sum of its ships
\* (ReconciliationService, CrewService and BusinessService).
THEOREM ReportsTellOneStory == Spec => []ReportsAgree
<1>1. State /\ Line => ReportsAgree
  BY OfficeOK, TrafficOK, ReportsHold
<1> QED
  BY <1>1, FleetInvariant, PTL

=============================================================================

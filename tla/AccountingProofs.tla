--------------------------- MODULE AccountingProofs ---------------------------
(***************************************************************************)
(* What adds up: sums over finite sets, the limits of the fund that are    *)
(* kept by them however many evaluate side by side (Portfolio), and the     *)
(* report of a backtest, which counts every row once (Backtest).            *)
(***************************************************************************)
EXTENDS ScreeningProofs, Portfolio, Backtest, FiniteSetTheorems, SequenceTheorems

-----------------------------------------------------------------------------
(* Sums over finite sets.  SumFunctionOnSet recurs on the set, taking out   *)
(* an element it chooses; the lemmas below say that there is one such       *)
(* function, and that what it gives does not depend on the choice.          *)

\* What holds of a set when it holds of its proper subsets holds of all.
LEMMA SubsetsIn ==
    ASSUME NEW C, IsFiniteSet(C), NEW P,
           \A T \in SUBSET C : (\A U \in SUBSET T : U # T => U \in P) => T \in P
    PROVE  SUBSET C \subseteq P
<1> DEFINE R == StrictSubsetOrdering(C)
           Q == FiniteSubsetsOf(C) \ P
<1>1. IsWellFoundedOn(R, FiniteSubsetsOf(C))
  BY FS_StrictSubsetOrderingWellFounded
<1>2. SUBSET C = FiniteSubsetsOf(C)
  BY FS_Subset DEF FiniteSubsetsOf
<1>3. SUFFICES ASSUME Q # {} PROVE FALSE
  BY <1>2
<1>4. PICK T \in Q : \A U \in Q : ~(<<U, T>> \in R)
  <2>1. Q \subseteq FiniteSubsetsOf(C)
    OBVIOUS
  <2> HIDE DEF R, Q
  <2> QED
    BY <1>1, <1>3, <2>1, WFMin
<1>5. ASSUME NEW U \in SUBSET T, U # T
      PROVE  U \in P
  <2>1. U \in SUBSET C /\ T \in SUBSET C
    BY <1>2
  <2>2. <<U, T>> \in R
    BY <1>5, <2>1 DEF StrictSubsetOrdering
  <2> QED
    BY <1>2, <1>4, <2>1, <2>2
<1> QED
  BY <1>2, <1>4, <1>5

Chosen(s) == CHOOSE x \in s : TRUE

IsSum(g, D, f) ==
    g = [s \in D |-> IF s = {} THEN 0 ELSE f[Chosen(s)] + g[s \ {Chosen(s)}]]

LEMMA SumIs ==
    ASSUME NEW f, NEW S
    PROVE  SumFunctionOnSet(f, S) = (CHOOSE g : IsSum(g, SUBSET S, f))[S]
BY DEF SumFunctionOnSet, FoldFunctionOnSet, MapThenFoldSet, IsSum, Chosen

LEMMA ChosenIn == ASSUME NEW s, s # {} PROVE Chosen(s) \in s
BY DEF Chosen

LEMMA SumUnique ==
    ASSUME NEW C, IsFiniteSet(C), NEW f, NEW g, NEW D, IsSum(g, D, f), NEW h, NEW E, IsSum(h, E, f),
           SUBSET C \subseteq D, SUBSET C \subseteq E
    PROVE  g[C] = h[C]
<1> DEFINE P == {T \in SUBSET C : g[T] = h[T]}
<1>1. ASSUME NEW T \in SUBSET C, \A U \in SUBSET T : U # T => U \in P
      PROVE  T \in P
  <2>1. CASE T = {}
    <3>1. g[T] = 0 /\ h[T] = 0
      BY <2>1 DEF IsSum
    <3> QED
      BY <3>1
  <2>2. CASE T # {}
    <3> DEFINE x == Chosen(T)
    <3>1. x \in T
      BY <2>2, ChosenIn
    <3>2. g[T] = f[x] + g[T \ {x}] /\ h[T] = f[x] + h[T \ {x}]
      BY <2>2 DEF IsSum
    <3> HIDE DEF x
    <3>3. T \ {x} \in P
      BY <1>1, <3>1
    <3> QED
      BY <3>2, <3>3
  <2> QED
    BY <2>1, <2>2
<1> HIDE DEF P
<1>2. C \in P
  BY <1>1, SubsetsIn
<1> QED
  BY <1>2 DEF P

\* The sum over nothing, and over a set with its chosen element apart.
LEMMA SumChosen ==
    ASSUME NEW C, IsFiniteSet(C), NEW f
    PROVE  /\ SumFunctionOnSet(f, {}) = 0
           /\ C # {} => SumFunctionOnSet(f, C) = f[Chosen(C)] + SumFunctionOnSet(f, C \ {Chosen(C)})
<1> DEFINE Sum(T) == SumFunctionOnSet(f, T)
           Step(T) == IF T = {} THEN 0 ELSE f[Chosen(T)] + Sum(T \ {Chosen(T)})
           P == {T \in SUBSET C : Sum(T) = Step(T)}
<1>1. ASSUME NEW T \in SUBSET C, \A U \in SUBSET T : U # T => U \in P
      PROVE  T \in P
  <2> DEFINE g == [s \in SUBSET T |-> Step(s)]
  <2> HIDE DEF Sum
  <2>1. ASSUME NEW s \in SUBSET T, s # {}
        PROVE  g[s] = f[Chosen(s)] + g[s \ {Chosen(s)}]
    <3> DEFINE u == s \ {Chosen(s)}
    <3>1. Chosen(s) \in s
      BY <2>1, ChosenIn
    <3>2. u \in SUBSET T /\ u # T
      BY <3>1
    <3>3. g[u] = Step(u) /\ Sum(u) = Step(u)
      BY <1>1, <3>2
    <3>4. g[s] = f[Chosen(s)] + Sum(u)
      BY <2>1
    <3> HIDE DEF g, u, Step
    <3>5. g[s] = f[Chosen(s)] + g[u]
      BY <3>3, <3>4
    <3> QED
      BY <3>5 DEF u
  <2>2. g[{}] = 0
    OBVIOUS
  <2>3. IsSum(g, SUBSET T, f)
    <3>1. g = [s \in SUBSET T |-> g[s]]
      OBVIOUS
    <3> HIDE DEF g
    <3> QED
      BY <2>1, <2>2, <3>1 DEF IsSum
  <2> DEFINE G == CHOOSE i : IsSum(i, SUBSET T, f)
  <2>4. g[T] = Step(T)
    OBVIOUS
  <2> HIDE DEF g, Step
  <2>5. IsSum(G, SUBSET T, f)
    BY <2>3
  <2>6. Sum(T) = G[T]
    BY SumIs DEF Sum
  <2> HIDE DEF G
  <2>7. G[T] = g[T]
    <3>1. IsFiniteSet(T)
      BY FS_Subset
    <3> QED
      BY <2>3, <2>5, <3>1, SumUnique
  <2> QED
    BY <2>4, <2>6, <2>7
<1> HIDE DEF P
<1>2. C \in P /\ {} \in P
  BY <1>1, SubsetsIn
<1> QED
  BY <1>2 DEF P

\* Any element can be set apart.
LEMMA SumElement ==
    ASSUME NEW C, IsFiniteSet(C), NEW f, \A x \in C : f[x] \in Nat
    PROVE  /\ SumFunctionOnSet(f, C) \in Nat
           /\ \A x \in C : SumFunctionOnSet(f, C) = f[x] + SumFunctionOnSet(f, C \ {x})
<1> DEFINE Sum(T) == SumFunctionOnSet(f, T)
           P == {T \in SUBSET C : Sum(T) \in Nat /\ \A x \in T : Sum(T) = f[x] + Sum(T \ {x})}
<1> HIDE DEF Sum
<1>1. ASSUME NEW T \in SUBSET C, \A U \in SUBSET T : U # T => U \in P
      PROVE  T \in P
  <2>0. IsFiniteSet(T)
    BY FS_Subset
  <2>1. CASE T = {}
    <3>1. Sum({}) = 0
      BY FS_EmptySet, SumChosen DEF Sum
    <3> QED
      BY <2>1, <3>1
  <2>2. CASE T # {}
    <3> DEFINE c == Chosen(T)
    <3>1. c \in T
      BY <2>2, ChosenIn
    <3>2. Sum(T) = f[c] + Sum(T \ {c})
      BY <2>0, <2>2, SumChosen DEF Sum
    <3> HIDE DEF c
    <3>3. T \ {c} \in P
      BY <1>1, <3>1
    <3>4. Sum(T \ {c}) \in Nat /\ f[c] \in Nat
      BY <3>1, <3>3
    <3>5. ASSUME NEW x \in T, x # c
          PROVE  Sum(T) = f[x] + Sum(T \ {x})
      <4> DEFINE u == (T \ {c}) \ {x}
      <4>1. Sum(T \ {c}) = f[x] + Sum(u)
        BY <3>3, <3>5
      <4>2. T \ {x} \in P /\ c \in T \ {x} /\ (T \ {x}) \ {c} = u
        BY <1>1, <3>1, <3>5
      <4>3. Sum(T \ {x}) = f[c] + Sum(u)
        BY <4>2
      <4>4. u \in P
        BY <1>1, <3>1
      <4>5. Sum(u) \in Nat /\ f[x] \in Nat
        BY <4>4
      <4> HIDE DEF u
      <4> QED
        BY <3>2, <3>4, <4>1, <4>3, <4>5
    <3>6. Sum(T) \in Nat
      BY <3>2, <3>4
    <3> QED
      BY <3>2, <3>5, <3>6
  <2> QED
    BY <2>1, <2>2
<1> HIDE DEF P
<1>2. C \in P
  BY <1>1, SubsetsIn
<1> QED
  BY <1>2 DEF P, Sum

LEMMA SumGrows ==
    ASSUME NEW C, IsFiniteSet(C), NEW f, NEW a, a \notin C, \A x \in C \cup {a} : f[x] \in Nat
    PROVE  SumFunctionOnSet(f, C \cup {a}) = SumFunctionOnSet(f, C) + f[a]
<1> DEFINE D == C \cup {a}
<1>1. IsFiniteSet(D) /\ D \ {a} = C /\ a \in D /\ f[a] \in Nat
  BY FS_AddElement
<1> HIDE DEF D
<1>2. SumFunctionOnSet(f, D) = f[a] + SumFunctionOnSet(f, C)
  <2>1. \A x \in D : f[x] \in Nat
    BY DEF D
  <2> QED
    BY <1>1, <2>1, SumElement
<1>3. SumFunctionOnSet(f, C) \in Nat
  BY SumElement
<1> QED
  BY <1>1, <1>2, <1>3 DEF D

\* A finite set is as large as its parts together.
LEMMA PartsAddUp ==
    ASSUME NEW I, IsFiniteSet(I), NEW K, IsFiniteSet(K), NEW b, \A i \in I : b[i] \in K,
           NEW f, \A k \in K : f[k] = Cardinality({i \in I : b[i] = k})
    PROVE  SumFunctionOnSet(f, K) = Cardinality(I)
<1> DEFINE Sum(T) == SumFunctionOnSet(f, T)
           In(T) == {i \in I : b[i] \in T}
           P == {T \in SUBSET K : Sum(T) = Cardinality(In(T))}
<1> HIDE DEF Sum
<1>1. \A T : IsFiniteSet(In(T)) /\ Cardinality(In(T)) \in Nat
  <2>1. \A T : In(T) \in SUBSET I
    OBVIOUS
  <2> HIDE DEF In
  <2> QED
    BY <2>1, FS_Subset, FS_CardinalityType
<1>2. ASSUME NEW T \in SUBSET K, \A U \in SUBSET T : U # T => U \in P
      PROVE  T \in P
  <2>1. CASE T = {}
    <3>1. Sum({}) = 0 /\ In(T) = {} /\ Cardinality({}) = 0
      BY <2>1, FS_EmptySet, SumChosen DEF Sum
    <3> QED
      BY <2>1, <3>1
  <2>2. ASSUME NEW k \in T
        PROVE  T \in P
    <3> DEFINE rest == T \ {k}
               part == {i \in I : b[i] = k}
    <3>1. Sum(T) = f[k] + Sum(rest)
      <4>1. IsFiniteSet(T)
        BY FS_Subset
      <4>2. \A x \in T : f[x] \in Nat
        <5> SUFFICES ASSUME NEW x \in T PROVE f[x] \in Nat
          OBVIOUS
        <5>1. In({x}) = {i \in I : b[i] = x} /\ x \in K
          OBVIOUS
        <5> HIDE DEF In
        <5>2. f[x] = Cardinality(In({x}))
          BY <5>1
        <5> QED
          BY <1>1, <5>2
      <4> QED
        BY <4>1, <4>2, SumElement DEF Sum
    <3>2. Sum(rest) = Cardinality(In(rest))
      BY <1>2
    <3>3. f[k] = Cardinality(part) /\ part = In({k})
      OBVIOUS
    <3>4. In(T) = part \cup In(rest) /\ part \cap In(rest) = {}
      OBVIOUS
    <3>5. Cardinality(In(T)) = Cardinality(part) + Cardinality(In(rest))
      <4> HIDE DEF part, In
      <4>1. Cardinality(part \cup In(rest)) =
               Cardinality(part) + Cardinality(In(rest)) - Cardinality(part \cap In(rest))
        BY <1>1, <3>3, FS_Union
      <4>2. Cardinality(part) \in Nat /\ Cardinality(In(rest)) \in Nat
        BY <1>1, <3>3
      <4>3. Cardinality(part \cap In(rest)) = 0 /\ Cardinality(In(T)) = Cardinality(part \cup In(rest))
        BY <3>4, FS_EmptySet
      <4> QED
        BY <4>1, <4>2, <4>3
    <3> HIDE DEF part, In, rest
    <3> QED
      BY <3>1, <3>2, <3>3, <3>5
  <2> QED
    BY <2>1, <2>2
<1>3. In(K) = I
  OBVIOUS
<1> HIDE DEF P, In
<1>4. K \in P
  BY <1>2, SubsetsIn
<1> QED
  BY <1>3, <1>4 DEF P, Sum

-----------------------------------------------------------------------------
(* Room below a limit.  M are the evaluators whose next commit may still    *)
(* pass, due what each would spend, L the most that any would.  There is    *)
(* room for all of them, or for the last to have asked and L for the others.*)

Room(used, M, due, L, bound) ==
    \/ used + Cardinality(M) * L <= bound
    \/ \E w \in M : used + due[w] + (Cardinality(M) - 1) * L <= bound

LEMMA TimesGrows ==
    ASSUME NEW L \in Nat, NEW n \in Nat, NEW m \in Nat, n <= m
    PROVE  n * L \in Nat /\ n * L <= m * L /\ (n + 1) * L = n * L + L
OBVIOUS

LEMMA RoomBounds ==
    ASSUME NEW used \in Int, NEW M, IsFiniteSet(M), NEW due, NEW L \in Nat, NEW bound \in Int,
           \A v \in M : due[v] \in Nat, Room(used, M, due, L, bound)
    PROVE  used <= bound
<1> DEFINE n == Cardinality(M)
<1>1. n \in Nat
  BY FS_CardinalityType
<1>2. CASE used + n * L <= bound
  <2>1. n * L \in Nat
    BY <1>1, TimesGrows
  <2> QED
    BY <1>2, <2>1
<1>3. CASE \E w \in M : used + due[w] + (n - 1) * L <= bound
  <2>1. PICK w \in M : used + due[w] + (n - 1) * L <= bound
    BY <1>3
  <2>2. n - 1 \in Nat
    BY <1>1, FS_EmptySet
  <2> HIDE DEF n
  <2>3. (n - 1) * L \in Nat
    BY <2>2, TimesGrows
  <2> QED
    BY <2>1, <2>3
<1> QED
  BY <1>2, <1>3 DEF Room

\* Who asked last finds the limit kept, and the others are one fewer than all.
LEMMA RoomJoins ==
    ASSUME NEW E, IsFiniteSet(E), NEW M \in SUBSET E, NEW w \in E \ M, NEW used \in Int, NEW due,
           NEW L \in Nat, NEW limit \in Int, due[w] \in Nat, used + due[w] <= limit
    PROVE  Room(used, M \cup {w}, due, L, limit + (Cardinality(E) - 1) * L)
<1> DEFINE n == Cardinality(M)
           e == Cardinality(E)
<1>1. IsFiniteSet(M) /\ n \in Nat /\ Cardinality(M \cup {w}) = n + 1
  BY FS_Subset, FS_AddElement, FS_CardinalityType
<1>2. e \in Nat /\ n + 1 <= e
  <2>1. M \cup {w} \in SUBSET E
    OBVIOUS
  <2>2. Cardinality(M \cup {w}) <= e
    BY <2>1, FS_Subset
  <2>3. e \in Nat
    BY FS_CardinalityType
  <2> QED
    BY <1>1, <2>2, <2>3
<1> HIDE DEF n, e
<1>3. e - 1 \in Nat /\ n <= e - 1 /\ (n + 1) - 1 = n
  BY <1>1, <1>2
<1>4. n * L <= (e - 1) * L /\ n * L \in Nat /\ (e - 1) * L \in Nat
  BY <1>1, <1>3, TimesGrows
<1>5. used + due[w] + ((n + 1) - 1) * L <= limit + (e - 1) * L
  <2> DEFINE nL == n * L
             eL == (e - 1) * L
  <2> HIDE DEF nL, eL
  <2>1. used + due[w] + nL <= limit + eL
    BY <1>4 DEF nL, eL
  <2> QED
    BY <1>3, <2>1 DEF nL, eL
<1> QED
  BY <1>1, <1>5 DEF Room, e

\* An evaluator that leaves, having spent what it would or nothing, takes its
\* share of the room away with it.
LEMMA RoomLeaves ==
    ASSUME NEW M, IsFiniteSet(M), NEW w, NEW due, NEW due2, NEW L \in Nat, NEW bound \in Int,
           \A v \in M : due[v] \in 0..L, \A v \in M \ {w} : due2[v] = due[v],
           NEW used \in Int, NEW used2 \in Int,
           used2 = used \/ (w \in M /\ used2 = used + due[w]),
           Room(used, M, due, L, bound)
    PROVE  Room(used2, M \ {w}, due2, L, bound)
<1>1. CASE w \notin M
  <2>1. M \ {w} = M /\ used2 = used
    BY <1>1
  <2> QED
    BY <1>1, <2>1 DEF Room
<1>2. CASE w \in M
  <2> DEFINE n == Cardinality(M \ {w})
             nL == n * L
  <2>0. IsFiniteSet(M \ {w}) /\ n = Cardinality(M) - 1 /\ Cardinality(M) \in Nat
    BY <1>2, FS_RemoveElement, FS_CardinalityType
  <2>1. n \in Nat /\ Cardinality(M) = n + 1
    <3>1. n \in Nat
      BY <2>0, FS_CardinalityType
    <3> QED
      BY <2>0, <3>1
  <2> HIDE DEF n
  <2>2. nL \in Nat /\ (n + 1) * L = nL + L /\ (n + 1) - 1 = n
    BY <2>1, TimesGrows
  <2>a. n > 0 => (n - 1) * L = nL - L
    BY <2>1
  <2> HIDE DEF nL
  <2>3. due[w] \in 0..L /\ used2 <= used + due[w] /\ used2 <= used + L
    BY <1>2
  <2>4. CASE used + (nL + L) <= bound
    <3>1. used2 + nL <= bound
      BY <2>2, <2>3, <2>4
    <3> QED
      BY <3>1 DEF Room, n, nL
  <2>5. CASE used + due[w] + nL <= bound
    <3>1. used2 + nL <= bound
      BY <2>2, <2>3, <2>5
    <3> QED
      BY <3>1 DEF Room, n, nL
  <2>6. ASSUME NEW v \in M \ {w}, used + due[v] + nL <= bound
        PROVE  Room(used2, M \ {w}, due2, L, bound)
    <3>1. n > 0
      <4>1. n # 0
        BY <2>0, FS_EmptySet DEF n
      <4> QED
        BY <2>1, <4>1
    <3>2. due2[v] \in 0..L /\ due2[v] = due[v]
      OBVIOUS
    <3>3. used2 + due2[v] + (nL - L) <= bound
      BY <2>2, <2>3, <2>6, <3>2
    <3>4. used2 + due2[v] + (n - 1) * L <= bound
      BY <2>a, <3>1, <3>3
    <3> QED
      BY <3>4 DEF Room, n
  <2>7. \/ used + (nL + L) <= bound
        \/ \E v \in M : used + due[v] + nL <= bound
    BY <2>1, <2>2 DEF Room, nL
  <2> QED
    BY <2>4, <2>5, <2>6, <2>7
<1> QED
  BY <1>1, <1>2

-----------------------------------------------------------------------------
(* The evaluations.                                                         *)

Turn     == [a : Candidate \cup {NoCandidate}, at : 1..6]
Answers  == [committed : Nat, founder : Nat, domainCount : Nat, domainUsd : Nat, pipeline : Nat]
Decision == {"none", "pass", "fail", "manual_review"}

\* No two evaluate the same application, nor one that is decided.
PortfolioTypeOK ==
    /\ decided \in [Candidate -> Decision]
    /\ turn \in [Evaluator -> Turn]
    /\ seen \in [Evaluator -> Answers]
    /\ \A w \in Evaluator : turn[w].a # NoCandidate =>
          /\ decided[turn[w].a] = "none"
          /\ \A v \in Evaluator : v # w => turn[v].a # turn[w].a

Due == [w \in Evaluator |-> IF turn[w].a = NoCandidate THEN 0 ELSE CheckOf[turn[w].a]]

\* What has passed of a group of applications, on top of what had before.
Spent(G, base) == Usd(Passed \cap G) + base

\* Who has its answer to question k, and would still be within the limit by it.
MayPass(G, k, limit) ==
    {w \in Evaluator : turn[w].a \in G /\ turn[w].at > k /\ seen[w][Question[k]] + Due[w] <= limit}

Bound(limit) == limit + (Cardinality(Evaluator) - 1) * LargestCheck

Kept(G, k, base, limit) ==
    Room(Spent(G, base), MayPass(G, k, limit), Due, LargestCheck, Bound(limit))

LEMMA Questions ==
    /\ Question[1] = "committed" /\ Question[2] = "founder" /\ Question[3] = "domainCount"
    /\ Question[4] = "domainUsd" /\ Question[5] = "pipeline" /\ Question[6] = "evaluate"
BY DEF Question

LEMMA LargestIs ==
    LargestCheck \in Nat /\ \A a \in Candidate : CheckOf[a] \in 0..LargestCheck
<1> DEFINE C == {CheckOf[a] : a \in Candidate}
           total == SumFunctionOnSet(CheckOf, Candidate)
           B == {n \in Nat : \A a \in Candidate : CheckOf[a] <= n}
           R == {ss \in Nat \X Nat : ss[1] < ss[2]}
<1>1. total \in Nat /\ \A a \in Candidate : CheckOf[a] <= total
  <2>1. total \in Nat
    BY PortfolioAssumption, SumElement
  <2>2. ASSUME NEW a \in Candidate
        PROVE  CheckOf[a] <= total
    <3> DEFINE rest == SumFunctionOnSet(CheckOf, Candidate \ {a})
    <3>1. total = CheckOf[a] + rest
      BY PortfolioAssumption, SumElement
    <3>2. IsFiniteSet(Candidate \ {a}) /\ \A x \in Candidate \ {a} : CheckOf[x] \in Nat
      BY PortfolioAssumption, FS_RemoveElement
    <3>3. rest \in Nat
      BY <3>2, SumElement
    <3>4. CheckOf[a] \in Nat
      BY PortfolioAssumption
    <3> HIDE DEF rest, total
    <3> QED
      BY <3>1, <3>3, <3>4
  <2> QED
    BY <2>1, <2>2
<1> HIDE DEF total
<1>2. PICK n \in B : \A m \in B : ~(<<m, n>> \in R)
  <2>1. B \subseteq Nat /\ B # {}
    BY <1>1
  <2>2. IsWellFoundedOn(R, Nat)
    BY NatLessThanWellFounded DEF OpToRel
  <2> HIDE DEF B, R
  <2> QED
    BY <2>1, <2>2, WFMin
<1>3. /\ n \in Nat /\ \A a \in Candidate : CheckOf[a] \in Nat /\ CheckOf[a] <= n
      /\ \A m \in B : ~(m < n)
  BY <1>2, PortfolioAssumption
<1>4. \E a \in Candidate : CheckOf[a] = n
  <2> SUFFICES ASSUME \A a \in Candidate : CheckOf[a] # n PROVE FALSE
    OBVIOUS
  <2>1. \A a \in Candidate : CheckOf[a] \in Nat /\ CheckOf[a] <= n - 1
    BY <1>3
  <2>2. n - 1 \in Nat
    <3>1. PICK a \in Candidate : TRUE
      BY PortfolioAssumption
    <3> QED
      BY <1>3, <2>1, <3>1
  <2>3. n - 1 \in B
    BY <2>1, <2>2
  <2> QED
    BY <1>3, <2>3
<1>5. \E c \in C : \A a \in Candidate : CheckOf[a] <= c
  BY <1>3, <1>4
<1>6. LargestCheck \in C /\ \A a \in Candidate : CheckOf[a] <= LargestCheck
  BY <1>5 DEF LargestCheck
<1> QED
  BY <1>6, PortfolioAssumption

LEMMA BoundIs ==
    /\ Cardinality(Evaluator) - 1 \in Nat
    /\ \A limit \in Int : Bound(limit) \in Int /\ limit <= Bound(limit)
<1>1. Cardinality(Evaluator) - 1 \in Nat
  BY PortfolioAssumption, FS_CardinalityType, FS_EmptySet
<1> DEFINE slack == (Cardinality(Evaluator) - 1) * LargestCheck
<1>2. slack \in Nat
  BY <1>1, LargestIs, TimesGrows
<1>3. \A limit \in Int : limit + slack \in Int /\ limit <= limit + slack
  <2> HIDE DEF slack
  <2> QED
    BY <1>2
<1> QED
  BY <1>1, <1>3 DEF Bound

LEMMA UsdIs ==
    ASSUME NEW S \in SUBSET Candidate
    PROVE  /\ Usd(S) \in Nat
           /\ \A a \in Candidate \ S : Usd(S \cup {a}) = Usd(S) + CheckOf[a]
<1>1. IsFiniteSet(S) /\ \A x \in S : CheckOf[x] \in Nat
  BY PortfolioAssumption, FS_Subset
<1>2. Usd(S) \in Nat
  BY <1>1, SumElement DEF Usd
<1>3. ASSUME NEW a \in Candidate \ S
      PROVE  Usd(S \cup {a}) = Usd(S) + CheckOf[a]
  <2>1. \A x \in S \cup {a} : CheckOf[x] \in Nat
    BY PortfolioAssumption
  <2> QED
    BY <1>1, <2>1, SumGrows DEF Usd
<1> QED
  BY <1>2, <1>3

LEMMA DueIs ==
    ASSUME PortfolioTypeOK
    PROVE  \A w \in Evaluator : Due[w] \in 0..LargestCheck
BY LargestIs DEF PortfolioTypeOK, Due, Turn

Asks == 1..5

Answered(r, i, v) == [r EXCEPT ![Question[i]] = v]

\* One answer more leaves the others as they are.
LEMMA AnswerRow ==
    ASSUME NEW r \in Answers, NEW v \in Nat, NEW i \in Asks
    PROVE  LET row == Answered(r, i, v)
           IN  /\ row \in Answers /\ row[Question[i]] = v
               /\ \A j \in Asks : j # i => row[Question[j]] = r[Question[j]]
<1>1. i = 1 \/ i = 2 \/ i = 3 \/ i = 4 \/ i = 5
  BY DEF Asks
<1>2. CASE i = 1
  BY <1>2, Questions DEF Answers, Answered, Asks
<1>3. CASE i = 2
  BY <1>3, Questions DEF Answers, Answered, Asks
<1>4. CASE i = 3
  BY <1>4, Questions DEF Answers, Answered, Asks
<1>5. CASE i = 4
  BY <1>5, Questions DEF Answers, Answered, Asks
<1>6. CASE i = 5
  BY <1>6, Questions DEF Answers, Answered, Asks
<1> QED
  BY <1>1, <1>2, <1>3, <1>4, <1>5, <1>6

LEMMA AnswerIs ==
    ASSUME PortfolioTypeOK, NEW a \in Candidate, NEW i \in 1..5
    PROVE  Answer(a, Question[i]) \in Nat
<1>1. SumFunction(Funded) \in Nat /\ Funded[DomainOf[a]] \in Nat
  BY PortfolioAssumption, SumElement DEF SumFunction
<1>2. ASSUME NEW S \in SUBSET Candidate
      PROVE  Usd(S) \in Nat /\ Cardinality(S) \in Nat
  BY UsdIs, PortfolioAssumption, FS_Subset, FS_CardinalityType
<1>3. Usd(Passed) \in Nat
  BY <1>2 DEF Passed
<1>4. Usd({b \in Passed : FounderOf[b] = FounderOf[a]}) \in Nat
  BY <1>2 DEF Passed
<1>5. Usd({b \in Passed : DomainOf[b] = DomainOf[a]}) \in Nat
  BY <1>2 DEF Passed
<1>6. Cardinality({b \in Passed : DomainOf[b] = DomainOf[a]}) \in Nat
  BY <1>2 DEF Passed
<1>7. Cardinality({b \in Candidate : decided[b] = "none"} \ {a}) \in Nat
  BY <1>2
<1>8. i = 1 \/ i = 2 \/ i = 3 \/ i = 4 \/ i = 5
  OBVIOUS
<1> QED
  BY <1>1, <1>3, <1>4, <1>5, <1>6, <1>7, <1>8, Questions
     DEF Answer, Committed, FounderUsd, DomainUsd

LEMMA VerdictIs == \A a, score, state : Evaluate(a, score, state).decision \in Decision \ {"none"}
BY Zenon DEF Evaluate, Verdict, Decision

\* The steps, with what they leave of the turns.
LEMMA StartStep ==
    ASSUME PortfolioTypeOK, NEW w \in Evaluator, NEW a \in Candidate, StartEvaluation(w, a)
    PROVE  /\ PortfolioTypeOK' /\ decided' = decided /\ turn[w] = Rest
           /\ turn'[w].at = 1
           /\ \A v \in Evaluator : v # w => turn'[v] = turn[v] /\ seen'[v] = seen[v]
<1> DEFINE row == [a |-> a, at |-> 1]
<1>1. row \in Turn /\ row.at = 1 /\ row.a = a
  BY DEF Turn
<1>2. NoAnswer \in Answers
  BY DEF NoAnswer, Answers
<1>3. /\ turn' = [turn EXCEPT ![w] = row] /\ seen' = [seen EXCEPT ![w] = NoAnswer]
      /\ decided' = decided /\ decided[a] = "none" /\ turn[w] = Rest
      /\ \A v \in Evaluator : turn[v].a # a
  BY DEF StartEvaluation
<1> HIDE DEF row
<1>4. /\ turn' \in [Evaluator -> Turn] /\ seen' \in [Evaluator -> Answers] /\ turn'[w] = row
      /\ \A v \in Evaluator : v # w => turn'[v] = turn[v] /\ seen'[v] = seen[v]
  BY <1>1, <1>2, <1>3 DEF PortfolioTypeOK
<1>5. PortfolioTypeOK'
  BY <1>1, <1>3, <1>4 DEF PortfolioTypeOK
<1> QED
  BY <1>1, <1>3, <1>4, <1>5

LEMMA AskStep ==
    ASSUME PortfolioTypeOK, NEW w \in Evaluator, AskPortfolio(w)
    PROVE  /\ PortfolioTypeOK' /\ decided' = decided
           /\ turn[w].a \in Candidate /\ turn[w].at \in 1..5
           /\ turn'[w].a = turn[w].a /\ turn'[w].at = turn[w].at + 1
           /\ \A v \in Evaluator : v # w => turn'[v] = turn[v] /\ seen'[v] = seen[v]
           /\ seen'[w][Question[turn[w].at]] = Answer(turn[w].a, Question[turn[w].at])
           /\ \A j \in 1..5 : j # turn[w].at => seen'[w][Question[j]] = seen[w][Question[j]]
<1> DEFINE i == turn[w].at
           a == turn[w].a
           next == i + 1
           value == Answer(a, Question[i])
           asked == [turn[w] EXCEPT !.at = next]
           row == Answered(seen[w], i, value)
<1>1. turn[w] \in Turn /\ seen[w] \in Answers /\ a \in Candidate /\ i \in 1..6
  BY DEF AskPortfolio, PortfolioTypeOK, Turn
<1>2. i \in 1..5
  BY <1>1, Questions DEF AskPortfolio
<1>3. turn' = [turn EXCEPT ![w] = asked] /\ seen' = [seen EXCEPT ![w] = row] /\ decided' = decided
  BY DEF AskPortfolio, Answered
<1>4. value \in Nat
  BY <1>1, <1>2, AnswerIs
<1>5. next \in 1..6
  BY <1>2
<1> HIDE DEF next
<1>6. asked \in Turn /\ asked.a = a /\ asked.at = next
  <2> HIDE DEF a
  <2> QED
    BY <1>1, <1>5 DEF Turn, a
<1> HIDE DEF value
<1>7. /\ row \in Answers /\ row[Question[i]] = value
      /\ \A j \in 1..5 : j # i => row[Question[j]] = seen[w][Question[j]]
  <2> HIDE DEF i
  <2>1. seen[w] \in Answers /\ i \in Asks
    BY <1>1, <1>2 DEF Asks
  <2>2. /\ row \in Answers /\ row[Question[i]] = value
        /\ \A j \in Asks : j # i => row[Question[j]] = seen[w][Question[j]]
    BY <2>1, <1>4, AnswerRow
  <2> QED
    BY <2>2 DEF Asks
<1> HIDE DEF asked, row
<1>8. /\ turn' \in [Evaluator -> Turn] /\ seen' \in [Evaluator -> Answers]
      /\ turn'[w] = asked /\ seen'[w] = row
      /\ \A v \in Evaluator : v # w => turn'[v] = turn[v] /\ seen'[v] = seen[v]
  BY <1>3, <1>6, <1>7 DEF PortfolioTypeOK
<1>9. PortfolioTypeOK'
  BY <1>3, <1>6, <1>8 DEF PortfolioTypeOK
<1> QED
  BY <1>1, <1>2, <1>3, <1>6, <1>7, <1>8, <1>9 DEF next, value

LEMMA EndStep ==
    ASSUME PortfolioTypeOK, NEW w \in Evaluator, CommitEvaluation(w) \/ AbandonEvaluation(w)
    PROVE  /\ PortfolioTypeOK' /\ turn[w].a \in Candidate /\ turn'[w].a = NoCandidate
           /\ \A v \in Evaluator : v # w => turn'[v] = turn[v] /\ seen'[v] = seen[v]
           /\ \/ Passed' = Passed
              \/ /\ turn[w].a \notin Passed /\ Passed' = Passed \cup {turn[w].a} /\ turn[w].at = 6
                 /\ \E score : Evaluate(ApplicationOf(turn[w].a), score, RepositoryState(seen[w])).decision
                                 = "pass"
<1> DEFINE a == turn[w].a
<1>0. turn[w] \in Turn /\ a \in Candidate /\ turn[w].at \in 1..6 /\ decided[a] = "none"
  BY DEF CommitEvaluation, AbandonEvaluation, PortfolioTypeOK, Turn
<1>1. Rest \in Turn /\ Rest.a = NoCandidate /\ NoAnswer \in Answers
  BY DEF Rest, Turn, NoAnswer, Answers
<1>2. turn' = [turn EXCEPT ![w] = Rest] /\ seen' = [seen EXCEPT ![w] = NoAnswer]
  BY DEF CommitEvaluation, AbandonEvaluation
<1>3. /\ turn' \in [Evaluator -> Turn] /\ seen' \in [Evaluator -> Answers] /\ turn'[w] = Rest
      /\ \A v \in Evaluator : v # w => turn'[v] = turn[v] /\ seen'[v] = seen[v]
  BY <1>1, <1>2 DEF PortfolioTypeOK
<1>4. /\ decided' \in [Candidate -> Decision]
      /\ \A b \in Candidate : b # a => decided'[b] = decided[b]
  <2>1. CASE AbandonEvaluation(w)
    BY <2>1 DEF AbandonEvaluation, PortfolioTypeOK
  <2>2. CASE CommitEvaluation(w)
    <3>1. PICK score :
            decided' = [decided EXCEPT ![a] =
                Evaluate(ApplicationOf(a), score, RepositoryState(seen[w])).decision]
      BY <2>2 DEF CommitEvaluation
    <3> QED
      BY <3>1, VerdictIs DEF PortfolioTypeOK
  <2> QED
    BY <2>1, <2>2
<1>5. PortfolioTypeOK'
  <2> SUFFICES ASSUME NEW v \in Evaluator, turn'[v].a # NoCandidate
               PROVE  /\ decided'[turn'[v].a] = "none"
                      /\ \A u \in Evaluator : u # v => turn'[u].a # turn'[v].a
    BY <1>3, <1>4 DEF PortfolioTypeOK
  <2>1. v # w /\ turn'[v] = turn[v]
    BY <1>1, <1>3
  <2>2. turn[v].a \in Candidate /\ turn[v].a # a /\ decided[turn[v].a] = "none"
    BY <1>0, <2>1 DEF PortfolioTypeOK, Turn
  <2>3. decided'[turn'[v].a] = "none"
    BY <1>4, <2>1, <2>2
  <2>4. ASSUME NEW u \in Evaluator, u # v
        PROVE  turn'[u].a # turn'[v].a
    <3>1. turn'[u] = Rest \/ turn'[u] = turn[u]
      BY <1>3
    <3> QED
      BY <1>1, <2>1, <2>4, <3>1 DEF PortfolioTypeOK
  <2> QED
    BY <2>3, <2>4
<1>6. \/ Passed' = Passed
      \/ /\ a \notin Passed /\ Passed' = Passed \cup {a} /\ turn[w].at = 6
         /\ \E score : Evaluate(ApplicationOf(a), score, RepositoryState(seen[w])).decision = "pass"
  <2>1. CASE AbandonEvaluation(w)
    BY <2>1 DEF AbandonEvaluation, Passed
  <2>2. CASE CommitEvaluation(w)
    <3>1. PICK score :
            decided' = [decided EXCEPT ![a] =
                Evaluate(ApplicationOf(a), score, RepositoryState(seen[w])).decision]
      BY <2>2 DEF CommitEvaluation
    <3> DEFINE verdict == Evaluate(ApplicationOf(a), score, RepositoryState(seen[w])).decision
    <3>2. verdict # "none" /\ decided' = [decided EXCEPT ![a] = verdict]
      BY <3>1, VerdictIs
    <3>3. turn[w].at = 6
      BY <1>0, <2>2, Questions DEF CommitEvaluation
    <3>4. verdict = "pass" =>
             \E s : Evaluate(ApplicationOf(a), s, RepositoryState(seen[w])).decision = "pass"
      OBVIOUS
    <3> HIDE DEF verdict, a
    <3>5. /\ a \notin Passed
          /\ Passed' = IF verdict = "pass" THEN Passed \cup {a} ELSE Passed
      BY <1>0, <3>2 DEF Passed, PortfolioTypeOK
    <3> QED
      BY <3>3, <3>4, <3>5
  <2> QED
    BY <2>1, <2>2
<1> QED
  BY <1>0, <1>1, <1>3, <1>5, <1>6

\* A limit that question k asks about and the policy holds a pass to is kept.
LEMMA LimitKept ==
    ASSUME PortfolioTypeOK, NEW G \in SUBSET Candidate, NEW k \in Asks, NEW base \in Nat, NEW limit \in Int,
           \A a \in G : Answer(a, Question[k]) = Spent(G, base),
           \A score : \A a \in G, s \in Answers :
              Evaluate(ApplicationOf(a), score, RepositoryState(s)).decision = "pass" =>
                 s[Question[k]] + CheckOf[a] <= limit,
           Kept(G, k, base, limit), [PortfolioNext]_portfolioVars
    PROVE  PortfolioTypeOK' /\ Kept(G, k, base, limit)'
<1> DEFINE M == MayPass(G, k, limit)
           L == LargestCheck
           q == Question[k]
<1>0. k \in 1..5 /\ NoCandidate \notin G
  BY PortfolioAssumption DEF Asks
<1>1. M \in SUBSET Evaluator /\ IsFiniteSet(M)
  BY PortfolioAssumption, FS_Subset DEF MayPass
<1>2. /\ turn \in [Evaluator -> Turn] /\ seen \in [Evaluator -> Answers]
      /\ \A v \in Evaluator : Due[v] \in 0..L /\ Due[v] \in Nat
  BY DueIs, LargestIs DEF PortfolioTypeOK
<1>3. Bound(limit) \in Int /\ Bound(limit)' = Bound(limit) /\ L \in Nat /\ LargestCheck' = L
  BY BoundIs, LargestIs DEF Bound, LargestCheck
<1>4. Spent(G, base) \in Int
  <2>1. Usd(Passed \cap G) \in Nat
    BY UsdIs DEF Passed
  <2> QED
    BY <2>1 DEF Spent
<1>5. Room(Spent(G, base), M, Due, L, Bound(limit))
  BY DEF Kept
<1>a. ASSUME NEW v \in Evaluator, turn'[v] = turn[v], seen'[v] = seen[v]
      PROVE  Due'[v] = Due[v] /\ (v \in MayPass(G, k, limit)' <=> v \in M)
  <2>1. Due'[v] = Due[v]
    BY <1>a DEF Due
  <2> QED
    BY <1>a, <2>1 DEF MayPass
<1> HIDE DEF M, L
<1>6. CASE UNCHANGED portfolioVars
  <2>1. decided' = decided /\ turn' = turn /\ seen' = seen
    BY <1>6 DEF portfolioVars
  <2>2. PortfolioTypeOK'
    BY <2>1 DEF PortfolioTypeOK
  <2>3. MayPass(G, k, limit)' = M /\ Due' = Due /\ Spent(G, base)' = Spent(G, base)
    BY <2>1 DEF M, MayPass, Due, Spent, Passed, Usd
  <2> QED
    BY <1>3, <1>5, <2>2, <2>3 DEF Kept
<1>7. ASSUME NEW w \in Evaluator, NEW a \in Candidate, StartEvaluation(w, a)
      PROVE  PortfolioTypeOK' /\ Kept(G, k, base, limit)'
  <2>1. /\ PortfolioTypeOK' /\ decided' = decided /\ turn[w] = Rest /\ turn'[w].at = 1
        /\ \A v \in Evaluator : v # w => turn'[v] = turn[v] /\ seen'[v] = seen[v]
    BY <1>7, StartStep
  <2>2. Spent(G, base)' = Spent(G, base)
    BY <2>1 DEF Spent, Passed, Usd
  <2>3. w \notin M /\ w \notin MayPass(G, k, limit)'
    BY <1>0, <2>1 DEF M, MayPass, Rest
  <2>4. MayPass(G, k, limit)' = M \ {w} /\ \A v \in M \ {w} : Due'[v] = Due[v]
    BY <1>1, <1>a, <2>1, <2>3 DEF MayPass
  <2>5. Room(Spent(G, base), M \ {w}, Due', L, Bound(limit))
    BY <1>1, <1>2, <1>3, <1>4, <1>5, <2>4, RoomLeaves
  <2> QED
    BY <1>3, <2>1, <2>2, <2>4, <2>5 DEF Kept
<1>8. ASSUME NEW w \in Evaluator, AskPortfolio(w)
      PROVE  PortfolioTypeOK' /\ Kept(G, k, base, limit)'
  <2>1. /\ PortfolioTypeOK' /\ decided' = decided
        /\ turn[w].a \in Candidate /\ turn[w].at \in 1..5
        /\ turn'[w].a = turn[w].a /\ turn'[w].at = turn[w].at + 1
        /\ \A v \in Evaluator : v # w => turn'[v] = turn[v] /\ seen'[v] = seen[v]
        /\ seen'[w][Question[turn[w].at]] = Answer(turn[w].a, Question[turn[w].at])
        /\ \A j \in 1..5 : j # turn[w].at => seen'[w][Question[j]] = seen[w][Question[j]]
    BY <1>8, AskStep
  <2>2. Spent(G, base)' = Spent(G, base)
    BY <2>1 DEF Spent, Passed, Usd
  <2>3. \A v \in Evaluator : Due'[v] = Due[v]
    BY <2>1 DEF Due
  <2>4. \A v \in Evaluator : v # w => (v \in MayPass(G, k, limit)' <=> v \in M)
    BY <1>a, <2>1
  <2>5. CASE w \in M <=> w \in MayPass(G, k, limit)'
    <3>1. MayPass(G, k, limit)' = M
      BY <1>1, <2>4, <2>5 DEF MayPass
    <3>2. Room(Spent(G, base), M, Due', L, Bound(limit))
      BY <1>1, <1>5, <2>3 DEF Room
    <3> QED
      BY <1>3, <2>1, <2>2, <3>1, <3>2 DEF Kept
  <2>6. CASE ~(w \in M <=> w \in MayPass(G, k, limit)')
    <3>1. turn[w].at = k
      <4> SUFFICES ASSUME turn[w].at # k PROVE w \in M <=> w \in MayPass(G, k, limit)'
        BY <2>6
      <4>1. seen'[w][q] = seen[w][q]
        BY <1>0, <2>1
      <4>2. turn'[w].at > k <=> turn[w].at > k
        BY <1>0, <2>1
      <4> QED
        BY <2>1, <2>3, <4>1, <4>2 DEF M, MayPass
    <3>2. w \notin M /\ w \in MayPass(G, k, limit)'
      BY <1>0, <2>6, <3>1 DEF M, MayPass
    <3>3. turn[w].a \in G /\ seen'[w][q] + Due[w] <= limit
      BY <2>1, <2>3, <3>2 DEF MayPass
    <3>4. Spent(G, base) + Due[w] <= limit
      BY <2>1, <3>1, <3>3
    <3>5. MayPass(G, k, limit)' = M \cup {w}
      BY <1>1, <2>4, <3>2 DEF MayPass
    <3>6. Room(Spent(G, base), M \cup {w}, Due', L, limit + (Cardinality(Evaluator) - 1) * L)
      BY <1>1, <1>2, <1>3, <1>4, <2>3, <3>2, <3>4, RoomJoins, PortfolioAssumption
    <3> QED
      BY <1>3, <2>1, <2>2, <3>5, <3>6 DEF Kept, Bound, L
  <2> QED
    BY <2>5, <2>6
<1>9. ASSUME NEW w \in Evaluator, CommitEvaluation(w) \/ AbandonEvaluation(w)
      PROVE  PortfolioTypeOK' /\ Kept(G, k, base, limit)'
  <2>1. /\ PortfolioTypeOK' /\ turn[w].a \in Candidate /\ turn'[w].a = NoCandidate
        /\ \A v \in Evaluator : v # w => turn'[v] = turn[v] /\ seen'[v] = seen[v]
        /\ \/ Passed' = Passed
           \/ /\ turn[w].a \notin Passed /\ Passed' = Passed \cup {turn[w].a} /\ turn[w].at = 6
              /\ \E score : Evaluate(ApplicationOf(turn[w].a), score, RepositoryState(seen[w])).decision
                              = "pass"
    BY <1>9, EndStep
  <2>2. w \notin MayPass(G, k, limit)'
    BY <1>0, <2>1 DEF MayPass
  <2>3. MayPass(G, k, limit)' = M \ {w} /\ \A v \in M \ {w} : Due'[v] = Due[v]
    BY <1>1, <1>a, <2>1, <2>2 DEF MayPass
  <2>4. /\ Spent(G, base)' \in Int
        /\ \/ Spent(G, base)' = Spent(G, base)
           \/ w \in M /\ Spent(G, base)' = Spent(G, base) + Due[w]
    <3> DEFINE a == turn[w].a
    <3>1. CASE Passed' \cap G = Passed \cap G
      BY <1>4, <3>1 DEF Spent, Usd
    <3>2. CASE Passed' \cap G # Passed \cap G
      <4>1. /\ a \in G /\ a \in Candidate /\ a \notin Passed /\ turn[w].at = 6
            /\ Passed' \cap G = (Passed \cap G) \cup {a}
            /\ \E score : Evaluate(ApplicationOf(a), score, RepositoryState(seen[w])).decision = "pass"
        BY <2>1, <3>2
      <4>2. Due[w] = CheckOf[a]
        BY <1>0, <4>1 DEF Due
      <4>3. w \in M
        <5>1. seen[w][q] + CheckOf[a] <= limit
          BY <1>2, <4>1
        <5> QED
          BY <1>0, <4>1, <4>2, <5>1 DEF M, MayPass
      <4>4. /\ Usd((Passed \cap G) \cup {a}) = Usd(Passed \cap G) + CheckOf[a]
            /\ Usd(Passed \cap G) \in Nat
        BY <4>1, UsdIs DEF Passed
      <4>5. Usd(Passed' \cap G) = Usd(Passed \cap G) + CheckOf[a]
        BY <4>1, <4>4
      <4>6. CheckOf[a] \in Nat
        BY <4>1, PortfolioAssumption
      <4> HIDE DEF a
      <4>7. Spent(G, base)' = Usd(Passed \cap G) + CheckOf[a] + base
        <5>1. Spent(G, base)' = Usd(Passed' \cap G) + base
          BY DEF Spent, Usd
        <5> QED
          BY <4>5, <5>1
      <4> QED
        BY <4>2, <4>3, <4>4, <4>6, <4>7 DEF Spent
    <3> QED
      BY <3>1, <3>2
  <2>5. Room(Spent(G, base)', M \ {w}, Due', L, Bound(limit))
    BY <1>1, <1>2, <1>3, <1>4, <1>5, <2>3, <2>4, RoomLeaves
  <2> QED
    BY <1>3, <2>1, <2>3, <2>5 DEF Kept
<1> QED
  BY <1>6, <1>7, <1>8, <1>9 DEF PortfolioNext

-----------------------------------------------------------------------------
(* The three limits.                                                        *)

OfFounder(f) == {a \in Candidate : FounderOf[a] = f}
OfDomain(d)  == {a \in Candidate : DomainOf[a] = d}

OfCapacity(percent) == (percent * Capacity) \div 100

ReserveKept    == Kept(Candidate, 1, SumFunction(Funded), Capacity - LiquidityFloor(Capacity))
FounderKept(f) == Kept(OfFounder(f), 2, 0, OfCapacity(12))
DomainKept(d)  == Kept(OfDomain(d), 4, Funded[d], OfCapacity(42))

PortfolioInv ==
    /\ PortfolioTypeOK
    /\ ReserveKept
    /\ \A a \in Candidate : FounderKept(FounderOf[a]) /\ DomainKept(DomainOf[a])

LEMMA Percent ==
    ASSUME NEW p \in Nat, NEW x \in Int
    PROVE  /\ OfCapacity(p) \in Int
           /\ 100 * x <= p * Capacity <=> x <= OfCapacity(p)
<1> DEFINE y == p * Capacity
<1>1. y \in Int
  BY PortfolioAssumption
<1> HIDE DEF y
<1>2. y \div 100 \in Int /\ (100 * x <= y <=> x <= y \div 100)
  BY <1>1
<1> QED
  BY <1>2 DEF OfCapacity, y

\* What the policy is told of the fund is what its gates compare.
LEMMA PassKeepsLimits ==
    ASSUME NEW a \in Candidate, NEW s \in Answers, NEW score,
           Evaluate(ApplicationOf(a), score, RepositoryState(s)).decision = "pass"
    PROVE  /\ s["committed"] + CheckOf[a] <= Capacity - LiquidityFloor(Capacity)
           /\ s["founder"] + CheckOf[a] <= OfCapacity(12)
           /\ s["domainUsd"] + CheckOf[a] <= OfCapacity(42)
<1> DEFINE state == RepositoryState(s)
           ps == NormalizePortfolioState(state)
<1>1. LiquidityFloor(Capacity) \in Nat
  BY PortfolioAssumption DEF LiquidityFloor
<1>2. /\ s.committed \in Nat /\ s.founder \in Nat /\ s.domainUsd \in Nat /\ CheckOf[a] \in Nat
      /\ Capacity \in Nat \ {0}
  BY PortfolioAssumption DEF Answers
<1>3. ApplicationOf(a).requested = CheckOf[a]
  BY DEF ApplicationOf
<1>4. /\ ~(ps.committed + CheckOf[a] > ps.capacity)
      /\ ~(ps.capacity - (ps.committed + CheckOf[a]) < ps.floor)
      /\ ~(100 * (ps.founderUsd + CheckOf[a]) > 12 * ps.capacity)
      /\ ~(100 * (ps.domainUsd + CheckOf[a]) > 42 * ps.capacity)
  <2> HIDE DEF state
  <2>1. LET p == NormalizePortfolioState(state)
            application == ApplicationOf(a)
        IN  /\ ~(p.committed + application.requested > p.capacity)
            /\ ~(p.capacity - (p.committed + application.requested) < p.floor)
            /\ ~(100 * (p.founderUsd + application.requested) > 12 * p.capacity)
            /\ ~(100 * (p.domainUsd + application.requested) > 42 * p.capacity)
    BY PassWithinLimits DEF state
  <2> QED
    BY <1>3, <2>1
<1>5. /\ Get(state, "capacity", DEFAULT_CAPACITY) = Capacity
      /\ Get(state, "committed", 0) = s.committed /\ Get(state, "founderUsd", 0) = s.founder
      /\ Get(state, "domainUsd", 0) = s.domainUsd
      /\ \A default : Get(state, "floor", default) = LiquidityFloor(Capacity)
  BY DEF Get, RepositoryState
<1>6. /\ ps.capacity = Capacity /\ ps.committed = s.committed /\ ps.founderUsd = s.founder
      /\ ps.domainUsd = s.domainUsd /\ ps.floor = LiquidityFloor(Capacity)
  <2> HIDE DEF state
  <2>1. MaxOf(Capacity, 1) = Capacity
    BY <1>2 DEF MaxOf
  <2>2. MaxOf(0, s.domainUsd) = s.domainUsd /\ MaxOf(0, LiquidityFloor(Capacity)) = LiquidityFloor(Capacity)
    BY <1>1, <1>2 DEF MaxOf
  <2> QED
    BY <1>5, <2>1, <2>2 DEF NormalizePortfolioState
<1> HIDE DEF ps
<1>7. /\ s.committed + CheckOf[a] <= Capacity - LiquidityFloor(Capacity)
      /\ 100 * (s.founder + CheckOf[a]) <= 12 * Capacity
      /\ 100 * (s.domainUsd + CheckOf[a]) <= 42 * Capacity
  BY <1>1, <1>2, <1>4, <1>6
<1>8. s.founder + CheckOf[a] \in Int /\ s.domainUsd + CheckOf[a] \in Int
  BY <1>2
<1> QED
  BY <1>7, <1>8, Percent

LEMMA LimitsAre ==
    /\ SumFunction(Funded) \in Nat /\ Capacity - LiquidityFloor(Capacity) \in Int
    /\ OfCapacity(12) \in Nat /\ OfCapacity(42) \in Int
    /\ \A a \in Candidate : /\ Funded[DomainOf[a]] \in Nat
                            /\ Funded[DomainOf[a]] <= OfCapacity(42)
<1>1. SumFunction(Funded) \in Nat /\ \A a \in Candidate : Funded[DomainOf[a]] \in Nat
  BY PortfolioAssumption, SumElement DEF SumFunction
<1>2. Capacity - LiquidityFloor(Capacity) \in Int
  BY PortfolioAssumption DEF LiquidityFloor
<1>3. OfCapacity(12) \in Nat /\ OfCapacity(42) \in Int
  BY PortfolioAssumption DEF OfCapacity
<1>4. \A a \in Candidate : Funded[DomainOf[a]] <= OfCapacity(42)
  BY <1>1, PortfolioAssumption, Percent
<1> QED
  BY <1>1, <1>2, <1>3, <1>4

LEMMA AnswersAre ==
    ASSUME PortfolioTypeOK
    PROVE  /\ \A a \in Candidate : Answer(a, "committed") = Spent(Candidate, SumFunction(Funded))
           /\ \A f : \A a \in OfFounder(f) : Answer(a, "founder") = Spent(OfFounder(f), 0)
           /\ \A d : \A a \in OfDomain(d) : Answer(a, "domainUsd") = Spent(OfDomain(d), Funded[d])
<1>1. Passed \cap Candidate = Passed
  BY DEF Passed
<1>2. \A f : {a \in Passed : FounderOf[a] = f} = Passed \cap OfFounder(f)
  BY DEF Passed, OfFounder
<1>3. \A d : {a \in Passed : DomainOf[a] = d} = Passed \cap OfDomain(d)
  BY DEF Passed, OfDomain
<1>4. \A a \in Candidate : Answer(a, "committed") = Spent(Candidate, SumFunction(Funded))
  BY <1>1 DEF Answer, Committed, Spent
<1>5. ASSUME NEW f, NEW a \in OfFounder(f)
      PROVE  Answer(a, "founder") = Spent(OfFounder(f), 0)
  <2>1. Answer(a, "founder") = Usd(Passed \cap OfFounder(f)) /\ Usd(Passed \cap OfFounder(f)) \in Nat
    BY <1>2, UsdIs DEF Answer, FounderUsd, OfFounder, Passed
  <2> QED
    BY <2>1 DEF Spent
<1>6. ASSUME NEW d, NEW a \in OfDomain(d)
      PROVE  Answer(a, "domainUsd") = Spent(OfDomain(d), Funded[d])
  <2>1. DomainOf[a] = d
    BY DEF OfDomain
  <2> QED
    BY <1>3, <2>1 DEF Answer, DomainUsd, Spent
<1> QED
  BY <1>4, <1>5, <1>6

LEMMA KeptAtFirst ==
    ASSUME PortfolioInit, NEW G \in SUBSET Candidate, NEW k \in Asks, NEW base \in Nat,
           NEW limit \in Int, base <= limit
    PROVE  Kept(G, k, base, limit)
<1>1. MayPass(G, k, limit) = {}
  BY PortfolioAssumption DEF MayPass, PortfolioInit, Rest
<1>2. Passed \cap G = {}
  BY DEF Passed, PortfolioInit
<1>3. Spent(G, base) = base
  <2>1. Usd({}) = 0
    BY FS_EmptySet, SumChosen DEF Usd
  <2> QED
    BY <1>2, <2>1 DEF Spent
<1>4. Cardinality({}) * LargestCheck = 0
  BY FS_EmptySet, LargestIs
<1>5. base + Cardinality({}) * LargestCheck <= Bound(limit)
  BY <1>4, BoundIs
<1> QED
  BY <1>1, <1>3, <1>5 DEF Kept, Room

LEMMA PortfolioInitially == PortfolioInit => PortfolioInv
<1> SUFFICES ASSUME PortfolioInit PROVE PortfolioInv
  OBVIOUS
<1>1. PortfolioTypeOK
  <2>1. Rest \in Turn /\ Rest.a = NoCandidate /\ NoAnswer \in Answers
    BY DEF Rest, Turn, NoAnswer, Answers
  <2> QED
    BY <2>1 DEF PortfolioInit, PortfolioTypeOK, Decision
<1>2. ReserveKept
  <2>1. 1 \in Asks /\ Candidate \in SUBSET Candidate
    BY DEF Asks
  <2> QED
    BY <2>1, LimitsAre, KeptAtFirst, PortfolioAssumption DEF ReserveKept
<1>3. ASSUME NEW a \in Candidate
      PROVE  FounderKept(FounderOf[a]) /\ DomainKept(DomainOf[a])
  <2>1. /\ 2 \in Asks /\ OfFounder(FounderOf[a]) \in SUBSET Candidate
        /\ 4 \in Asks /\ OfDomain(DomainOf[a]) \in SUBSET Candidate
    BY DEF Asks, OfFounder, OfDomain
  <2>2. 0 \in Nat /\ OfCapacity(12) \in Int /\ 0 <= OfCapacity(12)
    BY LimitsAre
  <2>3. FounderKept(FounderOf[a])
    BY <2>1, <2>2, KeptAtFirst DEF FounderKept
  <2>4. DomainKept(DomainOf[a])
    BY <2>1, LimitsAre, KeptAtFirst DEF DomainKept
  <2> QED
    BY <2>3, <2>4
<1> QED
  BY <1>1, <1>2, <1>3 DEF PortfolioInv

LEMMA PortfolioStep == PortfolioInv /\ [PortfolioNext]_portfolioVars => PortfolioInv'
<1> SUFFICES ASSUME PortfolioInv, [PortfolioNext]_portfolioVars
             PROVE  PortfolioInv'
  OBVIOUS
<1>0. PortfolioTypeOK
  BY DEF PortfolioInv
<1>1. PortfolioTypeOK' /\ ReserveKept'
  <2>1. 1 \in Asks /\ Candidate \in SUBSET Candidate
    BY DEF Asks
  <2>2. \A a \in Candidate : Answer(a, Question[1]) = Spent(Candidate, SumFunction(Funded))
    BY <1>0, AnswersAre, Questions
  <2>3. \A score : \A a \in Candidate, s \in Answers :
            Evaluate(ApplicationOf(a), score, RepositoryState(s)).decision = "pass" =>
               s[Question[1]] + CheckOf[a] <= Capacity - LiquidityFloor(Capacity)
    BY PassKeepsLimits, Questions
  <2>4. Kept(Candidate, 1, SumFunction(Funded), Capacity - LiquidityFloor(Capacity))
    BY DEF PortfolioInv, ReserveKept
  <2> DEFINE base  == SumFunction(Funded)
             limit == Capacity - LiquidityFloor(Capacity)
  <2>5. base \in Nat /\ limit \in Int
    BY LimitsAre
  <2> HIDE DEF base, limit
  <2>6. PortfolioTypeOK' /\ Kept(Candidate, 1, base, limit)'
    BY <1>0, <2>1, <2>2, <2>3, <2>4, <2>5, LimitKept DEF base, limit
  <2> QED
    BY <2>6 DEF ReserveKept, base, limit
<1>2. ASSUME NEW a \in Candidate
      PROVE  FounderKept(FounderOf[a])'
  <2> DEFINE G     == OfFounder(FounderOf[a])
             limit == OfCapacity(12)
  <2>1. 2 \in Asks /\ G \in SUBSET Candidate /\ 0 \in Nat /\ limit \in Int
    BY LimitsAre DEF Asks, OfFounder
  <2>2. \A b \in G : Answer(b, Question[2]) = Spent(G, 0)
    BY <1>0, AnswersAre, Questions
  <2>3. \A score : \A b \in G, s \in Answers :
            Evaluate(ApplicationOf(b), score, RepositoryState(s)).decision = "pass" =>
               s[Question[2]] + CheckOf[b] <= limit
    BY <2>1, PassKeepsLimits, Questions
  <2>4. Kept(G, 2, 0, limit)
    BY DEF PortfolioInv, FounderKept
  <2> HIDE DEF G, limit
  <2>5. Kept(G, 2, 0, limit)'
    BY <1>0, <2>1, <2>2, <2>3, <2>4, LimitKept
  <2> QED
    BY <2>5 DEF FounderKept, G, limit
<1>3. ASSUME NEW a \in Candidate
      PROVE  DomainKept(DomainOf[a])'
  <2> DEFINE G     == OfDomain(DomainOf[a])
             base  == Funded[DomainOf[a]]
             limit == OfCapacity(42)
  <2>1. 4 \in Asks /\ G \in SUBSET Candidate /\ base \in Nat /\ limit \in Int
    BY LimitsAre DEF Asks, OfDomain
  <2>2. \A b \in G : Answer(b, Question[4]) = Spent(G, base)
    BY <1>0, AnswersAre, Questions
  <2>3. \A score : \A b \in G, s \in Answers :
            Evaluate(ApplicationOf(b), score, RepositoryState(s)).decision = "pass" =>
               s[Question[4]] + CheckOf[b] <= limit
    BY <2>1, PassKeepsLimits, Questions
  <2>4. Kept(G, 4, base, limit)
    BY DEF PortfolioInv, DomainKept
  <2> HIDE DEF G, base, limit
  <2>5. Kept(G, 4, base, limit)'
    BY <1>0, <2>1, <2>2, <2>3, <2>4, LimitKept
  <2> QED
    BY <2>5 DEF DomainKept, G, base, limit
<1> QED
  BY <1>1, <1>2, <1>3 DEF PortfolioInv

\* A limit kept is passed by the slack at most.
LEMMA KeptIsBounded ==
    ASSUME PortfolioTypeOK, NEW G \in SUBSET Candidate, NEW k, NEW base \in Nat, NEW limit \in Int,
           Kept(G, k, base, limit)
    PROVE  Spent(G, base) \in Nat /\ Spent(G, base) <= Bound(limit)
<1>1. Spent(G, base) \in Nat
  <2>1. Usd(Passed \cap G) \in Nat
    BY UsdIs DEF Passed
  <2> QED
    BY <2>1 DEF Spent
<1>2. MayPass(G, k, limit) \in SUBSET Evaluator /\ IsFiniteSet(MayPass(G, k, limit))
  BY PortfolioAssumption, FS_Subset DEF MayPass
<1>3. \A v \in MayPass(G, k, limit) : Due[v] \in Nat
  BY <1>2, DueIs, LargestIs
<1> DEFINE used  == Spent(G, base)
           M     == MayPass(G, k, limit)
           bound == Bound(limit)
<1>4. used \in Int /\ bound \in Int /\ Room(used, M, Due, LargestCheck, bound)
  BY <1>1, BoundIs DEF Kept
<1> HIDE DEF used, M, bound
<1>5. used <= bound
  BY <1>2, <1>3, <1>4, LargestIs, RoomBounds DEF M
<1> QED
  BY <1>1, <1>5 DEF used, bound

\* However many evaluate side by side, the reserve, a founder's share and a
\* domain's share are passed by no more than a check for each but one of them.
THEOREM OvershootIsBounded == PortfolioSpec => []OvershootBounded
<1>1. PortfolioInv => OvershootBounded
  <2> SUFFICES ASSUME PortfolioInv PROVE OvershootBounded
    OBVIOUS
  <2> DEFINE slack == (Cardinality(Evaluator) - 1) * LargestCheck
  <2>0. PortfolioTypeOK
    BY DEF PortfolioInv
  <2>1. slack \in Nat /\ \A limit : Bound(limit) = limit + slack
    BY BoundIs, LargestIs, TimesGrows DEF Bound
  <2> HIDE DEF slack
  <2>2. Committed <= Capacity - LiquidityFloor(Capacity) + slack
    <3>1. Spent(Candidate, SumFunction(Funded)) <= Bound(Capacity - LiquidityFloor(Capacity))
      BY <2>0, LimitsAre, KeptIsBounded DEF PortfolioInv, ReserveKept
    <3>2. Committed = Spent(Candidate, SumFunction(Funded))
      <4>1. Passed \cap Candidate = Passed
        BY DEF Passed
      <4> QED
        BY <4>1 DEF Committed, Spent
    <3> QED
      BY <2>1, <3>1, <3>2
  <2>3. ASSUME NEW a \in Candidate
        PROVE  /\ 100 * (FounderUsd(FounderOf[a]) - slack) <= 12 * Capacity
               /\ 100 * (DomainUsd(DomainOf[a]) - slack) <= 42 * Capacity
    <3>1. a \in OfFounder(FounderOf[a]) /\ a \in OfDomain(DomainOf[a])
      BY DEF OfFounder, OfDomain
    <3>2. FounderUsd(FounderOf[a]) = Spent(OfFounder(FounderOf[a]), 0)
      <4>1. Answer(a, "founder") = FounderUsd(FounderOf[a])
        BY DEF Answer
      <4> QED
        BY <2>0, <3>1, <4>1, AnswersAre
    <3>3. DomainUsd(DomainOf[a]) = Spent(OfDomain(DomainOf[a]), Funded[DomainOf[a]])
      <4>1. Answer(a, "domainUsd") = DomainUsd(DomainOf[a])
        BY DEF Answer
      <4> QED
        BY <2>0, <3>1, <4>1, AnswersAre
    <3>4. OfFounder(FounderOf[a]) \in SUBSET Candidate /\ OfDomain(DomainOf[a]) \in SUBSET Candidate
      BY DEF OfFounder, OfDomain
    <3>5. /\ FounderUsd(FounderOf[a]) \in Nat
          /\ FounderUsd(FounderOf[a]) <= OfCapacity(12) + slack
      <4>1. Kept(OfFounder(FounderOf[a]), 2, 0, OfCapacity(12))
        BY DEF PortfolioInv, FounderKept
      <4>2. /\ Spent(OfFounder(FounderOf[a]), 0) \in Nat
            /\ Spent(OfFounder(FounderOf[a]), 0) <= Bound(OfCapacity(12))
        BY <2>0, <3>4, <4>1, LimitsAre, KeptIsBounded
      <4> QED
        BY <2>1, <3>2, <4>2
    <3>6. /\ DomainUsd(DomainOf[a]) \in Nat
          /\ DomainUsd(DomainOf[a]) <= OfCapacity(42) + slack
      <4>1. Kept(OfDomain(DomainOf[a]), 4, Funded[DomainOf[a]], OfCapacity(42))
        BY DEF PortfolioInv, DomainKept
      <4>2. /\ Spent(OfDomain(DomainOf[a]), Funded[DomainOf[a]]) \in Nat
            /\ Spent(OfDomain(DomainOf[a]), Funded[DomainOf[a]]) <= Bound(OfCapacity(42))
        BY <2>0, <3>4, <4>1, LimitsAre, KeptIsBounded
      <4> QED
        BY <2>1, <3>3, <4>2
    <3>7. /\ FounderUsd(FounderOf[a]) - slack \in Int
          /\ FounderUsd(FounderOf[a]) - slack <= OfCapacity(12)
      BY <2>1, <3>5, LimitsAre
    <3>8. /\ DomainUsd(DomainOf[a]) - slack \in Int
          /\ DomainUsd(DomainOf[a]) - slack <= OfCapacity(42)
      BY <2>1, <3>6, LimitsAre
    <3> QED
      BY <3>7, <3>8, Percent
  <2> QED
    BY <2>2, <2>3 DEF OvershootBounded, slack
<1> QED
  BY <1>1, PortfolioInitially, PortfolioStep, PTL DEF PortfolioSpec

-----------------------------------------------------------------------------
(* The backtest.                                                            *)

Verdicts == {"pass", "fail", "manual_review"}

Result == [index : Nat, decision : Verdicts, domain : {RowApplication(row).domain : row \in Rows},
           predicted : 0..100, realized : 0..1]

ReportOf(results) ==
    [total   |-> Aggregate(results, DOMAIN results),
     curve   |-> ReliabilityCurve(results),
     domains |-> DomainBreakdown(results)]

Deciding(results, bucket, d) == {i \in bucket : results[i].decision = d}

LEMMA AggregateCounts ==
    ASSUME NEW results, NEW bucket
    PROVE  /\ Aggregate(results, bucket).n = Cardinality(bucket)
           /\ Aggregate(results, bucket).pass   = Cardinality(Deciding(results, bucket, "pass"))
           /\ Aggregate(results, bucket).reject = Cardinality(Deciding(results, bucket, "fail"))
           /\ Aggregate(results, bucket).review = Cardinality(Deciding(results, bucket, "manual_review"))
BY DEF Aggregate, Deciding

LEMMA IntervalIs ==
    ASSUME NEW n \in Nat
    PROVE  IsFiniteSet(1..n) /\ Cardinality(1..n) = n
<1>1. 1 \in Int /\ n \in Int
  OBVIOUS
<1>2. IsFiniteSet(1..n) /\ Cardinality(1..n) = IF 1 > n THEN 0 ELSE n - 1 + 1
  BY <1>1, FS_Interval, Zenon
<1>3. (IF 1 > n THEN 0 ELSE n - 1 + 1) = n
  OBVIOUS
<1> QED
  BY <1>2, <1>3

\* Whatever the results, the report counts each of them once: in the total, under
\* one verdict, in one bin and in one domain.
LEMMA ReportCounts ==
    ASSUME NEW results \in Seq(Result)
    PROVE  LET r == ReportOf(results)
               n == Len(results)
           IN  /\ r.total.n = n /\ r.total.pass + r.total.reject + r.total.review = n
               /\ SumFunction(r.curve) = n
               /\ SumFunction([d \in DOMAIN r.domains |-> r.domains[d].n]) = n
<1> DEFINE I == 1..Len(results)
           n == Len(results)
           r == ReportOf(results)
<1>1. /\ DOMAIN results = I /\ n \in Nat /\ IsFiniteSet(I) /\ Cardinality(I) = n
      /\ \A i \in I : results[i] \in Result
  <2>1. n \in Nat /\ DOMAIN results = I /\ \A i \in I : results[i] \in Result
    OBVIOUS
  <2>2. IsFiniteSet(1..n) /\ Cardinality(1..n) = n
    BY <2>1, IntervalIs
  <2> QED
    BY <2>1, <2>2
<1>2. /\ r.total = Aggregate(results, I) /\ r.curve = ReliabilityCurve(results)
      /\ r.domains = DomainBreakdown(results)
  BY <1>1 DEF ReportOf
<1> HIDE DEF r, I, n
<1>3. r.total.n = n
  BY <1>1, <1>2, AggregateCounts
<1>4. r.total.pass + r.total.reject + r.total.review = n
  <2> DEFINE A == Deciding(results, I, "pass")
             B == Deciding(results, I, "fail")
             C == Deciding(results, I, "manual_review")
  <2>1. /\ r.total.pass = Cardinality(A) /\ r.total.reject = Cardinality(B)
        /\ r.total.review = Cardinality(C)
    BY <1>2, AggregateCounts
  <2>2. /\ (A \cup B) \cup C = I /\ A \cap B = {} /\ (A \cup B) \cap C = {}
        /\ A \in SUBSET I /\ B \in SUBSET I /\ C \in SUBSET I /\ A \cup B \in SUBSET I
    BY <1>1 DEF Result, Verdicts, Deciding
  <2> HIDE DEF A, B, C
  <2>3. /\ IsFiniteSet(A) /\ IsFiniteSet(B) /\ IsFiniteSet(C) /\ IsFiniteSet(A \cup B)
        /\ Cardinality(A) \in Nat /\ Cardinality(B) \in Nat /\ Cardinality(C) \in Nat
    BY <1>1, <2>2, FS_Subset, FS_CardinalityType
  <2>4. Cardinality(A \cup B) = Cardinality(A) + Cardinality(B) - Cardinality(A \cap B)
    BY <2>3, FS_Union
  <2>5. Cardinality((A \cup B) \cup C) =
           Cardinality(A \cup B) + Cardinality(C) - Cardinality((A \cup B) \cap C)
    BY <2>3, FS_Union
  <2>6. /\ Cardinality(A \cap B) = 0 /\ Cardinality((A \cup B) \cap C) = 0
        /\ Cardinality((A \cup B) \cup C) = n
    BY <1>1, <2>2, FS_EmptySet
  <2> QED
    BY <2>1, <2>3, <2>4, <2>5, <2>6
<1>5. SumFunction(r.curve) = n
  <2> DEFINE b == [i \in I |-> Bin(results[i].predicted)]
             K == 0..9
             f == r.curve
  <2>1. IsFiniteSet(K)
    <3>1. 0 \in Int /\ 9 \in Int
      OBVIOUS
    <3> QED
      BY <3>1, FS_Interval, Zenon
  <2>2. \A i \in I : b[i] \in K
    <3> SUFFICES ASSUME NEW i \in I PROVE b[i] \in K
      OBVIOUS
    <3>1. results[i].predicted \in 0..100
      BY <1>1 DEF Result
    <3>2. \A x \in 0..100 : MinOf(9, x \div 10) \in 0..9
      BY DEF MinOf
    <3> QED
      BY <3>1, <3>2 DEF Bin
  <2>3. DOMAIN f = K /\ \A k \in K : f[k] = Cardinality({i \in I : b[i] = k})
    <3>1. DOMAIN f = K /\ \A k \in K : f[k] = Cardinality({i \in I : Bin(results[i].predicted) = k})
      BY <1>1, <1>2 DEF ReliabilityCurve
    <3>2. \A k : {i \in I : Bin(results[i].predicted) = k} = {i \in I : b[i] = k}
      OBVIOUS
    <3> HIDE DEF b, K
    <3> QED
      BY <3>1, <3>2
  <2> HIDE DEF b, K, f
  <2>4. SumFunctionOnSet(f, K) = Cardinality(I)
    BY <1>1, <2>1, <2>2, <2>3, PartsAddUp
  <2> QED
    BY <1>1, <2>3, <2>4 DEF SumFunction, f
<1>6. SumFunction([d \in DOMAIN r.domains |-> r.domains[d].n]) = n
  <2> DEFINE b == [i \in I |-> results[i].domain]
             K == {results[i].domain : i \in I}
             f == [d \in DOMAIN r.domains |-> r.domains[d].n]
  <2>1. IsFiniteSet(K)
    <3>1. b \in Surjection(I, K)
      BY DEF Surjection
    <3> HIDE DEF b, K
    <3> QED
      BY <1>1, <3>1, FS_Surjection
  <2>2. \A i \in I : b[i] \in K
    OBVIOUS
  <2>3. DOMAIN f = K /\ \A d \in K : f[d] = Cardinality({i \in I : b[i] = d})
    <3>1. /\ DOMAIN r.domains = K
          /\ \A d \in K : r.domains[d] = Aggregate(results, {i \in I : results[i].domain = d})
      BY <1>1, <1>2 DEF DomainBreakdown
    <3>2. ASSUME NEW d \in K
          PROVE  f[d] = Cardinality({i \in I : results[i].domain = d})
      <4> DEFINE bucket == {i \in I : results[i].domain = d}
      <4>1. f[d] = Aggregate(results, bucket).n
        BY <3>1
      <4> HIDE DEF bucket, f
      <4>2. f[d] = Cardinality(bucket)
        BY <4>1, AggregateCounts
      <4> QED
        BY <4>2 DEF bucket
    <3>3. \A d : {i \in I : results[i].domain = d} = {i \in I : b[i] = d}
      OBVIOUS
    <3>4. DOMAIN f = K
      BY <3>1
    <3> HIDE DEF b, K, f
    <3> QED
      BY <3>2, <3>3, <3>4
  <2> HIDE DEF b, K, f
  <2>4. SumFunctionOnSet(f, K) = Cardinality(I)
    BY <1>1, <2>1, <2>2, <2>3, PartsAddUp
  <2>5. SumFunction(f) = n
    BY <1>1, <2>3, <2>4 DEF SumFunction
  <2> QED
    BY <2>5 DEF f
<1> QED
  BY <1>3, <1>4, <1>5, <1>6 DEF r, n

\* The run, as long as it goes on: a row read is a result, and none is skipped.
RunShape(b) ==
    /\ b = [at |-> b.at, rows |-> b.rows, snapshot |-> b.snapshot, read |-> b.read,
            skipped |-> b.skipped, results |-> b.results, report |-> b.report, exit |-> b.exit]
    /\ b.rows \in Seq(Rows) /\ b.results \in Seq(Result)

CleanRows(b) ==
    \A i \in 1..Len(b.results) :
        LET r == b.results[i]
        IN  r.decision = "pass" => OrElse(b.rows[r.index].gaming, 100) < 25

BacktestInv ==
    /\ RunShape(backtest)
    /\ CleanRows(backtest)
    /\ backtest.at = "replay" =>
          /\ ExportOk(backtest.rows) /\ backtest.skipped = 0
          /\ backtest.read = Len(backtest.results) /\ backtest.read <= Len(backtest.rows)
    /\ backtest.at = "done" =>
          /\ backtest.skipped = 0 /\ Len(backtest.results) = Len(backtest.rows)
          /\ backtest.report = ReportOf(backtest.results)

LEMMA NoRunShape ==
    /\ RunShape(NoRun) /\ NoRun.at = "idle" /\ NoRun.results = <<>> /\ NoRun.skipped = 0 /\ NoRun.read = 0
BY DEF RunShape, NoRun

LEMMA PassIsClean ==
    ASSUME NEW a, NEW score, NEW state, score.gaming \in Int,
           Evaluate(a, score, state).decision = "pass"
    PROVE  score.gaming < 25
<1> DEFINE codes == FailedGates(a, score, NormalizePortfolioState(state))
<1>1. Verdict(codes) = "pass"
  BY DEF Evaluate
<1>2. codes \cap HardFail = {} /\ codes \cap ManualReviewCodes = {}
  BY <1>1 DEF Verdict
<1>3. codes = {}
  BY <1>2, GatesCounted
<1>4. ~(score.gaming > 35) /\ score.gaming \notin 25..35
  BY <1>3 DEF FailedGates, When
<1> QED
  BY <1>4

LEMMA EmptyRows == <<>> \in Seq(Rows) /\ <<>> \in Seq(Result) /\ Len(<<>>) = 0 /\ 1..0 = {}
OBVIOUS

LEMMA StartKeepsRun ==
    ASSUME BacktestInv, NEW rows \in Datasets, NEW file, NEW pinned, StartBacktest(rows, file, pinned)
    PROVE  BacktestInv'
<1>1. ASSUME backtest' = BacktestError
      PROVE  BacktestInv'
  <2> DEFINE e == BacktestError
  <2>1. e = [at |-> "error", rows |-> <<>>, snapshot |-> Unset, read |-> 0, skipped |-> 0,
             results |-> <<>>, report |-> "none", exit |-> 2]
    <3>1. BacktestError = [NoRun EXCEPT !.at = "error", !.exit = 2]
      BY DEF BacktestError
    <3> QED
      BY <3>1 DEF NoRun
  <2>2. e.at = "error" /\ e.results = <<>>
    BY <2>1
  <2>3. RunShape(e)
    BY <2>1, EmptyRows DEF RunShape
  <2> HIDE DEF e
  <2>4. CleanRows(e)
    BY <2>2, EmptyRows DEF CleanRows
  <2>5. backtest' = e
    BY <1>1 DEF e
  <2> QED
    BY <2>2, <2>3, <2>4, <2>5 DEF BacktestInv
<1>2. ASSUME NEW snapshot, ExportOk(rows),
             backtest' = [NoRun EXCEPT !.at = "replay", !.rows = rows, !.snapshot = snapshot]
      PROVE  BacktestInv'
  <2>1. rows \in Seq(Rows)
    BY DatasetsAssumption
  <2> DEFINE e == [at |-> "replay", rows |-> rows, snapshot |-> snapshot, read |-> 0, skipped |-> 0,
                   results |-> <<>>, report |-> "none", exit |-> 0]
  <2>2. /\ e.at = "replay" /\ e.results = <<>> /\ e.rows = rows /\ e.skipped = 0 /\ e.read = 0
        /\ backtest' = e
    BY <1>2 DEF NoRun
  <2>3. RunShape(e)
    BY <2>1, EmptyRows DEF RunShape
  <2> HIDE DEF e
  <2>4. CleanRows(e)
    BY <2>2, EmptyRows DEF CleanRows
  <2>5. Len(rows) \in Nat
    BY <2>1
  <2>6. ExportOk(e.rows) /\ e.read = Len(e.results) /\ e.read <= Len(e.rows) /\ e.at # "done"
    BY <1>2, <2>2, <2>5, EmptyRows
  <2> QED
    BY <2>2, <2>3, <2>4, <2>6 DEF BacktestInv
<1>3. \/ backtest' = BacktestError
      \/ /\ ExportOk(rows)
         /\ backtest' = [NoRun EXCEPT !.at = "replay", !.rows = rows,
                             !.snapshot = IF file = Unset THEN EmptySnapshot ELSE file]
  BY Zenon DEF StartBacktest
<1>4. CASE backtest' = BacktestError
  BY <1>1, <1>4
<1>5. CASE backtest' # BacktestError
  <2> DEFINE snapshot == IF file = Unset THEN EmptySnapshot ELSE file
  <2>1. /\ ExportOk(rows)
        /\ backtest' = [NoRun EXCEPT !.at = "replay", !.rows = rows, !.snapshot = snapshot]
    BY <1>3, <1>5
  <2> HIDE DEF snapshot
  <2> QED
    BY <1>2, <2>1, Zenon
<1> QED
  BY <1>4, <1>5

LEMMA ReplayKeepsRun ==
    ASSUME BacktestInv, ReplayRow
    PROVE  BacktestInv'
<1> DEFINE b      == backtest
           next   == b.read + 1
           row    == b.rows[next]
           a      == RowApplication(row)
           ps     == SnapshotToPortfolioState(b.snapshot, a.domain)
           result == [index     |-> next,
                      decision  |-> Evaluate(a, RowScore(row), ps).decision,
                      domain    |-> a.domain,
                      predicted |-> Predicted(row.superiority),
                      realized  |-> Realized(row.outcome)]
           results == Append(b.results, result)
<1>1. /\ b.at = "replay" /\ b.read < Len(b.rows) /\ RunShape(b) /\ CleanRows(b)
      /\ ExportOk(b.rows) /\ b.skipped = 0 /\ b.read = Len(b.results)
  BY DEF ReplayRow, BacktestInv
<1>2. /\ b.rows \in Seq(Rows) /\ b.results \in Seq(Result) /\ Len(b.rows) \in Nat /\ Len(b.results) \in Nat
      /\ next \in 1..Len(b.rows) /\ next \in Nat
  BY <1>1 DEF RunShape
<1>3. row \in Rows /\ Normalizes(row)
  BY <1>1, <1>2 DEF ExportOk
<1>4. result \in Result /\ result.index = next /\ result.decision = Evaluate(a, RowScore(row), ps).decision
  <2> DEFINE verdict == Evaluate(a, RowScore(row), ps).decision
             domain  == a.domain
             predicted == Predicted(row.superiority)
             realized == Realized(row.outcome)
  <2>1. verdict \in Verdicts
    BY VerdictIs DEF Decision, Verdicts
  <2>2. domain \in {RowApplication(r).domain : r \in Rows}
    BY <1>3
  <2>3. predicted \in 0..100
    <3>1. row.superiority \in Int
      BY <1>3, DatasetsAssumption
    <3>2. (1000000 + row.superiority) \div 20000 \in Int
      BY <3>1
    <3> QED
      BY <3>2 DEF Predicted, Clamp
  <2>4. realized \in 0..1
    <3>1. realized = 0 \/ realized = 1
      BY Zenon DEF Realized, Term
    <3> HIDE DEF realized
    <3> QED
      BY <3>1
  <2> HIDE DEF verdict, domain, predicted, realized, next
  <2>5. [index |-> next, decision |-> verdict, domain |-> domain, predicted |-> predicted,
         realized |-> realized] \in Result
    BY <1>2, <2>1, <2>2, <2>3, <2>4 DEF Result
  <2> QED
    BY <2>5 DEF verdict, domain, predicted, realized
<1>5. result.decision = "pass" => OrElse(row.gaming, 100) < 25
  <2>1. RowScore(row).gaming = OrElse(row.gaming, 100)
    BY DEF RowScore
  <2>2. OrElse(row.gaming, 100) \in Int
    BY <1>3, DatasetsAssumption DEF OrElse
  <2> HIDE DEF a, ps, result
  <2> QED
    BY <1>4, <2>1, <2>2, PassIsClean
<1>6. backtest' = [b EXCEPT !.read = next, !.skipped = @ + Term(~Normalizes(row), 1), !.results = results]
  BY <1>3 DEF ReplayRow
<1>7. Term(~Normalizes(row), 1) = 0
  BY <1>3 DEF Term
<1> HIDE DEF a, ps, result
<1>8. /\ results \in Seq(Result) /\ Len(results) = Len(b.results) + 1
      /\ results[Len(b.results) + 1] = result
      /\ \A i \in 1..Len(b.results) : results[i] = b.results[i]
  BY <1>2, <1>4, AppendProperties
<1> HIDE DEF results, row
<1>9. /\ RunShape(backtest') /\ backtest'.at = "replay" /\ backtest'.rows = b.rows
      /\ backtest'.read = next /\ backtest'.skipped = 0 /\ backtest'.results = results
  <2>1. b.skipped + Term(~Normalizes(row), 1) = 0
    BY <1>1, <1>7
  <2> HIDE DEF next
  <2>2. backtest' = [at |-> "replay", rows |-> b.rows, snapshot |-> b.snapshot, read |-> next,
                     skipped |-> 0, results |-> results, report |-> b.report, exit |-> b.exit]
    BY <1>1, <1>6, <2>1 DEF RunShape
  <2> QED
    BY <1>2, <1>8, <2>2 DEF RunShape
<1>10. CleanRows(backtest')
  <2> SUFFICES ASSUME NEW i \in 1..Len(results), results[i].decision = "pass"
               PROVE  OrElse(b.rows[results[i].index].gaming, 100) < 25
    BY <1>9 DEF CleanRows
  <2>1. CASE i \in 1..Len(b.results)
    BY <1>1, <1>8, <2>1 DEF CleanRows
  <2>2. CASE i = Len(b.results) + 1
    BY <1>4, <1>5, <1>8, <2>2 DEF row
  <2> QED
    BY <1>2, <1>8, <2>1, <2>2
<1>11. next = Len(results) /\ next <= Len(b.rows)
  BY <1>1, <1>2, <1>8
<1> HIDE DEF next, b
<1> QED
  BY <1>1, <1>9, <1>10, <1>11 DEF BacktestInv

LEMMA EndKeepsRun ==
    ASSUME BacktestInv, EndBacktest
    PROVE  BacktestInv'
<1> DEFINE b == backtest
           report == ReportOf(b.results)
<1>1. /\ b.at = "replay" /\ b.read = Len(b.rows) /\ RunShape(b) /\ CleanRows(b)
      /\ b.skipped = 0 /\ b.read = Len(b.results)
  BY DEF EndBacktest, BacktestInv
<1>2. backtest' = [b EXCEPT !.at = "done", !.report = report]
  BY DEF EndBacktest, ReportOf
<1> HIDE DEF report
<1>3. /\ RunShape(backtest') /\ backtest'.at = "done" /\ backtest'.rows = b.rows
      /\ backtest'.skipped = 0 /\ backtest'.results = b.results /\ backtest'.report = report
  <2>1. backtest' = [at |-> "done", rows |-> b.rows, snapshot |-> b.snapshot, read |-> b.read,
                     skipped |-> b.skipped, results |-> b.results, report |-> report, exit |-> b.exit]
    BY <1>1, <1>2 DEF RunShape
  <2> QED
    BY <1>1, <2>1 DEF RunShape
<1>4. CleanRows(backtest')
  BY <1>1, <1>3 DEF CleanRows
<1> HIDE DEF b
<1> QED
  BY <1>1, <1>3, <1>4 DEF BacktestInv, report

\* Every row of a valid export is in the report, once; and one that passes came
\* with a gaming score that the policy takes for clean.
LEMMA RowsAreAccounted == BacktestSpec => []RowsAccounted
<1>1. BacktestInit => BacktestInv
  <2>1. Len(<<>>) = 0
    OBVIOUS
  <2> QED
    BY <2>1, NoRunShape DEF BacktestInit, BacktestInv, CleanRows
<1>2. BacktestInv /\ [BacktestNext]_backtest => BacktestInv'
  <2> SUFFICES ASSUME BacktestInv, [BacktestNext]_backtest PROVE BacktestInv'
    OBVIOUS
  <2>1. CASE UNCHANGED backtest
    BY <2>1 DEF BacktestInv
  <2> QED
    BY <2>1, StartKeepsRun, ReplayKeepsRun, EndKeepsRun DEF BacktestNext
<1>3. BacktestInv => RowsAccounted
  <2> SUFFICES ASSUME BacktestInv PROVE RowsAccounted
    OBVIOUS
  <2>1. backtest.results \in Seq(Result) /\ DOMAIN backtest.results = 1..Len(backtest.results)
    BY DEF BacktestInv, RunShape
  <2>2. CleanRows(backtest)
    BY DEF BacktestInv
  <2>3. ASSUME backtest.at = "done"
        PROVE  LET r == backtest.report
                   n == Len(backtest.rows)
               IN  /\ backtest.skipped = 0 /\ r.total.n = n
                   /\ r.total.pass + r.total.reject + r.total.review = n
                   /\ SumFunction(r.curve) = n
                   /\ SumFunction([d \in DOMAIN r.domains |-> r.domains[d].n]) = n
    <3>1. /\ backtest.skipped = 0 /\ Len(backtest.results) = Len(backtest.rows)
          /\ backtest.report = ReportOf(backtest.results)
      BY <2>3 DEF BacktestInv
    <3> QED
      BY <2>1, <3>1, ReportCounts
  <2> QED
    BY <2>1, <2>2, <2>3 DEF RowsAccounted, CleanRows
<1> QED
  BY <1>1, <1>2, <1>3, PTL DEF BacktestSpec

\* Neither suite admits a pitch that the detector screened as the service runs it.
THEOREM ScreenedAreRefused == SuiteSpec /\ BacktestSpec => []ScreenedRefused
<1>1. AllRejected /\ RowsAccounted => ScreenedRefused
  BY DEF ScreenedRefused
<1> QED
  BY <1>1, SuiteRejectsAll, RowsAreAccounted, PTL

===============================================================================

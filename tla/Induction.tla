----------------------------- MODULE Induction -----------------------------
(***************************************************************************)
(* Induction over data in first-order form, for the proof modules.  The    *)
(* library's induction rules take a predicate as a parameter; here the     *)
(* predicate is a set, and the rules follow from one fact of the library:  *)
(* strict inclusion of finite sets is well founded.  With them come the    *)
(* existence of recursively defined functions, so that what a recursive    *)
(* definition or a fold computes can be proved, and the laws of sums.      *)
(***************************************************************************)
EXTENDS Integers, Functions, FiniteSetTheorems, TLAPS

-----------------------------------------------------------------------------
(* Induction. *)

\* Of sets of finite sets, one has none below it.
LEMMA FiniteMinimal ==
  ASSUME NEW S, NEW T, T \subseteq FiniteSubsetsOf(S), T # {}
  PROVE  \E x \in T : \A y \in T : y \subseteq x => y = x
  <1>1. PICK x \in T : \A y \in T : <<y, x>> \notin StrictSubsetOrdering(S)
    BY FS_StrictSubsetOrderingWellFounded, WFMin
  <1> QED BY <1>1 DEF StrictSubsetOrdering, FiniteSubsetsOf

LEMMA NatLeast ==
  ASSUME NEW S \in SUBSET Nat, S # {}
  PROVE  \E n \in S : \A m \in S : n <= m
  <1> DEFINE T == {0 .. n : n \in S}
  <1>1. T \subseteq FiniteSubsetsOf(Nat)
    <2>1. \A n \in Nat : 0 .. n \subseteq Nat /\ IsFiniteSet(0 .. n)
      BY FS_Interval
    <2> QED BY <2>1 DEF FiniteSubsetsOf
  <1>2. T # {} OBVIOUS
  <1>3. \E x \in T : \A y \in T : y \subseteq x => y = x
    <2> HIDE DEF T
    <2> QED BY <1>1, <1>2, FiniteMinimal
  <1>4. PICK n \in S : \A y \in T : y \subseteq 0 .. n => y = 0 .. n
    BY <1>3
  <1>5. ASSUME NEW m \in S, ~ (n <= m) PROVE FALSE
    <2>1. 0 .. m \in T OBVIOUS
    <2>2. 0 .. m \subseteq 0 .. n BY <1>5
    <2>3. n \in 0 .. m
      <3> HIDE DEF T
      <3>1. 0 .. m = 0 .. n BY <1>4, <2>1, <2>2
      <3> QED BY <3>1
    <2> QED BY <1>5, <2>3
  <1> QED BY <1>5

LEMMA SetInduction ==
  ASSUME NEW S, 0 \in S, \A n \in Nat : n \in S => n + 1 \in S
  PROVE  Nat \subseteq S
  <1> SUFFICES ASSUME Nat \ S # {} PROVE FALSE OBVIOUS
  <1>1. PICK n \in Nat \ S : \A m \in Nat \ S : n <= m BY NatLeast
  <1>2. n - 1 \in Nat BY <1>1
  <1>3. n - 1 \in S BY <1>1, <1>2
  <1> QED BY <1>1, <1>2, <1>3

\* A set of subsets of D that has {} and, with a set, that set and one more
\* element, has every finite subset of D.
LEMMA FiniteInduction ==
  ASSUME NEW D, NEW P, {} \in P,
         \A s \in SUBSET D, x \in D : IsFiniteSet(s) /\ s \in P /\ x \notin s => s \cup {x} \in P
  PROVE  FiniteSubsetsOf(D) \subseteq P
  <1> DEFINE bad == FiniteSubsetsOf(D) \ P
  <1> SUFFICES ASSUME bad # {} PROVE FALSE OBVIOUS
  <1>0. bad \subseteq FiniteSubsetsOf(D) OBVIOUS
  <1>1. \E s \in bad : \A t \in bad : t \subseteq s => t = s
    <2> HIDE DEF bad
    <2> QED BY <1>0, FiniteMinimal
  <1>1a. PICK s \in bad : \A t \in bad : t \subseteq s => t = s BY <1>1
  <1>2. PICK x \in s : TRUE OBVIOUS
  <1>3. x \in D /\ s \subseteq D /\ IsFiniteSet(s) BY <1>1, <1>2 DEF FiniteSubsetsOf
  <1>4. s \ {x} \in FiniteSubsetsOf(D)
    BY <1>3, FS_RemoveElement DEF FiniteSubsetsOf
  <1>5. s \ {x} \in P BY <1>1a, <1>2, <1>4
  <1>6. (s \ {x}) \cup {x} \in P BY <1>3, <1>4, <1>5 DEF FiniteSubsetsOf
  <1>7. (s \ {x}) \cup {x} = s BY <1>2
  <1> QED BY <1>6, <1>7

-----------------------------------------------------------------------------
(* Recursion.  A recursive function on D is given by the arguments at      *)
(* which it stops and what it is there, and elsewhere by one argument of   *)
(* smaller rank and what is made of its value.                             *)

Descends(D, rank, base, prev) ==
  /\ rank \in [D -> Nat] /\ base \subseteq D
  /\ \A d \in D \ base : prev[d] \in D /\ rank[prev[d]] < rank[d]

Recurs(f, D, base, out, prev, step) ==
  \A d \in D : f[d] = IF d \in base THEN out[d] ELSE step[<<d, f[prev[d]]>>]

\* What holds where the recursion stops, and passes from the smaller argument
\* to the larger, holds everywhere.
LEMMA RankInduction ==
  ASSUME NEW D, NEW rank, NEW base, NEW prev, Descends(D, rank, base, prev),
         NEW P, base \subseteq P, \A d \in D \ base : prev[d] \in P => d \in P
  PROVE  D \subseteq P
  <1> USE DEF Descends
  <1> DEFINE ranks == {rank[d] : d \in D \ P}
  <1> SUFFICES ASSUME D \ P # {} PROVE FALSE OBVIOUS
  <1>1. ranks \subseteq Nat /\ ranks # {} OBVIOUS
  <1>2. \E r \in ranks : \A q \in ranks : r <= q
    <2> HIDE DEF ranks
    <2> QED BY <1>1, NatLeast
  <1>3. PICK e \in D \ P : \A c \in D \ P : rank[e] <= rank[c] BY <1>2
  <1>4. e \notin base /\ prev[e] \in D /\ rank[prev[e]] < rank[e] BY <1>3
  <1>5. rank[e] \in Nat /\ rank[prev[e]] \in Nat BY <1>4
  <1>6. prev[e] \in P BY <1>3, <1>4, <1>5
  <1> QED BY <1>3, <1>4, <1>6

\* There is a function that recurs from its smaller arguments.
LEMMA RecursionExists ==
  ASSUME NEW D, NEW V, NEW rank, NEW base, NEW out, NEW prev, NEW step,
         Descends(D, rank, base, prev), \A d \in base : out[d] \in V,
         \A d \in D \ base, v \in V : step[<<d, v>>] \in V
  PROVE  \E f \in [D -> V] : Recurs(f, D, base, out, prev, step)
  <1> USE DEF Descends, Recurs
  <1> DEFINE Below(n) == {d \in D : rank[d] < n}
             Rec(f, d) == f[d] = IF d \in base THEN out[d] ELSE step[<<d, f[prev[d]]>>]
             Good(n, f) == f \in [Below(n) -> V] /\ \A d \in Below(n) : Rec(f, d)
  <1>1. \E f : Good(0, f)
    <2>1. Below(0) = {} OBVIOUS
    <2>2. Good(0, [d \in Below(0) |-> 0]) BY <2>1
    <2> QED BY <2>2
  <1>2. ASSUME NEW n \in Nat, \E f : Good(n, f) PROVE \E f : Good(n + 1, f)
    <2>1. PICK f : Good(n, f) BY <1>2
    <2> DEFINE h == [d \in Below(n + 1) |->
                       IF d \in Below(n) THEN f[d]
                       ELSE IF d \in base THEN out[d] ELSE step[<<d, f[prev[d]]>>]]
    <2>2. \A d \in Below(n + 1) : d \notin base => prev[d] \in Below(n)
      OBVIOUS
    <2>3. \A d \in Below(n) : f[d] \in V /\ d \in Below(n + 1) /\ Rec(f, d) BY <2>1
    <2>4. h \in [Below(n + 1) -> V] BY <2>2, <2>3
    <2>5. ASSUME NEW d \in Below(n + 1) PROVE Rec(h, d)
      <3>1. h[d] = IF d \in base THEN out[d] ELSE step[<<d, f[prev[d]]>>]
        BY <2>3
      <3>2. d \notin base => h[prev[d]] = f[prev[d]] BY <2>2, <2>3
      <3> QED BY <3>1, <3>2
    <2>6. Good(n + 1, h) BY <2>4, <2>5
    <2> HIDE DEF Good, h
    <2> QED BY <2>6
  <1>3. \A n \in Nat : \E f : Good(n, f)
    <2> DEFINE S == {n \in Nat : \E f : Good(n, f)}
    <2> HIDE DEF Good
    <2>1. 0 \in S BY <1>1
    <2>2. \A n \in Nat : n \in S => n + 1 \in S BY <1>2
    <2>3. Nat \subseteq S
      <3> HIDE DEF S
      <3> QED BY <2>1, <2>2, SetInduction
    <2> QED BY <2>3
  <1>4. ASSUME NEW m \in Nat, NEW n \in Nat, NEW f, NEW g, Good(m, f), Good(n, g), m <= n,
               NEW d \in Below(m)
        PROVE  f[d] = g[d]
    <2> DEFINE r == [e \in Below(m) |-> rank[e]]
               b == base \cap Below(m)
    <2>1. \A e \in Below(m) : e \in Below(n) /\ Rec(f, e) /\ Rec(g, e) BY <1>4
    <2>2. Descends(Below(m), r, b, prev) OBVIOUS
    <2> DEFINE P == {e \in Below(m) : f[e] = g[e]}
    <2>3. b \subseteq P /\ \A e \in Below(m) \ b : prev[e] \in P => e \in P BY <2>1
    <2>4. Below(m) \subseteq P
      <3> HIDE DEF Below, r, b, P, Descends
      <3> QED BY <2>2, <2>3, RankInduction
    <2> QED BY <2>4
  <1> DEFINE F == [d \in D |-> (CHOOSE f : Good(rank[d] + 1, f))[d]]
  <1>5. ASSUME NEW d \in D PROVE F[d] \in V /\ Rec(F, d)
    <2>1. PICK f : f = CHOOSE g : Good(rank[d] + 1, g) OBVIOUS
    <2>2. Good(rank[d] + 1, f)
      <3> HIDE DEF Good
      <3>1. rank[d] + 1 \in Nat OBVIOUS
      <3> QED BY <1>3, <2>1, <3>1
    <2>3. d \in Below(rank[d] + 1) OBVIOUS
    <2>4. F[d] = f[d] /\ f[d] \in V /\ Rec(f, d) BY <2>1, <2>2, <2>3
    <2>5. d \notin base => F[prev[d]] = f[prev[d]]
      <3> SUFFICES ASSUME d \notin base PROVE F[prev[d]] = f[prev[d]] OBVIOUS
      <3>1. prev[d] \in D /\ rank[prev[d]] < rank[d] OBVIOUS
      <3>2. prev[d] \in Below(rank[prev[d]] + 1) BY <3>1
      <3>3. PICK g : g = CHOOSE e : Good(rank[prev[d]] + 1, e) OBVIOUS
      <3>4. /\ rank[prev[d]] + 1 \in Nat /\ rank[d] + 1 \in Nat
            /\ rank[prev[d]] + 1 <= rank[d] + 1
        BY <3>1
      <3>5. Good(rank[prev[d]] + 1, g)
        <4> HIDE DEF Good
        <4> QED BY <1>3, <3>3, <3>4
      <3>6. F[prev[d]] = g[prev[d]] BY <3>1, <3>3
      <3>7. g[prev[d]] = f[prev[d]]
        <4> HIDE DEF Good, Below, F
        <4> QED BY <1>4, <2>2, <3>2, <3>4, <3>5
      <3> QED BY <3>6, <3>7
    <2> QED BY <2>4, <2>5
  <1> QED BY <1>5

-----------------------------------------------------------------------------
(* Sums over a finite set, taken in whatever order the fold takes it. *)

Chosen(s) == CHOOSE x \in s : TRUE

Iterates(g, f, S) ==
  \A s \in SUBSET S : g[s] = IF s = {} THEN 0 ELSE f[Chosen(s)] + g[s \ {Chosen(s)}]

AnyFirst(g, f, S) == \A s \in SUBSET S : \A x \in s : g[s] = f[x] + g[s \ {x}]

\* The fold by which SumFunctionOnSet is defined has a solution that is a
\* function to the integers.
LEMMA SumIterates ==
  ASSUME NEW S, IsFiniteSet(S), NEW f \in [S -> Int]
  PROVE  \E g \in [SUBSET S -> Int] : g[S] = SumFunctionOnSet(f, S) /\ Iterates(g, f, S)
  <1> DEFINE D == SUBSET S
             Is(g) == g = [s \in D |->
                             IF s = {} THEN 0 ELSE f[Chosen(s)] + g[s \ {Chosen(s)}]]
             rank == [s \in D |-> Cardinality(s)]
             base == {{}}
             out == [s \in D |-> 0]
             prev == [s \in D |-> s \ {Chosen(s)}]
             step == [p \in D \X Int |-> IF p[1] = {} THEN 0 ELSE f[Chosen(p[1])] + p[2]]
  <1>1. \A s \in D : s # {} => Chosen(s) \in s BY DEF Chosen
  <1>2. rank \in [D -> Nat] BY FS_Subset, FS_CardinalityType
  <1>3. \A s \in base : out[s] \in Int OBVIOUS
  <1>4. \A s \in D \ base, v \in Int : step[<<s, v>>] \in Int BY <1>1
  <1>5. Descends(D, rank, base, prev)
    <2> SUFFICES ASSUME NEW s \in D, s # {} PROVE prev[s] \in D /\ rank[prev[s]] < rank[s]
      BY <1>2 DEF Descends
    <2>1. IsFiniteSet(s) BY FS_Subset
    <2>2. Cardinality(s \ {Chosen(s)}) = Cardinality(s) - 1 BY <1>1, <2>1, FS_RemoveElement
    <2>3. Cardinality(s) \in Nat BY <2>1, FS_CardinalityType
    <2> QED BY <2>2, <2>3
  <1>6. \E g \in [D -> Int] : Recurs(g, D, base, out, prev, step)
    <2> HIDE DEF D, rank, base, out, prev, step
    <2> QED BY <1>3, <1>4, <1>5, RecursionExists
  <1>7. PICK g \in [D -> Int] : Recurs(g, D, base, out, prev, step) BY <1>6
  <1>8. Is(g) BY <1>1, <1>7 DEF Recurs
  <1>9. PICK h : h = CHOOSE k : Is(k) OBVIOUS
  <1>10. Is(h)
    <2> HIDE DEF Is
    <2> QED BY <1>8, <1>9
  <1>11. h[S] = SumFunctionOnSet(f, S)
    BY <1>9 DEF SumFunctionOnSet, FoldFunctionOnSet, MapThenFoldSet, Chosen
  <1>12. \A s \in D : g[s] = h[s]
    <2> DEFINE P == {s \in D : g[s] = h[s]}
    <2>1. base \subseteq P
      <3>1. {} \in D OBVIOUS
      <3>2. g[{}] = 0 BY <1>8, <3>1
      <3>3. h[{}] = 0 BY <1>10, <3>1
      <3> QED BY <3>1, <3>2, <3>3
    <2>2. ASSUME NEW s \in D \ base, prev[s] \in P PROVE s \in P
      <3>1. g[s] = f[Chosen(s)] + g[s \ {Chosen(s)}] BY <1>8
      <3>2. h[s] = f[Chosen(s)] + h[s \ {Chosen(s)}] BY <1>10
      <3>3. g[s \ {Chosen(s)}] = h[s \ {Chosen(s)}] BY <2>2
      <3> QED BY <3>1, <3>2, <3>3
    <2>3. D \subseteq P
      <3> HIDE DEF D, rank, base, prev, P
      <3> QED BY <1>5, <2>1, <2>2, RankInduction
    <2> QED BY <2>3
  <1>13. g[S] = SumFunctionOnSet(f, S) BY <1>11, <1>12
  <1> QED BY <1>8, <1>13 DEF Iterates

\* Whichever element of a set is taken first, the sum of what is left and its
\* own value is the same.
LEMMA AnyOrder ==
  ASSUME NEW S, IsFiniteSet(S), NEW f \in [S -> Int], NEW g \in [SUBSET S -> Int],
         Iterates(g, f, S)
  PROVE  AnyFirst(g, f, S)
  <1> DEFINE P == {s \in SUBSET S : \A x \in s : g[s] = f[x] + g[s \ {x}]}
             bad == (SUBSET S) \ P
  <1>1. ASSUME bad # {} PROVE FALSE
    <2>1. bad \subseteq FiniteSubsetsOf(S) BY FS_Subset DEF FiniteSubsetsOf
    <2>2. \E t \in bad : \A u \in bad : u \subseteq t => u = t
      <3> HIDE DEF bad
      <3> QED BY <1>1, <2>1, FiniteMinimal
    <2>3. PICK t \in bad : \A u \in bad : u \subseteq t => u = t BY <2>2
    <2>4. PICK x \in t : g[t] # f[x] + g[t \ {x}] BY <2>3
    <2>5. t \in SUBSET S /\ t # {} BY <2>3, <2>4
    <2>6. PICK c \in t : g[t] = f[c] + g[t \ {c}] BY <2>5 DEF Iterates, Chosen
    <2>7. x # c BY <2>4, <2>6
    <2>8. t \ {x} \in P /\ t \ {c} \in P BY <2>3, <2>4, <2>5, <2>6
    <2>9. g[t \ {x}] = f[c] + g[(t \ {x}) \ {c}] BY <2>6, <2>7, <2>8
    <2>10. g[t \ {c}] = f[x] + g[(t \ {c}) \ {x}] BY <2>4, <2>7, <2>8
    <2>11. (t \ {x}) \ {c} = (t \ {c}) \ {x} OBVIOUS
    <2>12. PICK r \in Int : r = g[(t \ {x}) \ {c}] BY <2>5
    <2>13. PICK a \in Int : a = f[x] BY <2>4, <2>5
    <2>14. PICK b \in Int : b = f[c] BY <2>5, <2>6
    <2>15. g[t \ {x}] = b + r /\ g[t \ {c}] = a + r BY <2>9, <2>10, <2>11, <2>12, <2>13, <2>14
    <2>16. g[t] = b + (a + r) /\ g[t] # a + (b + r) BY <2>4, <2>6, <2>13, <2>14, <2>15
    <2>17. b + (a + r) = a + (b + r) OBVIOUS
    <2> QED BY <2>16, <2>17
  <1> QED BY <1>1 DEF AnyFirst

\* Two sums of values that agree on the set are the same sum.
LEMMA SameIterates ==
  ASSUME NEW S, IsFiniteSet(S), NEW f, NEW g, NEW T \in SUBSET S, NEW e, NEW h,
         Iterates(g, f, S), Iterates(h, e, T), \A x \in T : f[x] = e[x]
  PROVE  h[T] = g[T]
  <1> DEFINE P == {s \in SUBSET T : h[s] = g[s]}
             bad == (SUBSET T) \ P
  <1>1. ASSUME bad # {} PROVE FALSE
    <2>1. bad \subseteq FiniteSubsetsOf(S) BY FS_Subset DEF FiniteSubsetsOf
    <2>2. \E t \in bad : \A u \in bad : u \subseteq t => u = t
      <3> HIDE DEF bad
      <3> QED BY <1>1, <2>1, FiniteMinimal
    <2>3. PICK t \in bad : \A u \in bad : u \subseteq t => u = t BY <2>2
    <2>4. t \in SUBSET T /\ t \in SUBSET S /\ h[t] # g[t] BY <2>3
    <2>5. t # {} BY <2>4 DEF Iterates
    <2>6. Chosen(t) \in t BY <2>5 DEF Chosen
    <2>7. t \ {Chosen(t)} \in P BY <2>3, <2>4, <2>6
    <2>8. /\ h[t] = e[Chosen(t)] + h[t \ {Chosen(t)}]
          /\ g[t] = f[Chosen(t)] + g[t \ {Chosen(t)}]
      BY <2>4, <2>5 DEF Iterates
    <2> QED BY <2>4, <2>6, <2>7, <2>8
  <1> QED BY <1>1

LEMMA SumType ==
  ASSUME NEW S, IsFiniteSet(S), NEW f \in [S -> Int]
  PROVE  SumFunction(f) \in Int
  <1>1. PICK g \in [SUBSET S -> Int] : g[S] = SumFunctionOnSet(f, S) /\ Iterates(g, f, S)
    BY SumIterates
  <1>2. S \in SUBSET S OBVIOUS
  <1>3. g[S] \in Int BY <1>2
  <1> QED BY <1>1, <1>3 DEF SumFunction

LEMMA SumEmpty ==
  ASSUME NEW f \in [{} -> Int]
  PROVE  SumFunction(f) = 0
  <1>1. PICK g \in [SUBSET {} -> Int] : g[{}] = SumFunctionOnSet(f, {}) /\ Iterates(g, f, {})
    BY FS_EmptySet, SumIterates
  <1>2. {} \in SUBSET {} OBVIOUS
  <1>3. g[{}] = 0 BY <1>1, <1>2 DEF Iterates
  <1> QED BY <1>1, <1>3 DEF SumFunction

\* Taking x out of the set takes its value out of the sum; e is what is left
\* of the summed values.
LEMMA SumRemove ==
  ASSUME NEW S, IsFiniteSet(S), NEW f \in [S -> Int], NEW x \in S,
         NEW e \in [S \ {x} -> Int], \A y \in S \ {x} : e[y] = f[y]
  PROVE  SumFunctionOnSet(f, S) = f[x] + SumFunctionOnSet(e, S \ {x})
  <1>1. PICK g \in [SUBSET S -> Int] : g[S] = SumFunctionOnSet(f, S) /\ Iterates(g, f, S)
    BY SumIterates
  <1>2. AnyFirst(g, f, S) BY <1>1, AnyOrder
  <1>3. g[S] = f[x] + g[S \ {x}] BY <1>2 DEF AnyFirst
  <1> DEFINE T == S \ {x}
  <1>4. T \in SUBSET S /\ IsFiniteSet(T) /\ e \in [T -> Int] /\ \A y \in T : f[y] = e[y]
    BY FS_Subset
  <1> HIDE DEF T
  <1>5. PICK h \in [SUBSET T -> Int] : h[T] = SumFunctionOnSet(e, T) /\ Iterates(h, e, T)
    BY <1>4, SumIterates
  <1>6. h[T] = g[T] BY <1>1, <1>4, <1>5, SameIterates
  <1> QED BY <1>1, <1>3, <1>5, <1>6 DEF T

Extends(f, e, S, x) ==
  /\ x \notin S /\ e \in [S -> Int] /\ f \in [S \cup {x} -> Int]
  /\ \A y \in S : e[y] = f[y]

\* One more element adds its value, whatever order the fold takes.
LEMMA SumAdd ==
  ASSUME NEW S, IsFiniteSet(S), NEW x, NEW f, NEW e, Extends(f, e, S, x)
  PROVE  SumFunction(f) = f[x] + SumFunction(e)
  <1> USE DEF Extends
  <1> DEFINE T == S \cup {x}
  <1>1. IsFiniteSet(T) /\ x \in T /\ f \in [T -> Int] BY FS_AddElement
  <1>2. T \ {x} = S /\ e \in [T \ {x} -> Int] /\ \A y \in T \ {x} : e[y] = f[y] OBVIOUS
  <1>3. DOMAIN f = T /\ DOMAIN e = S OBVIOUS
  <1> HIDE DEF T
  <1>4. SumFunctionOnSet(f, T) = f[x] + SumFunctionOnSet(e, T \ {x})
    BY <1>1, <1>2, SumRemove
  <1> QED BY <1>2, <1>3, <1>4 DEF SumFunction

\* A sum of smaller values is smaller.
LEMMA SumMonotone ==
  ASSUME NEW S, IsFiniteSet(S), NEW f \in [S -> Int], NEW e \in [S -> Int],
         \A x \in S : f[x] <= e[x]
  PROVE  SumFunction(f) <= SumFunction(e)
  <1> DEFINE F(s) == [x \in s |-> f[x]]
             E(s) == [x \in s |-> e[x]]
             P == {s \in SUBSET S : SumFunction(F(s)) <= SumFunction(E(s))}
  <1>1. {} \in P
    <2>1. F({}) \in [{} -> Int] /\ E({}) \in [{} -> Int] OBVIOUS
    <2> HIDE DEF F, E
    <2>2. SumFunction(F({})) = 0 /\ SumFunction(E({})) = 0 BY <2>1, SumEmpty
    <2> QED BY <2>2
  <1>2. ASSUME NEW s \in SUBSET S, NEW x \in S, IsFiniteSet(s), s \in P, x \notin s
        PROVE  s \cup {x} \in P
    <2>1. Extends(F(s \cup {x}), F(s), s, x) /\ F(s \cup {x})[x] = f[x] /\ F(s) \in [s -> Int]
      BY <1>2 DEF Extends
    <2>2. Extends(E(s \cup {x}), E(s), s, x) /\ E(s \cup {x})[x] = e[x] /\ E(s) \in [s -> Int]
      BY <1>2 DEF Extends
    <2>3. SumFunction(F(s)) <= SumFunction(E(s)) BY <1>2
    <2>4. f[x] <= e[x] /\ f[x] \in Int /\ e[x] \in Int OBVIOUS
    <2> HIDE DEF F, E, P
    <2>5. SumFunction(F(s \cup {x})) = f[x] + SumFunction(F(s)) BY <1>2, <2>1, SumAdd
    <2>6. SumFunction(E(s \cup {x})) = e[x] + SumFunction(E(s)) BY <1>2, <2>2, SumAdd
    <2>7. SumFunction(F(s)) \in Int /\ SumFunction(E(s)) \in Int BY <1>2, <2>1, <2>2, SumType
    <2>8. SumFunction(F(s \cup {x})) <= SumFunction(E(s \cup {x}))
      BY <2>3, <2>4, <2>5, <2>6, <2>7
    <2> QED BY <2>8 DEF P
  <1>3. FiniteSubsetsOf(S) \subseteq P
    <2> HIDE DEF P
    <2> QED BY <1>1, <1>2, FiniteInduction
  <1>4. S \in P BY <1>3 DEF FiniteSubsetsOf
  <1>5. F(S) = f /\ E(S) = e OBVIOUS
  <1> QED BY <1>4, <1>5

\* A sum of nothing is nothing.
LEMMA SumOfNothing ==
  ASSUME NEW S, IsFiniteSet(S)
  PROVE  SumFunction([x \in S |-> 0]) = 0
  <1> DEFINE Z(s) == [x \in s |-> 0]
             P == {s \in SUBSET S : SumFunction(Z(s)) = 0}
  <1>1. {} \in P
    <2>1. Z({}) \in [{} -> Int] OBVIOUS
    <2> HIDE DEF Z
    <2> QED BY <2>1, SumEmpty
  <1>2. ASSUME NEW s \in SUBSET S, NEW x \in S, IsFiniteSet(s), s \in P, x \notin s
        PROVE  s \cup {x} \in P
    <2>1. Extends(Z(s \cup {x}), Z(s), s, x) /\ Z(s \cup {x})[x] = 0
      BY <1>2 DEF Extends
    <2>2. SumFunction(Z(s)) = 0 BY <1>2
    <2> HIDE DEF Z, P
    <2>3. SumFunction(Z(s \cup {x})) = 0 + SumFunction(Z(s)) BY <1>2, <2>1, SumAdd
    <2> QED BY <2>2, <2>3 DEF P
  <1>3. FiniteSubsetsOf(S) \subseteq P
    <2> HIDE DEF P
    <2> QED BY <1>1, <1>2, FiniteInduction
  <1> QED BY <1>3 DEF FiniteSubsetsOf

\* Two disjoint sets are summed one after the other.
LEMMA SumDisjoint ==
  ASSUME NEW S, NEW T, IsFiniteSet(S), IsFiniteSet(T), S \cap T = {},
         NEW f \in [S \cup T -> Int]
  PROVE  SumFunction(f) = SumFunction(Restrict(f, S)) + SumFunction(Restrict(f, T))
  <1> DEFINE F(s) == [x \in s |-> f[x]]
             P == {t \in SUBSET T : SumFunction(F(S \cup t)) = SumFunction(F(S)) + SumFunction(F(t))}
  <1>1. \A s \in SUBSET (S \cup T) : F(s) \in [s -> Int] OBVIOUS
  <1>2. S \in SUBSET (S \cup T) OBVIOUS
  <1>3. SumFunction(F(S)) \in Int
    <2> HIDE DEF F
    <2> QED BY <1>1, <1>2, SumType
  <1>4. {} \in P
    <2> HIDE DEF F
    <2>1. SumFunction(F({})) = 0 BY <1>1, SumEmpty
    <2>2. S \cup {} = S OBVIOUS
    <2> QED BY <1>3, <2>1, <2>2
  <1>5. ASSUME NEW t \in SUBSET T, NEW x \in T, IsFiniteSet(t), t \in P, x \notin t
        PROVE  t \cup {x} \in P
    <2> DEFINE u == S \cup t
    <2>1. u \cup {x} = S \cup (t \cup {x}) /\ x \notin u BY <1>5
    <2>2. IsFiniteSet(u) BY <1>5, FS_Union
    <2>3. Extends(F(t \cup {x}), F(t), t, x) /\ F(t \cup {x})[x] = f[x] /\ F(t) \in [t -> Int]
      BY <1>5 DEF Extends
    <2>4. Extends(F(u \cup {x}), F(u), u, x) /\ F(u \cup {x})[x] = f[x]
      BY <2>1 DEF Extends
    <2>5. SumFunction(F(u)) = SumFunction(F(S)) + SumFunction(F(t)) BY <1>5
    <2>6. f[x] \in Int OBVIOUS
    <2> HIDE DEF F, P, u
    <2>7. SumFunction(F(t \cup {x})) = f[x] + SumFunction(F(t)) BY <1>5, <2>3, SumAdd
    <2>8. SumFunction(F(u \cup {x})) = f[x] + SumFunction(F(u)) BY <2>2, <2>4, SumAdd
    <2>9. SumFunction(F(t)) \in Int BY <1>5, <2>3, SumType
    <2>10. SumFunction(F(u \cup {x})) = SumFunction(F(S)) + SumFunction(F(t \cup {x}))
      BY <1>3, <2>5, <2>6, <2>7, <2>8, <2>9
    <2> QED BY <2>1, <2>10 DEF P
  <1>6. FiniteSubsetsOf(T) \subseteq P
    <2> HIDE DEF P
    <2> QED BY <1>4, <1>5, FiniteInduction
  <1>7. T \in P BY <1>6 DEF FiniteSubsetsOf
  <1>8. F(S \cup T) = f /\ F(S) = Restrict(f, S) /\ F(T) = Restrict(f, T) BY DEF Restrict
  <1> QED BY <1>7, <1>8
=============================================================================

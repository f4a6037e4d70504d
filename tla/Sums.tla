-------------------------------- MODULE Sums --------------------------------
(***************************************************************************)
(* What the proofs about sums of money need of SumFunction: the recursion  *)
(* it is defined by has a solution over a finite domain, and the sum does  *)
(* not depend on the order in which the elements are taken.                *)
(***************************************************************************)
EXTENDS Functions, FiniteSetTheorems, WellFoundedInduction, TLAPS

\* Induction for a set of numbers.
THEOREM SetOfNatInduction ==
   ASSUME NEW N, 0 \in N, \A n \in Nat : n \in N => n + 1 \in N
   PROVE  Nat \subseteq N
<1> SUFFICES ASSUME Nat \ N # {} PROVE FALSE
  OBVIOUS
<1>1. PICK n \in Nat \ N : \A m \in Nat \ N : ~ (<<m, n>> \in OpToRel(<, Nat))
  BY NatLessThanWellFounded, WFMin
<1>2. n # 0 OBVIOUS
<1>3. n - 1 \in Nat /\ n - 1 < n BY <1>2
<1>4. n - 1 \in N
  <2>1. SUFFICES ASSUME n - 1 \notin N PROVE FALSE
    OBVIOUS
  <2>2. <<n - 1, n>> \in OpToRel(<, Nat) BY <1>3 DEF OpToRel
  <2>3. QED BY <1>1, <1>3, <2>1, <2>2
<1>5. (n - 1) + 1 = n /\ n \notin N OBVIOUS
<1>6. QED BY <1>3, <1>4, <1>5

\* A part without one of its elements.
LEMMA SmallerPart ==
   ASSUME NEW D, IsFiniteSet(D), NEW s \in SUBSET D, NEW x \in s
   PROVE  /\ IsFiniteSet(s) /\ Cardinality(s) \in Nat
          /\ s \ {x} \in SUBSET D
          /\ Cardinality(s \ {x}) = Cardinality(s) - 1
          /\ Cardinality(s \ {x}) \in Nat
<1>1. IsFiniteSet(s) BY FS_Subset
<1>2. IsFiniteSet(s \ {x}) /\ Cardinality(s \ {x}) = Cardinality(s) - 1
  BY <1>1, FS_RemoveElement
<1>3. QED BY <1>1, <1>2, FS_CardinalityType

\* Induction over the parts of a finite set, from the empty one.
THEOREM PartsInduction ==
   ASSUME NEW D, IsFiniteSet(D), NEW W, {} \in W,
          \A s \in SUBSET D : s # {} /\ (\A x \in s : s \ {x} \in W) => s \in W
   PROVE  SUBSET D \subseteq W
<1> DEFINE N == {n \in Nat : \A s \in SUBSET D : Cardinality(s) <= n => s \in W}
<1>1. \A s \in SUBSET D : IsFiniteSet(s) /\ Cardinality(s) \in Nat
  BY FS_Subset, FS_CardinalityType
<1>2. 0 \in N
  <2>1. \A s \in SUBSET D : Cardinality(s) <= 0 => s = {} BY <1>1, FS_EmptySet
  <2>2. QED BY <2>1
<1>3. ASSUME NEW n \in Nat, n \in N PROVE n + 1 \in N
  <2>1. ASSUME NEW s \in SUBSET D, Cardinality(s) <= n + 1, s # {} PROVE s \in W
    <3>1. ASSUME NEW x \in s PROVE s \ {x} \in W
      <4>1. s \ {x} \in SUBSET D /\ Cardinality(s \ {x}) <= n BY <2>1, SmallerPart
      <4>2. QED BY <1>3, <4>1
    <3>2. QED BY <2>1, <3>1
  <2>2. n + 1 \in Nat OBVIOUS
  <2>3. QED BY <2>1, <2>2
<1>4. Nat \subseteq N
  <2> HIDE DEF N
  <2>1. QED BY <1>2, <1>3, SetOfNatInduction
<1>5. ASSUME NEW s \in SUBSET D PROVE s \in W
  <2>1. Cardinality(s) \in N /\ Cardinality(s) <= Cardinality(s) BY <1>1, <1>4
  <2>2. QED BY <2>1
<1>6. QED BY <1>5

\* The recursion behind SumFunction: g sums f over every part of D.
Pick(s) == CHOOSE x \in s : TRUE

IsSum(g, f, D) ==
   g = [s \in SUBSET D |-> IF s = {} THEN 0 ELSE f[Pick(s)] + g[s \ {Pick(s)}]]

LEMMA PickIn == ASSUME NEW s, s # {} PROVE Pick(s) \in s
BY DEF Pick

\* The recursion has a solution.
LEMMA SumExists ==
   ASSUME NEW D, IsFiniteSet(D), NEW f
   PROVE  \E g : IsSum(g, f, D)
<1> DEFINE Upto(n) == {s \in SUBSET D : Cardinality(s) <= n}
           Sums(g, n) == g = [s \in Upto(n) |-> IF s = {} THEN 0
                                                ELSE f[Pick(s)] + g[s \ {Pick(s)}]]
           N == {n \in Nat : \E g : Sums(g, n)}
<1>1. \A s \in SUBSET D : IsFiniteSet(s) /\ Cardinality(s) \in Nat /\ Cardinality(s) <= Cardinality(D)
  BY FS_Subset, FS_CardinalityType
<1>2. 0 \in N
  <2> DEFINE g == [s \in Upto(0) |-> 0]
  <2>1. \A s \in Upto(0) : s = {} BY <1>1, FS_EmptySet
  <2>2. Sums(g, 0) BY <2>1
  <2> HIDE DEF Sums, g
  <2>3. QED BY <2>2
<1>3. ASSUME NEW n \in N PROVE n + 1 \in N
  <2>1. PICK g : Sums(g, n) BY <1>3
  <2> DEFINE h == [s \in Upto(n + 1) |-> IF s = {} THEN 0 ELSE f[Pick(s)] + g[s \ {Pick(s)}]]
  <2>2. \A s \in Upto(n) : s \in Upto(n + 1) BY <1>1
  <2>3. \A s \in Upto(n) : h[s] = g[s] BY <2>1, <2>2
  <2>4. \A s \in Upto(n + 1) : s # {} => s \ {Pick(s)} \in Upto(n)
    <3> SUFFICES ASSUME NEW s \in Upto(n + 1), s # {} PROVE s \ {Pick(s)} \in Upto(n)
      OBVIOUS
    <3>1. Cardinality(s \ {Pick(s)}) = Cardinality(s) - 1 /\ s \ {Pick(s)} \in SUBSET D
      BY PickIn, SmallerPart
    <3>2. Cardinality(s) <= n + 1 /\ Cardinality(s) \in Nat /\ n \in Nat BY <1>1
    <3>3. QED BY <3>1, <3>2
  <2>5. h = [s \in Upto(n + 1) |-> IF s = {} THEN 0 ELSE f[Pick(s)] + h[s \ {Pick(s)}]]
    <3> HIDE DEF Upto
    <3>1. \A s \in Upto(n + 1) :
             h[s] = IF s = {} THEN 0 ELSE f[Pick(s)] + h[s \ {Pick(s)}]
      BY <2>3, <2>4
    <3>2. QED BY <3>1
  <2> HIDE DEF h
  <2>6. Sums(h, n + 1) BY <2>5
  <2>7. n + 1 \in Nat OBVIOUS
  <2> HIDE DEF Sums
  <2>8. QED BY <2>6, <2>7
<1> DEFINE c == Cardinality(D)
<1>4. c \in Nat BY FS_CardinalityType
<1>5. c \in N
  <2> HIDE DEF N, c
  <2>1. \A n \in Nat : n \in N => n + 1 \in N BY <1>3
  <2>2. QED BY <1>2, <1>4, <2>1, SetOfNatInduction
<1>6. PICK g : Sums(g, c) BY <1>5
<1>7. Upto(c) = SUBSET D BY <1>1
<1>8. QED BY <1>6, <1>7 DEF IsSum

\* The sum is what one such function says of the whole domain.
LEMMA SumIsSum ==
   ASSUME NEW f, IsFiniteSet(DOMAIN f)
   PROVE  \E g : IsSum(g, f, DOMAIN f) /\ SumFunction(f) = g[DOMAIN f]
<1> DEFINE g == CHOOSE g : IsSum(g, f, DOMAIN f)
<1>1. IsSum(g, f, DOMAIN f) BY SumExists
<1>2. SumFunction(f) = g[DOMAIN f]
  BY DEF SumFunction, SumFunctionOnSet, FoldFunctionOnSet, MapThenFoldSet, IsSum, Pick
<1>3. QED BY <1>1, <1>2

\* Any element may be taken first.
LEMMA SumTakes ==
   ASSUME NEW D, IsFiniteSet(D), NEW f, \A x \in D : f[x] \in Int,
          NEW g, IsSum(g, f, D)
   PROVE  /\ g[{}] = 0
          /\ \A s \in SUBSET D : g[s] \in Int
          /\ \A s \in SUBSET D : \A x \in s : g[s] = f[x] + g[s \ {x}]
<1> DEFINE Good(s) == g[s] \in Int /\ \A x \in s : g[s] = f[x] + g[s \ {x}]
           W == {s \in SUBSET D : \A t \in SUBSET s : Good(t)}
<1>1. \A s \in SUBSET D : g[s] = IF s = {} THEN 0 ELSE f[Pick(s)] + g[s \ {Pick(s)}]
  BY DEF IsSum
<1>2. g[{}] = 0 BY <1>1
<1>3. {} \in W BY <1>2
<1>4. ASSUME NEW s \in SUBSET D, s # {}, \A x \in s : s \ {x} \in W PROVE s \in W
  <2> DEFINE y == Pick(s)
             t == s \ {y}
  <2>1. y \in s BY <1>4, PickIn
  <2> HIDE DEF y
  <2>2. g[s] = f[y] + g[t] BY <1>1, <1>4 DEF y
  <2>3. f[y] \in Int /\ g[t] \in Int BY <1>4, <2>1
  <2>4. ASSUME NEW x \in s PROVE g[s] = f[x] + g[s \ {x}]
    <3>1. CASE x = y BY <2>2, <3>1
    <3>2. CASE x # y
      <4> DEFINE u == s \ {x, y}
      <4>1. /\ t \ {x} = u /\ (s \ {x}) \ {y} = u /\ x \in t /\ y \in s \ {x}
            /\ u \in SUBSET t
        BY <2>1, <3>2
      <4>2. Good(t) /\ Good(u) /\ Good(s \ {x}) BY <1>4, <2>1, <4>1
      <4>3. g[t] = f[x] + g[u] /\ g[s \ {x}] = f[y] + g[u] BY <4>1, <4>2
      <4>4. g[u] \in Int /\ f[x] \in Int BY <4>2
      <4> HIDE DEF u, t, Good
      <4>5. QED BY <2>2, <2>3, <4>3, <4>4
    <3>3. QED BY <3>1, <3>2
  <2>5. Good(s)
    <3>1. g[s] \in Int BY <2>2, <2>3
    <3>2. QED BY <2>4, <3>1
  <2>6. ASSUME NEW v \in SUBSET s PROVE Good(v)
    <3> HIDE DEF Good
    <3>1. CASE v = s BY <2>5, <3>1
    <3>2. CASE v # s
      <4>1. PICK x \in s : x \notin v BY <3>2
      <4>2. v \in SUBSET (s \ {x}) BY <4>1
      <4>3. QED BY <1>4, <4>1, <4>2
    <3>3. QED BY <3>1, <3>2
  <2> HIDE DEF Good
  <2>7. QED BY <2>6
<1>5. SUBSET D \subseteq W
  <2> HIDE DEF W
  <2>1. QED BY <1>3, <1>4, PartsInduction
<1>6. \A s \in SUBSET D : Good(s)
  <2> HIDE DEF Good
  <2>1. QED BY <1>5
<1>7. QED BY <1>2, <1>6

\* Two such functions agree on the parts on which what they sum does, and one is
\* nowhere above the other if what it sums is not.
LEMMA SumsCompare ==
   ASSUME NEW D, IsFiniteSet(D), NEW f, \A x \in D : f[x] \in Int, NEW g, IsSum(g, f, D),
          NEW E, IsFiniteSet(E), NEW e, \A x \in E : e[x] \in Int, NEW h, IsSum(h, e, E)
   PROVE  \A s \in SUBSET (D \cap E) :
             /\ (\A x \in s : f[x] = e[x]) => g[s] = h[s]
             /\ (\A x \in s : f[x] <= e[x]) => g[s] <= h[s]
<1> DEFINE Good(s) == /\ (\A x \in s : f[x] = e[x]) => g[s] = h[s]
                      /\ (\A x \in s : f[x] <= e[x]) => g[s] <= h[s]
           W == {s \in SUBSET (D \cap E) : Good(s)}
<1>1. /\ g[{}] = 0 /\ \A s \in SUBSET D : g[s] \in Int
      /\ \A s \in SUBSET D : \A x \in s : g[s] = f[x] + g[s \ {x}]
  BY SumTakes
<1>2. /\ h[{}] = 0 /\ \A s \in SUBSET E : h[s] \in Int
      /\ \A s \in SUBSET E : \A x \in s : h[s] = e[x] + h[s \ {x}]
  BY SumTakes
<1>3. {} \in W BY <1>1, <1>2
<1>4. ASSUME NEW s \in SUBSET (D \cap E), s # {}, \A x \in s : s \ {x} \in W PROVE s \in W
  <2>1. PICK x \in s : TRUE BY <1>4
  <2>2. Good(s \ {x}) BY <1>4, <2>1
  <2>3. s \in SUBSET D /\ s \in SUBSET E /\ s \ {x} \in SUBSET D /\ s \ {x} \in SUBSET E
    OBVIOUS
  <2>4. g[s] = f[x] + g[s \ {x}] /\ h[s] = e[x] + h[s \ {x}] BY <1>1, <1>2, <2>1, <2>3
  <2>5. f[x] \in Int /\ e[x] \in Int /\ g[s \ {x}] \in Int /\ h[s \ {x}] \in Int
    BY <1>1, <1>2, <2>1, <2>3
  <2>6. Good(s) BY <2>2, <2>4, <2>5
  <2> HIDE DEF Good
  <2>7. QED BY <2>6
<1>5. SUBSET (D \cap E) \subseteq W
  <2>1. IsFiniteSet(D \cap E) BY FS_Subset
  <2> HIDE DEF W
  <2>2. QED BY <1>3, <1>4, <2>1, PartsInduction
<1>6. QED BY <1>5

-----------------------------------------------------------------------------
(* SumFunction, without its recursion *)

\* What a sum takes from each part to the part without one of its elements.
Takes(g, f, D) == /\ g[{}] = 0 /\ \A s \in SUBSET D : g[s] \in Int
                  /\ \A s \in SUBSET D : \A x \in s : g[s] = f[x] + g[s \ {x}]

\* The function whose value SumFunction is, with what it takes from step to step.
LEMMA SumFunctionTakes ==
   ASSUME NEW D, IsFiniteSet(D), NEW f \in [D -> Int]
   PROVE  \E g : IsSum(g, f, D) /\ SumFunction(f) = g[D] /\ Takes(g, f, D)
<1>1. PICK g : IsSum(g, f, D) /\ SumFunction(f) = g[D] BY SumIsSum
<1>2. /\ g[{}] = 0 /\ \A s \in SUBSET D : g[s] \in Int
      /\ \A s \in SUBSET D : \A x \in s : g[s] = f[x] + g[s \ {x}]
  BY <1>1, SumTakes
<1>3. QED BY <1>1, <1>2 DEF Takes

\* A sum is an integer; of nothing it is 0.
THEOREM SumType ==
   ASSUME NEW D, IsFiniteSet(D), NEW f \in [D -> Int]
   PROVE  /\ SumFunction(f) \in Int
          /\ D = {} => SumFunction(f) = 0
<1>1. PICK g : IsSum(g, f, D) /\ SumFunction(f) = g[D] BY SumIsSum
<1>2. g[{}] = 0 /\ g[D] \in Int BY <1>1, SumTakes
<1>3. QED BY <1>1, <1>2

\* One element may be split off.
THEOREM SumRemove ==
   ASSUME NEW D, IsFiniteSet(D), NEW f \in [D -> Int], NEW x \in D,
          NEW e \in [D \ {x} -> Int], \A y \in D \ {x} : e[y] = f[y]
   PROVE  SumFunction(f) = f[x] + SumFunction(e)
<1> DEFINE E == D \ {x}
<1>1. IsFiniteSet(E) /\ E \in SUBSET (D \cap E) /\ e \in [E -> Int] BY FS_Subset
<1>2. PICK g : IsSum(g, f, D) /\ SumFunction(f) = g[D] BY SumIsSum
<1>3. PICK h : IsSum(h, e, E) /\ SumFunction(e) = h[E] BY <1>1, SumIsSum
<1>4. \A y \in D : f[y] \in Int OBVIOUS
<1>5. g[D] = f[x] + g[E]
  <2>1. /\ g[{}] = 0 /\ \A s \in SUBSET D : g[s] \in Int
        /\ \A s \in SUBSET D : \A y \in s : g[s] = f[y] + g[s \ {y}]
    BY <1>2, <1>4, SumTakes
  <2>2. D \in SUBSET D OBVIOUS
  <2>3. QED BY <2>1, <2>2
<1>6. \A y \in E : f[y] = e[y] /\ e[y] \in Int OBVIOUS
<1> HIDE DEF E
<1>7. g[E] = h[E] BY <1>1, <1>2, <1>3, <1>4, <1>6, SumsCompare
<1>8. QED BY <1>2, <1>3, <1>5, <1>7

\* Changing what is summed at one element changes the sum by as much.
THEOREM SumChange ==
   ASSUME NEW D, IsFiniteSet(D), NEW f \in [D -> Int], NEW e \in [D -> Int], NEW x \in D,
          \A y \in D : y # x => e[y] = f[y]
   PROVE  SumFunction(e) = SumFunction(f) + (e[x] - f[x])
<1> DEFINE E == D \ {x}
           r == [y \in E |-> f[y]]
<1>1. IsFiniteSet(E) /\ r \in [E -> Int] /\ \A y \in E : r[y] = f[y] /\ r[y] = e[y]
  BY FS_Subset
<1> HIDE DEF r
<1>2. SumFunction(f) = f[x] + SumFunction(r) BY <1>1, SumRemove
<1>3. SumFunction(e) = e[x] + SumFunction(r) BY <1>1, SumRemove
<1>4. SumFunction(r) \in Int /\ f[x] \in Int /\ e[x] \in Int BY <1>1, SumType
<1>5. QED BY <1>2, <1>3, <1>4

\* A sum that is nowhere above another is not above it.
THEOREM SumLe ==
   ASSUME NEW D, IsFiniteSet(D), NEW f \in [D -> Int], NEW e \in [D -> Int],
          \A x \in D : f[x] <= e[x]
   PROVE  SumFunction(f) <= SumFunction(e)
<1>1. PICK g : IsSum(g, f, D) /\ SumFunction(f) = g[D] BY SumIsSum
<1>2. PICK h : IsSum(h, e, D) /\ SumFunction(e) = h[D] BY SumIsSum
<1>3. (\A x \in D : f[x] \in Int) /\ (\A x \in D : e[x] \in Int) /\ D \in SUBSET (D \cap D)
  OBVIOUS
<1>4. g[D] <= h[D] BY <1>1, <1>2, <1>3, SumsCompare
<1>5. QED BY <1>1, <1>2, <1>4

\* A sum of zeros is 0, and none of its parts is above a sum of what is not negative.
THEOREM SumSign ==
   ASSUME NEW D, IsFiniteSet(D), NEW f \in [D -> Int]
   PROVE  /\ (\A x \in D : f[x] = 0) => SumFunction(f) = 0
          /\ (\A x \in D : f[x] >= 0) => /\ SumFunction(f) >= 0
                                         /\ \A x \in D : f[x] <= SumFunction(f)
<1>1. PICK g : IsSum(g, f, D) /\ SumFunction(f) = g[D] /\ Takes(g, f, D)
  BY SumFunctionTakes
<1>2. /\ g[{}] = 0 /\ \A s \in SUBSET D : g[s] \in Int
      /\ \A s \in SUBSET D : \A x \in s : g[s] = f[x] + g[s \ {x}]
  BY <1>1 DEF Takes
<1> DEFINE Good(s) == /\ (\A x \in D : f[x] = 0) => g[s] = 0
                      /\ (\A x \in D : f[x] >= 0) => g[s] >= 0
           W == {s \in SUBSET D : Good(s)}
<1>3. {} \in W BY <1>2
<1>4. ASSUME NEW s \in SUBSET D, s # {}, \A x \in s : s \ {x} \in W PROVE s \in W
  <2>1. PICK x \in s : TRUE BY <1>4
  <2>2. Good(s \ {x}) /\ s \ {x} \in SUBSET D BY <1>4, <2>1
  <2>3. g[s] = f[x] + g[s \ {x}] /\ g[s \ {x}] \in Int /\ f[x] \in Int BY <1>2, <2>1, <2>2
  <2>4. Good(s) BY <2>2, <2>3
  <2> HIDE DEF Good
  <2>5. QED BY <2>4
<1>5. SUBSET D \subseteq W
  <2> HIDE DEF W
  <2>1. QED BY <1>3, <1>4, PartsInduction
<1>6. \A s \in SUBSET D : Good(s) BY <1>5
<1>7. D \in SUBSET D OBVIOUS
<1>8. ASSUME \A x \in D : f[x] >= 0, NEW x \in D PROVE f[x] <= g[D]
  <2>1. g[D] = f[x] + g[D \ {x}] BY <1>2, <1>7
  <2>2. g[D \ {x}] >= 0 /\ g[D \ {x}] \in Int /\ f[x] \in Int BY <1>2, <1>6, <1>8
  <2>3. QED BY <2>1, <2>2
<1>9. QED BY <1>1, <1>6, <1>7, <1>8

\* e is f on E.
Agrees(e, f, E) == e \in [E -> Int] /\ \A x \in E : e[x] = f[x]

\* A sum is that of a part and that of the rest.
THEOREM SumSplit ==
   ASSUME NEW D, IsFiniteSet(D), NEW f \in [D -> Int], NEW E \in SUBSET D,
          NEW e, Agrees(e, f, E), NEW r, Agrees(r, f, D \ E)
   PROVE  SumFunction(f) = SumFunction(e) + SumFunction(r)
<1> USE DEF Agrees
<1>0. \A x \in D : f[x] \in Int OBVIOUS
<1>1. PICK g : IsSum(g, f, D) /\ SumFunction(f) = g[D] /\ Takes(g, f, D)
  BY SumFunctionTakes
<1>2. /\ g[{}] = 0 /\ \A s \in SUBSET D : g[s] \in Int
      /\ \A s \in SUBSET D : \A x \in s : g[s] = f[x] + g[s \ {x}]
  BY <1>1 DEF Takes
<1> DEFINE W == {s \in SUBSET D : g[D] = g[s] + g[D \ s]}
<1>3. {} \in W
  <2>1. D \ {} = D /\ g[D] \in Int BY <1>2
  <2>2. QED BY <1>2, <2>1
<1>4. ASSUME NEW s \in SUBSET D, s # {}, \A x \in s : s \ {x} \in W PROVE s \in W
  <2>1. PICK x \in s : TRUE BY <1>4
  <2> DEFINE t == s \ {x}
  <2>2. g[D] = g[t] + g[D \ t] BY <1>4, <2>1
  <2>3. x \in D \ t /\ (D \ t) \ {x} = D \ s BY <2>1
  <2>4. D \ t \in SUBSET D /\ t \in SUBSET D /\ D \ s \in SUBSET D OBVIOUS
  <2>5. g[D \ t] = f[x] + g[D \ s]
    <3> DEFINE u == D \ t
    <3>1. x \in u /\ u \ {x} = D \ s /\ u \in SUBSET D BY <2>3
    <3> HIDE DEF u
    <3>2. g[u] = f[x] + g[u \ {x}] BY <1>2, <3>1
    <3>3. QED BY <3>1, <3>2 DEF u
  <2>6. g[s] = f[x] + g[t] BY <1>2, <2>1
  <2>7. g[t] \in Int /\ g[D \ s] \in Int /\ f[x] \in Int BY <1>2, <2>1, <2>4
  <2> HIDE DEF t
  <2>8. g[D] = g[s] + g[D \ s] BY <2>2, <2>5, <2>6, <2>7
  <2>9. QED BY <2>8
<1>5. SUBSET D \subseteq W
  <2> HIDE DEF W
  <2>1. QED BY <1>3, <1>4, PartsInduction
<1>6. g[D] = g[E] + g[D \ E] BY <1>5
<1>7. IsFiniteSet(E) /\ IsFiniteSet(D \ E) BY FS_Subset
<1>8. PICK h : IsSum(h, e, E) /\ SumFunction(e) = h[E] BY <1>7, SumIsSum
<1>9. PICK k : IsSum(k, r, D \ E) /\ SumFunction(r) = k[D \ E] BY <1>7, SumIsSum
<1>11. g[E] = h[E]
  <2>1. E \in SUBSET (D \cap E) /\ \A x \in E : f[x] = e[x] /\ e[x] \in Int OBVIOUS
  <2>2. QED BY <1>1, <1>7, <1>8, <1>0, <2>1, SumsCompare
<1>12. g[D \ E] = k[D \ E]
  <2> DEFINE F == D \ E
  <2>1. F \in SUBSET (D \cap F) /\ \A x \in F : f[x] = r[x] /\ r[x] \in Int OBVIOUS
  <2> HIDE DEF F
  <2>2. g[F] = k[F] BY <1>1, <1>7, <1>9, <1>0, <2>1, SumsCompare DEF F
  <2>3. QED BY <2>2 DEF F
<1>13. QED BY <1>1, <1>6, <1>8, <1>9, <1>11, <1>12

\* What is 0 adds nothing.
THEOREM SumPart ==
   ASSUME NEW D, IsFiniteSet(D), NEW f \in [D -> Int], NEW E \in SUBSET D,
          NEW e, Agrees(e, f, E), \A x \in D \ E : f[x] = 0
   PROVE  SumFunction(f) = SumFunction(e)
<1>0. PICK r : r = [x \in D \ E |-> f[x]] OBVIOUS
<1>1. r = [x \in D \ E |-> f[x]] /\ Agrees(r, f, D \ E) BY <1>0 DEF Agrees
<1>2. SumFunction(f) = SumFunction(e) + SumFunction(r) BY <1>1, SumSplit
<1>3. IsFiniteSet(E) /\ IsFiniteSet(D \ E) BY FS_Subset
<1>4. SumFunction(r) = 0 BY <1>1, <1>3, SumSign DEF Agrees
<1>5. SumFunction(e) \in Int BY <1>3, SumType DEF Agrees
<1>6. QED BY <1>2, <1>4, <1>5

\* What is set to 0 is what a sum loses.
THEOREM SumWithout ==
   ASSUME NEW D, IsFiniteSet(D), NEW f \in [D -> Int], NEW E \in SUBSET D,
          NEW e, Agrees(e, f, E),
          NEW h \in [D -> Int], \A x \in E : h[x] = 0, \A x \in D \ E : h[x] = f[x]
   PROVE  SumFunction(h) = SumFunction(f) - SumFunction(e)
<1>0. PICK r : r = [x \in D \ E |-> f[x]] OBVIOUS
<1>1. r = [x \in D \ E |-> f[x]] /\ Agrees(r, f, D \ E) BY <1>0 DEF Agrees
<1>2. SumFunction(f) = SumFunction(e) + SumFunction(r) BY <1>1, SumSplit
<1>3. SumFunction(h) = SumFunction(r)
  <2>1. D \ E \in SUBSET D /\ \A x \in D \ (D \ E) : h[x] = 0 OBVIOUS
  <2>2. Agrees(r, h, D \ E) BY <1>1 DEF Agrees
  <2>3. QED BY <2>1, <2>2, SumPart
<1>4. IsFiniteSet(E) /\ IsFiniteSet(D \ E) BY FS_Subset
<1>5. SumFunction(e) \in Int /\ SumFunction(r) \in Int BY <1>1, <1>4, SumType DEF Agrees
<1>6. QED BY <1>2, <1>3, <1>5
=============================================================================

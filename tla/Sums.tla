-------------------------------- MODULE Sums --------------------------------
(***************************************************************************)
(* Facts about the sums of the community modules, which are folded over a   *)
(* set one element after the other: a sum does not depend on the order, so  *)
(* an element can be taken out of it first.                                 *)
(***************************************************************************)
EXTENDS Integers, FiniteSets, FiniteSetTheorems, WellFoundedInduction, TLAPS

\* The element a fold takes first.
First(s) == CHOOSE x \in s : TRUE

\* g has the sums of f over the subsets of S, as MapThenSumSet folds them.
Adds(g, f, S) ==
  g = [s \in SUBSET S |-> IF s = {} THEN 0 ELSE f[First(s)] + g[s \ {First(s)}]]

SumOver(f, S) == (CHOOSE g : Adds(g, f, S))[S]

\* A set of numbers has a least one.
LEMMA LeastNumber ==
  ASSUME NEW T \in SUBSET Nat, T # {}
  PROVE  \E n \in T : \A m \in T : n <= m
<1> DEFINE R == OpToRel(<, Nat)
<1>1. IsWellFoundedOn(R, Nat)
  BY NatLessThanWellFounded
<1>2. \A pair \in Nat \X Nat : pair[1] < pair[2] => pair \in R
  BY DEF OpToRel
<1> HIDE DEF R
<1>3. PICK n \in T : \A m \in T : ~ (<<m, n>> \in R)
  BY <1>1, WFMin
<1>4. ASSUME NEW m \in T PROVE n <= m
  <2> DEFINE pair == <<m, n>>
  <2>1. pair \in Nat \X Nat /\ pair[1] = m /\ pair[2] = n
    OBVIOUS
  <2>2. pair \notin R
    BY <1>3
  <2> HIDE DEF pair
  <2>3. QED BY <1>2, <2>1, <2>2
<1>5. QED BY <1>4

\* A finite set of finite sets has a smallest one.
LEMMA SmallestSet ==
  ASSUME NEW S, IsFiniteSet(S), NEW F \in SUBSET (SUBSET S), F # {}
  PROVE  \E s \in F : \A t \in F : Cardinality(s) <= Cardinality(t)
<1> DEFINE T == {Cardinality(s) : s \in F}
<1>1. T \in SUBSET Nat /\ T # {}
  BY FS_Subset, FS_CardinalityType
<1>2. PICK n \in T : \A m \in T : n <= m
  BY <1>1, LeastNumber
<1>3. QED BY <1>2

LEMMA FirstIsIn ==
  ASSUME NEW s, s # {}
  PROVE  First(s) \in s
BY DEF First

LEMMA SmallerWithout ==
  ASSUME NEW s, IsFiniteSet(s), NEW x \in s
  PROVE  IsFiniteSet(s \ {x}) /\ Cardinality(s \ {x}) < Cardinality(s) /\ Cardinality(s \ {x}) \in Nat /\ Cardinality(s) \in Nat
BY FS_RemoveElement, FS_CardinalityType

\* There are such sums.
LEMMA SumsExist ==
  ASSUME NEW S, IsFiniteSet(S), NEW f
  PROVE  \E g : Adds(g, f, S)
<1> DEFINE Upto(n) == {s \in SUBSET S : Cardinality(s) <= n}
           Good(g, n) == g = [s \in Upto(n) |-> IF s = {} THEN 0 ELSE f[First(s)] + g[s \ {First(s)}]]
           Bad == {n \in Nat : ~ \E g : Good(g, n)}
<1>1. \A s \in SUBSET S : IsFiniteSet(s) /\ Cardinality(s) \in Nat /\ Cardinality(s) <= Cardinality(S)
  BY FS_Subset, FS_CardinalityType
<1>2. Cardinality(S) \in Nat
  BY FS_CardinalityType
<1>3. 0 \notin Bad
  <2>1. Upto(0) = {{}}
    BY <1>1, FS_EmptySet
  <2>2. Good([s \in {{}} |-> 0], 0)
    BY <2>1
  <2>3. QED BY <2>2
<1>4. ASSUME NEW n \in Nat, n \notin Bad PROVE n + 1 \notin Bad
  <2>1. PICK g : Good(g, n)
    BY <1>4
  <2> DEFINE h == [s \in Upto(n + 1) |-> IF s = {} THEN 0 ELSE f[First(s)] + g[s \ {First(s)}]]
  <2>2. ASSUME NEW s \in Upto(n) PROVE s \in Upto(n + 1) /\ h[s] = g[s]
    <3>1. s \in Upto(n + 1)
      BY <1>1
    <3>2. g[s] = IF s = {} THEN 0 ELSE f[First(s)] + g[s \ {First(s)}]
      BY <2>1
    <3>3. QED BY <3>1, <3>2
  <2>3. ASSUME NEW s \in Upto(n + 1), s # {} PROVE s \ {First(s)} \in Upto(n)
    <3>1. First(s) \in s /\ IsFiniteSet(s)
      BY <1>1, <2>3, FirstIsIn
    <3>2. Cardinality(s \ {First(s)}) < Cardinality(s) /\ Cardinality(s \ {First(s)}) \in Nat /\ Cardinality(s) \in Nat
      BY <3>1, SmallerWithout
    <3>3. Cardinality(s) <= n + 1 /\ s \ {First(s)} \in SUBSET S
      OBVIOUS
    <3>4. QED BY <3>2, <3>3
  <2>4. Good(h, n + 1)
    <3>1. ASSUME NEW s \in Upto(n + 1)
          PROVE  h[s] = IF s = {} THEN 0 ELSE f[First(s)] + h[s \ {First(s)}]
      <4>1. h[s] = IF s = {} THEN 0 ELSE f[First(s)] + g[s \ {First(s)}]
        OBVIOUS
      <4> HIDE DEF h
      <4>2. QED BY <2>2, <2>3, <4>1
    <3>2. h = [s \in Upto(n + 1) |-> h[s]]
      OBVIOUS
    <3> HIDE DEF h
    <3>3. QED BY <3>1, <3>2
  <2>5. QED BY <2>4
<1>5. Cardinality(S) \notin Bad
  <2> SUFFICES ASSUME Bad # {} PROVE FALSE
    OBVIOUS
  <2> HIDE DEF Good
  <2>1. PICK n \in Bad : \A m \in Bad : n <= m
    <3>1. Bad \in SUBSET Nat
      OBVIOUS
    <3> HIDE DEF Bad
    <3>2. QED BY <3>1, LeastNumber
  <2>2. n \in Nat /\ n # 0
    BY <1>3
  <2>3. n - 1 \in Nat /\ (n - 1) + 1 = n
    BY <2>2
  <2>4. n - 1 \notin Bad
    BY <2>1, <2>2
  <2> HIDE DEF Bad
  <2>5. QED BY <1>4, <2>3, <2>4
<1>6. PICK g : Good(g, Cardinality(S))
  BY <1>2, <1>5
<1>7. Upto(Cardinality(S)) = SUBSET S
  BY <1>1
<1>8. QED BY <1>6, <1>7 DEF Adds

\* Sums that agree on the elements agree.
LEMMA SumsAgree ==
  ASSUME NEW S, IsFiniteSet(S), NEW T, NEW f, NEW h, NEW g, NEW k,
         Adds(g, f, S), Adds(k, h, T), \A x \in S : f[x] = h[x], S \subseteq T
  PROVE  \A s \in SUBSET S : g[s] = k[s]
<1> DEFINE Bad == {s \in SUBSET S : g[s] # k[s]}
<1> SUFFICES ASSUME Bad # {} PROVE FALSE
  OBVIOUS
<1>1. PICK s \in Bad : \A t \in Bad : Cardinality(s) <= Cardinality(t)
  <2>1. Bad \in SUBSET (SUBSET S)
    OBVIOUS
  <2> HIDE DEF Bad
  <2>2. QED BY <2>1, SmallestSet
<1>2. s \in SUBSET S /\ g[s] # k[s] /\ IsFiniteSet(s)
  BY FS_Subset
<1>3. /\ g[s] = IF s = {} THEN 0 ELSE f[First(s)] + g[s \ {First(s)}]
      /\ k[s] = IF s = {} THEN 0 ELSE h[First(s)] + k[s \ {First(s)}]
  BY <1>2 DEF Adds
<1>4. s # {} /\ First(s) \in s
  BY <1>2, <1>3, FirstIsIn
<1>5. Cardinality(s \ {First(s)}) < Cardinality(s) /\ Cardinality(s \ {First(s)}) \in Nat /\ Cardinality(s) \in Nat
  BY <1>2, <1>4, SmallerWithout
<1>6. s \ {First(s)} \notin Bad /\ s \ {First(s)} \in SUBSET S
  BY <1>1, <1>2, <1>5
<1>7. g[s \ {First(s)}] = k[s \ {First(s)}]
  BY <1>6
<1>8. QED BY <1>2, <1>3, <1>4, <1>7

\* Sums of integers are integers, and any element can be taken out first.
LEMMA SumsTakeAny ==
  ASSUME NEW S, IsFiniteSet(S), NEW f, NEW g, Adds(g, f, S), \A x \in S : f[x] \in Int
  PROVE  \A s \in SUBSET S : g[s] \in Int /\ \A x \in s : g[s] = f[x] + g[s \ {x}]
<1> DEFINE Good(s) == g[s] \in Int /\ \A x \in s : g[s] = f[x] + g[s \ {x}]
           Bad == {s \in SUBSET S : ~ Good(s)}
<1> SUFFICES ASSUME Bad # {} PROVE FALSE
  OBVIOUS
<1>1. PICK s \in Bad : \A t \in Bad : Cardinality(s) <= Cardinality(t)
  <2>1. Bad \in SUBSET (SUBSET S)
    OBVIOUS
  <2> HIDE DEF Bad
  <2>2. QED BY <2>1, SmallestSet
<1>2. s \in SUBSET S /\ ~ Good(s) /\ IsFiniteSet(s)
  BY FS_Subset
<1>10. ASSUME NEW t \in SUBSET S, Cardinality(t) < Cardinality(s)
       PROVE  Good(t)
  <2>1. Cardinality(t) \in Nat /\ Cardinality(s) \in Nat
    BY <1>2, FS_Subset, FS_CardinalityType
  <2> HIDE DEF Good
  <2>2. t \notin Bad
    <3> HIDE DEF Bad
    <3>1. QED BY <1>1, <1>10, <2>1
  <2>3. QED BY <2>2
<1> HIDE DEF Bad
<1>3. \A t \in SUBSET S : g[t] = IF t = {} THEN 0 ELSE f[First(t)] + g[t \ {First(t)}]
  BY DEF Adds
<1>4. s # {}
  <2>1. g[{}] = 0
    BY <1>3
  <2>2. Good({})
    BY <2>1
  <2> HIDE DEF Good
  <2>3. QED BY <1>2, <2>2
<1> DEFINE y == First(s)
<1>5. y \in s /\ y \in S /\ g[s] = f[y] + g[s \ {y}]
  BY <1>2, <1>3, <1>4, FirstIsIn
<1> HIDE DEF y
<1>6. \A x \in s : s \ {x} \in SUBSET S /\ Good(s \ {x})
  <2> SUFFICES ASSUME NEW x \in s PROVE s \ {x} \in SUBSET S /\ Good(s \ {x})
    OBVIOUS
  <2>1. Cardinality(s \ {x}) < Cardinality(s) /\ Cardinality(s \ {x}) \in Nat /\ Cardinality(s) \in Nat
    BY <1>2, SmallerWithout
  <2>2. s \ {x} \in SUBSET S
    BY <1>2
  <2> HIDE DEF Good
  <2>3. QED BY <1>10, <2>1, <2>2
<1>7. g[s] \in Int
  BY <1>5, <1>6
<1>8. ASSUME NEW x \in s, x # y PROVE g[s] = f[x] + g[s \ {x}]
  <2>1. (s \ {y}) \ {x} = (s \ {x}) \ {y} /\ (s \ {x}) \ {y} \in SUBSET S
    BY <1>2
  <2>2. x \in s \ {y} /\ y \in s \ {x}
    BY <1>5, <1>8
  <2>3. g[s \ {y}] = f[x] + g[(s \ {y}) \ {x}]
    BY <1>5, <1>6, <2>2
  <2>4. g[s \ {x}] = f[y] + g[(s \ {x}) \ {y}]
    BY <1>6, <2>2
  <2>5. g[(s \ {x}) \ {y}] \in Int
    <3>1. Cardinality(s \ {x}) < Cardinality(s) /\ Cardinality(s \ {x}) \in Nat /\ Cardinality(s) \in Nat /\ IsFiniteSet(s \ {x})
      BY <1>2, SmallerWithout
    <3>2. Cardinality((s \ {x}) \ {y}) < Cardinality(s \ {x}) /\ Cardinality((s \ {x}) \ {y}) \in Nat
      BY <2>2, <3>1, SmallerWithout
    <3>3. Cardinality((s \ {x}) \ {y}) < Cardinality(s)
      BY <3>1, <3>2
    <3>4. QED BY <1>10, <2>1, <3>3
  <2>6. f[x] \in Int /\ f[y] \in Int
    BY <1>2, <1>5
  <2> DEFINE rest == g[(s \ {x}) \ {y}]
  <2>7. g[s] = f[y] + g[s \ {y}] /\ g[s \ {y}] = f[x] + rest /\ g[s \ {x}] = f[y] + rest
    BY <1>5, <2>1, <2>3, <2>4
  <2>8. rest \in Int
    BY <2>5
  <2> HIDE DEF rest
  <2>9. QED BY <2>6, <2>7, <2>8
<1>9. QED BY <1>2, <1>5, <1>7, <1>8

(***************************************************************************)
(* The sum over a finite set, and what is known of it.                      *)
(***************************************************************************)
LEMMA SumOverIs ==
  ASSUME NEW S, IsFiniteSet(S), NEW f
  PROVE  \E g : Adds(g, f, S) /\ SumOver(f, S) = g[S]
BY SumsExist DEF SumOver

\* A sum that is folded is the sum.
LEMMA FoldIs ==
  ASSUME NEW S, IsFiniteSet(S), NEW f, NEW g, Adds(g, f, S)
  PROVE  g[S] = SumOver(f, S)
<1>1. PICK k : Adds(k, f, S) /\ SumOver(f, S) = k[S]
  BY SumOverIs
<1>2. QED BY <1>1, SumsAgree

LEMMA SumOfNothing ==
  ASSUME NEW f
  PROVE  SumOver(f, {}) = 0
<1>1. PICK g : Adds(g, f, {}) /\ SumOver(f, {}) = g[{}]
  BY SumOverIs, FS_EmptySet
<1>2. QED BY <1>1 DEF Adds

LEMMA SumOfSame ==
  ASSUME NEW S, IsFiniteSet(S), NEW f, NEW h, \A x \in S : f[x] = h[x]
  PROVE  SumOver(f, S) = SumOver(h, S)
<1>1. PICK g : Adds(g, f, S) /\ SumOver(f, S) = g[S]
  BY SumOverIs
<1>2. PICK k : Adds(k, h, S) /\ SumOver(h, S) = k[S]
  BY SumOverIs
<1>3. QED BY <1>1, <1>2, SumsAgree

LEMMA SumIsInt ==
  ASSUME NEW S, IsFiniteSet(S), NEW f, \A x \in S : f[x] \in Int
  PROVE  SumOver(f, S) \in Int
<1>1. PICK g : Adds(g, f, S) /\ SumOver(f, S) = g[S]
  BY SumOverIs
<1>2. QED BY <1>1, SumsTakeAny

LEMMA SumWithout ==
  ASSUME NEW S, IsFiniteSet(S), NEW f, \A x \in S : f[x] \in Int, NEW x \in S
  PROVE  SumOver(f, S) = f[x] + SumOver(f, S \ {x})
<1>1. PICK g : Adds(g, f, S) /\ SumOver(f, S) = g[S]
  BY SumOverIs
<1>2. IsFiniteSet(S \ {x})
  BY FS_RemoveElement
<1>3. PICK k : Adds(k, f, S \ {x}) /\ SumOver(f, S \ {x}) = k[S \ {x}]
  BY <1>2, SumOverIs
<1>4. k[S \ {x}] = g[S \ {x}]
  <2>1. S \ {x} \subseteq S /\ S \ {x} \in SUBSET (S \ {x})
    OBVIOUS
  <2> DEFINE T == S \ {x}
  <2>2. \A s \in SUBSET T : k[s] = g[s]
    <3> HIDE DEF T
    <3>1. IsFiniteSet(T) /\ T \subseteq S /\ Adds(k, f, T)
      BY <1>2, <1>3, <2>1 DEF T
    <3>2. QED BY <1>1, <3>1, SumsAgree
  <2>3. QED BY <2>1, <2>2
<1>5. g[S] = f[x] + g[S \ {x}]
  BY <1>1, SumsTakeAny
<1>6. QED BY <1>1, <1>3, <1>4, <1>5

LEMMA SumWith ==
  ASSUME NEW S, IsFiniteSet(S), NEW x, x \notin S, NEW f, \A y \in S \union {x} : f[y] \in Int
  PROVE  SumOver(f, S \union {x}) = f[x] + SumOver(f, S)
<1> DEFINE T == S \union {x}
<1>1. IsFiniteSet(T) /\ x \in T /\ T \ {x} = S
  BY FS_AddElement
<1>2. \A y \in T : f[y] \in Int
  OBVIOUS
<1> HIDE DEF T
<1>3. SumOver(f, T) = f[x] + SumOver(f, T \ {x})
  BY <1>1, <1>2, SumWithout
<1>4. QED BY <1>1, <1>3 DEF T

LEMMA SumAtMost ==
  ASSUME NEW S, IsFiniteSet(S), NEW f, NEW h, \A x \in S : f[x] \in Int /\ h[x] \in Int /\ f[x] <= h[x]
  PROVE  SumOver(f, S) <= SumOver(h, S)
<1> DEFINE Good(s) == SumOver(f, s) <= SumOver(h, s)
           Bad == {s \in SUBSET S : ~ Good(s)}
<1> SUFFICES ASSUME Bad # {} PROVE FALSE
  OBVIOUS
<1>1. PICK s \in Bad : \A t \in Bad : Cardinality(s) <= Cardinality(t)
  <2>1. Bad \in SUBSET (SUBSET S)
    OBVIOUS
  <2> HIDE DEF Bad
  <2>2. QED BY <2>1, SmallestSet
<1>2. s \in SUBSET S /\ ~ Good(s) /\ IsFiniteSet(s)
  BY FS_Subset
<1>3. s # {}
  <2>1. Good({})
    BY SumOfNothing
  <2> HIDE DEF Good
  <2>2. QED BY <1>2, <2>1
<1>4. PICK x \in s : TRUE
  BY <1>3
<1> DEFINE t == s \ {x}
<1>5. t \in SUBSET S /\ IsFiniteSet(t) /\ Cardinality(t) < Cardinality(s) /\ Cardinality(t) \in Nat /\ Cardinality(s) \in Nat
  BY <1>2, SmallerWithout
<1>6. SumOver(f, s) = f[x] + SumOver(f, t) /\ SumOver(h, s) = h[x] + SumOver(h, t)
  BY <1>2, SumWithout
<1> HIDE DEF t
<1>7. Good(t)
  <2> HIDE DEF Good
  <2>1. t \notin Bad
    <3> HIDE DEF Bad
    <3>1. QED BY <1>1, <1>5
  <2>2. QED BY <1>5, <2>1
<1>8. SumOver(f, t) \in Int /\ SumOver(h, t) \in Int
  BY <1>5, SumIsInt
<1>9. f[x] \in Int /\ h[x] \in Int /\ f[x] <= h[x]
  BY <1>2
<1>10. QED BY <1>2, <1>6, <1>7, <1>8, <1>9

LEMMA SumOfZeros ==
  ASSUME NEW S, IsFiniteSet(S), NEW f, \A x \in S : f[x] = 0
  PROVE  SumOver(f, S) = 0
<1> DEFINE Bad == {s \in SUBSET S : SumOver(f, s) # 0}
<1> SUFFICES ASSUME Bad # {} PROVE FALSE
  OBVIOUS
<1>1. PICK s \in Bad : \A t \in Bad : Cardinality(s) <= Cardinality(t)
  <2>1. Bad \in SUBSET (SUBSET S)
    OBVIOUS
  <2> HIDE DEF Bad
  <2>2. QED BY <2>1, SmallestSet
<1>2. s \in SUBSET S /\ SumOver(f, s) # 0 /\ IsFiniteSet(s)
  BY FS_Subset
<1>3. s # {}
  BY <1>2, SumOfNothing
<1>4. PICK x \in s : TRUE
  BY <1>3
<1> DEFINE t == s \ {x}
<1>5. t \in SUBSET S /\ Cardinality(t) < Cardinality(s) /\ Cardinality(t) \in Nat /\ Cardinality(s) \in Nat
  BY <1>2, SmallerWithout
<1>6. SumOver(f, s) = f[x] + SumOver(f, t)
  BY <1>2, SumWithout
<1> HIDE DEF t
<1>7. t \notin Bad
  <2> HIDE DEF Bad
  <2>1. QED BY <1>1, <1>5
<1>8. SumOver(f, t) = 0 /\ f[x] = 0
  BY <1>2, <1>5, <1>7
<1>9. QED BY <1>2, <1>6, <1>8

LEMMA SumOfOne ==
  ASSUME NEW S, IsFiniteSet(S), NEW f, NEW a \in S, f[a] \in Int, \A x \in S \ {a} : f[x] = 0
  PROVE  SumOver(f, S) = f[a]
<1>1. SumOver(f, S) = f[a] + SumOver(f, S \ {a})
  <2>1. \A x \in S : f[x] \in Int
    OBVIOUS
  <2>2. QED BY <2>1, SumWithout
<1>2. SumOver(f, S \ {a}) = 0
  BY SumOfZeros, FS_RemoveElement
<1>3. QED BY <1>1, <1>2

LEMMA SumIsNat ==
  ASSUME NEW S, IsFiniteSet(S), NEW f, \A x \in S : f[x] \in Nat
  PROVE  SumOver(f, S) \in Nat
<1> DEFINE zero == [x \in S |-> 0]
<1>1. \A x \in S : zero[x] = 0
  OBVIOUS
<1> HIDE DEF zero
<1>2. SumOver(zero, S) = 0
  BY <1>1, SumOfZeros
<1>3. SumOver(zero, S) <= SumOver(f, S)
  BY <1>1, SumAtMost
<1>4. QED BY <1>2, <1>3, SumIsInt
=============================================================================

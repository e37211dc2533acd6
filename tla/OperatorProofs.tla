---------------------------- MODULE OperatorProofs ----------------------------
(***************************************************************************)
(* Lemmas about the operators the modules are built from: sums over finite *)
(* sets, lists of entries, and signed integers.                            *)
(***************************************************************************)
EXTENDS EntryList, SignedInteger, FiniteSetsExt, FiniteSetTheorems, TLAPS

-----------------------------------------------------------------------------
(* Sums                                                                    *)
(*                                                                         *)
(* Induction over the subsets of a finite set is done by minimal           *)
(* counterexample: the strict subset order is well-founded on them.        *)

\* A nonempty set of subsets of a finite set has a minimal member.
LEMMA MinimalSubset ==
    ASSUME NEW S, IsFiniteSet(S), NEW T, T \subseteq SUBSET S, T # {}
    PROVE  \E x \in T : \A y \in T : ~(y \subseteq x /\ y # x)
<1>1. IsWellFoundedOn(StrictSubsetOrdering(S), FiniteSubsetsOf(S))
  BY FS_StrictSubsetOrderingWellFounded
<1>2. T \subseteq FiniteSubsetsOf(S)
  BY FS_Subset DEF FiniteSubsetsOf
<1>3. PICK x \in T : \A y \in T : ~ (<<y, x>> \in StrictSubsetOrdering(S))
  BY <1>1, <1>2, WFMin
<1>4. ASSUME NEW y \in T, y \subseteq x, y # x
      PROVE  FALSE
  <2>1. <<y, x>> \in (SUBSET S) \X (SUBSET S)
    BY <1>4
  <2>2. QED
    BY <2>1, <1>3, <1>4 DEF StrictSubsetOrdering
<1>5. QED
  BY <1>4

\* How SumFunctionOnSet is defined: the terms are taken in the order in which
\* CHOOSE names the elements.
AnyOf(s) == CHOOSE x \in s : TRUE
Others(s) == s \ {AnyOf(s)}
SumsOf(f, S, g) ==
    g = [s \in SUBSET S |-> IF s = {} THEN 0 ELSE f[AnyOf(s)] + g[Others(s)]]
Sums(f, S) == CHOOSE g : SumsOf(f, S, g)

LEMMA SumDef ==
    ASSUME NEW f, NEW S
    PROVE  SumFunctionOnSet(f, S) = Sums(f, S)[S]
BY Zenon DEF SumFunctionOnSet, FoldFunctionOnSet, MapThenFoldSet, Sums, SumsOf, AnyOf, Others

LEMMA OthersSmaller ==
    ASSUME NEW s, s # {}
    PROVE  AnyOf(s) \in s /\ Others(s) \subseteq s /\ Others(s) # s
BY DEF AnyOf, Others

\* There is one function that sums f that way ...
LEMMA SumsUnique ==
    ASSUME NEW f, NEW S, IsFiniteSet(S), NEW T, NEW g, SumsOf(f, S, g), NEW h, SumsOf(f, T, h)
    PROVE  \A s \in (SUBSET S) \intersect (SUBSET T) : g[s] = h[s]
<1> DEFINE Bad == {s \in (SUBSET S) \intersect (SUBSET T) : g[s] # h[s]}
<1>1. SUFFICES ASSUME Bad # {} PROVE FALSE
  OBVIOUS
<1>2. PICK x \in Bad : \A y \in Bad : ~(y \subseteq x /\ y # x)
  <2>1. Bad \subseteq SUBSET S
    OBVIOUS
  <2> HIDE DEF Bad
  <2>2. QED
    BY <1>1, <2>1, MinimalSubset
<1>3. CASE x = {}
  BY <1>2, <1>3 DEF SumsOf
<1>4. CASE x # {}
  <2>1. /\ g[x] = f[AnyOf(x)] + g[Others(x)]
        /\ h[x] = f[AnyOf(x)] + h[Others(x)]
    BY <1>4 DEF SumsOf
  <2>2. Others(x) \in (SUBSET S) \intersect (SUBSET T) /\ Others(x) \notin Bad
    BY <1>2, <1>4, OthersSmaller
  <2>3. QED
    BY <2>1, <2>2
<1>5. QED
  BY <1>3, <1>4

\* ... and so SumFunctionOnSet obeys its recursive definition.
LEMMA SumsExist ==
    ASSUME NEW f, NEW S, IsFiniteSet(S)
    PROVE  SumsOf(f, S, Sums(f, S))
<1> DEFINE Bad == {s \in SUBSET S : ~ \E g : SumsOf(f, s, g)}
<1>1. SUFFICES ASSUME Bad # {} PROVE FALSE
  <2>1. \E g : SumsOf(f, S, g)
    BY <1>1
  <2>2. QED
    BY <2>1 DEF Sums
<1>2. PICK x \in Bad : \A y \in Bad : ~(y \subseteq x /\ y # x)
  <2>1. Bad \subseteq SUBSET S
    OBVIOUS
  <2> HIDE DEF Bad
  <2>2. QED
    BY <1>1, <2>1, MinimalSubset
<1> DEFINE h == [s \in SUBSET x |-> IF s = {} THEN 0
                                    ELSE f[AnyOf(s)] + Sums(f, Others(s))[Others(s)]]
<1>3. \A s \in SUBSET x : s # x => SumsOf(f, s, Sums(f, s))
  BY <1>2 DEF Sums
<1>4. ASSUME NEW s \in SUBSET x, s # x
      PROVE  h[s] = Sums(f, s)[s]
  <2>1. SumsOf(f, s, Sums(f, s))
    BY <1>3, <1>4
  <2>2. CASE s = {}
    <3>1. h[s] = 0
      BY <2>2
    <3>2. Sums(f, s)[s] = 0
      BY <2>1, <2>2 DEF SumsOf
    <3>3. QED
      BY <3>1, <3>2
  <2>3. CASE s # {}
    <3> DEFINE t == Others(s)
    <3>1. h[s] = f[AnyOf(s)] + Sums(f, t)[t]
      BY <2>3
    <3>2. Sums(f, s)[s] = f[AnyOf(s)] + Sums(f, s)[t]
      BY <2>1, <2>3 DEF SumsOf
    <3>3. t \subseteq s /\ t \subseteq x /\ t # x
      BY <1>4, <2>3, OthersSmaller
    <3>4. SumsOf(f, t, Sums(f, t)) /\ IsFiniteSet(s)
      BY <1>3, <3>3, FS_Subset
    <3> HIDE DEF t, h
    <3>5. Sums(f, s)[t] = Sums(f, t)[t]
      BY <2>1, <3>3, <3>4, SumsUnique
    <3>6. QED
      BY <3>1, <3>2, <3>5
  <2>4. QED
    BY <2>2, <2>3
<1>5. ASSUME NEW s \in SUBSET x
      PROVE  h[s] = IF s = {} THEN 0 ELSE f[AnyOf(s)] + h[Others(s)]
  <2>1. CASE s = {}
    BY <2>1
  <2>2. CASE s # {}
    <3>1. h[s] = f[AnyOf(s)] + Sums(f, Others(s))[Others(s)]
      BY <2>2
    <3>2. Others(s) \in SUBSET x /\ Others(s) # x
      BY <2>2, OthersSmaller
    <3>3. h[Others(s)] = Sums(f, Others(s))[Others(s)]
      BY <3>2, <1>4
    <3> HIDE DEF h
    <3>4. QED
      BY <2>2, <3>1, <3>3
  <2>3. QED
    BY <2>1, <2>2
<1>6. SumsOf(f, x, h)
  <2>1. h = [s \in SUBSET x |-> h[s]]
    OBVIOUS
  <2> HIDE DEF h
  <2>2. QED
    BY <2>1, <1>5 DEF SumsOf
<1> HIDE DEF h
<1>7. QED
  BY <1>2, <1>6

LEMMA SumStep ==
    ASSUME NEW f, NEW S, IsFiniteSet(S)
    PROVE  /\ S = {} => SumFunctionOnSet(f, S) = 0
           /\ S # {} => SumFunctionOnSet(f, S)
                          = f[AnyOf(S)] + SumFunctionOnSet(f, Others(S))
<1>1. SumsOf(f, S, Sums(f, S))
  BY SumsExist
<1>2. S = {} => SumFunctionOnSet(f, S) = 0
  BY <1>1, SumDef DEF SumsOf
<1>3. ASSUME S # {}
      PROVE  SumFunctionOnSet(f, S) = f[AnyOf(S)] + SumFunctionOnSet(f, Others(S))
  <2>1. Sums(f, S)[S] = f[AnyOf(S)] + Sums(f, S)[Others(S)]
    BY <1>1, <1>3 DEF SumsOf
  <2>2. Others(S) \subseteq S /\ IsFiniteSet(Others(S))
    BY <1>3, OthersSmaller, FS_Subset
  <2>3. SumsOf(f, Others(S), Sums(f, Others(S)))
    BY <2>2, SumsExist
  <2>4. Sums(f, S)[Others(S)] = Sums(f, Others(S))[Others(S)]
    BY <1>1, <2>2, <2>3, SumsUnique
  <2>5. QED
    BY <2>1, <2>4, SumDef
<1>4. QED
  BY <1>2, <1>3

\* A sum of integers is an integer.
LEMMA SumType ==
    ASSUME NEW S, IsFiniteSet(S), NEW f, \A x \in S : f[x] \in Int
    PROVE  SumFunctionOnSet(f, S) \in Int
<1> DEFINE Bad == {s \in SUBSET S : SumFunctionOnSet(f, s) \notin Int}
<1>1. SUFFICES ASSUME Bad # {} PROVE FALSE
  OBVIOUS
<1>2. PICK x \in Bad : \A y \in Bad : ~(y \subseteq x /\ y # x)
  <2>1. Bad \subseteq SUBSET S
    OBVIOUS
  <2> HIDE DEF Bad
  <2>2. QED
    BY <1>1, <2>1, MinimalSubset
<1>3. IsFiniteSet(x) /\ x \subseteq S
  BY FS_Subset
<1>4. x # {}
  BY <1>3, SumStep
<1>5. Others(x) \in SUBSET S /\ Others(x) \notin Bad /\ AnyOf(x) \in S
  BY <1>2, <1>4, OthersSmaller
<1>6. SumFunctionOnSet(f, Others(x)) \in Int /\ f[AnyOf(x)] \in Int
  BY <1>5
<1>7. SumFunctionOnSet(f, x) = f[AnyOf(x)] + SumFunctionOnSet(f, Others(x))
  BY <1>3, <1>4, SumStep
<1>8. QED
  BY <1>6, <1>7

\* Whatever order CHOOSE takes them in, any term may be taken out first.
LEMMA SumWithout ==
    ASSUME NEW S, IsFiniteSet(S), NEW f, \A x \in S : f[x] \in Int, NEW z \in S
    PROVE  SumFunctionOnSet(f, S) = f[z] + SumFunctionOnSet(f, S \ {z})
<1> DEFINE Total(s) == SumFunctionOnSet(f, s)
           Bad == {s \in SUBSET S : \E x \in s : Total(s) # f[x] + Total(s \ {x})}
<1>1. SUFFICES ASSUME Bad # {} PROVE FALSE
  OBVIOUS
<1>2. PICK s \in Bad : \A y \in Bad : ~(y \subseteq s /\ y # s)
  <2>1. Bad \subseteq SUBSET S
    OBVIOUS
  <2> HIDE DEF Bad
  <2>2. QED
    BY <1>1, <2>1, MinimalSubset
<1>3. PICK x \in s : Total(s) # f[x] + Total(s \ {x})
  BY <1>2
<1> DEFINE c == AnyOf(s)
<1>4. IsFiniteSet(s) /\ s \subseteq S
  BY FS_Subset
<1>5. /\ c \in s /\ Total(s) = f[c] + Total(s \ {c})
  BY <1>3, <1>4, SumStep, OthersSmaller DEF Others
<1> HIDE DEF c
<1>6. x # c
  BY <1>3, <1>5
<1>7. Total(s \ {c}) = f[x] + Total((s \ {c}) \ {x})
  <2>1. s \ {c} \in SUBSET S /\ s \ {c} \notin Bad /\ x \in s \ {c}
    BY <1>2, <1>4, <1>5, <1>6
  <2> HIDE DEF Total
  <2>2. QED
    BY <2>1
<1>8. Total(s \ {x}) = f[c] + Total((s \ {x}) \ {c})
  <2>1. s \ {x} \in SUBSET S /\ s \ {x} \notin Bad /\ c \in s \ {x}
    BY <1>2, <1>4, <1>5, <1>6
  <2> HIDE DEF Total
  <2>2. QED
    BY <2>1
<1>9. (s \ {x}) \ {c} = (s \ {c}) \ {x}
  OBVIOUS
<1>10. Total((s \ {x}) \ {c}) \in Int /\ f[c] \in Int /\ f[x] \in Int
  <2>1. IsFiniteSet((s \ {x}) \ {c}) /\ (s \ {x}) \ {c} \subseteq S
    BY <1>4, FS_Subset
  <2>2. QED
    BY <1>4, <1>5, <2>1, SumType
<1> DEFINE rest == Total((s \ {c}) \ {x})
<1>11. /\ Total(s \ {c}) = f[x] + rest /\ Total(s \ {x}) = f[c] + rest
       /\ rest \in Int /\ f[c] \in Int /\ f[x] \in Int
  BY <1>7, <1>8, <1>9, <1>10
<1> HIDE DEF Total, rest
<1>12. Total(s) = f[c] + (f[x] + rest) /\ Total(s) # f[x] + (f[c] + rest)
  BY <1>3, <1>5, <1>11
<1>13. QED
  BY <1>11, <1>12, SMT

\* Equal terms have equal sums ...
LEMMA SumOfEqual ==
    ASSUME NEW S, IsFiniteSet(S), NEW f, NEW g, \A x \in S : f[x] = g[x]
    PROVE  SumFunctionOnSet(f, S) = SumFunctionOnSet(g, S)
<1> DEFINE Bad == {s \in SUBSET S : SumFunctionOnSet(f, s) # SumFunctionOnSet(g, s)}
<1>1. SUFFICES ASSUME Bad # {} PROVE FALSE
  OBVIOUS
<1>2. PICK x \in Bad : \A y \in Bad : ~(y \subseteq x /\ y # x)
  <2>1. Bad \subseteq SUBSET S
    OBVIOUS
  <2> HIDE DEF Bad
  <2>2. QED
    BY <1>1, <2>1, MinimalSubset
<1>3. IsFiniteSet(x) /\ x \subseteq S
  BY FS_Subset
<1>4. x # {}
  BY <1>3, SumStep
<1>5. Others(x) \in SUBSET S /\ Others(x) \notin Bad /\ AnyOf(x) \in S
  BY <1>2, <1>4, OthersSmaller
<1>6. SumFunctionOnSet(f, Others(x)) = SumFunctionOnSet(g, Others(x)) /\ f[AnyOf(x)] = g[AnyOf(x)]
  BY <1>5
<1>7. QED
  BY <1>3, <1>4, <1>6, SumStep

\* ... with terms of zero it is zero ...
LEMMA SumOfZeros ==
    ASSUME NEW S, IsFiniteSet(S), NEW f, \A x \in S : f[x] = 0
    PROVE  SumFunctionOnSet(f, S) = 0
<1> DEFINE Bad == {s \in SUBSET S : SumFunctionOnSet(f, s) # 0}
<1>1. SUFFICES ASSUME Bad # {} PROVE FALSE
  OBVIOUS
<1>2. PICK x \in Bad : \A y \in Bad : ~(y \subseteq x /\ y # x)
  <2>1. Bad \subseteq SUBSET S
    OBVIOUS
  <2> HIDE DEF Bad
  <2>2. QED
    BY <1>1, <2>1, MinimalSubset
<1>3. IsFiniteSet(x) /\ x \subseteq S
  BY FS_Subset
<1>4. x # {}
  BY <1>3, SumStep
<1>5. Others(x) \in SUBSET S /\ Others(x) \notin Bad /\ AnyOf(x) \in S
  BY <1>2, <1>4, OthersSmaller
<1>6. SumFunctionOnSet(f, Others(x)) = 0 /\ f[AnyOf(x)] = 0
  BY <1>5
<1>7. SumFunctionOnSet(f, x) = 0 + 0
  BY <1>3, <1>4, <1>6, SumStep
<1>8. QED
  BY <1>7, SMT

\* ... a change of one term changes the sum by as much ...
LEMMA SumChange ==
    ASSUME NEW S, IsFiniteSet(S), NEW f, NEW g, NEW z \in S,
           \A x \in S : f[x] \in Int, \A x \in S : g[x] \in Int,
           \A x \in S \ {z} : f[x] = g[x]
    PROVE  SumFunctionOnSet(g, S) = SumFunctionOnSet(f, S) + (g[z] - f[z])
<1>1. IsFiniteSet(S \ {z})
  BY FS_Subset
<1>2. SumFunctionOnSet(f, S \ {z}) = SumFunctionOnSet(g, S \ {z})
  BY <1>1, SumOfEqual
<1>3. SumFunctionOnSet(f, S \ {z}) \in Int
  BY <1>1, SumType
<1>4. /\ SumFunctionOnSet(f, S) = f[z] + SumFunctionOnSet(f, S \ {z})
      /\ SumFunctionOnSet(g, S) = g[z] + SumFunctionOnSet(g, S \ {z})
  BY SumWithout, Zenon
<1>5. QED
  BY <1>2, <1>3, <1>4

\* ... and a sum grows with its terms.
LEMMA SumMonotone ==
    ASSUME NEW S, IsFiniteSet(S), NEW f, NEW g,
           \A x \in S : f[x] \in Int, \A x \in S : g[x] \in Int,
           \A x \in S : f[x] <= g[x]
    PROVE  SumFunctionOnSet(f, S) <= SumFunctionOnSet(g, S)
<1> DEFINE Bad == {s \in SUBSET S : ~(SumFunctionOnSet(f, s) <= SumFunctionOnSet(g, s))}
<1>1. SUFFICES ASSUME Bad # {} PROVE FALSE
  OBVIOUS
<1>2. PICK x \in Bad : \A y \in Bad : ~(y \subseteq x /\ y # x)
  <2>1. Bad \subseteq SUBSET S
    OBVIOUS
  <2> HIDE DEF Bad
  <2>2. QED
    BY <1>1, <2>1, MinimalSubset
<1>3. IsFiniteSet(x) /\ x \subseteq S
  BY FS_Subset
<1>4. x # {}
  BY <1>3, SumStep
<1>5. Others(x) \in SUBSET S /\ Others(x) \notin Bad /\ AnyOf(x) \in S
  BY <1>2, <1>4, OthersSmaller
<1>6. /\ SumFunctionOnSet(f, Others(x)) <= SumFunctionOnSet(g, Others(x))
      /\ f[AnyOf(x)] <= g[AnyOf(x)] /\ f[AnyOf(x)] \in Int /\ g[AnyOf(x)] \in Int
      /\ SumFunctionOnSet(f, Others(x)) \in Int /\ SumFunctionOnSet(g, Others(x)) \in Int
  <2>1. IsFiniteSet(Others(x))
    BY <1>5, FS_Subset
  <2>2. QED
    BY <1>5, <2>1, SumType
<1>7. /\ SumFunctionOnSet(f, x) = f[AnyOf(x)] + SumFunctionOnSet(f, Others(x))
      /\ SumFunctionOnSet(g, x) = g[AnyOf(x)] + SumFunctionOnSet(g, Others(x))
  BY <1>3, <1>4, SumStep
<1>8. QED
  BY <1>6, <1>7

\* ... so that a sum of naturals is one.
LEMMA SumOfNaturals ==
    ASSUME NEW S, IsFiniteSet(S), NEW f, \A x \in S : f[x] \in Nat
    PROVE  SumFunctionOnSet(f, S) \in Nat
<1> DEFINE nought == [x \in S |-> 0]
<1>1. \A x \in S : nought[x] = 0 /\ nought[x] \in Int /\ f[x] \in Int /\ nought[x] <= f[x]
  BY SMT
<1> HIDE DEF nought
<1>2. SumFunctionOnSet(nought, S) <= SumFunctionOnSet(f, S) /\ SumFunctionOnSet(f, S) \in Int
  BY <1>1, SumMonotone, SumType
<1>3. SumFunctionOnSet(nought, S) = 0
  BY <1>1, SumOfZeros
<1>4. QED
  BY <1>2, <1>3, SMT

\* Finite sets of integers have a least and a greatest element, ...
LEMMA LeastInteger ==
    ASSUME NEW S, IsFiniteSet(S)
    PROVE  S \subseteq Int /\ S # {} => \E x \in S : \A y \in S : x <= y
<1> DEFINE Bad == {s \in SUBSET S : s # {} /\ ~ \E x \in s : \A y \in s : x <= y}
<1>1. Bad # {} => \E s \in Bad : \A y \in Bad : ~(y \subseteq s /\ y # s)
  <2>1. Bad \subseteq SUBSET S
    OBVIOUS
  <2> HIDE DEF Bad
  <2>2. QED
    BY <2>1, MinimalSubset
<1> SUFFICES ASSUME S \subseteq Int, Bad # {} PROVE FALSE
  OBVIOUS
<1>2. PICK s \in Bad : \A y \in Bad : ~(y \subseteq s /\ y # s)
  BY <1>1
<1>3. PICK z \in s : TRUE
  OBVIOUS
<1>4. s \ {z} # {}
  BY <1>3
<1>5. s \ {z} \in SUBSET S /\ s \ {z} \notin Bad
  BY <1>2, <1>3
<1>6. PICK x \in s \ {z} : \A y \in s \ {z} : x <= y
  BY <1>4, <1>5
<1>7. s \subseteq Int /\ x \in Int /\ z \in Int
  BY <1>3, <1>6
<1>8. CASE x <= z
  BY <1>6, <1>7, <1>8
<1>9. CASE z < x
  <2>1. \A y \in s : z <= y
    BY <1>6, <1>7, <1>9
  <2>2. QED
    BY <2>1, <1>3
<1>10. QED
  BY <1>7, <1>8, <1>9

LEMMA GreatestInteger ==
    ASSUME NEW S, IsFiniteSet(S)
    PROVE  S \subseteq Int /\ S # {} => \E x \in S : \A y \in S : x >= y
<1> DEFINE Bad == {s \in SUBSET S : s # {} /\ ~ \E x \in s : \A y \in s : x >= y}
<1>1. Bad # {} => \E s \in Bad : \A y \in Bad : ~(y \subseteq s /\ y # s)
  <2>1. Bad \subseteq SUBSET S
    OBVIOUS
  <2> HIDE DEF Bad
  <2>2. QED
    BY <2>1, MinimalSubset
<1> SUFFICES ASSUME S \subseteq Int, Bad # {} PROVE FALSE
  OBVIOUS
<1>2. PICK s \in Bad : \A y \in Bad : ~(y \subseteq s /\ y # s)
  BY <1>1
<1>3. PICK z \in s : TRUE
  OBVIOUS
<1>4. s \ {z} # {}
  BY <1>3
<1>5. s \ {z} \in SUBSET S /\ s \ {z} \notin Bad
  BY <1>2, <1>3
<1>6. PICK x \in s \ {z} : \A y \in s \ {z} : x >= y
  BY <1>4, <1>5
<1>7. s \subseteq Int /\ x \in Int /\ z \in Int
  BY <1>3, <1>6
<1>8. CASE x >= z
  BY <1>6, <1>7, <1>8
<1>9. CASE z > x
  <2>1. \A y \in s : z >= y
    BY <1>6, <1>7, <1>9
  <2>2. QED
    BY <2>1, <1>3
<1>10. QED
  BY <1>7, <1>8, <1>9

\* ... so that a property of integers between m and n holds of all of them if
\* it holds of m and is passed on.
LEMMA IntervalInduction ==
    ASSUME NEW m \in Int, NEW n \in Int, NEW T, m \in T,
           \A k \in m .. n : k # m /\ k - 1 \in T => k \in T
    PROVE  \A k \in m .. n : k \in T
<1> DEFINE Bad == {k \in m .. n : k \notin T}
<1>1. SUFFICES ASSUME Bad # {} PROVE FALSE
  OBVIOUS
<1>2. IsFiniteSet(Bad) /\ Bad \subseteq Int
  <2>1. IsFiniteSet(m .. n)
    BY FS_Interval
  <2>2. Bad \in SUBSET (m .. n)
    OBVIOUS
  <2> HIDE DEF Bad
  <2>3. IsFiniteSet(Bad)
    BY <2>1, <2>2, FS_Subset
  <2>4. QED
    BY <2>2, <2>3
<1>3. PICK k \in Bad : \A j \in Bad : k <= j
  <2> HIDE DEF Bad
  <2>1. QED
    BY <1>1, <1>2, LeastInteger
<1>4. k \in m .. n /\ k \notin T /\ k # m
  BY <1>3
<1>5. k - 1 \in m .. n /\ k - 1 \notin Bad
  BY <1>3, <1>4
<1>6. QED
  BY <1>4, <1>5

\* A sum over an interval takes up its last term, ...
LEMMA SumToNext ==
    ASSUME NEW m \in Int, NEW n \in Int, m <= n, NEW f, \A k \in m .. n : f[k] \in Int
    PROVE  SumFunctionOnSet(f, m .. n) = SumFunctionOnSet(f, m .. (n - 1)) + f[n]
<1>1. IsFiniteSet(m .. n) /\ n \in m .. n
  BY FS_Interval
<1>2. SumFunctionOnSet(f, m .. n) = f[n] + SumFunctionOnSet(f, (m .. n) \ {n})
  BY <1>1, SumWithout
<1>3. (m .. n) \ {n} = m .. (n - 1)
  OBVIOUS
<1>4. IsFiniteSet(m .. (n - 1)) /\ \A k \in m .. (n - 1) : f[k] \in Int
  BY FS_Interval
<1>5. SumFunctionOnSet(f, m .. (n - 1)) \in Int /\ f[n] \in Int
  BY <1>1, <1>4, SumType
<1>6. SumFunctionOnSet(f, m .. n) = f[n] + SumFunctionOnSet(f, m .. (n - 1))
  BY <1>2, <1>3, Zenon
<1>7. QED
  BY <1>5, <1>6

\* ... is nothing over an empty one, ...
LEMMA SumToNothing ==
    ASSUME NEW m \in Int, NEW f
    PROVE  SumFunctionOnSet(f, m .. (m - 1)) = 0
<1>1. m .. (m - 1) = {}
  OBVIOUS
<1>2. QED
  BY <1>1, FS_EmptySet, SumStep

\* ... and of the steps of g is the way g went.
StepsOf(g, m, n, f) ==
    /\ m - 1 <= n
    /\ \A k \in m .. (n + 1) : g[k] \in Int
    /\ \A k \in m .. n : f[k] = g[k + 1] - g[k]

LEMMA Telescope ==
    ASSUME NEW m \in Int, NEW n \in Int, NEW f, NEW g, StepsOf(g, m, n, f)
    PROVE  SumFunctionOnSet(f, m .. n) = g[n + 1] - g[m]
<1> USE DEF StepsOf
<1> DEFINE T == {k \in (m - 1) .. n : SumFunctionOnSet(f, m .. k) = g[k + 1] - g[m]}
<1>1. m - 1 \in T
  <2>1. SumFunctionOnSet(f, m .. (m - 1)) = 0
    BY SumToNothing
  <2>2. m - 1 + 1 = m /\ g[m] \in Int /\ m - 1 \in (m - 1) .. n
    OBVIOUS
  <2>3. g[m - 1 + 1] - g[m] = 0
    BY <2>2
  <2>4. QED
    BY <2>1, <2>2, <2>3
<1>2. ASSUME NEW k \in (m - 1) .. n, k # m - 1, k - 1 \in T
      PROVE  k \in T
  <2>1. k \in Int /\ m <= k /\ k \in m .. n /\ k + 1 \in m .. (n + 1) /\ k \in m .. (n + 1)
    BY <1>2
  <2>2. \A j \in m .. k : f[j] \in Int
    <3>1. SUFFICES ASSUME NEW j \in m .. k PROVE f[j] \in Int
      OBVIOUS
    <3>2. j \in m .. n /\ j \in m .. (n + 1) /\ j + 1 \in m .. (n + 1)
      BY <2>1
    <3>3. QED
      BY <3>2
  <2>3. SumFunctionOnSet(f, m .. k) = SumFunctionOnSet(f, m .. (k - 1)) + f[k]
    BY <2>1, <2>2, SumToNext
  <2>4. k - 1 + 1 = k
    BY <2>1
  <2>5. SumFunctionOnSet(f, m .. (k - 1)) = g[k] - g[m]
    BY <1>2, <2>4
  <2>6. f[k] = g[k + 1] - g[k] /\ g[k] \in Int /\ g[k + 1] \in Int /\ g[m] \in Int
    BY <2>1
  <2>7. SumFunctionOnSet(f, m .. k) = g[k + 1] - g[m]
    BY <2>3, <2>5, <2>6
  <2>8. QED
    BY <2>7
<1> HIDE DEF T
<1>3. \A k \in (m - 1) .. n : k \in T
  BY <1>1, <1>2, IntervalInduction, m - 1 \in Int
<1>4. n \in T
  BY <1>3
<1>5. QED
  BY <1>4 DEF T

\* A price v that holds from b up to c adds v for each second.
ConstantFrom(f, v, a, b, c) ==
    /\ a <= b /\ b <= c
    /\ \A t \in a .. (c - 1) : f[t] \in Int
    /\ \A t \in b .. (c - 1) : f[t] = v

LEMMA SumOfConstant ==
    ASSUME NEW a \in Int, NEW b \in Int, NEW c \in Int, NEW f, NEW v \in Int,
           ConstantFrom(f, v, a, b, c)
    PROVE  SumFunctionOnSet(f, a .. (c - 1))
             = SumFunctionOnSet(f, a .. (b - 1)) + v * (c - b)
<1> USE DEF ConstantFrom
<1> DEFINE s == SumFunctionOnSet(f, a .. (b - 1))
           T == {t \in b .. c : SumFunctionOnSet(f, a .. (t - 1)) = s + v * (t - b)}
<1>1. s \in Int
  <2>1. IsFiniteSet(a .. (b - 1)) /\ \A t \in a .. (b - 1) : f[t] \in Int
    BY FS_Interval
  <2>2. QED
    BY <2>1, SumType
<1> HIDE DEF s
<1>2. b \in T
  <2>1. v * (b - b) = 0
    BY SMT
  <2>2. s = s + v * (b - b)
    BY <1>1, <2>1
  <2>3. QED
    BY <2>2 DEF s
<1>3. ASSUME NEW t \in b .. c, t # b, t - 1 \in T
      PROVE  t \in T
  <2>1. t \in Int /\ t - 1 \in Int /\ a <= t - 1 /\ t - 1 \in b .. (c - 1)
        /\ \A u \in a .. (t - 1) : f[u] \in Int
    BY <1>3
  <2>2. SumFunctionOnSet(f, a .. (t - 1)) = SumFunctionOnSet(f, a .. (t - 1 - 1)) + f[t - 1]
    BY <2>1, SumToNext
  <2>3. SumFunctionOnSet(f, a .. (t - 1 - 1)) = s + v * (t - 1 - b) /\ f[t - 1] = v
    BY <1>3, <2>1
  <2>4. s + v * (t - 1 - b) + v = s + v * (t - b)
    BY <1>1, <2>1, SMT
  <2>5. SumFunctionOnSet(f, a .. (t - 1)) = s + v * (t - b)
    BY <2>2, <2>3, <2>4
  <2>6. QED
    BY <2>5
<1> HIDE DEF T
<1>4. \A t \in b .. c : t \in T
  BY <1>2, <1>3, IntervalInduction
<1>5. c \in T
  BY <1>4
<1>6. QED
  BY <1>5 DEF T, s

\* F is the price p[k] from b[k] up to b[k + 1], for each k from m to n.
StepFunction(m, n, b, p, F) ==
    /\ \A k \in m .. (n + 1) : b[k] \in Int /\ b[m] <= b[k] /\ b[k] <= b[n + 1]
    /\ \A k \in m .. n : /\ b[k] <= b[k + 1] /\ p[k] \in Int
                         /\ \A t \in b[k] .. (b[k + 1] - 1) : F[t] = p[k]
    /\ \A t \in b[m] .. (b[n + 1] - 1) : F[t] \in Int

\* The sum of such a function over the seconds is that of its prices, each
\* weighed by the time it lasted.
LEMMA SumOfSteps ==
    ASSUME NEW m \in Int, NEW n \in Int, m <= n, NEW b, NEW p, NEW F,
           StepFunction(m, n, b, p, F),
           NEW w, \A k \in m .. n : w[k] = p[k] * (b[k + 1] - b[k])
    PROVE  SumFunctionOnSet(w, m .. n) = SumFunctionOnSet(F, b[m] .. (b[n + 1] - 1))
<1> DEFINE g == [k \in m .. (n + 1) |-> SumFunctionOnSet(F, b[m] .. (b[k] - 1))]
<1>1. \A k \in m .. (n + 1) : b[k] \in Int /\ b[m] <= b[k] /\ b[k] <= b[n + 1]
  BY DEF StepFunction
<1>2. m \in m .. (n + 1) /\ n + 1 \in m .. (n + 1)
  OBVIOUS
<1>3. b[m] \in Int /\ b[n + 1] \in Int
  BY <1>1, <1>2
<1>4. \A t \in b[m] .. (b[n + 1] - 1) : F[t] \in Int
  BY DEF StepFunction
<1>5. ASSUME NEW k \in m .. (n + 1)
      PROVE  \A t \in b[m] .. (b[k] - 1) : F[t] \in Int
  BY <1>1, <1>3, <1>4
<1>6. ASSUME NEW k \in m .. (n + 1)
      PROVE  g[k] \in Int
  <2>1. b[k] - 1 \in Int
    BY <1>1
  <2>2. IsFiniteSet(b[m] .. (b[k] - 1))
    BY <1>3, <2>1, FS_Interval
  <2>3. SumFunctionOnSet(F, b[m] .. (b[k] - 1)) \in Int
    BY <1>5, <2>2, SumType
  <2>4. QED
    BY <2>3
<1>7. ASSUME NEW k \in m .. n
      PROVE  w[k] = g[k + 1] - g[k]
  <2>1. k \in m .. (n + 1) /\ k + 1 \in m .. (n + 1) /\ k \in Int
    OBVIOUS
  <2>2. /\ b[k] \in Int /\ b[k + 1] \in Int /\ b[m] <= b[k] /\ b[k] <= b[k + 1]
        /\ p[k] \in Int /\ \A t \in b[k] .. (b[k + 1] - 1) : F[t] = p[k]
    BY <1>1, <2>1 DEF StepFunction
  <2>3. \A t \in b[m] .. (b[k + 1] - 1) : F[t] \in Int
    BY <1>5, <2>1
  <2>4. SumFunctionOnSet(F, b[m] .. (b[k + 1] - 1))
          = SumFunctionOnSet(F, b[m] .. (b[k] - 1)) + p[k] * (b[k + 1] - b[k])
    <3>1. ConstantFrom(F, p[k], b[m], b[k], b[k + 1])
      BY <1>3, <2>2, <2>3 DEF ConstantFrom
    <3>2. QED
      BY <1>3, <2>2, <3>1, SumOfConstant
  <2>5. g[k + 1] = g[k] + p[k] * (b[k + 1] - b[k])
    BY <2>1, <2>4
  <2>6. g[k + 1] = g[k] + w[k]
    BY <2>5, Zenon
  <2>7. w[k] \in Int
    <3>1. p[k] * (b[k + 1] - b[k]) \in Int
      BY <2>2, SMT
    <3>2. QED
      BY <3>1
  <2> HIDE DEF g
  <2>8. g[k] \in Int
    BY <1>6, <2>1
  <2>9. QED
    BY <2>6, <2>7, <2>8
<1>8. g[m] = 0 /\ g[n + 1] = SumFunctionOnSet(F, b[m] .. (b[n + 1] - 1))
  BY <1>2, <1>3, SumToNothing
<1> HIDE DEF g
<1>9. SumFunctionOnSet(w, m .. n) = g[n + 1] - g[m]
  <2>1. StepsOf(g, m, n, w)
    BY <1>6, <1>7 DEF StepsOf
  <2>2. QED
    BY <2>1, Telescope
<1>10. g[n + 1] \in Int
  BY <1>2, <1>6
<1>11. QED
  BY <1>8, <1>9, <1>10

\* A factor of all terms is a factor of the sum.
LEMMA SumScaled ==
    ASSUME NEW S, IsFiniteSet(S), NEW c \in Int, NEW w, NEW v,
           \A x \in S : w[x] \in Int, \A x \in S : v[x] = c * w[x]
    PROVE  SumFunctionOnSet(v, S) = c * SumFunctionOnSet(w, S)
<1> DEFINE Bad == {s \in SUBSET S : SumFunctionOnSet(v, s) # c * SumFunctionOnSet(w, s)}
<1>1. SUFFICES ASSUME Bad # {} PROVE FALSE
  OBVIOUS
<1>2. PICK x \in Bad : \A y \in Bad : ~(y \subseteq x /\ y # x)
  <2>1. Bad \subseteq SUBSET S
    OBVIOUS
  <2> HIDE DEF Bad
  <2>2. QED
    BY <1>1, <2>1, MinimalSubset
<1>3. IsFiniteSet(x) /\ x \subseteq S
  BY FS_Subset
<1>4. x # {}
  <2>1. SUFFICES ASSUME x = {} PROVE FALSE
    OBVIOUS
  <2>2. SumFunctionOnSet(v, x) = 0 /\ SumFunctionOnSet(w, x) = 0
    BY <1>3, <2>1, SumStep
  <2>3. c * 0 = 0
    BY SMT
  <2>4. QED
    BY <1>2, <2>2, <2>3
<1>5. Others(x) \in SUBSET S /\ Others(x) \notin Bad /\ AnyOf(x) \in S
  BY <1>2, <1>4, OthersSmaller
<1> DEFINE a == w[AnyOf(x)]
           rest == SumFunctionOnSet(w, Others(x))
<1>6. v[AnyOf(x)] = c * a /\ SumFunctionOnSet(v, Others(x)) = c * rest
  BY <1>5
<1>7. a \in Int /\ rest \in Int
  <2>1. IsFiniteSet(Others(x)) /\ \A y \in Others(x) : w[y] \in Int
    BY <1>5, FS_Subset
  <2>2. QED
    BY <1>5, <2>1, SumType
<1>8. /\ SumFunctionOnSet(v, x) = v[AnyOf(x)] + SumFunctionOnSet(v, Others(x))
      /\ SumFunctionOnSet(w, x) = a + rest
  BY <1>3, <1>4, SumStep
<1> HIDE DEF a, rest
<1>9. SumFunctionOnSet(v, x) = c * a + c * rest
  BY <1>6, <1>8, Zenon
<1>10. c * (a + rest) = c * a + c * rest
  BY <1>7, SMT
<1>11. SumFunctionOnSet(v, x) = c * SumFunctionOnSet(w, x)
  BY <1>8, <1>9, <1>10, Zenon
<1>12. QED
  BY <1>2, <1>11

\* A quotient keeps the bounds of what is divided.
LEMMA QuotientWithin ==
    ASSUME NEW a \in Int, NEW b \in Nat \ {0}, NEW lo \in Int, NEW hi \in Int,
           lo * b <= a, a <= hi * b
    PROVE  a \div b \in lo .. hi
<1> DEFINE q == a \div b
<1>1. q \in Int /\ b * q <= a /\ a < b * (q + 1)
  BY SMT
<1> HIDE DEF q
<1>2. b * q <= hi * b /\ lo * b < b * (q + 1)
  <2>1. b * q \in Int /\ hi * b \in Int /\ lo * b \in Int /\ b * (q + 1) \in Int
    BY <1>1, SMT
  <2>2. QED
    BY <1>1, <2>1
<1>3. q <= hi
  <2>1. SUFFICES ASSUME q >= hi + 1 PROVE FALSE
    BY <1>1
  <2>2. b * (hi + 1) <= b * q
    BY <1>1, <2>1, SMT
  <2>3. b * (hi + 1) = hi * b + b
    BY SMT
  <2>4. QED
    BY <1>1, <1>2, <2>2, <2>3, SMT
<1>4. lo <= q
  <2>1. SUFFICES ASSUME lo >= q + 1 PROVE FALSE
    BY <1>1
  <2>2. b * (q + 1) <= lo * b
    BY <1>1, <2>1, SMT
  <2>3. QED
    BY <1>1, <1>2, <2>2, SMT
<1>5. QED
  BY <1>1, <1>3, <1>4 DEF q

\* It is the greatest number of times the divisor fits.
LEMMA NaturalQuotient ==
    ASSUME NEW a \in Nat, NEW b \in Nat \ {0}
    PROVE  a \div b \in Nat /\ a < (a \div b + 1) * b
<1> DEFINE q == a \div b
<1>1. q \in Nat /\ a < b * (q + 1)
  BY SMT
<1> HIDE DEF q
<1>2. b * (q + 1) = (q + 1) * b
  BY <1>1, SMT
<1>3. QED
  BY <1>1, <1>2 DEF q

\* A product divided by a factor.
LEMMA QuotientOfProduct ==
    ASSUME NEW a \in Nat, NEW b \in Nat \ {0}
    PROVE  (0 + a * b) \div b = a
<1>1. 0 + a * b \in Int /\ a * b <= 0 + a * b /\ 0 + a * b <= a * b
  BY SMT
<1>2. (0 + a * b) \div b \in a .. a
  BY <1>1, QuotientWithin
<1>3. QED
  BY <1>2

\* The terms v[x] are prices p[x] between two bounds, each as often as w[x] says.
Weighs(w, S, p, v, lo, hi) ==
    \A x \in S : w[x] \in Nat /\ p[x] \in lo .. hi /\ v[x] = p[x] * w[x]

\* A weighted mean lies between any bounds of what is averaged.
LEMMA MeanWithin ==
    ASSUME NEW S, IsFiniteSet(S), NEW p, NEW w, NEW v,
           NEW lo \in Int, NEW hi \in Int,
           Weighs(w, S, p, v, lo, hi), SumFunctionOnSet(w, S) > 0
    PROVE  SumFunctionOnSet(v, S) \div SumFunctionOnSet(w, S) \in lo .. hi
<1> USE DEF Weighs
<1> DEFINE low == [x \in S |-> lo * w[x]]
           high == [x \in S |-> hi * w[x]]
           total == SumFunctionOnSet(w, S)
<1>1. ASSUME NEW x \in S
      PROVE  /\ low[x] \in Int /\ high[x] \in Int /\ v[x] \in Int
             /\ low[x] <= v[x] /\ v[x] <= high[x]
  <2>1. p[x] \in Int /\ lo <= p[x] /\ p[x] <= hi /\ w[x] \in Nat
    OBVIOUS
  <2>2. \A a \in Int, b \in Int, k \in Nat : a <= b => a * k <= b * k
    BY SMT
  <2>3. lo * w[x] <= p[x] * w[x] /\ p[x] * w[x] <= hi * w[x]
    BY <2>1, <2>2
  <2>4. lo * w[x] \in Int /\ hi * w[x] \in Int /\ p[x] * w[x] \in Int
    BY <2>1, SMT
  <2>5. low[x] = lo * w[x] /\ high[x] = hi * w[x] /\ v[x] = p[x] * w[x]
    OBVIOUS
  <2>6. QED
    BY <2>3, <2>4, <2>5, Zenon
<1>2. total \in Int /\ SumFunctionOnSet(v, S) \in Int
  BY <1>1, SumType
<1>3. SumFunctionOnSet(low, S) = lo * total /\ SumFunctionOnSet(high, S) = hi * total
  <2>1. \A x \in S : w[x] \in Int
    OBVIOUS
  <2>2. QED
    BY <2>1, SumScaled
<1>4. /\ SumFunctionOnSet(low, S) <= SumFunctionOnSet(v, S)
      /\ SumFunctionOnSet(v, S) <= SumFunctionOnSet(high, S)
  <2> HIDE DEF low, high
  <2>1. QED
    BY <1>1, SumMonotone
<1>5. total \in Nat \ {0}
  BY <1>2
<1> HIDE DEF low, high, total
<1>6. lo * total <= SumFunctionOnSet(v, S) /\ SumFunctionOnSet(v, S) <= hi * total
  BY <1>3, <1>4, Zenon
<1>7. SumFunctionOnSet(v, S) \div total \in lo .. hi
  BY <1>2, <1>5, <1>6, QuotientWithin
<1>8. QED
  BY <1>7 DEF total

\* The greatest and the least of a set, as Max and Min choose them.
LEMMA MaxIs ==
    ASSUME NEW S, S \subseteq Int, NEW x \in S, \A y \in S : y <= x
    PROVE  Max(S) = x
<1>1. \A z \in S : (\A y \in S : z >= y) => z = x
  OBVIOUS
<1>2. QED
  BY <1>1 DEF Max

LEMMA MinIs ==
    ASSUME NEW S, S \subseteq Int, NEW x \in S, \A y \in S : x <= y
    PROVE  Min(S) = x
<1>1. \A z \in S : (\A y \in S : z <= y) => z = x
  OBVIOUS
<1>2. QED
  BY <1>1 DEF Min

LEMMA Extremes ==
    ASSUME NEW S, IsFiniteSet(S), S \subseteq Int, S # {}
    PROVE  /\ Min(S) \in S /\ \A y \in S : Min(S) <= y
           /\ Max(S) \in S /\ \A y \in S : y <= Max(S)
<1>1. PICK x \in S : \A y \in S : x <= y
  BY LeastInteger
<1>2. PICK z \in S : \A y \in S : z >= y
  BY GreatestInteger
<1>3. Min(S) = x
  BY <1>1, MinIs
<1>4. \A y \in S : y <= z
  BY <1>2
<1>5. Max(S) = z
  BY <1>4, MaxIs
<1>6. QED
  BY <1>1, <1>3, <1>4, <1>5

LEMMA MaxOfTwo ==
    ASSUME NEW a \in Int, NEW b \in Int
    PROVE  Max({a, b}) = IF a <= b THEN b ELSE a
<1>1. CASE a <= b
  <2>1. {a, b} \subseteq Int /\ b \in {a, b} /\ \A y \in {a, b} : y <= b
    BY <1>1
  <2>2. QED
    BY <1>1, <2>1, MaxIs
<1>2. CASE ~(a <= b)
  <2>1. {a, b} \subseteq Int /\ a \in {a, b} /\ \A y \in {a, b} : y <= a
    BY <1>2
  <2>2. QED
    BY <1>2, <2>1, MaxIs
<1>3. QED
  BY <1>1, <1>2

-----------------------------------------------------------------------------
(* Lists of entries                                                        *)

\* Pushing a new entry (save_vamm, save_token) adds it to the set.
THEOREM PushedFacts ==
    ASSUME NEW S, NEW list \in Seq(S), NEW entry \in S,
           NoDuplicates(list), entry \notin Listed(list)
    PROVE  /\ Pushed(list, entry) \in Seq(S)
           /\ NoDuplicates(Pushed(list, entry))
           /\ Len(Pushed(list, entry)) = Len(list) + 1
           /\ Listed(Pushed(list, entry)) = Listed(list) \union {entry}
<1> DEFINE pushed == Pushed(list, entry)
<1>1. /\ pushed \in Seq(S)
      /\ Len(pushed) = Len(list) + 1
      /\ \A i \in 1 .. Len(list) : pushed[i] = list[i]
      /\ pushed[Len(list) + 1] = entry
  BY DEF Pushed
<1>2. /\ Len(list) \in Nat
      /\ DOMAIN list = 1 .. Len(list)
      /\ DOMAIN pushed = 1 .. Len(list) + 1
  BY <1>1
<1>3. \A i \in DOMAIN list : list[i] # entry
  BY DEF Listed
<1>4. ASSUME NEW i \in DOMAIN pushed, NEW j \in DOMAIN pushed, pushed[i] = pushed[j]
      PROVE  i = j
  <2>1. \A k \in DOMAIN pushed : k \in DOMAIN list \/ k = Len(list) + 1
    BY <1>2
  <2>2. CASE i \in DOMAIN list /\ j \in DOMAIN list
    BY <1>1, <1>2, <1>4, <2>2 DEF NoDuplicates
  <2>3. CASE i \notin DOMAIN list \/ j \notin DOMAIN list
    BY <1>1, <1>2, <1>3, <1>4, <2>1, <2>3
  <2> QED BY <2>2, <2>3
<1>5. Listed(pushed) = Listed(list) \union {entry}
  <2> HIDE DEF pushed
  <2>1. ASSUME NEW x \in Listed(pushed) PROVE x \in Listed(list) \union {entry}
    BY <1>1, <1>2 DEF Listed
  <2>2. ASSUME NEW x \in Listed(list) PROVE x \in Listed(pushed)
    BY <1>1, <1>2 DEF Listed
  <2>3. entry \in Listed(pushed)
    BY <1>1, <1>2 DEF Listed
  <2> QED BY <2>1, <2>2, <2>3
<1> QED BY <1>1, <1>4, <1>5 DEF NoDuplicates

\* swap_remove takes out one entry and, whatever it moves, keeps the others.
THEOREM SwapRemoveFacts ==
    ASSUME NEW S, NEW list \in Seq(S), NEW entry \in Listed(list), NoDuplicates(list)
    PROVE  /\ SwapRemove(list, entry) \in Seq(S)
           /\ NoDuplicates(SwapRemove(list, entry))
           /\ Len(SwapRemove(list, entry)) = Len(list) - 1
           /\ Listed(SwapRemove(list, entry)) = Listed(list) \ {entry}
<1> DEFINE index == CHOOSE i \in DOMAIN list : list[i] = entry
           n == Len(list)
           removed == SwapRemove(list, entry)
<1>1. index \in DOMAIN list /\ list[index] = entry
  BY DEF Listed
<1>2. n \in Nat /\ DOMAIN list = 1 .. n
  OBVIOUS
<1>3. n >= 1 /\ index \in 1 .. n
  BY <1>1, <1>2
<1>4. removed = [i \in 1 .. n - 1 |-> IF i = index THEN list[n] ELSE list[i]]
  BY DEF SwapRemove
<1>5. \A i \in 1 .. n : list[i] \in S
  BY <1>2
<1> HIDE DEF index, n, removed
<1>6. /\ removed \in Seq(S)
      /\ DOMAIN removed = 1 .. n - 1
      /\ Len(removed) = n - 1
  BY <1>2, <1>3, <1>4, <1>5
<1>7. \A i \in 1 .. n - 1 : removed[i] = list[IF i = index THEN n ELSE i]
  BY <1>3, <1>4
<1>8. \A i, j \in 1 .. n : list[i] = list[j] => i = j
  BY <1>2 DEF NoDuplicates
<1>9. ASSUME NEW i \in 1 .. n - 1, NEW j \in 1 .. n - 1, removed[i] = removed[j]
      PROVE  i = j
  <2> DEFINE place(k) == IF k = index THEN n ELSE k
  <2>1. place(i) \in 1 .. n /\ place(j) \in 1 .. n
    BY <1>2, <1>3
  <2>2. list[place(i)] = list[place(j)]
    BY <1>7, <1>9
  <2>3. place(i) = place(j)
    <3> HIDE DEF place
    <3> QED BY <1>8, <2>1, <2>2
  <2> QED BY <1>2, <2>3
<1>10. ASSUME NEW x \in Listed(removed) PROVE x \in Listed(list) \ {entry}
  <2>1. PICK i \in 1 .. n - 1 : x = removed[i]
    BY <1>6 DEF Listed
  <2>2. CASE i = index
    <3>1. x = list[n] /\ n \in 1 .. n /\ n # index
      BY <1>2, <1>3, <1>7, <2>1, <2>2
    <3> QED BY <1>1, <1>2, <1>3, <1>8, <3>1 DEF Listed
  <2>3. CASE i # index
    <3>1. x = list[i] /\ i \in 1 .. n
      BY <1>2, <1>7, <2>1, <2>3
    <3> QED BY <1>1, <1>2, <1>3, <1>8, <2>3, <3>1 DEF Listed
  <2> QED BY <2>2, <2>3
<1>11. ASSUME NEW x \in Listed(list) \ {entry} PROVE x \in Listed(removed)
  <2>1. PICK i \in 1 .. n : x = list[i]
    BY <1>2 DEF Listed
  <2>2. i # index
    BY <1>1, <2>1
  <2>3. CASE i = n
    <3>1. index \in 1 .. n - 1 /\ removed[index] = x
      BY <1>2, <1>3, <1>7, <2>1, <2>2, <2>3
    <3> QED BY <1>6, <3>1 DEF Listed
  <2>4. CASE i # n
    <3>1. i \in 1 .. n - 1 /\ removed[i] = x
      BY <1>2, <1>7, <2>1, <2>2, <2>4
    <3> QED BY <1>6, <3>1 DEF Listed
  <2> QED BY <2>3, <2>4
<1>12. NoDuplicates(removed)
  BY <1>6, <1>9 DEF NoDuplicates
<1>13. Listed(removed) = Listed(list) \ {entry}
  BY <1>10, <1>11
<1> QED BY <1>6, <1>12, <1>13 DEF removed, n

\* A list that is short enough is read whole (read_vammlist, read_token_list).
THEOREM TakenWhole ==
    ASSUME NEW S, NEW list \in Seq(S), NEW limit \in Nat, Len(list) <= limit
    PROVE  Taken(list, limit) = list
<1>1. Taken(list, limit) = SubSeq(list, 1, Len(list))
  BY DEF Taken
<1> QED BY <1>1

\* A list without duplicates is as long as its set is large.
THEOREM ListedSize ==
    ASSUME NEW S, NEW list \in Seq(S), NoDuplicates(list)
    PROVE  IsFiniteSet(Listed(list)) /\ Cardinality(Listed(list)) = Len(list)
<1>1. Len(list) \in Nat /\ DOMAIN list = 1 .. Len(list)
  OBVIOUS
<1> DEFINE f == [i \in 1 .. Len(list) |-> list[i]]
<1>2. f \in Bijection(1 .. Len(list), Listed(list))
  BY <1>1 DEF Bijection, Injection, Surjection, IsInjective, NoDuplicates, Listed
<1>3. ExistsBijection(1 .. Len(list), Listed(list))
  BY <1>2 DEF ExistsBijection
<1> QED BY <1>1, <1>3, FS_CountingElements, FS_NatBijection

-----------------------------------------------------------------------------
(* Signed integers: where those of the code are the integers of the models, *)
(* and where the second zero shows.                                        *)

LEMMA IntegerParts ==
    ASSUME NEW i \in Integer
    PROVE  /\ i.value \in Nat /\ i.negative \in BOOLEAN
           /\ i.value \in Uint
           /\ i = [value |-> i.value, negative |-> i.negative]
           /\ ToInt(i) \in Int
BY MaxUintAssumption DEF Integer, ToInt, Uint

LEMMA Meaning ==
    ASSUME NEW i \in Integer
    PROVE  /\ i.negative => ToInt(i) = 0 - i.value
           /\ ~i.negative => ToInt(i) = i.value
           /\ i.negative /\ i.value = 0 <=> i = NegativeZero
           /\ i.value \in Nat
<1>1. i.value \in Nat /\ i.negative \in BOOLEAN
  BY IntegerParts
<1>2. /\ i.negative => ToInt(i) = 0 - i.value
      /\ ~i.negative => ToInt(i) = i.value
  BY <1>1, SMT DEF ToInt
<1>3. ASSUME i.negative, i.value = 0 PROVE i = NegativeZero
  <2>1. i.negative = TRUE
    BY <1>1, <1>3
  <2>2. i = [value |-> 0, negative |-> TRUE]
    BY <1>3, <2>1, IntegerParts, Zenon
  <2>3. QED
    BY <2>2 DEF NegativeZero, new_negative
<1>4. i = NegativeZero => i.negative /\ i.value = 0
  BY DEF NegativeZero, new_negative
<1>5. QED
  BY <1>1, <1>2, <1>3, <1>4

LEMMA Inverted ==
    ASSUME NEW i \in Integer
    PROVE  /\ invert_sign(i) \in Integer
           /\ invert_sign(i).value = i.value
           /\ invert_sign(i).negative = ~i.negative
           /\ ToInt(invert_sign(i)) = -ToInt(i)
<1>1. invert_sign(i).value = i.value /\ invert_sign(i).negative = ~i.negative
  BY DEF invert_sign
<1>2. invert_sign(i) \in Integer
  BY IntegerParts, Zenon DEF invert_sign, Integer
<1>3. ToInt(invert_sign(i)) = -ToInt(i)
  <2>1. /\ invert_sign(i).negative => ToInt(invert_sign(i)) = 0 - i.value
        /\ ~invert_sign(i).negative => ToInt(invert_sign(i)) = i.value
    BY <1>1, <1>2, Meaning
  <2>2. /\ i.negative => ToInt(i) = 0 - i.value
        /\ ~i.negative => ToInt(i) = i.value
        /\ i.value \in Nat
    BY Meaning
  <2>3. CASE i.negative
    <3>1. ToInt(invert_sign(i)) = i.value /\ ToInt(i) = 0 - i.value
      BY <1>1, <2>1, <2>2, <2>3, Zenon
    <3>2. i.value = -(0 - i.value)
      BY <2>2
    <3>3. QED
      BY <3>1, <3>2
  <2>4. CASE ~i.negative
    <3>1. ToInt(invert_sign(i)) = 0 - i.value /\ ToInt(i) = i.value
      BY <1>1, <2>1, <2>2, <2>4, Zenon
    <3>2. 0 - i.value = -i.value
      BY <2>2
    <3>3. QED
      BY <3>1, <3>2
  <2>5. QED
    BY <2>3, <2>4
<1>4. QED
  BY <1>1, <1>2, <1>3

\* Both additions and both subtractions give the number that is meant, when
\* they give anything (checked_add and the operators of Integer).
THEOREM AdditionIsExact ==
    ASSUME NEW a \in Integer, NEW b \in Integer
    PROVE  /\ AddDefined(a, b) =>
                 /\ checked_add(a, b) \in Integer /\ add(a, b) \in Integer
                 /\ ToInt(checked_add(a, b)) = ToInt(a) + ToInt(b)
                 /\ ToInt(add(a, b)) = ToInt(a) + ToInt(b)
           /\ SubDefined(a, b) =>
                 /\ ToInt(checked_sub(a, b)) = ToInt(a) - ToInt(b)
                 /\ ToInt(sub(a, b)) = ToInt(a) - ToInt(b)
<1>1. ASSUME NEW x \in Integer, NEW y \in Integer, AddDefined(x, y)
      PROVE  /\ checked_add(x, y) \in Integer
             /\ ToInt(checked_add(x, y)) = ToInt(x) + ToInt(y)
  BY <1>1, MaxUintAssumption
     DEF AddDefined, checked_add, new_positive, new_negative, ToInt, Integer, Uint
<1>2. ASSUME NEW x \in Integer, NEW y \in Integer, AddDefined(x, y)
      PROVE  /\ add(x, y) \in Integer
             /\ ToInt(add(x, y)) = ToInt(x) + ToInt(y)
  BY <1>2, MaxUintAssumption DEF AddDefined, add, ToInt, Integer, Uint
<1>3. SubDefined(a, b) =>
         /\ ToInt(checked_sub(a, b)) = ToInt(a) + ToInt(invert_sign(b))
         /\ ToInt(sub(a, b)) = ToInt(a) + ToInt(invert_sign(b))
  BY <1>1, <1>2, Inverted DEF SubDefined, checked_sub, sub
<1>4. ToInt(a) + ToInt(invert_sign(b)) = ToInt(a) - ToInt(b)
  BY Inverted, IntegerParts
<1>5. QED
  BY <1>1, <1>2, <1>3, <1>4

\* A product is exact, and a quotient by a positive number is truncated towards
\* zero: the TruncDiv of the other modules.
THEOREM ProductsAndQuotients ==
    ASSUME NEW a \in Integer, NEW b \in Integer
    PROVE  /\ MulDefined(a, b) => ToInt(mul(a, b)) = ToInt(a) * ToInt(b)
           /\ ToInt(b) > 0 => ToInt(div(a, b)) = TruncDiv(ToInt(a), ToInt(b))
<1>1. a.value \in Nat /\ b.value \in Nat /\ a.negative \in BOOLEAN /\ b.negative \in BOOLEAN
  BY IntegerParts
<1>2. ToInt(mul(a, b)) = ToInt(a) * ToInt(b)
  <2> DEFINE x == a.value
             y == b.value
  <2>1. x \in Nat /\ y \in Nat
    BY <1>1
  <2> HIDE DEF x, y
  <2>2. (-x) * y = -(x * y) /\ x * (-y) = -(x * y) /\ (-x) * (-y) = x * y
    BY <2>1
  <2>3. /\ ToInt(a) = IF a.negative THEN -x ELSE x
        /\ ToInt(b) = IF b.negative THEN -y ELSE y
        /\ ToInt(mul(a, b)) = IF a.negative # b.negative THEN -(x * y) ELSE x * y
    BY DEF ToInt, mul, x, y
  <2>4. QED
    BY <2>2, <2>3, <1>1
<1>3. ToInt(b) > 0 => ToInt(div(a, b)) = TruncDiv(ToInt(a), ToInt(b))
  <2> SUFFICES ASSUME ToInt(b) > 0
               PROVE  ToInt(div(a, b)) = TruncDiv(ToInt(a), ToInt(b))
    OBVIOUS
  <2>1. ~b.negative /\ ToInt(b) = b.value
    BY <1>1 DEF ToInt
  <2>2. CASE ~a.negative
    BY <2>1, <2>2, <1>1 DEF ToInt, div, TruncDiv
  <2>3. CASE a.negative /\ a.value # 0
    <3>1. ToInt(a) = -a.value /\ -a.value < 0 /\ -(-a.value) = a.value
      BY <2>3, <1>1 DEF ToInt
    <3>2. ToInt(div(a, b)) = -(a.value \div b.value)
      BY <2>1, <2>3 DEF ToInt, div
    <3>3. QED
      BY <2>1, <3>1, <3>2, <1>1 DEF TruncDiv
  <2>4. CASE a.negative /\ a.value = 0
    <3>1. ToInt(a) = 0
      BY <2>4, Meaning, SMT
    <3>2. \A n \in Nat \ {0} : 0 \div n = 0
      BY SMT
    <3>3. b.value \in Nat \ {0}
      BY <2>1, <1>1
    <3>4. a.value \div b.value = 0
      BY <3>2, <3>3, <2>4
    <3>5. div(a, b).value = 0
      BY <3>4 DEF div
    <3>6. ToInt(div(a, b)) = 0
      <4> DEFINE d == div(a, b)
      <4>1. d \in Integer /\ d.value = 0
        BY <3>5, <3>4, <1>1, IntegerParts, MaxUintAssumption DEF div, Integer, Uint
      <4> HIDE DEF d
      <4>2. /\ d.negative => ToInt(d) = 0 - d.value
            /\ ~d.negative => ToInt(d) = d.value
        BY <4>1, Meaning, Zenon
      <4>3. 0 - 0 = 0
        OBVIOUS
      <4>4. ToInt(d) = 0
        BY <4>1, <4>2, <4>3, Zenon
      <4>5. QED
        BY <4>4 DEF d
    <3>7. QED
      BY <2>1, <3>1, <3>2, <3>3, <3>6, SMT DEF TruncDiv
  <2>5. QED
    BY <2>2, <2>3, <2>4, <1>1
<1>4. QED
  BY <1>2, <1>3

\* The order (and with it the signs) is that of the numbers, but for the two
\* zeros: the negative one is less than the other, and equal to it for nobody.
THEOREM OrderUpToZero ==
    ASSUME NEW a \in Integer, NEW b \in Integer
    PROVE  /\ ToInt(a) < ToInt(b) => Less(a, b)
           /\ Less(a, b) => ToInt(a) < ToInt(b) \/ (a = NegativeZero /\ b = zero)
           /\ ToInt(a) = ToInt(b) => a = b \/ {a, b} = {NegativeZero, zero}
<1>1. /\ ToInt(a) < ToInt(b) => Less(a, b)
      /\ Less(a, b) => \/ ToInt(a) < ToInt(b)
                       \/ a.negative /\ a.value = 0 /\ ~b.negative /\ b.value = 0
  BY IntegerParts DEF Less, ToInt
<1>2. ToInt(a) = ToInt(b) =>
         \/ a.value = b.value /\ a.negative = b.negative
         \/ a.negative # b.negative /\ a.value = 0 /\ b.value = 0
  BY IntegerParts DEF ToInt
<1>3. \A i \in Integer : /\ i.negative /\ i.value = 0 => i = NegativeZero
                         /\ ~i.negative /\ i.value = 0 => i = zero
  BY IntegerParts DEF NegativeZero, zero, new_positive, new_negative
<1>4. a.value = b.value /\ a.negative = b.negative => a = b
  BY IntegerParts, Zenon
<1>5. QED
  BY <1>1, <1>2, <1>3, <1>4, IntegerParts

\* What has been written to storage has one zero only: there the order and the
\* equality are those of the numbers, which is what the state of the models is.
THEOREM StoredIntegersAreIntegers ==
    ASSUME NEW a \in Integer, NEW b \in Integer
    PROVE  /\ ToInt(Stored(a)) = ToInt(a)
           /\ Less(Stored(a), Stored(b)) <=> ToInt(a) < ToInt(b)
           /\ Stored(a) = Stored(b) <=> ToInt(a) = ToInt(b)
BY IntegerParts DEF Less, Stored, ToInt, Integer, zero, new_positive

\* Which of the two additions leaves the negative zero: checked_add only where
\* both summands are one, the operator whenever a negative number and its
\* opposite are added in that order (position.size on the way out of a short).
THEOREM WhereNegativeZeroComesFrom ==
    ASSUME NEW a \in Integer, NEW b \in Integer, AddDefined(a, b)
    PROVE  /\ checked_add(a, b) = NegativeZero <=> a = NegativeZero /\ b = NegativeZero
           /\ add(a, b) = NegativeZero <=> a.negative /\ ToInt(a) + ToInt(b) = 0
<1>1. \A i \in Integer : i.negative /\ i.value = 0 <=> i = NegativeZero
  BY Meaning
<1>2. checked_add(a, b) \in Integer /\ add(a, b) \in Integer
  BY AdditionIsExact
<1>3. checked_add(a, b).negative /\ checked_add(a, b).value = 0
        <=> /\ a.negative /\ a.value = 0
            /\ b.negative /\ b.value = 0
  BY IntegerParts DEF checked_add, new_positive, new_negative
<1>4. add(a, b).negative /\ add(a, b).value = 0 <=> a.negative /\ ToInt(a) + ToInt(b) = 0
  BY IntegerParts DEF add, ToInt
<1>5. QED
  BY <1>1, <1>2, <1>3, <1>4

=============================================================================

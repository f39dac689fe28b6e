----------------------------- MODULE SumProofs -----------------------------
(***************************************************************************)
(* What SumFunctionOnSet, the sum of f[x] over the elements x of a finite  *)
(* set, computes.  The sum is a recursive function that takes the elements *)
(* in the order CHOOSE gives; the lemmas say that the order does not       *)
(* matter.  They are proved from a minimal counterexample: a nonempty set  *)
(* of subsets of a finite set has a member none of whose proper subsets    *)
(* is in it.                                                               *)
(***************************************************************************)
EXTENDS Functions, FiniteSetTheorems, NaturalsInduction, WellFoundedInduction, TLAPS

\* A nonempty set of naturals has a least element.
LEMMA HasLeast ==
    ASSUME NEW T \in SUBSET Nat, T # {}
    PROVE  \E x \in T : \A y \in T : x <= y
<1> DEFINE R == OpToRel(<, Nat)
<1>1. IsWellFoundedOn(R, Nat)
  BY NatLessThanWellFounded
<1>2. \A x, y \in Nat : y < x => <<y, x>> \in R
  BY DEF OpToRel
<1> HIDE DEF R
<1>3. PICK x \in T : \A y \in T : ~(<<y, x>> \in R)
  BY <1>1, WFMin
<1>4. \A y \in T : x <= y
  <2> TAKE y \in T
  <2>1. x \in Nat /\ y \in Nat
    OBVIOUS
  <2>2. ~(y < x)
    BY <1>2, <1>3, <2>1
  <2> QED
    BY <2>1, <2>2
<1> QED
  BY <1>4

\* Among subsets of a finite set there is one without a smaller one.
LEMMA HasMinimal ==
    ASSUME NEW S, IsFiniteSet(S), NEW B \in SUBSET SUBSET S, B # {}
    PROVE  \E T \in B : \A t \in B : t \subseteq T => t = T
<1> DEFINE C == {Cardinality(T) : T \in B}
<1>1. \A T \in B : IsFiniteSet(T) /\ Cardinality(T) \in Nat
  BY FS_Subset, FS_CardinalityType
<1>2. C \in SUBSET Nat /\ C # {}
  BY <1>1
<1>3. PICK n \in C : \A m \in C : n <= m
  BY <1>2, HasLeast
<1>4. PICK T \in B : Cardinality(T) = n
  BY <1>3
<1>5. ASSUME NEW t \in B, t \subseteq T PROVE t = T
  <2>1. Cardinality(T) <= Cardinality(t)
    BY <1>3, <1>4
  <2>2. Cardinality(t) <= Cardinality(T) /\ (Cardinality(t) = Cardinality(T) => t = T)
    BY <1>1, <1>5, FS_Subset
  <2> QED
    BY <1>1, <2>1, <2>2
<1> QED
  BY <1>5
-----------------------------------------------------------------------------
(* The recursion behind SumFunctionOnSet.                                  *)

Pick(s) == CHOOSE x \in s : TRUE

\* One unfolding of the recursion, over the subsets of S.
Unfolds(f, g, S) ==
    g = [s \in SUBSET S |-> IF s = {} THEN 0 ELSE f[Pick(s)] + g[s \ {Pick(s)}]]

\* The function that unfolds into the sums of the smaller sets.
SumsOver(f, S) ==
    [s \in SUBSET S |-> IF s = {} THEN 0
                        ELSE f[Pick(s)] + SumFunctionOnSet(f, s \ {Pick(s)})]

LEMMA SumIsFixpoint ==
    ASSUME NEW f, NEW S
    PROVE  SumFunctionOnSet(f, S) = (CHOOSE g : Unfolds(f, g, S))[S]
BY DEF SumFunctionOnSet, FoldFunctionOnSet, MapThenFoldSet, Unfolds, Pick

\* The recursion has exactly one solution.
LEMMA OneSolution ==
    ASSUME NEW f, NEW S, IsFiniteSet(S)
    PROVE  \A g : Unfolds(f, g, S) <=> g = SumsOver(f, S)
<1> DEFINE Good(T) == \A g : Unfolds(f, g, T) <=> g = SumsOver(f, T)
           Bad == {T \in SUBSET S : ~Good(T)}
<1> SUFFICES ASSUME Bad # {} PROVE FALSE
  <2>1. S \in SUBSET S
    OBVIOUS
  <2> QED
    BY <2>1
<1>1. PICK T \in Bad : \A t \in Bad : t \subseteq T => t = T
  <2>1. Bad \in SUBSET SUBSET S
    OBVIOUS
  <2> HIDE DEF Bad
  <2> QED
    BY <2>1, HasMinimal
<1>2. ASSUME NEW t \in SUBSET T, t # T PROVE Good(t)
  BY <1>1, <1>2
<1>3. ASSUME NEW t \in SUBSET T, t # T
      PROVE  SumFunctionOnSet(f, t) = SumsOver(f, T)[t]
  <2>1. (CHOOSE g : Unfolds(f, g, t)) = SumsOver(f, t)
    BY <1>2, <1>3
  <2>2. SumFunctionOnSet(f, t) = SumsOver(f, t)[t]
    BY <2>1, SumIsFixpoint
  <2>3. SumsOver(f, t)[t] = SumsOver(f, T)[t]
    BY <1>3 DEF SumsOver
  <2> QED
    BY <2>2, <2>3
<1>4. \A s \in SUBSET T : s # {} => /\ Pick(s) \in s
                                    /\ s \ {Pick(s)} \in SUBSET T
                                    /\ s \ {Pick(s)} # T
  BY DEF Pick
<1>5. Unfolds(f, SumsOver(f, T), T)
  <2>1. \A s \in SUBSET T : s # {} =>
            SumFunctionOnSet(f, s \ {Pick(s)}) = SumsOver(f, T)[s \ {Pick(s)}]
    BY <1>3, <1>4
  <2> DEFINE h == SumsOver(f, T)
  <2>2. h = [s \in SUBSET T |-> IF s = {} THEN 0
                                ELSE f[Pick(s)] + SumFunctionOnSet(f, s \ {Pick(s)})]
    BY DEF SumsOver
  <2> HIDE DEF h
  <2>3. h = [s \in SUBSET T |-> IF s = {} THEN 0 ELSE f[Pick(s)] + h[s \ {Pick(s)}]]
    BY <2>1, <2>2 DEF h
  <2> QED
    BY <2>3 DEF Unfolds, h
<1>6. ASSUME NEW g, Unfolds(f, g, T) PROVE g = SumsOver(f, T)
  <2>1. g = [s \in SUBSET T |-> IF s = {} THEN 0 ELSE f[Pick(s)] + g[s \ {Pick(s)}]]
    BY <1>6 DEF Unfolds
  <2>2. ASSUME NEW t \in SUBSET T, t # T PROVE g[t] = SumFunctionOnSet(f, t)
    <3> DEFINE r == [s \in SUBSET t |-> g[s]]
    <3>1. \A s \in SUBSET t : s \in SUBSET T
                              /\ g[s] = IF s = {} THEN 0 ELSE f[Pick(s)] + g[s \ {Pick(s)}]
      BY <2>1
    <3>2. \A s \in SUBSET t : s # {} => r[s \ {Pick(s)}] = g[s \ {Pick(s)}]
      BY DEF Pick
    <3>3. r = [s \in SUBSET t |-> IF s = {} THEN 0 ELSE f[Pick(s)] + r[s \ {Pick(s)}]]
      BY <3>1, <3>2
    <3>4. r = SumsOver(f, t)
      BY <1>2, <2>2, <3>3 DEF Unfolds
    <3>5. SumsOver(f, t)[t] = SumsOver(f, T)[t]
      BY <2>2 DEF SumsOver
    <3> QED
      BY <1>3, <2>2, <3>4, <3>5
  <2>3. \A s \in SUBSET T : s # {} =>
            g[s \ {Pick(s)}] = SumFunctionOnSet(f, s \ {Pick(s)})
    BY <1>4, <2>2
  <2> QED
    BY <2>1, <2>3 DEF SumsOver
<1> QED
  BY <1>1, <1>5, <1>6

\* The sum of nothing is 0; otherwise one element's value is added to the rest.
LEMMA SumUnfold ==
    ASSUME NEW f, NEW S, IsFiniteSet(S)
    PROVE  SumFunctionOnSet(f, S) = IF S = {} THEN 0
                                    ELSE f[Pick(S)] + SumFunctionOnSet(f, S \ {Pick(S)})
<1>1. (CHOOSE g : Unfolds(f, g, S)) = SumsOver(f, S)
  BY OneSolution
<1>2. S \in SUBSET S
  OBVIOUS
<1> QED
  BY <1>1, <1>2, SumIsFixpoint DEF SumsOver
-----------------------------------------------------------------------------
(* What a sum is, whatever the order in which it is computed.              *)

LEMMA SumOfNothing == ASSUME NEW f PROVE SumFunctionOnSet(f, {}) = 0
BY SumUnfold, FS_EmptySet

\* Any element may be taken out first.
LEMMA SumTakesOut ==
    ASSUME NEW S, IsFiniteSet(S), NEW f, \A x \in S : f[x] \in Int
    PROVE  /\ SumFunctionOnSet(f, S) \in Int
           /\ \A x \in S : SumFunctionOnSet(f, S) = f[x] + SumFunctionOnSet(f, S \ {x})
<1> DEFINE Sum(T) == SumFunctionOnSet(f, T)
           Good(T) == Sum(T) \in Int /\ \A x \in T : Sum(T) = f[x] + Sum(T \ {x})
           Bad == {T \in SUBSET S : ~Good(T)}
<1> SUFFICES ASSUME Bad # {} PROVE FALSE
  <2>1. S \in SUBSET S
    OBVIOUS
  <2> QED
    BY <2>1
<1>1. PICK T \in Bad : \A t \in Bad : t \subseteq T => t = T
  <2>1. Bad \in SUBSET SUBSET S
    OBVIOUS
  <2> HIDE DEF Bad
  <2> QED
    BY <2>1, HasMinimal
<1>2. IsFiniteSet(T) /\ \A x \in T : f[x] \in Int
  BY FS_Subset
<1>3. \A x \in T : Good(T \ {x})
  BY <1>1
<1>4. CASE T = {}
  BY <1>4, SumOfNothing
<1>5. CASE T # {}
  <2> DEFINE p == Pick(T)
  <2>1. p \in T
    BY <1>5 DEF Pick
  <2>2. Sum(T) = f[p] + Sum(T \ {p})
    BY <1>2, <1>5, SumUnfold
  <2> HIDE DEF p
  <2>3. Sum(T) \in Int
    BY <1>2, <1>3, <2>1, <2>2
  <2>4. ASSUME NEW x \in T, x # p PROVE Sum(T) = f[x] + Sum(T \ {x})
    <3>1. p \in T \ {x} /\ x \in T \ {p} /\ (T \ {p}) \ {x} = (T \ {x}) \ {p}
      BY <2>1, <2>4
    <3>2. Sum(T \ {p}) = f[x] + Sum((T \ {p}) \ {x})
      BY <1>3, <2>1, <3>1
    <3>3. Sum(T \ {x}) = f[p] + Sum((T \ {x}) \ {p})
      BY <1>3, <2>4, <3>1
    <3>4. Sum((T \ {x}) \ {p}) \in Int
      <4>1. (T \ {x}) \ {p} \in SUBSET S /\ (T \ {x}) \ {p} \subseteq T /\ (T \ {x}) \ {p} # T
        BY <2>1
      <4> QED
        BY <1>1, <4>1
    <3>5. f[x] \in Int /\ f[p] \in Int
      BY <1>2, <2>1, <2>4
    <3>6. Sum((T \ {p}) \ {x}) = Sum((T \ {x}) \ {p})
      BY <3>1
    <3> DEFINE rest == Sum((T \ {x}) \ {p})
    <3>7. Sum(T) = f[p] + (f[x] + rest) /\ Sum(T \ {x}) = f[p] + rest
      BY <2>2, <3>2, <3>3, <3>6
    <3> HIDE DEF Sum, rest
    <3>8. rest \in Int
      BY <3>4 DEF rest
    <3> QED
      BY <3>5, <3>7, <3>8
  <2> QED
    BY <1>1, <2>2, <2>3, <2>4
<1> QED
  BY <1>4, <1>5

\* A sum of naturals is a natural.
LEMMA SumIsNat ==
    ASSUME NEW S, IsFiniteSet(S), NEW f, \A x \in S : f[x] \in Nat
    PROVE  SumFunctionOnSet(f, S) \in Nat
<1> DEFINE Sum(T) == SumFunctionOnSet(f, T)
           Bad == {T \in SUBSET S : Sum(T) \notin Nat}
<1> SUFFICES ASSUME Bad # {} PROVE FALSE
  <2>1. S \in SUBSET S
    OBVIOUS
  <2> QED
    BY <2>1
<1>1. PICK T \in Bad : \A t \in Bad : t \subseteq T => t = T
  <2>1. Bad \in SUBSET SUBSET S
    OBVIOUS
  <2> HIDE DEF Bad
  <2> QED
    BY <2>1, HasMinimal
<1>2. IsFiniteSet(T)
  BY FS_Subset
<1>3. T # {}
  BY SumOfNothing
<1>4. PICK x \in T : TRUE
  BY <1>3
<1>5. Sum(T) = f[x] + Sum(T \ {x})
  BY <1>2, SumTakesOut
<1>6. Sum(T \ {x}) \in Nat
  BY <1>1, <1>4
<1> QED
  BY <1>5, <1>6

\* Only the values on the set count.
LEMMA SumOfEqual ==
    ASSUME NEW S, IsFiniteSet(S), NEW f, NEW g, \A x \in S : f[x] \in Int /\ g[x] = f[x]
    PROVE  SumFunctionOnSet(g, S) = SumFunctionOnSet(f, S)
<1> DEFINE Bad == {T \in SUBSET S : SumFunctionOnSet(g, T) # SumFunctionOnSet(f, T)}
<1> SUFFICES ASSUME Bad # {} PROVE FALSE
  <2>1. S \in SUBSET S
    OBVIOUS
  <2> QED
    BY <2>1
<1>1. PICK T \in Bad : \A t \in Bad : t \subseteq T => t = T
  <2>1. Bad \in SUBSET SUBSET S
    OBVIOUS
  <2> HIDE DEF Bad
  <2> QED
    BY <2>1, HasMinimal
<1>2. IsFiniteSet(T)
  BY FS_Subset
<1>3. T # {}
  BY SumOfNothing
<1>4. PICK x \in T : TRUE
  BY <1>3
<1>5. /\ SumFunctionOnSet(f, T) = f[x] + SumFunctionOnSet(f, T \ {x})
      /\ SumFunctionOnSet(g, T) = g[x] + SumFunctionOnSet(g, T \ {x})
  BY <1>2, SumTakesOut
<1>6. SumFunctionOnSet(g, T \ {x}) = SumFunctionOnSet(f, T \ {x})
  BY <1>1, <1>4
<1> QED
  BY <1>1, <1>4, <1>5, <1>6

\* An element comes in.
LEMMA SumTakesIn ==
    ASSUME NEW S, IsFiniteSet(S), NEW y, y \notin S, NEW f,
           \A x \in S \cup {y} : f[x] \in Int
    PROVE  SumFunctionOnSet(f, S \cup {y}) = SumFunctionOnSet(f, S) + f[y]
<1>1. IsFiniteSet(S \cup {y}) /\ (S \cup {y}) \ {y} = S
  BY FS_AddElement
<1>2. SumFunctionOnSet(f, S \cup {y}) = f[y] + SumFunctionOnSet(f, S)
  BY <1>1, SumTakesOut
<1>3. SumFunctionOnSet(f, S) \in Int
  BY SumTakesOut
<1> QED
  BY <1>2, <1>3

\* One value changes by d, the others stay.
LEMMA SumOfChanged ==
    ASSUME NEW S, IsFiniteSet(S), NEW y \in S, NEW f, NEW g, NEW d \in Int,
           \A x \in S : f[x] \in Int, g[y] = f[y] + d, \A x \in S \ {y} : g[x] = f[x]
    PROVE  SumFunctionOnSet(g, S) = SumFunctionOnSet(f, S) + d
<1>1. IsFiniteSet(S \ {y}) /\ (\A x \in S : g[x] \in Int)
  BY FS_Subset
<1>2. SumFunctionOnSet(g, S \ {y}) = SumFunctionOnSet(f, S \ {y})
  BY <1>1, SumOfEqual
<1>3. /\ SumFunctionOnSet(f, S) = f[y] + SumFunctionOnSet(f, S \ {y})
      /\ SumFunctionOnSet(g, S) = g[y] + SumFunctionOnSet(g, S \ {y})
      /\ SumFunctionOnSet(f, S \ {y}) \in Int
  BY <1>1, SumTakesOut
<1> QED
  BY <1>2, <1>3

\* More elements, none of them negative, sum up to more.
LEMMA SumOfMore ==
    ASSUME NEW S, IsFiniteSet(S), NEW f, \A x \in S : f[x] \in Nat, NEW R \in SUBSET S
    PROVE  SumFunctionOnSet(f, R) <= SumFunctionOnSet(f, S)
<1> DEFINE Sum(T) == SumFunctionOnSet(f, T)
           Bad == {T \in SUBSET S : R \subseteq T /\ ~(Sum(R) <= Sum(T))}
<1> SUFFICES ASSUME Bad # {} PROVE FALSE
  <2>1. S \in SUBSET S
    OBVIOUS
  <2> QED
    BY <2>1
<1>1. PICK T \in Bad : \A t \in Bad : t \subseteq T => t = T
  <2>1. Bad \in SUBSET SUBSET S
    OBVIOUS
  <2> HIDE DEF Bad
  <2> QED
    BY <2>1, HasMinimal
<1>2. IsFiniteSet(T) /\ IsFiniteSet(R)
  BY FS_Subset
<1>3. Sum(R) \in Nat
  BY <1>2, SumIsNat
<1>4. T # R
  BY <1>3
<1>5. PICK x \in T : x \notin R
  BY <1>1, <1>4
<1>6. Sum(T) = f[x] + Sum(T \ {x})
  BY <1>2, SumTakesOut
<1>7. Sum(R) <= Sum(T \ {x})
  BY <1>1, <1>5
<1>8. Sum(T \ {x}) \in Nat /\ f[x] \in Nat
  <2>1. IsFiniteSet(T \ {x}) /\ \A z \in T \ {x} : f[z] \in Nat
    BY <1>2, FS_Subset
  <2> QED
    BY <2>1, SumIsNat
<1>9. Sum(R) <= Sum(T)
  <2> HIDE DEF Sum
  <2> QED
    BY <1>3, <1>6, <1>7, <1>8
<1> QED
  BY <1>1, <1>9

\* Values that are nowhere greater sum up to no more.
LEMMA SumOfGreater ==
    ASSUME NEW S, IsFiniteSet(S), NEW f, NEW g,
           \A x \in S : f[x] \in Int /\ g[x] \in Int /\ f[x] <= g[x]
    PROVE  SumFunctionOnSet(f, S) <= SumFunctionOnSet(g, S)
<1> DEFINE Bad == {T \in SUBSET S : ~(SumFunctionOnSet(f, T) <= SumFunctionOnSet(g, T))}
<1> SUFFICES ASSUME Bad # {} PROVE FALSE
  <2>1. S \in SUBSET S
    OBVIOUS
  <2> QED
    BY <2>1
<1>1. PICK T \in Bad : \A t \in Bad : t \subseteq T => t = T
  <2>1. Bad \in SUBSET SUBSET S
    OBVIOUS
  <2> HIDE DEF Bad
  <2> QED
    BY <2>1, HasMinimal
<1>2. IsFiniteSet(T)
  BY FS_Subset
<1>3. T # {}
  BY SumOfNothing
<1>4. PICK x \in T : TRUE
  BY <1>3
<1>5. /\ SumFunctionOnSet(f, T) = f[x] + SumFunctionOnSet(f, T \ {x})
      /\ SumFunctionOnSet(g, T) = g[x] + SumFunctionOnSet(g, T \ {x})
  BY <1>2, SumTakesOut
<1>6. SumFunctionOnSet(f, T \ {x}) <= SumFunctionOnSet(g, T \ {x})
  BY <1>1, <1>4
<1>7. SumFunctionOnSet(f, T \ {x}) \in Int /\ SumFunctionOnSet(g, T \ {x}) \in Int
  <2>1. IsFiniteSet(T \ {x}) /\ \A z \in T \ {x} : f[z] \in Int /\ g[z] \in Int
    BY <1>2, FS_Subset
  <2> QED
    BY <2>1, SumTakesOut
<1> QED
  BY <1>1, <1>4, <1>5, <1>6, <1>7
\* Values of at most m sum up to at most m for each element.
LEMMA SumOfBounded ==
    ASSUME NEW S, IsFiniteSet(S), NEW m \in Nat, NEW f,
           \A x \in S : f[x] \in Nat /\ f[x] <= m
    PROVE  /\ Cardinality(S) \in Nat
           /\ Cardinality(S) * m \in Nat
           /\ SumFunctionOnSet(f, S) <= Cardinality(S) * m
<1> DEFINE Good(T) == SumFunctionOnSet(f, T) <= Cardinality(T) * m
           Bad == {T \in SUBSET S : ~Good(T)}
<1>1. Cardinality(S) \in Nat /\ Cardinality(S) * m \in Nat
  <2>1. Cardinality(S) \in Nat
    BY FS_CardinalityType
  <2> QED
    BY <2>1
<1>2. ASSUME Bad # {} PROVE FALSE
  <2>1. PICK T \in Bad : \A t \in Bad : t \subseteq T => t = T
    <3>1. Bad \in SUBSET SUBSET S
      OBVIOUS
    <3> HIDE DEF Bad
    <3> QED
      BY <1>2, <3>1, HasMinimal
  <2>2. IsFiniteSet(T)
    BY FS_Subset
  <2>3. Good({})
    <3>1. Cardinality({}) = 0 /\ SumFunctionOnSet(f, {}) = 0
      BY FS_EmptySet, SumOfNothing
    <3> QED
      BY <3>1
  <2>4. T # {}
    <3>1. ~Good(T)
      OBVIOUS
    <3> HIDE DEF Good
    <3> QED
      BY <2>3, <3>1
  <2>5. PICK x \in T : TRUE
    BY <2>4
  <2>6. /\ SumFunctionOnSet(f, T) = f[x] + SumFunctionOnSet(f, T \ {x})
        /\ SumFunctionOnSet(f, T \ {x}) \in Int
    <3>1. IsFiniteSet(T \ {x}) /\ \A z \in T : f[z] \in Int
      BY <2>2, FS_Subset
    <3> QED
      BY <2>2, <3>1, SumTakesOut
  <2>7. SumFunctionOnSet(f, T \ {x}) <= Cardinality(T \ {x}) * m
    BY <2>1, <2>5
  <2>8. Cardinality(T \ {x}) = Cardinality(T) - 1 /\ Cardinality(T) \in Nat
    BY <2>2, FS_RemoveElement, FS_CardinalityType
  <2>9. (Cardinality(T) - 1) * m = Cardinality(T) * m - m /\ Cardinality(T) * m \in Int
    BY <2>8
  <2>10. f[x] \in Nat /\ f[x] <= m
    OBVIOUS
  <2> QED
    BY <2>1, <2>6, <2>7, <2>8, <2>9, <2>10
<1> QED
  BY <1>1, <1>2

\* Elements whose value is 0 do not count.
LEMMA SumOfPart ==
    ASSUME NEW S, IsFiniteSet(S), NEW R \in SUBSET S, NEW f, NEW g,
           \A x \in S : g[x] \in Int,
           \A x \in R : f[x] = g[x],
           \A x \in S \ R : g[x] = 0
    PROVE  SumFunctionOnSet(f, R) = SumFunctionOnSet(g, S)
<1> DEFINE Sum(T) == SumFunctionOnSet(g, T)
           Bad == {T \in SUBSET S : R \subseteq T /\ Sum(T) # Sum(R)}
<1>1. SumFunctionOnSet(f, R) = Sum(R)
  <2>1. IsFiniteSet(R)
    BY FS_Subset
  <2> QED
    BY <2>1, SumOfEqual
<1>2. ASSUME Bad # {} PROVE FALSE
  <2>1. PICK T \in Bad : \A t \in Bad : t \subseteq T => t = T
    <3>1. Bad \in SUBSET SUBSET S
      OBVIOUS
    <3> HIDE DEF Bad
    <3> QED
      BY <1>2, <3>1, HasMinimal
  <2>2. IsFiniteSet(T) /\ T # R
    BY <2>1, FS_Subset
  <2>3. PICK x \in T : x \notin R
    BY <2>1, <2>2
  <2>4. Sum(T) = g[x] + Sum(T \ {x}) /\ Sum(T) \in Int
    <3>1. \A z \in T : g[z] \in Int
      OBVIOUS
    <3> QED
      BY <2>2, <3>1, SumTakesOut
  <2>5. Sum(T \ {x}) = Sum(R)
    BY <2>1, <2>3
  <2>6. Sum(R) \in Int
    <3>1. IsFiniteSet(R)
      BY FS_Subset
    <3> QED
      BY <3>1, SumTakesOut
  <2>7. g[x] = 0
    BY <2>3
  <2> HIDE DEF Sum
  <2> QED
    BY <2>1, <2>4, <2>5, <2>6, <2>7
<1> QED
  BY <1>1, <1>2
\* If one value is set apart, the others are one fewer.
LEMMA SumOfOthers ==
    ASSUME NEW S, IsFiniteSet(S), NEW y \in S, NEW m \in Nat, NEW f,
           \A x \in S : f[x] \in Nat, \A x \in S \ {y} : f[x] <= m
    PROVE  /\ Cardinality(S) - 1 \in Nat
           /\ (Cardinality(S) - 1) * m \in Nat
           /\ SumFunctionOnSet(f, S) <= f[y] + (Cardinality(S) - 1) * m
<1>1. /\ IsFiniteSet(S \ {y}) /\ \A x \in S \ {y} : f[x] \in Nat /\ f[x] <= m
      /\ Cardinality(S \ {y}) = Cardinality(S) - 1
  BY FS_RemoveElement
<1>2. SumFunctionOnSet(f, S) = f[y] + SumFunctionOnSet(f, S \ {y})
  BY SumTakesOut
<1>3. /\ Cardinality(S \ {y}) \in Nat /\ Cardinality(S \ {y}) * m \in Nat
      /\ SumFunctionOnSet(f, S \ {y}) <= Cardinality(S \ {y}) * m
  BY <1>1, SumOfBounded
<1>4. SumFunctionOnSet(f, S \ {y}) \in Nat
  BY <1>1, SumIsNat
<1> QED
  BY <1>1, <1>2, <1>3, <1>4
\* Among naturals one value takes the place of another.
LEMMA SumOfReplaced ==
    ASSUME NEW S, IsFiniteSet(S), NEW y \in S, NEW f, NEW g,
           \A x \in S : f[x] \in Nat, g[y] \in Nat, \A x \in S \ {y} : g[x] = f[x]
    PROVE  /\ SumFunctionOnSet(f, S) \in Nat /\ SumFunctionOnSet(g, S) \in Nat
           /\ SumFunctionOnSet(g, S) = SumFunctionOnSet(f, S) - f[y] + g[y]
<1>1. g[y] - f[y] \in Int /\ g[y] = f[y] + (g[y] - f[y])
  OBVIOUS
<1>2. SumFunctionOnSet(g, S) = SumFunctionOnSet(f, S) + (g[y] - f[y])
  BY <1>1, SumOfChanged
<1>3. \A x \in S : g[x] \in Nat
  OBVIOUS
<1>4. SumFunctionOnSet(f, S) \in Nat /\ SumFunctionOnSet(g, S) \in Nat
  BY <1>3, SumIsNat
<1> QED
  BY <1>2, <1>4
\* A counter grows, and the sum of the counters with it.
LEMMA SumOfCounters ==
    ASSUME NEW S, IsFiniteSet(S), NEW f \in [S -> Nat], NEW y \in S, NEW n \in Nat
    PROVE  /\ SumFunctionOnSet(f, S) \in Nat
           /\ SumFunctionOnSet([f EXCEPT ![y] = @ + n], S) = SumFunctionOnSet(f, S) + n
<1> DEFINE g == [f EXCEPT ![y] = @ + n]
<1>1. g[y] = f[y] + n /\ \A x \in S \ {y} : g[x] = f[x]
  OBVIOUS
<1>2. n \in Int /\ \A x \in S : f[x] \in Int
  OBVIOUS
<1>3. SumFunctionOnSet(f, S) \in Nat
  BY SumIsNat
<1> HIDE DEF g
<1>4. SumFunctionOnSet(g, S) = SumFunctionOnSet(f, S) + n
  BY <1>1, <1>2, SumOfChanged
<1> QED
  BY <1>3, <1>4 DEF g
=============================================================================

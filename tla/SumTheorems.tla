---------------------------- MODULE SumTheorems ----------------------------
(***************************************************************************)
(* What a sum over a finite set does when the set or a value changes.  The *)
(* library sums with a CHOOSE'd recursive function; here its value is told *)
(* by a cardinality, which the theorems on finite sets tell everything of. *)
(* And the small facts on sets of one or two elements that the proofs use. *)
(***************************************************************************)
EXTENDS Integers, FiniteSetsExt, Functions, FiniteSetTheorems, WellFoundedInduction, TLAPS

(* f[x] units for each x of S, where f[x] is positive.                     *)
Units(f, S) == {p \in S \X Nat : 1 <= p[2] /\ p[2] <= f[p[1]]}

LEMMA UnitsOfOne ==
  ASSUME NEW n \in Int, NEW x
  PROVE  /\ IsFiniteSet({x} \X (1..n))
         /\ n > 0 => Cardinality({x} \X (1..n)) = n
         /\ n =< 0 => Cardinality({x} \X (1..n)) = 0
<1>1. IsFiniteSet({x}) /\ Cardinality({x}) = 1
  BY FS_Singleton
<1>2. IsFiniteSet(1..n) /\ Cardinality(1..n) = IF 1 > n THEN 0 ELSE n - 1 + 1
  BY FS_Interval
<1>3. /\ IsFiniteSet({x} \X (1..n))
      /\ Cardinality({x} \X (1..n)) = Cardinality({x}) * Cardinality(1..n)
  BY <1>1, <1>2, FS_Product
<1> QED BY <1>1, <1>2, <1>3

LEMMA UnitsGrow ==
  ASSUME NEW f, NEW S, NEW x, x \notin S, f[x] \in Int, IsFiniteSet(Units(f, S))
  PROVE  /\ IsFiniteSet(Units(f, S \cup {x}))
         /\ Cardinality(Units(f, S)) \in Nat
         /\ f[x] > 0 => Cardinality(Units(f, S \cup {x})) = Cardinality(Units(f, S)) + f[x]
         /\ f[x] =< 0 => Cardinality(Units(f, S \cup {x})) = Cardinality(Units(f, S))
<1>1. PICK n \in Int : n = f[x]
  OBVIOUS
<1>2. PICK U, V : U = Units(f, S) /\ V = {x} \X (1..n)
  OBVIOUS
<1>3. Units(f, S \cup {x}) = U \cup V
  BY <1>1, <1>2 DEF Units
<1>4. U \cap V = {}
  BY <1>2 DEF Units
<1>5. IsFiniteSet(V) /\ (n > 0 => Cardinality(V) = n) /\ (n =< 0 => Cardinality(V) = 0)
  BY <1>2, UnitsOfOne
<1>6. IsFiniteSet(U)
  BY <1>2
<1>7. /\ IsFiniteSet(U \cup V)
      /\ Cardinality(U \cup V) = Cardinality(U) + Cardinality(V) - Cardinality(U \cap V)
  BY <1>5, <1>6, FS_Union
<1>8. Cardinality(U \cap V) = 0
  BY <1>4, FS_EmptySet
<1>9. Cardinality(U) \in Nat
  BY <1>6, FS_CardinalityType
<1>10. PICK m : m = Cardinality(U)
  OBVIOUS
<1>11. (n > 0 => Cardinality(U \cup V) = m + n) /\ (n =< 0 => Cardinality(U \cup V) = m)
  BY <1>5, <1>7, <1>8, <1>9, <1>10
<1> QED BY <1>1, <1>2, <1>3, <1>7, <1>9, <1>10, <1>11

(* A property of finite sets that the empty set has and that a further     *)
(* element keeps is a property of every finite set; here, of the subsets   *)
(* in a given class of them.                                               *)
LEMMA FiniteClass ==
  ASSUME NEW S, IsFiniteSet(S), NEW C \in SUBSET (SUBSET S), {} \in C,
         \A T \in C : \A x \in S \ T : T \cup {x} \in C
  PROVE  S \in C
<1>1. IsWellFoundedOn(StrictSubsetOrdering(S), SUBSET S)
  BY FS_StrictSubsetOrderingWellFounded, FS_FiniteSubsetsOfFinite
<1>2. PICK B : B = (SUBSET S) \ C
  OBVIOUS
<1>3. CASE B = {}
  BY <1>2, <1>3
<1>4. CASE B # {}
  <2>1. PICK T \in B : \A U \in B : <<U, T>> \notin StrictSubsetOrdering(S)
    BY <1>1, <1>2, <1>4, WFMin
  <2>2. T # {} /\ T \subseteq S /\ T \notin C
    BY <1>2
  <2>3. PICK x \in T : TRUE
    BY <2>2
  <2>4. PICK U : U = T \ {x}
    OBVIOUS
  <2>5. <<U, T>> \in StrictSubsetOrdering(S)
    BY <2>2, <2>3, <2>4 DEF StrictSubsetOrdering
  <2>6. U \in C
    BY <1>2, <2>1, <2>2, <2>4, <2>5
  <2>7. U \cup {x} = T
    BY <2>3, <2>4
  <2> QED BY <2>2, <2>3, <2>4, <2>6, <2>7
<1> QED BY <1>3, <1>4

LEMMA UnitsFinite ==
  ASSUME NEW S, IsFiniteSet(S), NEW f, \A x \in S : f[x] \in Int
  PROVE  IsFiniteSet(Units(f, S))
<1> DEFINE C == {T \in SUBSET S : IsFiniteSet(Units(f, T))}
<1>1. {} \in C
  <2>1. Units(f, {}) = {}
    BY DEF Units
  <2> QED BY <2>1, FS_EmptySet
<1>2. ASSUME NEW T \in C, NEW x \in S \ T PROVE T \cup {x} \in C
  BY UnitsGrow
<1>3. S \in C
  <2> HIDE DEF C
  <2>1. C \in SUBSET (SUBSET S)
    BY DEF C
  <2> QED BY <1>1, <1>2, <2>1, FiniteClass
<1> QED BY <1>3

(* The positive units less the negative ones.                              *)
Minus(f, S) == [x \in S |-> -f[x]]
Weight(f, S) == Cardinality(Units(f, S)) - Cardinality(Units(Minus(f, S), S))

LEMMA WeightGrows ==
  ASSUME NEW S, IsFiniteSet(S), NEW f, \A y \in S : f[y] \in Int, NEW x, x \notin S, f[x] \in Int
  PROVE  Weight(f, S) \in Int /\ Weight(f, S \cup {x}) = Weight(f, S) + f[x]
<1>1. PICK g : g = Minus(f, S \cup {x})
  OBVIOUS
<1>2. (\A y \in S : g[y] = -f[y] /\ g[y] \in Int) /\ g[x] = -f[x] /\ g[x] \in Int
  BY <1>1 DEF Minus
<1>3. Units(Minus(f, S), S) = Units(g, S)
  BY <1>2 DEF Units, Minus
<1>4. IsFiniteSet(Units(f, S)) /\ IsFiniteSet(Units(g, S))
  BY <1>2, UnitsFinite
<1>5. Cardinality(Units(f, S)) \in Nat /\ Cardinality(Units(g, S)) \in Nat
  BY <1>4, FS_CardinalityType
<1>6. PICK m, n, d : m = Cardinality(Units(f, S)) /\ n = Cardinality(Units(g, S)) /\ d = f[x]
  OBVIOUS
<1>7. PICK o, p : o = Cardinality(Units(f, S \cup {x})) /\ p = Cardinality(Units(g, S \cup {x}))
  OBVIOUS
<1>8. (d > 0 => o = m + d) /\ (d =< 0 => o = m)
  <2>1. /\ f[x] > 0 => Cardinality(Units(f, S \cup {x})) = Cardinality(Units(f, S)) + f[x]
        /\ f[x] =< 0 => Cardinality(Units(f, S \cup {x})) = Cardinality(Units(f, S))
    BY <1>4, UnitsGrow
  <2> QED BY <2>1, <1>6, <1>7
<1>9. (-d > 0 => p = n + (-d)) /\ (-d =< 0 => p = n)
  <2>1. /\ g[x] > 0 => Cardinality(Units(g, S \cup {x})) = Cardinality(Units(g, S)) + g[x]
        /\ g[x] =< 0 => Cardinality(Units(g, S \cup {x})) = Cardinality(Units(g, S))
    <3>1. g[x] \in Int /\ x \notin S /\ IsFiniteSet(Units(g, S))
      BY <1>2, <1>4
    <3> HIDE <1>1
    <3> QED BY <3>1, UnitsGrow
  <2> QED BY <2>1, <1>2, <1>6, <1>7
<1>10. m \in Nat /\ n \in Nat /\ d \in Int
  BY <1>5, <1>6
<1>11. o - p = (m - n) + d
  BY <1>8, <1>9, <1>10
<1>12. Weight(f, S) = m - n /\ Weight(f, S \cup {x}) = o - p
  BY <1>1, <1>3, <1>6, <1>7 DEF Weight
<1> QED BY <1>6, <1>10, <1>11, <1>12

LEMMA WeightOfNone == ASSUME NEW f PROVE Weight(f, {}) = 0
<1>1. Units(f, {}) = {} /\ Units(Minus(f, {}), {}) = {}
  BY DEF Units
<1> QED BY <1>1, FS_EmptySet DEF Weight

LEMMA WeightOfSame ==
  ASSUME NEW S, NEW f, NEW g, \A x \in S : f[x] = g[x] PROVE Weight(f, S) = Weight(g, S)
<1>1. Units(f, S) = Units(g, S)
  BY DEF Units
<1>2. Minus(f, S) = Minus(g, S)
  BY DEF Minus
<1> QED BY <1>1, <1>2 DEF Weight

(* What adds up one element after the other finds the weight.              *)
First(s) == CHOOSE x \in s : TRUE
AddsUp(g, f, S) == g = [s \in SUBSET S |-> IF s = {} THEN 0 ELSE f[First(s)] + g[s \ {First(s)}]]

LEMMA WeightAddsUp ==
  ASSUME NEW S, IsFiniteSet(S), NEW f, \A x \in S : f[x] \in Int
  PROVE  AddsUp([s \in SUBSET S |-> Weight(f, s)], f, S)
<1>1. ASSUME NEW s \in SUBSET S, s # {}
      PROVE  Weight(f, s) = f[First(s)] + Weight(f, s \ {First(s)})
  <2>1. PICK x \in s : x = First(s)
    BY <1>1 DEF First
  <2>2. PICK t : t = s \ {x}
    OBVIOUS
  <2>3. t \in SUBSET S /\ IsFiniteSet(t) /\ x \notin t /\ t \cup {x} = s
    BY <2>2, FS_Subset
  <2>4. Weight(f, t) \in Int /\ Weight(f, t \cup {x}) = Weight(f, t) + f[x]
    BY <2>3, WeightGrows
  <2>5. PICK a, b, c : a = Weight(f, s) /\ b = Weight(f, t) /\ c = f[x]
    OBVIOUS
  <2>6. a = b + c /\ b \in Int /\ c \in Int
    BY <2>3, <2>4, <2>5
  <2>7. a = c + b
    BY <2>6
  <2> QED BY <2>1, <2>2, <2>5, <2>7
<1>2. Weight(f, {}) = 0
  BY WeightOfNone
<1> QED BY <1>1, <1>2 DEF AddsUp

LEMMA AddedUpIsWeight ==
  ASSUME NEW S, IsFiniteSet(S), NEW f, \A x \in S : f[x] \in Int, NEW g, AddsUp(g, f, S)
  PROVE  g[S] = Weight(f, S)
<1> DEFINE Right(s) == g[s] = Weight(f, s)
<1>1. IsWellFoundedOn(StrictSubsetOrdering(S), SUBSET S)
  BY FS_StrictSubsetOrderingWellFounded, FS_FiniteSubsetsOfFinite
<1>2. PICK B : B = {s \in SUBSET S : g[s] # Weight(f, s)}
  OBVIOUS
<1>3. CASE B = {}
  BY <1>2, <1>3
<1>4. CASE B # {}
  <2>1. PICK T \in B : \A U \in B : <<U, T>> \notin StrictSubsetOrdering(S)
    BY <1>1, <1>2, <1>4, WFMin
  <2>2. T \subseteq S /\ g[T] # Weight(f, T)
    BY <1>2
  <2>3. g[{}] = 0
    BY DEF AddsUp
  <2>4. T # {}
    BY <2>2, <2>3, WeightOfNone
  <2>5. PICK x \in T : x = First(T)
    BY <2>4 DEF First
  <2>6. PICK U : U = T \ {x}
    OBVIOUS
  <2>7. g[T] = f[x] + g[U]
    BY <2>2, <2>4, <2>5, <2>6 DEF AddsUp
  <2>8. <<U, T>> \in StrictSubsetOrdering(S)
    BY <2>2, <2>5, <2>6 DEF StrictSubsetOrdering
  <2>9. g[U] = Weight(f, U)
    BY <1>2, <2>1, <2>2, <2>6, <2>8
  <2>10. IsFiniteSet(U) /\ x \notin U /\ T = U \cup {x} /\ U \in SUBSET S
    BY <2>2, <2>5, <2>6, FS_Subset
  <2>11. Weight(f, U) \in Int /\ Weight(f, T) = Weight(f, U) + f[x]
    <3>1. (\A y \in U : f[y] \in Int) /\ f[x] \in Int
      BY <2>2, <2>5, <2>10
    <3>2. Weight(f, U) \in Int /\ Weight(f, U \cup {x}) = Weight(f, U) + f[x]
      BY <2>10, <3>1, WeightGrows
    <3> QED BY <2>10, <3>2
  <2>12. PICK a, b, c, d : a = Weight(f, T) /\ b = Weight(f, U) /\ c = f[x] /\ d = g[T]
    OBVIOUS
  <2>13. a = b + c /\ b \in Int /\ c \in Int /\ d = c + b
    BY <2>2, <2>5, <2>7, <2>9, <2>11, <2>12
  <2>14. a = d
    BY <2>13
  <2> QED BY <2>2, <2>12, <2>14
<1> QED BY <1>3, <1>4

LEMMA SumIsWeight ==
  ASSUME NEW S, IsFiniteSet(S), NEW f, \A x \in S : f[x] \in Int
  PROVE  SumFunctionOnSet(f, S) = Weight(f, S)
<1> DEFINE G == [s \in SUBSET S |-> Weight(f, s)]
<1> DEFINE Adds(h) == h = [s \in SUBSET S |-> IF s = {} THEN 0 ELSE
                             f[CHOOSE x \in s : TRUE] + h[s \ {CHOOSE x \in s : TRUE}]]
<1>1. PICK g : g = CHOOSE h : Adds(h)
  OBVIOUS
<1>2. Adds(G)
  <2>1. AddsUp(G, f, S)
    BY WeightAddsUp
  <2> HIDE DEF G
  <2> QED BY <2>1 DEF AddsUp, First
<1>3. AddsUp(g, f, S)
  <2>1. Adds(g)
    <3> HIDE DEF G, Adds
    <3> QED BY <1>1, <1>2, Zenon
  <2> HIDE DEF G
  <2> QED BY <2>1 DEF AddsUp, First
<1>4. SumFunctionOnSet(f, S) = g[S]
  BY <1>1 DEF SumFunctionOnSet, FoldFunctionOnSet, MapThenFoldSet
<1> QED BY <1>3, <1>4, AddedUpIsWeight

-----------------------------------------------------------------------------
(* The empty sum.                                                          *)
LEMMA SumOfNone == ASSUME NEW f PROVE SumFunctionOnSet(f, {}) = 0
<1>1. IsFiniteSet({})
  BY FS_EmptySet
<1> QED BY <1>1, SumIsWeight, WeightOfNone

(* A sum with one more, and its type.                                      *)
LEMMA SumGrows ==
  ASSUME NEW S, IsFiniteSet(S), NEW f, \A y \in S : f[y] \in Int, NEW x, x \notin S, f[x] \in Int
  PROVE  /\ SumFunctionOnSet(f, S) \in Int
         /\ SumFunctionOnSet(f, S \cup {x}) = SumFunctionOnSet(f, S) + f[x]
<1>1. IsFiniteSet(S \cup {x}) /\ \A y \in S \cup {x} : f[y] \in Int
  BY FS_AddElement
<1>2. /\ SumFunctionOnSet(f, S) = Weight(f, S)
      /\ SumFunctionOnSet(f, S \cup {x}) = Weight(f, S \cup {x})
  BY <1>1, SumIsWeight
<1> QED BY <1>2, WeightGrows

LEMMA SumIsInt ==
  ASSUME NEW S, IsFiniteSet(S), NEW f, \A y \in S : f[y] \in Int
  PROVE  SumFunctionOnSet(f, S) \in Int
<1>1. CASE S = {}
  BY <1>1, SumOfNone
<1>2. CASE S # {}
  <2>1. PICK x \in S : TRUE
    BY <1>2
  <2>2. PICK T : T = S \ {x}
    OBVIOUS
  <2>3. IsFiniteSet(T) /\ x \notin T /\ S = T \cup {x} /\ f[x] \in Int
        /\ \A y \in T : f[y] \in Int
    BY <2>1, <2>2, FS_Subset
  <2>4. /\ SumFunctionOnSet(f, T) \in Int
        /\ SumFunctionOnSet(f, S) = SumFunctionOnSet(f, T) + f[x]
    BY <2>3, SumGrows
  <2> QED BY <2>3, <2>4
<1> QED BY <1>1, <1>2

LEMMA SumOfSame ==
  ASSUME NEW S, IsFiniteSet(S), NEW f, NEW g, \A x \in S : f[x] \in Int /\ f[x] = g[x]
  PROVE  SumFunctionOnSet(f, S) = SumFunctionOnSet(g, S)
<1>1. Weight(f, S) = Weight(g, S)
  BY WeightOfSame
<1>2. \A x \in S : g[x] \in Int
  OBVIOUS
<1> QED BY <1>1, <1>2, SumIsWeight

(* A sum with one less.                                                    *)
LEMMA SumShrinks ==
  ASSUME NEW S, IsFiniteSet(S), NEW f, \A y \in S : f[y] \in Int, NEW x \in S
  PROVE  /\ SumFunctionOnSet(f, S \ {x}) \in Int
         /\ SumFunctionOnSet(f, S) = SumFunctionOnSet(f, S \ {x}) + f[x]
<1>1. PICK T : T = S \ {x}
  OBVIOUS
<1>2. IsFiniteSet(T) /\ x \notin T /\ S = T \cup {x} /\ f[x] \in Int /\ \A y \in T : f[y] \in Int
  BY <1>1, FS_Subset
<1>3. /\ SumFunctionOnSet(f, T) \in Int
      /\ SumFunctionOnSet(f, T \cup {x}) = SumFunctionOnSet(f, T) + f[x]
  BY <1>2, SumGrows
<1> QED BY <1>1, <1>2, <1>3

(* A sum in which one value changes.                                       *)
LEMMA SumChanges ==
  ASSUME NEW S, IsFiniteSet(S), NEW f, NEW g, NEW x \in S,
         \A y \in S : f[y] \in Int /\ g[y] \in Int,
         \A y \in S \ {x} : f[y] = g[y]
  PROVE  SumFunctionOnSet(g, S) = SumFunctionOnSet(f, S) + (g[x] - f[x])
<1>1. PICK T : T = S \ {x}
  OBVIOUS
<1>2. /\ SumFunctionOnSet(f, T) \in Int /\ SumFunctionOnSet(f, S) = SumFunctionOnSet(f, T) + f[x]
      /\ SumFunctionOnSet(g, S) = SumFunctionOnSet(g, T) + g[x]
  BY <1>1, SumShrinks
<1>3. SumFunctionOnSet(f, T) = SumFunctionOnSet(g, T)
  <2>1. IsFiniteSet(T)
    BY <1>1, FS_Subset
  <2> QED BY <1>1, <2>1, SumOfSame
<1>4. PICK a, b, m, n, o : /\ a = f[x] /\ b = g[x] /\ o = SumFunctionOnSet(f, T)
                           /\ m = SumFunctionOnSet(f, S) /\ n = SumFunctionOnSet(g, S)
  OBVIOUS
<1>5. a \in Int /\ b \in Int /\ o \in Int /\ m = o + a /\ n = o + b
  BY <1>2, <1>3, <1>4
<1>6. n = m + (b - a)
  BY <1>5
<1> QED BY <1>4, <1>6

(* A sum of more is more; of naturals, natural; and none of them more.     *)
LEMMA SumIsMonotone ==
  ASSUME NEW S, IsFiniteSet(S), NEW f, NEW g,
         \A x \in S : f[x] \in Int /\ g[x] \in Int /\ f[x] =< g[x]
  PROVE  SumFunctionOnSet(f, S) =< SumFunctionOnSet(g, S)
<1>1. PICK C : C = {T \in SUBSET S : SumFunctionOnSet(f, T) =< SumFunctionOnSet(g, T)}
  OBVIOUS
<1>2. {} \in C
  BY <1>1, SumOfNone
<1>3. ASSUME NEW T \in C, NEW x \in S \ T PROVE T \cup {x} \in C
  <2>1. IsFiniteSet(T) /\ T \subseteq S /\ x \notin T
    BY <1>1, <1>3, FS_Subset
  <2>2. f[x] \in Int /\ g[x] \in Int /\ f[x] =< g[x] /\ \A y \in T : f[y] \in Int /\ g[y] \in Int
    BY <2>1
  <2>3. /\ SumFunctionOnSet(f, T) \in Int
        /\ SumFunctionOnSet(f, T \cup {x}) = SumFunctionOnSet(f, T) + f[x]
    BY <2>1, <2>2, SumGrows
  <2>4. /\ SumFunctionOnSet(g, T) \in Int
        /\ SumFunctionOnSet(g, T \cup {x}) = SumFunctionOnSet(g, T) + g[x]
    BY <2>1, <2>2, SumGrows
  <2>5. SumFunctionOnSet(f, T) =< SumFunctionOnSet(g, T)
    BY <1>1, <1>3
  <2>6. PICK a, b, c, d : /\ a = SumFunctionOnSet(f, T) /\ b = SumFunctionOnSet(g, T)
                          /\ c = f[x] /\ d = g[x]
    OBVIOUS
  <2>7. a + c =< b + d
    BY <2>2, <2>3, <2>4, <2>5, <2>6
  <2>8. SumFunctionOnSet(f, T \cup {x}) =< SumFunctionOnSet(g, T \cup {x})
    BY <2>3, <2>4, <2>6, <2>7
  <2> QED BY <1>1, <2>1, <2>8
<1>4. S \in C
  BY <1>1, <1>2, <1>3, FiniteClass
<1> QED BY <1>1, <1>4

LEMMA SumOfZeros ==
  ASSUME NEW S, IsFiniteSet(S), NEW f, \A x \in S : f[x] = 0
  PROVE  SumFunctionOnSet(f, S) = 0
<1>1. Units(f, S) = {} /\ Units(Minus(f, S), S) = {}
  BY DEF Units, Minus
<1>2. Weight(f, S) = 0
  BY <1>1, FS_EmptySet DEF Weight
<1>3. \A x \in S : f[x] \in Int
  OBVIOUS
<1> QED BY <1>2, <1>3, SumIsWeight

LEMMA SumIsNat ==
  ASSUME NEW S, IsFiniteSet(S), NEW f, \A x \in S : f[x] \in Nat
  PROVE  SumFunctionOnSet(f, S) \in Nat
<1>1. PICK z : z = [x \in S |-> 0]
  OBVIOUS
<1>2. \A x \in S : z[x] \in Int /\ f[x] \in Int /\ z[x] =< f[x] /\ z[x] = 0
  BY <1>1
<1>3. SumFunctionOnSet(z, S) =< SumFunctionOnSet(f, S)
  BY <1>2, SumIsMonotone
<1>4. SumFunctionOnSet(z, S) = 0 /\ SumFunctionOnSet(f, S) \in Int
  BY <1>2, SumOfZeros, SumIsInt
<1> QED BY <1>3, <1>4

LEMMA SumIsNoLess ==
  ASSUME NEW S, IsFiniteSet(S), NEW f, \A x \in S : f[x] \in Nat, NEW x \in S
  PROVE  f[x] =< SumFunctionOnSet(f, S)
<1>1. PICK T : T = S \ {x}
  OBVIOUS
<1>2. IsFiniteSet(T) /\ \A y \in T : f[y] \in Nat
  BY <1>1, FS_Subset
<1>3. SumFunctionOnSet(f, T) \in Nat
  BY <1>2, SumIsNat
<1>4. SumFunctionOnSet(f, S) = SumFunctionOnSet(f, T) + f[x]
  BY <1>1, SumShrinks
<1> QED BY <1>3, <1>4

(* A sum of which one value counts.                                        *)
LEMMA SumOfOne ==
  ASSUME NEW S, IsFiniteSet(S), NEW f, NEW x \in S, f[x] \in Int,
         \A y \in S \ {x} : f[y] = 0
  PROVE  SumFunctionOnSet(f, S) = f[x]
<1>1. PICK T : T = S \ {x}
  OBVIOUS
<1>2. IsFiniteSet(T) /\ \A y \in S : f[y] \in Int
  BY <1>1, FS_Subset
<1>3. SumFunctionOnSet(f, T) = 0
  BY <1>1, <1>2, SumOfZeros
<1>4. SumFunctionOnSet(f, S) = SumFunctionOnSet(f, T) + f[x]
  BY <1>1, <1>2, SumShrinks
<1> QED BY <1>3, <1>4

-----------------------------------------------------------------------------
(* The image of a finite set is finite (FS_Image takes an operator).       *)
LEMMA ImageFinite ==
  ASSUME NEW S, IsFiniteSet(S), NEW f PROVE IsFiniteSet({f[x] : x \in S})
<1> PICK g, T : g = [x \in S |-> f[x]] /\ T = {f[x] : x \in S}
  OBVIOUS
<1>1. g \in Surjection(S, T)
  BY DEF Surjection
<1> QED BY <1>1, FS_Surjection

(* A finite set of numbers has a greatest one.                             *)
LEMMA FiniteHasMax ==
  ASSUME NEW S, IsFiniteSet(S), S \subseteq Int, S # {}
  PROVE  Max(S) \in S /\ \A x \in S : x =< Max(S)
<1>1. PICK C : C = {T \in SUBSET S : T = {} \/ \E m \in T : \A x \in T : m >= x}
  OBVIOUS
<1>2. {} \in C
  BY <1>1
<1>3. ASSUME NEW T \in C, NEW x \in S \ T PROVE T \cup {x} \in C
  <2>1. T \subseteq Int /\ x \in Int /\ T \cup {x} \subseteq S
    BY <1>1, <1>3
  <2>2. CASE T = {}
    <3>1. \A y \in T \cup {x} : x >= y
      BY <2>1, <2>2
    <3> QED BY <1>1, <2>1, <3>1
  <2>3. CASE T # {}
    <3>1. PICK m \in T : \A y \in T : m >= y
      BY <1>1, <1>3, <2>3
    <3>2. CASE m >= x
      <4>1. \A y \in T \cup {x} : m >= y
        BY <3>1, <3>2
      <4> QED BY <1>1, <2>1, <4>1
    <3>3. CASE ~(m >= x)
      <4>1. m \in Int /\ x \in Int /\ x >= m
        BY <2>1, <3>3
      <4>2. \A y \in T \cup {x} : x >= y
        BY <2>1, <3>1, <4>1
      <4> QED BY <1>1, <2>1, <4>2
    <3> QED BY <3>2, <3>3
  <2> QED BY <2>2, <2>3
<1>4. S \in C
  BY <1>1, <1>2, <1>3, FiniteClass
<1>5. \E m \in S : \A x \in S : m >= x
  BY <1>1, <1>4
<1>6. Max(S) \in S /\ \A x \in S : Max(S) >= x
  BY <1>5 DEF Max
<1> QED BY <1>6

-----------------------------------------------------------------------------
(* A set of one element or none.                                           *)
AtMostOne(S) == \A v, w \in S : v = w

LEMMA OneHasFew == ASSUME NEW S, AtMostOne(S) PROVE Cardinality(S) <= 1
<1>1. CASE S = {}
  BY <1>1, FS_EmptySet
<1>2. CASE S # {}
  <2>1. PICK x \in S : TRUE
    BY <1>2
  <2>2. S = {x}
    BY <2>1 DEF AtMostOne
  <2>3. Cardinality({x}) = 1
    BY FS_Singleton
  <2> QED BY <2>2, <2>3
<1> QED BY <1>1, <1>2

LEMMA OneIsFew ==
  ASSUME NEW S, IsFiniteSet(S) PROVE AtMostOne(S) <=> Cardinality(S) <= 1
<1>1. ASSUME AtMostOne(S) PROVE Cardinality(S) <= 1
  BY <1>1, OneHasFew
<1>2. ASSUME Cardinality(S) <= 1 PROVE AtMostOne(S)
  <2>1. ASSUME NEW v \in S, NEW w \in S, v # w PROVE FALSE
    <3>1. IsFiniteSet({v}) /\ Cardinality({v}) = 1
      BY FS_Singleton
    <3>2. Cardinality({v} \cup {w}) = IF w \in {v} THEN Cardinality({v}) ELSE Cardinality({v}) + 1
      BY <3>1, FS_AddElement
    <3>3. Cardinality({v} \cup {w}) = 2
      BY <2>1, <3>1, <3>2
    <3>4. {v} \cup {w} \in SUBSET S
      OBVIOUS
    <3>5. Cardinality({v} \cup {w}) <= Cardinality(S) /\ Cardinality(S) \in Nat
      BY <3>4, FS_Subset, FS_CardinalityType
    <3> QED BY <1>2, <3>3, <3>5
  <2> QED BY <2>1 DEF AtMostOne
<1> QED BY <1>1, <1>2

(* The greater of 0 and a number, the least of two.                        *)
LEMMA NoLessThanZero ==
  ASSUME NEW x \in Int PROVE Max({0, x}) \in Nat /\ (x >= 0 => Max({0, x}) = x)
<1>1. PICK S : S = {0, x}
  OBVIOUS
<1>2. PICK m \in S : \A y \in S : m >= y
  <2>1. CASE x >= 0
    <3>1. \A y \in S : x >= y
      BY <1>1, <2>1
    <3> QED BY <1>1, <3>1
  <2>2. CASE ~(x >= 0)
    <3>1. \A y \in S : 0 >= y
      BY <1>1, <2>2
    <3> QED BY <1>1, <3>1
  <2> QED BY <2>1, <2>2
<1>3. Max(S) \in S /\ \A y \in S : Max(S) >= y
  BY <1>2 DEF Max
<1>4. PICK k : k = Max(S)
  OBVIOUS
<1>5. k \in {0, x} /\ k >= 0 /\ k >= x
  BY <1>1, <1>3, <1>4
<1> QED BY <1>1, <1>4, <1>5

(* A finite set of numbers has a least one.                                *)
LEMMA FiniteHasMin ==
  ASSUME NEW S, IsFiniteSet(S), S \subseteq Int, S # {}
  PROVE  Min(S) \in S /\ \A x \in S : Min(S) =< x
<1>1. PICK f : f = [x \in Int |-> -x]
  OBVIOUS
<1>2. PICK T : T = {f[x] : x \in S}
  OBVIOUS
<1>3. IsFiniteSet(T) /\ T \subseteq Int /\ T # {}
  <2>1. IsFiniteSet({f[x] : x \in S})
    BY ImageFinite
  <2>2. IsFiniteSet(T)
    BY <1>2, <2>1
  <2>3. \A x \in S : f[x] \in Int /\ f[x] \in T
    BY <1>1, <1>2
  <2>4. T \subseteq Int
    BY <1>2, <2>3
  <2>5. T # {}
    BY <2>3
  <2> QED BY <2>2, <2>4, <2>5
<1>4. Max(T) \in T /\ \A y \in T : y =< Max(T)
  BY <1>3, FiniteHasMax
<1>5. PICK m \in S : Max(T) = -m
  BY <1>1, <1>2, <1>4
<1>6. ASSUME NEW x \in S PROVE m =< x
  <2>1. -x \in T
    BY <1>1, <1>2
  <2> QED BY <1>4, <1>5, <2>1
<1> QED BY <1>6 DEF Min

LEMMA LeastOfTwo ==
  ASSUME NEW a \in Nat, NEW b \in Nat, NEW P, P \subseteq {a, b}, P # {}
  PROVE  Min(P) \in P /\ \A x \in P : Min(P) <= x
<1>1. PICK m \in P : \A x \in P : m <= x
  <2>1. CASE a \in P /\ a <= b
    BY <2>1
  <2>2. CASE b \in P /\ b <= a
    BY <2>2
  <2>3. CASE a \notin P \/ b \notin P
    <3>1. PICK c \in P : c \in {a, b} /\ \A x \in P : x = c
      BY <2>3
    <3> QED BY <3>1
  <2> QED BY <2>1, <2>2, <2>3
<1> QED BY <1>1 DEF Min
=============================================================================

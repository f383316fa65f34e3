------------------------------ MODULE SumLemmas ------------------------------
(* What the sum of a function over a finite set, SumFunctionOnSet of the   *)
(* community module Functions, returns.  The budget adds up the day's rows *)
(* with it, the projection check the factors posted to an evidence row.    *)
EXTENDS Integers, FiniteSets, Functions, FiniteSetTheorems, TLAPS

(* The library's induction theorems take an operator.  With a set in its   *)
(* place they follow from the well-foundedness of < on the naturals.       *)
LEMMA NatSetInduction ==
    ASSUME NEW P, 0 \in P, \A n \in Nat : n \in P => n + 1 \in P
    PROVE  Nat \subseteq P
<1> SUFFICES ASSUME Nat \ P # {} PROVE FALSE
  OBVIOUS
<1> DEFINE R == OpToRel(<, Nat)
<1>1. \A x \in Nat, y \in Nat : y < x => <<y, x>> \in R
  BY DEF OpToRel
<1>2. IsWellFoundedOn(R, Nat)
  BY NatLessThanWellFounded
<1> HIDE DEF R
<1>3. PICK x \in Nat \ P : \A y \in Nat \ P : <<y, x>> \notin R
  <2>1. Nat \ P \subseteq Nat
    OBVIOUS
  <2> QED BY <1>2, <2>1, WFMin
<1>4. x # 0
  BY <1>3
<1>5. x - 1 \in Nat /\ x - 1 < x /\ (x - 1) + 1 = x
  BY <1>4
<1>6. x - 1 \in P
  BY <1>1, <1>3, <1>5
<1> QED BY <1>3, <1>5, <1>6

(* A set of sets that holds {}, and every subset of S that it holds with   *)
(* one element less, holds every subset of S.                              *)
LEMMA FiniteSetInduction ==
    ASSUME NEW S, IsFiniteSet(S), NEW P, {} \in P,
           \A T \in SUBSET S : T # {} /\ (\A x \in T : T \ {x} \in P) => T \in P
    PROVE  \A T \in SUBSET S : T \in P
<1> DEFINE Q == {n \in Nat : \A T \in SUBSET S : Cardinality(T) = n => T \in P}
<1>1. \A T \in SUBSET S : IsFiniteSet(T) /\ Cardinality(T) \in Nat
  BY FS_Subset, FS_CardinalityType
<1>2. 0 \in Q
  BY <1>1, FS_EmptySet
<1>3. ASSUME NEW n \in Nat, n \in Q PROVE n + 1 \in Q
  <2> SUFFICES ASSUME NEW T \in SUBSET S, Cardinality(T) = n + 1 PROVE T \in P
    OBVIOUS
  <2>1. T # {}
    BY <1>1, FS_EmptySet
  <2>2. ASSUME NEW x \in T PROVE T \ {x} \in P
    <3>1. Cardinality(T \ {x}) = n
      BY <1>1, FS_RemoveElement
    <3> QED BY <1>3, <3>1
  <2> QED BY <2>1, <2>2
<1>4. Nat \subseteq Q
  <2> HIDE DEF Q
  <2> QED BY <1>2, <1>3, NatSetInduction
<1> QED BY <1>1, <1>4

-----------------------------------------------------------------------------
(* The recursion behind the sum. *)
First(T) == CHOOSE x \in T : TRUE
Sums(f, S, g) ==
    g = [T \in SUBSET S |-> IF T = {} THEN 0 ELSE f[First(T)] + g[T \ {First(T)}]]

(* It has a solution on the subsets of a finite set: one on those of at    *)
(* most n elements extends to those of n + 1.                              *)
LEMMA SumsExist ==
    ASSUME NEW f, NEW S, IsFiniteSet(S)
    PROVE  \E g : Sums(f, S, g)
<1> DEFINE Upto(n) == {T \in SUBSET S : Cardinality(T) <= n}
           Partial(n, g) == g = [T \in Upto(n) |->
                                  IF T = {} THEN 0 ELSE f[First(T)] + g[T \ {First(T)}]]
           Q == {n \in Nat : \E g : Partial(n, g)}
<1>1. \A T \in SUBSET S : IsFiniteSet(T) /\ Cardinality(T) \in Nat
  BY FS_Subset, FS_CardinalityType
<1>2. \A T \in SUBSET S : T # {} => First(T) \in T
  BY DEF First
<1>3. 0 \in Q
  <2> DEFINE g == [T \in Upto(0) |-> 0]
  <2>1. \A T \in Upto(0) : T = {}
    BY <1>1, FS_EmptySet
  <2>2. Partial(0, g)
    BY <2>1
  <2> QED BY <2>2
<1>4. ASSUME NEW n \in Nat, n \in Q PROVE n + 1 \in Q
  <2>1. PICK g : Partial(n, g)
    BY <1>4
  <2> DEFINE h == [T \in Upto(n + 1) |->
                    IF T = {} THEN 0 ELSE f[First(T)] + g[T \ {First(T)}]]
  <2>2. \A T \in Upto(n) : T \in Upto(n + 1) /\ h[T] = g[T]
    <3>1. \A T \in Upto(n) : T \in Upto(n + 1)
      BY <1>1
    <3>2. \A T \in Upto(n) : g[T] = IF T = {} THEN 0 ELSE f[First(T)] + g[T \ {First(T)}]
      BY <2>1
    <3>3. \A T \in Upto(n + 1) :
            h[T] = IF T = {} THEN 0 ELSE f[First(T)] + g[T \ {First(T)}]
      OBVIOUS
    <3> HIDE DEF h, Upto, Partial
    <3> QED BY <3>1, <3>2, <3>3
  <2>3. \A T \in Upto(n + 1) : T # {} => T \ {First(T)} \in Upto(n)
    <3> SUFFICES ASSUME NEW T \in Upto(n + 1), T # {} PROVE T \ {First(T)} \in Upto(n)
      OBVIOUS
    <3>1. Cardinality(T \ {First(T)}) = Cardinality(T) - 1
      BY <1>1, <1>2, FS_RemoveElement
    <3> QED BY <1>1, <3>1
  <2>4. Partial(n + 1, h)
    <3>1. h = [T \in Upto(n + 1) |->
                IF T = {} THEN 0 ELSE f[First(T)] + h[T \ {First(T)}]]
      <4>1. \A T \in Upto(n + 1) : T # {} => h[T \ {First(T)}] = g[T \ {First(T)}]
        <5> HIDE DEF h, Upto
        <5> QED BY <2>2, <2>3
      <4> HIDE DEF Upto
      <4> QED BY <4>1
    <3> QED BY <3>1
  <2> HIDE DEF h, Partial
  <2> QED BY <2>4
<1>5. Nat \subseteq Q
  <2> HIDE DEF Q
  <2> QED BY <1>3, <1>4, NatSetInduction
<1>6. PICK g : Partial(Cardinality(S), g)
  BY <1>1, <1>5
<1>7. Upto(Cardinality(S)) = SUBSET S
  BY FS_Subset
<1> QED BY <1>6, <1>7 DEF Sums

(* Two solutions agree on the sets both are defined on. *)
LEMMA SumsAgree ==
    ASSUME NEW f, NEW S, IsFiniteSet(S), NEW T \in SUBSET S, NEW g, NEW h,
           Sums(f, S, g), Sums(f, T, h)
    PROVE  h[T] = g[T]
<1> DEFINE P == {U \in SUBSET T : h[U] = g[U]}
<1>1. IsFiniteSet(T)
  BY FS_Subset
<1>2. \A U \in SUBSET T : /\ g[U] = IF U = {} THEN 0 ELSE f[First(U)] + g[U \ {First(U)}]
                          /\ h[U] = IF U = {} THEN 0 ELSE f[First(U)] + h[U \ {First(U)}]
  <2>1. \A U \in SUBSET S : g[U] = IF U = {} THEN 0 ELSE f[First(U)] + g[U \ {First(U)}]
    BY DEF Sums
  <2>2. \A U \in SUBSET T : h[U] = IF U = {} THEN 0 ELSE f[First(U)] + h[U \ {First(U)}]
    BY DEF Sums
  <2> QED BY <2>1, <2>2
<1>3. {} \in P
  BY <1>2
<1>4. ASSUME NEW U \in SUBSET T, U # {}, \A x \in U : U \ {x} \in P
      PROVE  U \in P
  <2>1. First(U) \in U
    BY <1>4 DEF First
  <2> QED BY <1>2, <1>4, <2>1
<1>5. \A U \in SUBSET T : U \in P
  <2> HIDE DEF P
  <2> QED BY <1>1, <1>3, <1>4, FiniteSetInduction
<1> QED BY <1>5

(* The sum over a finite set is one element and the sum over the others. *)
LEMMA SumUnfolds ==
    ASSUME NEW f, NEW T, IsFiniteSet(T)
    PROVE  /\ SumFunctionOnSet(f, {}) = 0
           /\ T # {} => /\ First(T) \in T
                        /\ SumFunctionOnSet(f, T) =
                             f[First(T)] + SumFunctionOnSet(f, T \ {First(T)})
<1>1. ASSUME NEW S, IsFiniteSet(S)
      PROVE  \E h : Sums(f, S, h) /\ SumFunctionOnSet(f, S) = h[S]
  <2> DEFINE iter == CHOOSE h : Sums(f, S, h)
  <2>1. Sums(f, S, iter)
    BY <1>1, SumsExist
  <2>2. SumFunctionOnSet(f, S) = iter[S]
    BY DEF SumFunctionOnSet, FoldFunctionOnSet, MapThenFoldSet, Sums, First
  <2> QED BY <2>1, <2>2
<1>2. SumFunctionOnSet(f, {}) = 0
  <2>1. PICK h : Sums(f, {}, h) /\ SumFunctionOnSet(f, {}) = h[{}]
    BY <1>1, FS_EmptySet
  <2> QED BY <2>1 DEF Sums
<1>3. ASSUME T # {}
      PROVE  /\ First(T) \in T
             /\ SumFunctionOnSet(f, T) =
                  f[First(T)] + SumFunctionOnSet(f, T \ {First(T)})
  <2> DEFINE U == T \ {First(T)}
  <2>1. PICK g : Sums(f, T, g) /\ SumFunctionOnSet(f, T) = g[T]
    BY <1>1
  <2>2. U \in SUBSET T /\ IsFiniteSet(U)
    BY FS_Subset
  <2>3. PICK h : Sums(f, U, h) /\ SumFunctionOnSet(f, U) = h[U]
    BY <1>1, <2>2
  <2>4. h[U] = g[U]
    <3> HIDE DEF U
    <3> QED BY <2>1, <2>2, <2>3, SumsAgree
  <2>5. g[T] = f[First(T)] + g[U]
    BY <1>3, <2>1 DEF Sums
  <2>6. First(T) \in T
    BY <1>3 DEF First
  <2> QED BY <2>1, <2>3, <2>4, <2>5, <2>6
<1> QED BY <1>2, <1>3

-----------------------------------------------------------------------------
(* The empty sum. *)
LEMMA SumEmpty == \A f : SumFunctionOnSet(f, {}) = 0
BY SumUnfolds, FS_EmptySet

(* Integers add up to an integer, natural numbers to a natural number. *)
LEMMA SumType ==
    ASSUME NEW f, NEW T, IsFiniteSet(T), NEW N \in {Int, Nat}, \A x \in T : f[x] \in N
    PROVE  SumFunctionOnSet(f, T) \in N
<1> DEFINE P == {U \in SUBSET T : SumFunctionOnSet(f, U) \in N}
<1>1. {} \in P
  <2>1. 0 \in N
    OBVIOUS
  <2> QED BY <2>1, SumEmpty
<1>2. ASSUME NEW U \in SUBSET T, U # {}, \A x \in U : U \ {x} \in P
      PROVE  U \in P
  <2>1. IsFiniteSet(U)
    BY FS_Subset
  <2>2. /\ First(U) \in U
        /\ SumFunctionOnSet(f, U) = f[First(U)] + SumFunctionOnSet(f, U \ {First(U)})
    BY <1>2, <2>1, SumUnfolds
  <2> QED BY <1>2, <2>2
<1>3. \A U \in SUBSET T : U \in P
  <2> HIDE DEF P
  <2> QED BY <1>1, <1>2, FiniteSetInduction
<1> QED BY <1>3

(* Functions that agree on the set have the same sum. *)
LEMMA SumSame ==
    ASSUME NEW f, NEW g, NEW T, IsFiniteSet(T), \A x \in T : f[x] = g[x]
    PROVE  SumFunctionOnSet(f, T) = SumFunctionOnSet(g, T)
<1> DEFINE P == {U \in SUBSET T : SumFunctionOnSet(f, U) = SumFunctionOnSet(g, U)}
<1>1. {} \in P
  BY SumEmpty
<1>2. ASSUME NEW U \in SUBSET T, U # {}, \A x \in U : U \ {x} \in P
      PROVE  U \in P
  <2>1. IsFiniteSet(U)
    BY FS_Subset
  <2>2. /\ First(U) \in U
        /\ SumFunctionOnSet(f, U) = f[First(U)] + SumFunctionOnSet(f, U \ {First(U)})
    BY <1>2, <2>1, SumUnfolds
  <2>3. SumFunctionOnSet(g, U) = g[First(U)] + SumFunctionOnSet(g, U \ {First(U)})
    BY <1>2, <2>1, SumUnfolds
  <2> QED BY <1>2, <2>2, <2>3
<1>3. \A U \in SUBSET T : U \in P
  <2> HIDE DEF P
  <2> QED BY <1>1, <1>2, FiniteSetInduction
<1> QED BY <1>3

(* Any element can be the one taken out. *)
LEMMA SumTake ==
    ASSUME NEW f, NEW T, IsFiniteSet(T), \A x \in T : f[x] \in Int, NEW y \in T
    PROVE  SumFunctionOnSet(f, T) = f[y] + SumFunctionOnSet(f, T \ {y})
<1> DEFINE P == {U \in SUBSET T : \A x \in U :
                    SumFunctionOnSet(f, U) = f[x] + SumFunctionOnSet(f, U \ {x})}
<1>1. {} \in P
  OBVIOUS
<1>2. ASSUME NEW U \in SUBSET T, U # {}, \A x \in U : U \ {x} \in P
      PROVE  U \in P
  <2> SUFFICES ASSUME NEW x \in U
               PROVE  SumFunctionOnSet(f, U) = f[x] + SumFunctionOnSet(f, U \ {x})
    OBVIOUS
  <2> DEFINE p == First(U)
  <2>1. IsFiniteSet(U)
    BY FS_Subset
  <2>2. p \in U /\ SumFunctionOnSet(f, U) = f[p] + SumFunctionOnSet(f, U \ {p})
    BY <1>2, <2>1, SumUnfolds
  <2>3. CASE x = p
    BY <2>2, <2>3
  <2>4. CASE x # p
    <3>1. SumFunctionOnSet(f, U \ {p})
            = f[x] + SumFunctionOnSet(f, (U \ {p}) \ {x})
      <4> HIDE DEF p
      <4> QED BY <1>2, <2>2, <2>4
    <3>2. SumFunctionOnSet(f, U \ {x})
            = f[p] + SumFunctionOnSet(f, (U \ {x}) \ {p})
      <4> HIDE DEF p
      <4> QED BY <1>2, <2>2, <2>4
    <3>3. (U \ {p}) \ {x} = (U \ {x}) \ {p}
      OBVIOUS
    <3>4. SumFunctionOnSet(f, (U \ {x}) \ {p}) \in Int
      <4> DEFINE V == (U \ {x}) \ {p}
      <4>1. V \in SUBSET T /\ IsFiniteSet(V)
        BY FS_Subset
      <4> HIDE DEF V, p
      <4>2. SumFunctionOnSet(f, V) \in Int
        BY <4>1, SumType
      <4> QED BY <4>2 DEF V
    <3>5. f[x] \in Int /\ f[p] \in Int
      BY <2>2
    <3> DEFINE sum == SumFunctionOnSet(f, (U \ {x}) \ {p})
    <3>6. SumFunctionOnSet(f, U) = f[p] + (f[x] + sum)
      BY ONLY <2>2, <3>1, <3>3
    <3>7. f[x] + SumFunctionOnSet(f, U \ {x}) = f[x] + (f[p] + sum)
      BY ONLY <3>2
    <3>8. f[p] + (f[x] + sum) = f[x] + (f[p] + sum)
      <4> HIDE DEF sum, p
      <4> QED BY <3>4, <3>5 DEF sum
    <3> QED BY ONLY <3>6, <3>7, <3>8
  <2> QED BY <2>3, <2>4
<1>3. \A U \in SUBSET T : U \in P
  <2> HIDE DEF P
  <2> QED BY <1>1, <1>2, FiniteSetInduction
<1> QED BY <1>3

(* Changing one value moves the sum by the difference. *)
LEMMA SumChange ==
    ASSUME NEW f, NEW g, NEW T, IsFiniteSet(T), NEW y \in T,
           \A x \in T : f[x] \in Int, g[y] \in Int,
           \A x \in T \ {y} : g[x] = f[x]
    PROVE  SumFunctionOnSet(g, T) = SumFunctionOnSet(f, T) - f[y] + g[y]
<1>1. IsFiniteSet(T \ {y})
  BY FS_RemoveElement
<1>2. SumFunctionOnSet(f, T) = f[y] + SumFunctionOnSet(f, T \ {y})
  BY SumTake
<1>3. \A x \in T : g[x] \in Int
  OBVIOUS
<1>4. SumFunctionOnSet(g, T) = g[y] + SumFunctionOnSet(g, T \ {y})
  BY <1>3, SumTake
<1>5. SumFunctionOnSet(g, T \ {y}) = SumFunctionOnSet(f, T \ {y})
  BY <1>1, SumSame
<1>6. SumFunctionOnSet(f, T \ {y}) \in Int
  BY <1>1, SumType
<1> QED BY <1>2, <1>4, <1>5, <1>6

(* A new element adds its value. *)
LEMMA SumAdd ==
    ASSUME NEW f, NEW g, NEW T, IsFiniteSet(T), NEW y, y \notin T,
           \A x \in T : f[x] \in Int /\ g[x] = f[x], g[y] \in Int
    PROVE  SumFunctionOnSet(g, T \cup {y}) = SumFunctionOnSet(f, T) + g[y]
<1> DEFINE U == T \cup {y}
<1>1. IsFiniteSet(U) /\ U \ {y} = T
  BY FS_AddElement
<1>2. \A x \in U : g[x] \in Int
  OBVIOUS
<1>3. y \in U
  OBVIOUS
<1> HIDE DEF U
<1>4. SumFunctionOnSet(g, U) = g[y] + SumFunctionOnSet(g, U \ {y})
  BY <1>1, <1>2, <1>3, SumTake
<1>5. SumFunctionOnSet(g, U \ {y}) = SumFunctionOnSet(f, T)
  <2>1. SumFunctionOnSet(g, T) = SumFunctionOnSet(f, T)
    BY SumSame
  <2> QED BY ONLY <1>1, <2>1
<1>6. SumFunctionOnSet(f, T) \in Int
  BY SumType
<1> QED BY <1>1, <1>4, <1>5, <1>6 DEF U

(* Multiples of k add up to a multiple of k. *)
LEMMA SumMultiple ==
    ASSUME NEW f, NEW T, IsFiniteSet(T), NEW k \in Nat,
           \A x \in T : \E n \in Nat : f[x] = n * k
    PROVE  \E n \in Nat : SumFunctionOnSet(f, T) = n * k
<1> DEFINE P == {U \in SUBSET T : \E n \in Nat : SumFunctionOnSet(f, U) = n * k}
<1>1. {} \in P
  <2>1. SumFunctionOnSet(f, {}) = 0 * k
    <3>1. 0 = 0 * k
      OBVIOUS
    <3> QED BY <3>1, SumEmpty
  <2> QED BY <2>1
<1>2. ASSUME NEW U \in SUBSET T, U # {}, \A x \in U : U \ {x} \in P
      PROVE  U \in P
  <2>1. IsFiniteSet(U)
    BY FS_Subset
  <2>2. /\ First(U) \in U
        /\ SumFunctionOnSet(f, U) = f[First(U)] + SumFunctionOnSet(f, U \ {First(U)})
    BY <1>2, <2>1, SumUnfolds
  <2>3. PICK m \in Nat : f[First(U)] = m * k
    BY <2>2
  <2>4. PICK n \in Nat : SumFunctionOnSet(f, U \ {First(U)}) = n * k
    BY <1>2, <2>2
  <2>5. m + n \in Nat /\ m * k + n * k = (m + n) * k
    OBVIOUS
  <2> QED BY <2>2, <2>3, <2>4, <2>5
<1>3. \A U \in SUBSET T : U \in P
  <2> HIDE DEF P
  <2> QED BY <1>1, <1>2, FiniteSetInduction
<1> QED BY <1>3

(* Zeros add up to zero. *)
LEMMA SumZero ==
    ASSUME NEW f, NEW T, IsFiniteSet(T), \A x \in T : f[x] = 0
    PROVE  SumFunctionOnSet(f, T) = 0
<1>1. \A x \in T : \E n \in Nat : f[x] = n * 0
  OBVIOUS
<1>2. PICK n \in Nat : SumFunctionOnSet(f, T) = n * 0
  BY <1>1, SumMultiple
<1> QED BY <1>2

(* Sums over the indices of sequences: one index more, and two sequences   *)
(* in a row.                                                               *)
LEMMA SumUpto ==
    ASSUME NEW k \in Nat, NEW f, \A i \in 1..(k + 1) : f[i] \in Int
    PROVE  SumFunctionOnSet(f, 1..(k + 1)) = SumFunctionOnSet(f, 1..k) + f[k + 1]
<1> DEFINE T == 1..k
           y == k + 1
<1>1. 1..(k + 1) = T \cup {y} /\ y \notin T /\ IsFiniteSet(T)
  BY FS_Interval
<1>2. (\A i \in T : f[i] \in Int /\ f[i] = f[i]) /\ f[y] \in Int
  OBVIOUS
<1> HIDE DEF T, y
<1>3. SumFunctionOnSet(f, T \cup {y}) = SumFunctionOnSet(f, T) + f[y]
  BY ONLY <1>1, <1>2, SumAdd
<1>4. SumFunctionOnSet(f, 1..(k + 1)) = SumFunctionOnSet(f, T) + f[y]
  BY ONLY <1>1, <1>3
<1> QED BY <1>4 DEF T, y

Joined(h, f, m, g, n) ==
    /\ \A i \in 1..m : f[i] \in Int /\ h[i] = f[i]
    /\ \A i \in 1..n : g[i] \in Int /\ h[m + i] = g[i]

LEMMA SumConcat ==
    ASSUME NEW m \in Nat, NEW n \in Nat, NEW f, NEW g, NEW h, Joined(h, f, m, g, n)
    PROVE  SumFunctionOnSet(h, 1..(m + n)) =
             SumFunctionOnSet(f, 1..m) + SumFunctionOnSet(g, 1..n)
<1> DEFINE sf == SumFunctionOnSet(f, 1..m)
           sg(k) == SumFunctionOnSet(g, 1..k)
           sh(k) == SumFunctionOnSet(h, 1..(m + k))
           P == {k \in Nat : k <= n => sh(k) = sf + sg(k)}
<1> USE DEF Joined
<1>0. \A k \in Nat : IsFiniteSet(1..k)
  BY FS_Interval
<1>1. sf \in Int
  <2> DEFINE T == 1..m
  <2>1. IsFiniteSet(T) /\ \A i \in T : f[i] \in Int
    BY <1>0
  <2> HIDE DEF T
  <2>2. SumFunctionOnSet(f, T) \in Int
    BY ONLY <2>1, SumType
  <2> QED BY <2>2 DEF T
<1>2. \A k \in Nat : k <= n => sg(k) \in Int
  <2> SUFFICES ASSUME NEW k \in Nat, k <= n PROVE sg(k) \in Int
    OBVIOUS
  <2> DEFINE T == 1..k
  <2>1. IsFiniteSet(T) /\ \A i \in T : g[i] \in Int
    BY <1>0
  <2> HIDE DEF T
  <2>2. SumFunctionOnSet(g, T) \in Int
    BY ONLY <2>1, SumType
  <2> QED BY <2>2 DEF T
<1>3. \A i \in 1..(m + n) : h[i] \in Int
  <2> SUFFICES ASSUME NEW i \in 1..(m + n) PROVE h[i] \in Int
    OBVIOUS
  <2>1. CASE i \in 1..m
    BY <2>1
  <2>2. CASE i \notin 1..m
    <3>1. i - m \in 1..n /\ m + (i - m) = i
      BY <2>2
    <3> QED BY <3>1
  <2> QED BY <2>1, <2>2
<1>4. 0 \in P
  <2> DEFINE T == 1..m
  <2>1. IsFiniteSet(T) /\ \A i \in T : h[i] = f[i]
    BY <1>0
  <2>2. 1..0 = {} /\ 1..(m + 0) = T
    OBVIOUS
  <2> HIDE DEF T
  <2>3. SumFunctionOnSet(h, T) = SumFunctionOnSet(f, T)
    BY ONLY <2>1, SumSame
  <2>4. sg(0) = 0
    BY <2>2, SumEmpty
  <2>5. sh(0) = sf
    BY <2>2, <2>3 DEF T
  <2> HIDE DEF sf, sg, sh
  <2> QED BY <1>1, <2>4, <2>5
<1>5. ASSUME NEW k \in Nat, k \in P PROVE k + 1 \in P
  <2> SUFFICES ASSUME k + 1 <= n PROVE sh(k + 1) = sf + sg(k + 1)
    OBVIOUS
  <2>1. sh(k) = sf + sg(k)
    BY <1>5
  <2>2. sh(k + 1) = sh(k) + h[m + (k + 1)]
    <3> DEFINE j == m + k
    <3>1. j \in Nat /\ m + (k + 1) = j + 1 /\ \A i \in 1..(j + 1) : h[i] \in Int
      BY <1>3
    <3> HIDE DEF j
    <3>2. SumFunctionOnSet(h, 1..(j + 1)) = SumFunctionOnSet(h, 1..j) + h[j + 1]
      BY ONLY <3>1, SumUpto
    <3>3. sh(k + 1) = SumFunctionOnSet(h, 1..(j + 1))
      BY ONLY <3>1
    <3>4. sh(k) = SumFunctionOnSet(h, 1..j)
      BY DEF j
    <3> QED BY ONLY <3>1, <3>2, <3>3, <3>4
  <2>3. sg(k + 1) = sg(k) + g[k + 1]
    <3>1. \A i \in 1..(k + 1) : g[i] \in Int
      OBVIOUS
    <3> QED BY ONLY <1>5, <3>1, SumUpto
  <2>4. h[m + (k + 1)] = g[k + 1] /\ g[k + 1] \in Int
    <3>1. k + 1 \in 1..n
      OBVIOUS
    <3> QED BY <3>1
  <2>5. sg(k) \in Int
    BY <1>2
  <2> HIDE DEF sf, sg, sh
  <2> QED BY <1>1, <2>1, <2>2, <2>3, <2>4, <2>5
<1>6. n \in P
  <2> HIDE DEF P
  <2>1. Nat \subseteq P
    BY ONLY <1>4, <1>5, NatSetInduction
  <2> QED BY <2>1
<1> QED BY <1>6
=============================================================================

----------------------------- MODULE DataProofs -----------------------------
(***************************************************************************)
(* Facts about the data the proofs share: least and greatest elements,     *)
(* sums over finite sets, ranks, and tables whose rows are appended under  *)
(* new ids.                                                                *)
(*                                                                         *)
(* A sum is defined by recursion over the set summed.  What is said of it  *)
(* is shown of a smallest set for which it could be false (SmallestSet),   *)
(* not by induction.                                                       *)
(***************************************************************************)
EXTENDS FiniteSetsExt, FiniteSetTheorems, FunctionTheorems, WellFoundedInduction, TLAPS

LEMMA LeastElement ==
    ASSUME NEW S, S \subseteq Nat, S # {}
    PROVE  \E m \in S : \A k \in S : m <= k
<1> DEFINE R == OpToRel(<, Nat)
<1>1. IsWellFoundedOn(R, Nat)
  BY NatLessThanWellFounded
<1>2. \A k, m \in Nat : k < m => <<k, m>> \in R
  BY DEF OpToRel
<1> HIDE DEF R
<1>3. \E m \in S : \A k \in S : <<k, m>> \notin R
  BY <1>1, WFMin
<1>4. PICK m \in S : \A k \in S : <<k, m>> \notin R
  BY <1>3
<1>5. \A k \in S : ~(k < m)
  BY <1>2, <1>4
<1>6. \A k \in S : m <= k
  BY <1>5
<1>. QED BY <1>4, <1>6

(* A nonempty set of naturals below a bound has the maximum Max chooses.      *)
LEMMA GreatestElement ==
    ASSUME NEW n \in Nat, NEW S, S \subseteq 0 .. n, S # {}
    PROVE  Max(S) \in S /\ \A k \in S : k <= Max(S)
<1> DEFINE Bounds == {b \in Nat : \A k \in S : k <= b}
<1>1. \E b \in Bounds : \A c \in Bounds : b <= c
  <2>1. n \in Bounds
    OBVIOUS
  <2>2. Bounds \subseteq Nat
    OBVIOUS
  <2> HIDE DEF Bounds
  <2>. QED BY <2>1, <2>2, LeastElement
<1>2. PICK b \in Bounds : \A c \in Bounds : b <= c
  BY <1>1
<1>3. b \in S
  <2>1. SUFFICES ASSUME b \notin S PROVE FALSE
    OBVIOUS
  <2>2. \A k \in S : k \in Nat /\ k < b
    BY <2>1
  <2>3. PICK s \in S : TRUE
    OBVIOUS
  <2>5. b \in Nat
    OBVIOUS
  <2>6. b - 1 \in Nat
    BY <2>2, <2>3, <2>5
  <2>7. ASSUME NEW k \in S PROVE k <= b - 1
    BY <2>2, <2>5
  <2>4. b - 1 \in Bounds
    BY <2>6, <2>7
  <2>8. b - 1 < b
    BY <2>5
  <2>. QED BY <1>2, <2>4, <2>5, <2>8
<1>4. \E m \in S : \A k \in S : m >= k
  BY <1>3
<1>. QED BY <1>4 DEF Max

-----------------------------------------------------------------------------
(* Sums over finite sets.  A claim about every sum is proved by looking at a  *)
(* minimal set it could fail for.                                             *)

(* Nonempty collections of finite sets have a minimal member.                 *)
LEMMA SmallestSet ==
    ASSUME NEW C, C # {}, \A s \in C : IsFiniteSet(s)
    PROVE  \E s \in C : \A t \in C : t \subseteq s => t = s
<1> DEFINE Sizes == {Cardinality(s) : s \in C}
<1>1. PICK m \in Sizes : \A k \in Sizes : m <= k
  <2>1. Sizes \subseteq Nat /\ Sizes # {}
    BY FS_CardinalityType
  <2> HIDE DEF Sizes
  <2>. QED BY <2>1, LeastElement
<1>2. PICK s \in C : m = Cardinality(s)
  BY <1>1
<1>3. ASSUME NEW t \in C, t \subseteq s, t # s PROVE FALSE
  <2>1. IsFiniteSet(s) /\ IsFiniteSet(t)
    OBVIOUS
  <2>2. Cardinality(s) <= Cardinality(t)
    BY <1>1, <1>2
  <2>3. Cardinality(s) \in Nat /\ Cardinality(t) \in Nat
    BY <2>1, FS_CardinalityType
  <2> HIDE DEF Sizes
  <2>4. Cardinality(t) <= Cardinality(s) /\ (Cardinality(s) = Cardinality(t) => s = t)
    BY <1>3, <2>1, FS_Subset
  <2>. QED BY <1>3, <2>2, <2>3, <2>4
<1>. QED BY <1>2, <1>3

(* What the recursion behind a sum demands of the sum of s.                   *)
Summed(sums, f, s) ==
    IF s = {} THEN 0 ELSE LET x == CHOOSE x \in s : TRUE IN f[x] + sums[s \ {x}]

IsSums(sums, f, sets) == sums = [s \in sets |-> Summed(sums, f, s)]

(* Some function satisfies the recursion: it does on the sets of at most n    *)
(* elements, for the least n it might not by adding one layer.                *)
LEMMA SumsExist ==
    ASSUME NEW f, NEW S, IsFiniteSet(S)
    PROVE  \E sums : IsSums(sums, f, SUBSET S)
<1> DEFINE Layer(n) == {s \in SUBSET S : Cardinality(s) <= n}
           Bad == {n \in Nat : ~ \E sums : IsSums(sums, f, Layer(n))}
<1>1. \A s \in SUBSET S : IsFiniteSet(s) /\ Cardinality(s) \in Nat /\ Cardinality(s) <= Cardinality(S)
  BY FS_Subset, FS_CardinalityType
<1>2. Bad = {}
  <2>1. SUFFICES ASSUME Bad # {} PROVE FALSE
    OBVIOUS
  <2>2. PICK m \in Bad : \A k \in Bad : m <= k
    <3>1. Bad \subseteq Nat
      OBVIOUS
    <3> HIDE DEF Bad
    <3>. QED BY <2>1, <3>1, LeastElement
  <2>3. m \in Nat /\ ~ \E sums : IsSums(sums, f, Layer(m))
    OBVIOUS
  <2>4. CASE m = 0
    <3> DEFINE none == [s \in Layer(m) |-> 0]
    <3>1. \A s \in Layer(m) : s = {}
      BY <1>1, <2>4, FS_EmptySet
    <3> HIDE DEF Layer
    <3>2. IsSums(none, f, Layer(m))
      BY <3>1 DEF IsSums, Summed
    <3>. QED BY <2>3, <3>2
  <2>5. CASE m # 0
    <3>1. m - 1 \in Nat
      BY <2>3, <2>5
    <3>2. m - 1 \notin Bad
      <4>1. ~(m <= m - 1)
        BY <2>3
      <4> HIDE DEF Bad
      <4>. QED BY <2>2, <4>1
    <3>7. PICK lower : IsSums(lower, f, Layer(m - 1))
      BY <3>1, <3>2
    <3> DEFINE sums == [s \in Layer(m) |-> Summed(lower, f, s)]
    <3>3. \A s \in Layer(m - 1) : s \in Layer(m) /\ sums[s] = lower[s]
      <4>1. \A s \in Layer(m - 1) : s \in Layer(m)
        BY <1>1, <2>3
      <4> HIDE DEF Layer
      <4>. QED BY <3>7, <4>1 DEF IsSums
    <3>4. ASSUME NEW s \in Layer(m), s # {}
          PROVE  s \ {CHOOSE x \in s : TRUE} \in Layer(m - 1)
      <4> DEFINE x == CHOOSE x \in s : TRUE
      <4>1. x \in s
        BY <3>4
      <4> HIDE DEF x
      <4>2. IsFiniteSet(s) /\ Cardinality(s) \in Nat /\ Cardinality(s \ {x}) = Cardinality(s) - 1
        BY <1>1, <4>1, FS_RemoveElement
      <4>3. s \ {x} \in Layer(m - 1)
        BY <2>3, <4>2
      <4>. QED BY <4>3 DEF x
    <3> HIDE DEF Layer
    <3>5. ASSUME NEW s \in Layer(m) PROVE sums[s] = Summed(sums, f, s)
      <4>1. CASE s = {}
        BY <4>1 DEF Summed
      <4>2. CASE s # {}
        <5> DEFINE rest == s \ {CHOOSE x \in s : TRUE}
        <5>1. lower[rest] = sums[rest]
          BY <3>3, <3>4, <4>2
        <5>2. sums[s] = f[CHOOSE x \in s : TRUE] + lower[rest]
          BY <4>2 DEF Summed
        <5>3. Summed(sums, f, s) = f[CHOOSE x \in s : TRUE] + sums[rest]
          BY <4>2 DEF Summed
        <5> HIDE DEF rest, sums
        <5>. QED BY <5>1, <5>2, <5>3
      <4>. QED BY <4>1, <4>2
    <3>6. IsSums(sums, f, Layer(m))
      <4>1. sums = [s \in Layer(m) |-> Summed(sums, f, s)]
        BY <3>5
      <4> HIDE DEF sums
      <4>. QED BY <4>1 DEF IsSums
    <3>. QED BY <2>3, <3>6
  <2>. QED BY <2>4, <2>5
<1>3. Layer(Cardinality(S)) = SUBSET S
  BY <1>1
<1>4. Cardinality(S) \in Nat
  BY FS_CardinalityType
<1>5. \E sums : IsSums(sums, f, Layer(Cardinality(S)))
  BY <1>2, <1>4
<1> HIDE DEF Layer
<1>. QED BY <1>3, <1>5

(* The sums SumFunctionOnSet takes its result from.                           *)
SumsOf(f, S) == CHOOSE sums : IsSums(sums, f, SUBSET S)

LEMMA SumsOfSatisfy ==
    ASSUME NEW f, NEW S, IsFiniteSet(S)
    PROVE  /\ IsSums(SumsOf(f, S), f, SUBSET S)
           /\ SumFunctionOnSet(f, S) = SumsOf(f, S)[S]
<1>1. IsSums(SumsOf(f, S), f, SUBSET S)
  <2>1. \E sums : IsSums(sums, f, SUBSET S)
    BY SumsExist
  <2>. QED BY <2>1, Zenon DEF SumsOf
<1>2. SumFunctionOnSet(f, S) = SumsOf(f, S)[S]
  BY DEF SumFunctionOnSet, FoldFunctionOnSet, MapThenFoldSet, SumsOf, IsSums, Summed
<1>. QED BY <1>1, <1>2

(* Two sums over functions that agree on R agree on R: no set is the smallest *)
(* they could differ on.                                                      *)
LEMMA SumsUnique ==
    ASSUME NEW D, NEW f, NEW a, IsSums(a, f, D), NEW E, NEW g, NEW b, IsSums(b, g, E),
           NEW R, IsFiniteSet(R), SUBSET R \subseteq D, SUBSET R \subseteq E,
           \A x \in R : f[x] = g[x]
    PROVE  a[R] = b[R]
<1> DEFINE Differ == {s \in SUBSET R : a[s] # b[s]}
<1>1. SUFFICES ASSUME Differ # {} PROVE FALSE
  OBVIOUS
<1>2. PICK s \in Differ : \A t \in Differ : t \subseteq s => t = s
  <2>1. \A s \in Differ : IsFiniteSet(s)
    BY FS_Subset
  <2> HIDE DEF Differ
  <2>. QED BY <1>1, <2>1, SmallestSet
<1>3. /\ s \in D /\ s \in E
      /\ a[s] = Summed(a, f, s) /\ b[s] = Summed(b, g, s)
  BY DEF IsSums
<1>4. s # {}
  BY <1>2, <1>3 DEF Summed
<1> DEFINE x == CHOOSE x \in s : TRUE
<1>5. x \in s
  BY <1>4
<1>6. a[s] = f[x] + a[s \ {x}] /\ b[s] = g[x] + b[s \ {x}]
  BY <1>3, <1>4 DEF Summed
<1> HIDE DEF x
<1>7. s \ {x} \notin Differ
  BY <1>2, <1>5
<1>8. a[s \ {x}] = b[s \ {x}]
  BY <1>7
<1>. QED BY <1>2, <1>5, <1>6, <1>8

(* Summing depends on the summands only.                                      *)
LEMMA SumAgrees ==
    ASSUME NEW S, IsFiniteSet(S), NEW f, NEW g, \A x \in S : f[x] = g[x]
    PROVE  SumFunctionOnSet(f, S) = SumFunctionOnSet(g, S)
<1>1. IsSums(SumsOf(f, S), f, SUBSET S) /\ SumFunctionOnSet(f, S) = SumsOf(f, S)[S]
  BY SumsOfSatisfy
<1>2. IsSums(SumsOf(g, S), g, SUBSET S) /\ SumFunctionOnSet(g, S) = SumsOf(g, S)[S]
  BY SumsOfSatisfy
<1> DEFINE a == SumsOf(f, S)
           b == SumsOf(g, S)
<1>3. SUBSET S \subseteq SUBSET S
  OBVIOUS
<1>4. IsSums(a, f, SUBSET S) /\ IsSums(b, g, SUBSET S)
  BY <1>1, <1>2
<1> HIDE DEF a, b
<1>5. a[S] = b[S]
  BY <1>3, <1>4, SumsUnique
<1>. QED BY <1>1, <1>2, <1>5 DEF a, b

LEMMA SumOfNone ==
    ASSUME NEW f
    PROVE  SumFunctionOnSet(f, {}) = 0
<1>1. IsFiniteSet({})
  BY FS_EmptySet
<1>2. /\ IsSums(SumsOf(f, {}), f, SUBSET {})
      /\ SumFunctionOnSet(f, {}) = SumsOf(f, {})[{}]
  BY <1>1, SumsOfSatisfy
<1>. QED BY <1>2 DEF IsSums, Summed

(* One particular element is taken out by the recursion itself.               *)
LEMMA SumTakesOne ==
    ASSUME NEW S, IsFiniteSet(S), S # {}, NEW f
    PROVE  \E x \in S : SumFunctionOnSet(f, S) = f[x] + SumFunctionOnSet(f, S \ {x})
<1> DEFINE x == CHOOSE x \in S : TRUE
<1>1. x \in S
  OBVIOUS
<1>2. IsSums(SumsOf(f, S), f, SUBSET S) /\ SumFunctionOnSet(f, S) = SumsOf(f, S)[S]
  BY SumsOfSatisfy
<1>3. SumsOf(f, S)[S] = f[x] + SumsOf(f, S)[S \ {x}]
  BY <1>2 DEF IsSums, Summed
<1> HIDE DEF x
<1>4. IsFiniteSet(S \ {x}) /\ S \ {x} \subseteq S
  BY FS_Subset
<1>5. /\ IsSums(SumsOf(f, S \ {x}), f, SUBSET (S \ {x}))
      /\ SumFunctionOnSet(f, S \ {x}) = SumsOf(f, S \ {x})[S \ {x}]
  BY <1>4, SumsOfSatisfy
<1>6. SumsOf(f, S)[S \ {x}] = SumsOf(f, S \ {x})[S \ {x}]
  <2> DEFINE a == SumsOf(f, S)
             R == S \ {x}
             b == SumsOf(f, R)
  <2>1. IsSums(a, f, SUBSET S) /\ IsSums(b, f, SUBSET R)
    BY <1>2, <1>5
  <2>2. R \subseteq S /\ R \subseteq R /\ IsFiniteSet(R) /\ \A y \in R : f[y] = f[y]
    BY <1>4
  <2>4. SUBSET R \subseteq SUBSET S /\ SUBSET R \subseteq SUBSET R
    OBVIOUS
  <2> HIDE DEF a, b, R
  <2>3. a[R] = b[R]
    BY <2>1, <2>2, <2>4, SumsUnique
  <2>. QED BY <2>3 DEF a, b, R
<1>. QED BY <1>1, <1>2, <1>3, <1>5, <1>6

(* Sums of integers are integers.                                             *)
LEMMA SumIsInt ==
    ASSUME NEW S, IsFiniteSet(S), NEW f, \A x \in S : f[x] \in Int
    PROVE  SumFunctionOnSet(f, S) \in Int
<1> DEFINE Bad == {s \in SUBSET S : SumFunctionOnSet(f, s) \notin Int}
<1>1. SUFFICES ASSUME Bad # {} PROVE FALSE
  OBVIOUS
<1>2. PICK s \in Bad : \A t \in Bad : t \subseteq s => t = s
  <2>1. \A s \in Bad : IsFiniteSet(s)
    BY FS_Subset
  <2> HIDE DEF Bad
  <2>. QED BY <1>1, <2>1, SmallestSet
<1>3. s \subseteq S /\ IsFiniteSet(s) /\ SumFunctionOnSet(f, s) \notin Int
  BY FS_Subset
<1>4. s # {}
  BY <1>3, SumOfNone
<1>5. PICK x \in s : SumFunctionOnSet(f, s) = f[x] + SumFunctionOnSet(f, s \ {x})
  BY <1>3, <1>4, SumTakesOne
<1>6. s \ {x} \notin Bad
  BY <1>2
<1>7. SumFunctionOnSet(f, s \ {x}) \in Int
  BY <1>3, <1>6
<1>. QED BY <1>3, <1>5, <1>7

LEMMA SumIsNat ==
    ASSUME NEW S, IsFiniteSet(S), NEW f, \A x \in S : f[x] \in Nat
    PROVE  SumFunctionOnSet(f, S) \in Nat
<1> DEFINE Bad == {s \in SUBSET S : SumFunctionOnSet(f, s) \notin Nat}
<1>1. SUFFICES ASSUME Bad # {} PROVE FALSE
  OBVIOUS
<1>2. PICK s \in Bad : \A t \in Bad : t \subseteq s => t = s
  <2>1. \A s \in Bad : IsFiniteSet(s)
    BY FS_Subset
  <2> HIDE DEF Bad
  <2>. QED BY <1>1, <2>1, SmallestSet
<1>3. s \subseteq S /\ IsFiniteSet(s) /\ SumFunctionOnSet(f, s) \notin Nat
  BY FS_Subset
<1>4. s # {}
  BY <1>3, SumOfNone
<1>5. PICK x \in s : SumFunctionOnSet(f, s) = f[x] + SumFunctionOnSet(f, s \ {x})
  BY <1>3, <1>4, SumTakesOne
<1>6. s \ {x} \notin Bad
  BY <1>2
<1>7. SumFunctionOnSet(f, s \ {x}) \in Nat
  BY <1>3, <1>6
<1>. QED BY <1>3, <1>5, <1>7

(* Any element may be taken out.                                              *)
LEMMA SumRemove ==
    ASSUME NEW S, IsFiniteSet(S), NEW f, \A x \in S : f[x] \in Int
    PROVE  \A e \in S : SumFunctionOnSet(f, S) = f[e] + SumFunctionOnSet(f, S \ {e})
<1> DEFINE Bad == {s \in SUBSET S : \E e \in s :
                      SumFunctionOnSet(f, s) # f[e] + SumFunctionOnSet(f, s \ {e})}
<1>1. SUFFICES ASSUME Bad # {} PROVE FALSE
  OBVIOUS
<1>2. PICK s \in Bad : \A t \in Bad : t \subseteq s => t = s
  <2>1. \A s \in Bad : IsFiniteSet(s)
    BY FS_Subset
  <2> HIDE DEF Bad
  <2>. QED BY <1>1, <2>1, SmallestSet
<1>3. /\ s \subseteq S /\ IsFiniteSet(s)
      /\ \E e \in s : SumFunctionOnSet(f, s) # f[e] + SumFunctionOnSet(f, s \ {e})
  BY FS_Subset
<1>10. PICK e \in s : SumFunctionOnSet(f, s) # f[e] + SumFunctionOnSet(f, s \ {e})
  BY <1>3
<1>4. PICK x \in s : SumFunctionOnSet(f, s) = f[x] + SumFunctionOnSet(f, s \ {x})
  BY <1>3, SumTakesOne
<1>5. x # e
  BY <1>4, <1>10
<1>6. s \ {x} \notin Bad /\ e \in s \ {x} /\ s \ {e} \notin Bad /\ x \in s \ {e}
  <2>1. s \ {x} # s /\ s \ {e} # s /\ s \ {x} \subseteq s /\ s \ {e} \subseteq s
    OBVIOUS
  <2> HIDE DEF Bad
  <2>. QED BY <1>2, <1>5, <2>1
<1>7. SumFunctionOnSet(f, s \ {x}) = f[e] + SumFunctionOnSet(f, s \ {x, e})
  <2>1. (s \ {x}) \ {e} = s \ {x, e}
    OBVIOUS
  <2>. QED BY <1>3, <1>6, <2>1
<1>8. SumFunctionOnSet(f, s \ {e}) = f[x] + SumFunctionOnSet(f, s \ {x, e})
  <2>1. (s \ {e}) \ {x} = s \ {x, e}
    OBVIOUS
  <2>. QED BY <1>3, <1>6, <2>1
<1>9. SumFunctionOnSet(f, s \ {x, e}) \in Int /\ f[x] \in Int /\ f[e] \in Int
  <2>1. IsFiniteSet(s \ {x, e}) /\ \A y \in s \ {x, e} : f[y] \in Int
    BY <1>3, FS_Subset
  <2>. QED BY <1>3, <2>1, SumIsInt
<1>. QED BY <1>4, <1>7, <1>8, <1>9, <1>10

(* The sum over two sets that share nothing is the sum of the two sums.       *)
LEMMA SumOfBoth ==
    ASSUME NEW A, NEW B, IsFiniteSet(A), IsFiniteSet(B), A \cap B = {},
           NEW f, \A x \in A \cup B : f[x] \in Int
    PROVE  SumFunctionOnSet(f, A \cup B) = SumFunctionOnSet(f, A) + SumFunctionOnSet(f, B)
<1> DEFINE Bad == {s \in SUBSET A :
                SumFunctionOnSet(f, s \cup B) # SumFunctionOnSet(f, s) + SumFunctionOnSet(f, B)}
<1>1. SUFFICES ASSUME Bad # {} PROVE FALSE
  OBVIOUS
<1>2. PICK s \in Bad : \A t \in Bad : t \subseteq s => t = s
  <2>1. \A s \in Bad : IsFiniteSet(s)
    BY FS_Subset
  <2> HIDE DEF Bad
  <2>. QED BY <1>1, <2>1, SmallestSet
<1>3. /\ s \subseteq A
      /\ SumFunctionOnSet(f, s \cup B) # SumFunctionOnSet(f, s) + SumFunctionOnSet(f, B)
  OBVIOUS
<1>4. IsFiniteSet(s) /\ SumFunctionOnSet(f, B) \in Int
  BY <1>3, FS_Subset, SumIsInt
<1>5. s # {}
  <2>1. SUFFICES ASSUME s = {} PROVE FALSE
    OBVIOUS
  <2>2. {} \cup B = B
    OBVIOUS
  <2>. QED BY <1>3, <1>4, <2>1, <2>2, SumOfNone
<1>6. PICK x \in s : TRUE
  BY <1>5
<1> DEFINE r == s \ {x}
<1>7. r \notin Bad
  <2>1. r # s /\ r \subseteq s
    OBVIOUS
  <2> HIDE DEF Bad
  <2>. QED BY <1>2, <2>1
<1>8. SumFunctionOnSet(f, r \cup B) = SumFunctionOnSet(f, r) + SumFunctionOnSet(f, B)
  BY <1>3, <1>7
<1>9. SumFunctionOnSet(f, s) = f[x] + SumFunctionOnSet(f, r)
  BY <1>3, <1>4, SumRemove
<1>10. SumFunctionOnSet(f, s \cup B) = f[x] + SumFunctionOnSet(f, r \cup B)
  <2>1. (s \cup B) \ {x} = r \cup B
    BY <1>3
  <2>2. IsFiniteSet(s \cup B) /\ x \in s \cup B /\ \A y \in s \cup B : f[y] \in Int
    BY <1>3, <1>4, FS_Union
  <2> DEFINE u == s \cup B
  <2> HIDE DEF u, r
  <2>3. IsFiniteSet(u) /\ x \in u /\ (\A y \in u : f[y] \in Int) /\ u \ {x} = r \cup B
    BY <2>1, <2>2 DEF u
  <2>4. SumFunctionOnSet(f, u) = f[x] + SumFunctionOnSet(f, u \ {x})
    BY <2>3, SumRemove
  <2>. QED BY <2>3, <2>4 DEF u
<1>11. SumFunctionOnSet(f, r) \in Int /\ f[x] \in Int
  <2>1. IsFiniteSet(r) /\ \A y \in r : f[y] \in Int
    BY <1>3, <1>4, FS_Subset
  <2>. QED BY <1>3, <2>1, SumIsInt
<1> HIDE DEF r
<1>. QED BY <1>3, <1>4, <1>8, <1>9, <1>10, <1>11

(* Adding pointwise adds the sums.                                            *)
LEMMA SumAdds ==
    ASSUME NEW S, IsFiniteSet(S), NEW f, NEW g, NEW h,
           \A x \in S : f[x] \in Int /\ g[x] \in Int /\ h[x] = f[x] + g[x]
    PROVE  SumFunctionOnSet(h, S) = SumFunctionOnSet(f, S) + SumFunctionOnSet(g, S)
<1> DEFINE Bad == {s \in SUBSET S :
                SumFunctionOnSet(h, s) # SumFunctionOnSet(f, s) + SumFunctionOnSet(g, s)}
<1>1. SUFFICES ASSUME Bad # {} PROVE FALSE
  OBVIOUS
<1>2. PICK s \in Bad : \A t \in Bad : t \subseteq s => t = s
  <2>1. \A s \in Bad : IsFiniteSet(s)
    BY FS_Subset
  <2> HIDE DEF Bad
  <2>. QED BY <1>1, <2>1, SmallestSet
<1>3. /\ s \subseteq S /\ IsFiniteSet(s)
      /\ SumFunctionOnSet(h, s) # SumFunctionOnSet(f, s) + SumFunctionOnSet(g, s)
  BY FS_Subset
<1>4. s # {}
  BY <1>3, SumOfNone
<1>5. PICK x \in s : TRUE
  BY <1>4
<1> DEFINE r == s \ {x}
<1>6. r \notin Bad
  <2>1. r # s /\ r \subseteq s
    OBVIOUS
  <2> HIDE DEF Bad
  <2>. QED BY <1>2, <2>1
<1>7. SumFunctionOnSet(h, r) = SumFunctionOnSet(f, r) + SumFunctionOnSet(g, r)
  BY <1>3, <1>6
<1>8. \A y \in S : f[y] \in Int /\ g[y] \in Int /\ h[y] \in Int
  OBVIOUS
<1>9. /\ SumFunctionOnSet(f, s) = f[x] + SumFunctionOnSet(f, r)
      /\ SumFunctionOnSet(g, s) = g[x] + SumFunctionOnSet(g, r)
      /\ SumFunctionOnSet(h, s) = h[x] + SumFunctionOnSet(h, r)
  BY <1>3, <1>8, SumRemove
<1>10. SumFunctionOnSet(f, r) \in Int /\ SumFunctionOnSet(g, r) \in Int
  <2>1. IsFiniteSet(r) /\ \A y \in r : f[y] \in Int /\ g[y] \in Int
    BY <1>3, <1>8, FS_Subset
  <2>. QED BY <2>1, SumIsInt
<1>11. x \in S /\ h[x] = f[x] + g[x]
  BY <1>3
<1> HIDE DEF r
<1>. QED BY <1>3, <1>7, <1>8, <1>9, <1>10, <1>11

(* A sum of zeros is zero.                                                    *)
LEMMA SumOfZeros ==
    ASSUME NEW S, IsFiniteSet(S), NEW f, \A x \in S : f[x] = 0
    PROVE  SumFunctionOnSet(f, S) = 0
<1>1. SumFunctionOnSet(f, S) \in Int
  BY SumIsInt
<1>2. \A x \in S : f[x] \in Int /\ f[x] = f[x] + f[x]
  OBVIOUS
<1>3. SumFunctionOnSet(f, S) = SumFunctionOnSet(f, S) + SumFunctionOnSet(f, S)
  BY <1>2, SumAdds
<1>4. \A n \in Int : n = n + n => n = 0
  OBVIOUS
<1>. QED BY <1>1, <1>3, <1>4

(* A sum with one summand that is not zero is that summand.                   *)
LEMMA SumOfOne ==
    ASSUME NEW S, IsFiniteSet(S), NEW f, NEW e \in S, f[e] \in Int,
           \A x \in S \ {e} : f[x] = 0
    PROVE  SumFunctionOnSet(f, S) = f[e]
<1>1. \A x \in S : f[x] \in Int
  OBVIOUS
<1>2. SumFunctionOnSet(f, S) = f[e] + SumFunctionOnSet(f, S \ {e})
  BY <1>1, SumRemove
<1>3. SumFunctionOnSet(f, S \ {e}) = 0
  <2>1. IsFiniteSet(S \ {e})
    BY FS_Subset
  <2>. QED BY <2>1, SumOfZeros
<1>. QED BY <1>2, <1>3
(* What is mapped from a finite set is finite.                                *)
LEMMA ImageIsFinite ==
    ASSUME NEW S, IsFiniteSet(S), NEW h, NEW T, T = {h[x] : x \in S}
    PROVE  IsFiniteSet(T) /\ Cardinality(T) <= Cardinality(S)
<1> DEFINE g == [x \in S |-> h[x]]
<1>1. g \in Surjection(S, T)
  BY DEF Surjection
<1>. QED BY <1>1, FS_Surjection

(* h sorts S into parts that T names, and w is what f adds up to on each.     *)
Regroups(S, f, h, T, w) ==
    /\ IsFiniteSet(S)
    /\ \A x \in S : f[x] \in Int /\ h[x] \in T
    /\ \A t \in T : \E x \in S : h[x] = t
    /\ \A t \in T : \A A \in SUBSET S :
          (\A x \in S : x \in A <=> h[x] = t) => w[t] = SumFunctionOnSet(f, A)

(* A sum may be taken in parts.                                               *)
LEMMA SumRegroups ==
    ASSUME NEW S, NEW f, NEW h, NEW T, NEW w, Regroups(S, f, h, T, w)
    PROVE  SumFunctionOnSet(w, T) = SumFunctionOnSet(f, S)
<1>. USE DEF Regroups
<1> DEFINE Of(s) == {x \in S : h[x] \in s}
           Bad == {s \in SUBSET T : SumFunctionOnSet(w, s) # SumFunctionOnSet(f, Of(s))}
<1>1. IsFiniteSet(T)
  <2>1. T = {h[x] : x \in S}
    OBVIOUS
  <2>. QED BY <2>1, ImageIsFinite
<1>2. Of(T) = S
  OBVIOUS
<1>3. SUFFICES ASSUME Bad # {} PROVE FALSE
  <2> HIDE DEF Of
  <2>. QED BY <1>2
<1>4. PICK s \in Bad : \A t \in Bad : t \subseteq s => t = s
  <2>1. \A s \in Bad : IsFiniteSet(s)
    BY <1>1, FS_Subset
  <2> HIDE DEF Bad
  <2>. QED BY <1>3, <2>1, SmallestSet
<1>5. /\ s \subseteq T /\ IsFiniteSet(s)
      /\ SumFunctionOnSet(w, s) # SumFunctionOnSet(f, Of(s))
  BY <1>1, FS_Subset
<1>6. s # {}
  <2>1. SUFFICES ASSUME s = {} PROVE FALSE
    OBVIOUS
  <2>2. Of({}) = {}
    OBVIOUS
  <2> HIDE DEF Of
  <2>. QED BY <1>5, <2>1, <2>2, SumOfNone
<1>7. PICK t \in s : TRUE
  BY <1>6
<1> DEFINE r == s \ {t}
<1>8. r \notin Bad
  <2>1. r # s /\ r \subseteq s
    OBVIOUS
  <2> HIDE DEF Bad
  <2>. QED BY <1>4, <2>1
<1>9. SumFunctionOnSet(w, r) = SumFunctionOnSet(f, Of(r))
  <2> HIDE DEF Of
  <2>. QED BY <1>5, <1>8
<1>10. \A u \in T : w[u] \in Int
  <2>1. SUFFICES ASSUME NEW u \in T PROVE SumFunctionOnSet(f, {x \in S : h[x] = u}) \in Int
    <3>1. \A u \in T : w[u] = SumFunctionOnSet(f, {x \in S : h[x] = u})
      OBVIOUS
    <3>. QED BY <3>1
  <2>2. IsFiniteSet({x \in S : h[x] = u}) /\ \A y \in {x \in S : h[x] = u} : f[y] \in Int
    BY FS_Subset
  <2>. QED BY <2>2, SumIsInt
<1>11. SumFunctionOnSet(w, s) = w[t] + SumFunctionOnSet(w, r)
  <2>1. \A u \in s : w[u] \in Int
    BY <1>5, <1>10
  <2>. QED BY <1>5, <2>1, SumRemove
<1>12. SumFunctionOnSet(f, Of(s)) = w[t] + SumFunctionOnSet(f, Of(r))
  <2> DEFINE A == {x \in S : h[x] = t}
             B == Of(r)
  <2>1. Of(s) = A \cup B /\ A \cap B = {} /\ A \subseteq S /\ B \subseteq S
    BY <1>5
  <2>2. IsFiniteSet(A) /\ IsFiniteSet(B) /\ \A x \in A \cup B : f[x] \in Int
    BY <2>1, FS_Subset
  <2>3. w[t] = SumFunctionOnSet(f, A)
    BY <1>5
  <2> HIDE DEF A, B, Of, r
  <2>4. SumFunctionOnSet(f, A \cup B) = SumFunctionOnSet(f, A) + SumFunctionOnSet(f, B)
    BY <2>1, <2>2, SumOfBoth
  <2>. QED BY <2>1, <2>3, <2>4 DEF B
<1> HIDE DEF Of, r
<1>. QED BY <1>5, <1>9, <1>11, <1>12

(* Counting by a function that tells the elements apart changes no sum.       *)
LEMMA SumRenamed ==
    ASSUME NEW S, IsFiniteSet(S), NEW f, \A x \in S : f[x] \in Int,
           NEW h, \A x, y \in S : h[x] = h[y] => x = y,
           NEW w, \A x \in S : w[h[x]] = f[x]
    PROVE  SumFunctionOnSet(w, {h[x] : x \in S}) = SumFunctionOnSet(f, S)
<1> DEFINE T == {h[x] : x \in S}
<1>1. ASSUME NEW t \in T, NEW A \in SUBSET S, \A x \in S : x \in A <=> h[x] = t
      PROVE  w[t] = SumFunctionOnSet(f, A)
  <2>1. PICK x \in S : t = h[x]
    OBVIOUS
  <2>2. A = {x}
    BY <1>1, <2>1
  <2>4. IsFiniteSet({x}) /\ x \in {x} /\ f[x] \in Int
    BY FS_Singleton
  <2>3. SumFunctionOnSet(f, {x}) = f[x]
    BY <2>4, SumOfOne
  <2>. QED BY <2>1, <2>2, <2>3
<1>2. (\A x \in S : h[x] \in T) /\ (\A t \in T : \E x \in S : h[x] = t)
  OBVIOUS
<1> HIDE DEF T
<1>3. SumFunctionOnSet(w, T) = SumFunctionOnSet(f, S)
  <2>1. Regroups(S, f, h, T, w)
    BY <1>1, <1>2 DEF Regroups
  <2>. QED BY <2>1, SumRegroups
<1>. QED BY <1>3 DEF T

(* Larger summands make no smaller sum.                                       *)
LEMMA SumGrows ==
    ASSUME NEW S, IsFiniteSet(S), NEW f, NEW g,
           \A x \in S : f[x] \in Int /\ g[x] \in Int /\ f[x] <= g[x]
    PROVE  SumFunctionOnSet(f, S) <= SumFunctionOnSet(g, S)
<1> DEFINE d == [x \in S |-> g[x] - f[x]]
<1>1. \A x \in S : d[x] \in Nat /\ g[x] = f[x] + d[x]
  OBVIOUS
<1> HIDE DEF d
<1>2. SumFunctionOnSet(g, S) = SumFunctionOnSet(f, S) + SumFunctionOnSet(d, S)
  BY <1>1, SumAdds
<1>3. SumFunctionOnSet(d, S) \in Nat /\ SumFunctionOnSet(f, S) \in Int
  BY <1>1, SumIsNat, SumIsInt
<1>. QED BY <1>2, <1>3

(* A part of natural summands adds up to no more than all of them.            *)
LEMMA SumOfPart ==
    ASSUME NEW S, IsFiniteSet(S), NEW A, A \subseteq S, NEW f, \A x \in S : f[x] \in Nat
    PROVE  /\ SumFunctionOnSet(f, A) <= SumFunctionOnSet(f, S)
           /\ SumFunctionOnSet(f, A) \in Nat /\ SumFunctionOnSet(f, S) \in Nat
<1> DEFINE B == S \ A
<1>1. IsFiniteSet(A) /\ IsFiniteSet(B) /\ A \cap B = {} /\ A \cup B = S
  BY FS_Subset
<1>2. /\ \A x \in A \cup B : f[x] \in Int
      /\ \A x \in A : f[x] \in Nat
      /\ \A x \in B : f[x] \in Nat
  OBVIOUS
<1> HIDE DEF B
<1>3. SumFunctionOnSet(f, S) = SumFunctionOnSet(f, A) + SumFunctionOnSet(f, B)
  BY <1>1, <1>2, SumOfBoth
<1>4. SumFunctionOnSet(f, A) \in Nat /\ SumFunctionOnSet(f, B) \in Nat
  BY <1>1, <1>2, SumIsNat
<1>. QED BY <1>3, <1>4

(* Equal summands add up to their number times one of them.                   *)
LEMMA SumOfEqual ==
    ASSUME NEW S, IsFiniteSet(S), NEW n \in Int, NEW f, \A x \in S : f[x] = n
    PROVE  SumFunctionOnSet(f, S) = Cardinality(S) * n
<1> DEFINE Bad == {s \in SUBSET S : SumFunctionOnSet(f, s) # Cardinality(s) * n}
<1>1. SUFFICES ASSUME Bad # {} PROVE FALSE
  OBVIOUS
<1>2. PICK s \in Bad : \A t \in Bad : t \subseteq s => t = s
  <2>1. \A s \in Bad : IsFiniteSet(s)
    BY FS_Subset
  <2> HIDE DEF Bad
  <2>. QED BY <1>1, <2>1, SmallestSet
<1>3. s \subseteq S /\ IsFiniteSet(s) /\ SumFunctionOnSet(f, s) # Cardinality(s) * n
  BY FS_Subset
<1>4. s # {}
  <2>1. Cardinality({}) = 0
    BY FS_EmptySet
  <2>. QED BY <1>3, <2>1, SumOfNone
<1>5. PICK x \in s : TRUE
  BY <1>4
<1>6. s \ {x} \notin Bad
  <2>1. s \ {x} # s /\ s \ {x} \subseteq s
    OBVIOUS
  <2> HIDE DEF Bad
  <2>. QED BY <1>2, <2>1
<1>7. SumFunctionOnSet(f, s \ {x}) = Cardinality(s \ {x}) * n
  BY <1>3, <1>6
<1>8. SumFunctionOnSet(f, s) = n + SumFunctionOnSet(f, s \ {x})
  <2>1. (\A y \in s : f[y] \in Int) /\ f[x] = n
    BY <1>3
  <2>. QED BY <1>3, <2>1, SumRemove
<1>9. Cardinality(s \ {x}) = Cardinality(s) - 1 /\ Cardinality(s) \in Nat
  BY <1>3, <1>5, FS_RemoveElement, FS_CardinalityType
<1>10. \A c \in Nat : n + (c - 1) * n = c * n
  OBVIOUS
<1>. QED BY <1>3, <1>7, <1>8, <1>9, <1>10
-----------------------------------------------------------------------------
(* Tables *)

(* Rows appended under new ids above base: the acceptable rows of a batch     *)
(* whose keys are new to the table and to the batch.                          *)
Appends(rows, base, events, n, fresh, after) ==
    LET new == {base + i : i \in fresh}
    IN /\ base \in Nat /\ DOMAIN rows \subseteq 1 .. base
       /\ n \in Nat /\ DOMAIN events = 1 .. n
       /\ fresh = {i \in DOMAIN events :
                     /\ events[i].ok
                     /\ events[i].event.key \notin {rows[id].key : id \in DOMAIN rows}
                     /\ \A j \in 1 .. i - 1 :
                           events[j].ok => events[j].event.key # events[i].event.key}
       /\ after = [id \in DOMAIN rows \cup new |->
                     IF id \in new THEN events[id - base].event ELSE rows[id]]

(* Old rows stay, new ones come from fresh positions, and every acceptable    *)
(* row's key is in the table.                                                 *)
LEMMA AppendedRows ==
    ASSUME NEW rows, NEW base, NEW events, NEW n, NEW fresh, NEW after,
           Appends(rows, base, events, n, fresh, after)
    PROVE  /\ DOMAIN after \subseteq 1 .. (base + n)
           /\ DOMAIN rows \subseteq DOMAIN after
           /\ \A id \in DOMAIN rows : after[id] = rows[id]
           /\ \A id \in DOMAIN after \ DOMAIN rows :
                 /\ id > base
                 /\ \E i \in fresh : id = base + i /\ after[id] = events[i].event
           /\ \A i \in DOMAIN events :
                 events[i].ok => events[i].event.key \in {after[id].key : id \in DOMAIN after}
<1> DEFINE new == {base + i : i \in fresh}
<1>1. /\ base \in Nat /\ DOMAIN rows \subseteq 1 .. base
      /\ n \in Nat /\ DOMAIN events = 1 .. n
      /\ fresh = {i \in DOMAIN events :
                    /\ events[i].ok
                    /\ events[i].event.key \notin {rows[id].key : id \in DOMAIN rows}
                    /\ \A j \in 1 .. i - 1 :
                          events[j].ok => events[j].event.key # events[i].event.key}
      /\ after = [id \in DOMAIN rows \cup new |->
                    IF id \in new THEN events[id - base].event ELSE rows[id]]
  BY DEF Appends
<1> USE <1>1
<1>2. fresh \subseteq 1 .. n
  OBVIOUS
<1>4. new \cap DOMAIN rows = {} /\ new \subseteq (base + 1) .. (base + n)
  BY <1>2
<1>5. \A id \in DOMAIN rows : after[id] = rows[id]
  BY <1>4
<1>6. ASSUME NEW i \in fresh
      PROVE  base + i \in new /\ after[base + i] = events[i].event
  <2>1. base + i \in new /\ (base + i) - base = i
    BY <1>2
  <2>. QED BY <2>1
<1>7. DOMAIN after = DOMAIN rows \cup new
  OBVIOUS
<1>8. ASSUME NEW id \in new PROVE \E i \in fresh : id = base + i /\ after[id] = events[i].event
  <2>1. PICK i \in fresh : id = base + i
    OBVIOUS
  <2>. QED BY <1>6, <2>1
<1>9. \A id \in new : id \in Nat /\ id > base /\ id <= base + n
  BY <1>4
<1>10. DOMAIN after \subseteq 1 .. (base + n)
  BY <1>7, <1>9
<1>11. ASSUME NEW i \in DOMAIN events, events[i].ok
       PROVE  events[i].event.key \in {after[id].key : id \in DOMAIN after}
  <2> DEFINE same == {j \in DOMAIN events : events[j].ok /\ events[j].event.key = events[i].event.key}
             recorded == {rows[id].key : id \in DOMAIN rows}
  <2>1. PICK j \in same : \A k \in same : j <= k
    <3>1. same \subseteq Nat /\ same # {}
      BY <1>11
    <3> HIDE DEF same
    <3>. QED BY <3>1, LeastElement
  <2>2. CASE events[i].event.key \in recorded
    BY <1>5, <1>7, <2>2
  <2>3. CASE events[i].event.key \notin recorded
    <3>1. \A k \in 1 .. j - 1 : events[k].ok => events[k].event.key # events[j].event.key
      BY <2>1
    <3>2. j \in fresh
      BY <2>1, <2>3, <3>1
    <3>3. base + j \in DOMAIN after /\ after[base + j].key = events[i].event.key
      BY <1>6, <1>7, <2>1, <3>2
    <3>. QED BY <3>3
  <2>. QED BY <2>2, <2>3
<1>. QED BY <1>5, <1>7, <1>8, <1>9, <1>10, <1>11
-----------------------------------------------------------------------------
(* Ranks *)

(* r numbers a set by a strict total order of it, from 1 on.                  *)
IsRanking(S, R, r) ==
    /\ \A x, y \in S : <<x, y>> \in R => <<y, x>> \notin R
    /\ \A x, y, z \in S : <<x, y>> \in R /\ <<y, z>> \in R => <<x, z>> \in R
    /\ \A x, y \in S : x # y => <<x, y>> \in R \/ <<y, x>> \in R
    /\ r = [x \in S |-> Cardinality({y \in S : <<y, x>> \in R}) + 1]

LEMMA RanksAreOrdered ==
    ASSUME NEW S, IsFiniteSet(S), NEW R, NEW r, IsRanking(S, R, r)
    PROVE  \A x, y \in S : <<x, y>> \in R => r[x] < r[y]
<1> DEFINE Below(x) == {y \in S : <<y, x>> \in R}
<1>1. SUFFICES ASSUME NEW x \in S, NEW y \in S, <<x, y>> \in R
               PROVE  Cardinality(Below(x)) < Cardinality(Below(y)) /\ Cardinality(Below(x)) \in Nat /\ Cardinality(Below(y)) \in Nat
  BY DEF IsRanking
<1>2. Below(x) \subseteq Below(y) /\ x \in Below(y) /\ x \notin Below(x) /\ Below(y) \subseteq S
  BY <1>1 DEF IsRanking
<1> HIDE DEF Below
<1>3. IsFiniteSet(Below(y)) /\ Cardinality(Below(y)) \in Nat
  BY <1>2, FS_Subset, FS_CardinalityType
<1>4. IsFiniteSet(Below(x)) /\ Cardinality(Below(x)) <= Cardinality(Below(y))
      /\ (Cardinality(Below(y)) = Cardinality(Below(x)) => Below(y) = Below(x))
  BY <1>2, <1>3, FS_Subset
<1>5. Cardinality(Below(x)) \in Nat
  BY <1>4, FS_CardinalityType
<1>. QED BY <1>2, <1>3, <1>4, <1>5

(* The ranks are 1, 2, ... without a gap.                                     *)
LEMMA RanksFill ==
    ASSUME NEW S, IsFiniteSet(S), NEW R, NEW r, IsRanking(S, R, r)
    PROVE  /\ Cardinality(S) \in Nat /\ \A x \in S : r[x] \in 1 .. Cardinality(S)
           /\ \A x, y \in S : r[x] = r[y] => x = y
           /\ \A n \in 1 .. Cardinality(S) : \E x \in S : r[x] = n
<1> DEFINE Below(x) == {y \in S : <<y, x>> \in R}
           N == 1 .. Cardinality(S)
<1>1. Cardinality(S) \in Nat
  BY FS_CardinalityType
<1>2. ASSUME NEW x \in S PROVE r[x] \in N
  <2>1. r[x] = Cardinality(Below(x)) + 1
    BY DEF IsRanking
  <2>2. Below(x) \subseteq S \ {x}
    BY DEF IsRanking
  <2>3. IsFiniteSet(S \ {x}) /\ Cardinality(S \ {x}) = Cardinality(S) - 1
    BY FS_RemoveElement
  <2> HIDE DEF Below
  <2>4. IsFiniteSet(Below(x)) /\ Cardinality(Below(x)) <= Cardinality(S) - 1
    BY <2>2, <2>3, FS_Subset
  <2>5. Cardinality(Below(x)) \in Nat
    BY <2>4, FS_CardinalityType
  <2>. QED BY <1>1, <2>1, <2>4, <2>5
<1>3. ASSUME NEW x \in S, NEW y \in S, r[x] = r[y] PROVE x = y
  <2>1. ~(r[x] < r[y]) /\ ~(r[y] < r[x])
    BY <1>2, <1>3
  <2>2. <<x, y>> \notin R /\ <<y, x>> \notin R
    BY <2>1, RanksAreOrdered
  <2>. QED BY <2>2 DEF IsRanking
<1>4. IsFiniteSet(N) /\ Cardinality(N) = Cardinality(S)
  BY <1>1, FS_Interval
<1>5. r \in [S -> N]
  BY <1>2 DEF IsRanking
<1>6. r \in Injection(S, N)
  BY <1>3, <1>5, Fun_IsInj
<1>7. r \in Surjection(S, N)
  BY <1>4, <1>6, FS_Injection
<1>8. \A n \in N : \E x \in S : r[x] = n
  BY <1>7 DEF Surjection
<1>. QED BY <1>1, <1>2, <1>3, <1>8

(* How many have a rank up to n: n of them, or all.                           *)
LEMMA FirstOfRanks ==
    ASSUME NEW S, IsFiniteSet(S), NEW R, NEW r, IsRanking(S, R, r), NEW n \in Nat
    PROVE  /\ IsFiniteSet({x \in S : r[x] <= n})
           /\ \/ Cardinality(S) > n /\ Cardinality({x \in S : r[x] <= n}) = n
              \/ Cardinality(S) <= n /\ {x \in S : r[x] <= n} = S
<1> DEFINE T == {x \in S : r[x] <= n}
           t == [x \in T |-> r[x]]
<1>1. /\ Cardinality(S) \in Nat /\ \A x \in S : r[x] \in 1 .. Cardinality(S)
      /\ \A x, y \in S : r[x] = r[y] => x = y
      /\ \A k \in 1 .. Cardinality(S) : \E x \in S : r[x] = k
  BY RanksFill
<1>2. IsFiniteSet(T)
  BY FS_Subset
<1>3. CASE Cardinality(S) <= n
  BY <1>1, <1>2, <1>3
<1>4. CASE Cardinality(S) > n
  <2>1. t \in [T -> 1 .. n]
    BY <1>1
  <2>2. \A x, y \in T : t[x] = t[y] => x = y
    BY <1>1
  <2>3. \A k \in 1 .. n : \E x \in T : t[x] = k
    <3>1. SUFFICES ASSUME NEW k \in 1 .. n PROVE \E x \in T : t[x] = k
      OBVIOUS
    <3>2. k \in 1 .. Cardinality(S)
      BY <1>1, <1>4
    <3>3. PICK x \in S : r[x] = k
      BY <1>1, <3>2
    <3>. QED BY <3>3
  <2> HIDE DEF T, t
  <2>4. t \in Injection(T, 1 .. n)
    BY <2>1, <2>2, Fun_IsInj
  <2>5. t \in Surjection(T, 1 .. n)
    BY <2>1, <2>3, Fun_IsSurj
  <2>6. Cardinality(1 .. n) = n
    BY FS_Interval
  <2>7. Cardinality(T) = n
    BY <1>2, <2>4, <2>5, <2>6, FS_Surjection
  <2>. QED BY <1>2, <1>4, <2>7 DEF T
<1>. QED BY <1>1, <1>3, <1>4
=============================================================================

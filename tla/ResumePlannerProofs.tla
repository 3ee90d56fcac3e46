------------------------ MODULE ResumePlannerProofs ------------------------
(***************************************************************************)
(* Facts about the operators of ResumePlanner, for every configuration and *)
(* every snapshot: what a sum over a set of torrents is, that the sort     *)
(* enumerates the candidates in order, what the loop has left after each   *)
(* candidate, and so what a plan may cost.                                 *)
(*                                                                         *)
(* The loop and the sums are recursive.  The proofs by induction are done  *)
(* with least counterexamples: if a statement failed somewhere, it would   *)
(* fail at a least natural number, or at a least subset, where it does not *)
(* fail below.                                                             *)
(***************************************************************************)
EXTENDS ResumePlanner, FiniteSetTheorems, TLAPS

-----------------------------------------------------------------------------
(* Least counterexamples *)

(* A set of natural numbers that is not empty has a least element.         *)
LEMMA LeastNumber ==
  ASSUME NEW T \in SUBSET Nat, T # {}
  PROVE  \E n \in T : \A m \in T : ~(m < n)
<1>1. PICK n \in T : \A m \in T : ~(<<m, n>> \in OpToRel(<, Nat))
  BY NatLessThanWellFounded, WFMin, Zenon
<1>2. ASSUME NEW m \in T, m < n
      PROVE  FALSE
  BY <1>1, <1>2 DEF OpToRel
<1> QED
  BY <1>2

(* Among subsets of a finite set there is one that includes no other.      *)
LEMMA LeastSubset ==
  ASSUME NEW S, IsFiniteSet(S), NEW T \in SUBSET (SUBSET S), T # {}
  PROVE  \E a \in T : \A b \in T : b \subseteq a => b = a
<1>1. IsWellFoundedOn(StrictSubsetOrdering(S), SUBSET S)
  BY FS_StrictSubsetOrderingWellFounded, FS_FiniteSubsetsOfFinite, Zenon
<1>2. PICK a \in T : \A b \in T : ~(<<b, a>> \in StrictSubsetOrdering(S))
  BY <1>1, WFMin, Zenon
<1>3. \A b \in T : b \subseteq a => b = a
  BY <1>2 DEF StrictSubsetOrdering
<1> QED
  BY <1>3

(* So a property (a set of subsets) that the empty set has and that every  *)
(* added element keeps is one of the whole set.                            *)
LEMMA SetInduction ==
  ASSUME NEW S, IsFiniteSet(S), NEW Good \in SUBSET (SUBSET S),
         {} \in Good,
         \A s \in Good : \A x \in S \ s : s \cup {x} \in Good
  PROVE  S \in Good
<1> DEFINE Wrong == {s \in SUBSET S : s \notin Good}
<1> SUFFICES ASSUME Wrong # {}
             PROVE  FALSE
  OBVIOUS
<1>1. PICK a \in Wrong : \A b \in Wrong : b \subseteq a => b = a
  <2>1. Wrong \in SUBSET (SUBSET S)
    OBVIOUS
  <2> HIDE DEF Wrong
  <2> QED
    BY <2>1, LeastSubset
<1>2. PICK x \in S : x \in a
  <2>1. a \in SUBSET S /\ a \notin Good
    BY <1>1
  <2>2. a # {}
    BY <2>1, Zenon
  <2> QED
    BY <2>1, <2>2
<1>3. a \ {x} \in Good
  BY <1>1, <1>2
<1>4. (a \ {x}) \cup {x} = a /\ x \in S \ (a \ {x})
  BY <1>1, <1>2
<1>5. (a \ {x}) \cup {x} \in Good
  <2> HIDE DEF Wrong
  <2> QED
    BY <1>3, <1>4, Zenon
<1>6. a \in Good
  BY <1>4, <1>5, Zenon
<1> QED
  BY <1>1, <1>6

(* The same for numbers.                                                   *)
LEMMA NumberInduction ==
  ASSUME NEW N \in Nat, NEW Good, 0 \in Good,
         \A n \in 0..(N - 1) : n \in Good => n + 1 \in Good
  PROVE  \A n \in 0..N : n \in Good
<1> DEFINE Wrong == {n \in 0..N : n \notin Good}
<1> SUFFICES ASSUME Wrong # {}
             PROVE  FALSE
  OBVIOUS
<1>1. PICK n \in Wrong : \A m \in Wrong : ~(m < n)
  <2>1. Wrong \in SUBSET Nat
    OBVIOUS
  <2> HIDE DEF Wrong
  <2> QED
    BY <2>1, LeastNumber
<1>2. n # 0 /\ n - 1 \in 0..(N - 1)
  BY <1>1
<1>3. n - 1 \in Good
  BY <1>1, <1>2
<1> QED
  BY <1>1, <1>2, <1>3

-----------------------------------------------------------------------------
(* Sums.  SumFunctionOnSet takes the elements out in the order of CHOOSE.  *)

Picked(S) == CHOOSE x \in S : TRUE

SumsUp(f, S, g) ==
  g = [s \in SUBSET S |->
         IF s = {} THEN 0 ELSE f[Picked(s)] + g[s \ {Picked(s)}]]

Sums(f, S) == CHOOSE g : SumsUp(f, S, g)

LEMMA SumIsSums ==
  ASSUME NEW f, NEW S
  PROVE  SumFunctionOnSet(f, S) = Sums(f, S)[S]
BY DEF SumFunctionOnSet, FoldFunctionOnSet, MapThenFoldSet, Sums, SumsUp,
       Picked

LEMMA PickedIn ==
  ASSUME NEW S, S # {}
  PROVE  Picked(S) \in S
BY DEF Picked

(* Two tables of partial sums agree where both have an entry.              *)
LEMMA SumsUpOnce ==
  ASSUME NEW f, NEW S, IsFiniteSet(S), NEW R \in SUBSET S, NEW g, NEW h,
         SumsUp(f, S, g), SumsUp(f, R, h)
  PROVE  \A s \in SUBSET R : g[s] = h[s]
<1> DEFINE Wrong == {s \in SUBSET R : g[s] # h[s]}
<1> SUFFICES ASSUME Wrong # {}
             PROVE  FALSE
  OBVIOUS
<1>1. PICK a \in Wrong : \A b \in Wrong : b \subseteq a => b = a
  <2>1. IsFiniteSet(R)
    BY FS_Subset
  <2>2. Wrong \in SUBSET (SUBSET R)
    OBVIOUS
  <2> HIDE DEF Wrong
  <2> QED
    BY <2>1, <2>2, LeastSubset
<1>2. /\ g[a] = IF a = {} THEN 0 ELSE f[Picked(a)] + g[a \ {Picked(a)}]
      /\ h[a] = IF a = {} THEN 0 ELSE f[Picked(a)] + h[a \ {Picked(a)}]
  BY <1>1 DEF SumsUp
<1>3. a # {}
  BY <1>1, <1>2
<1>4. a \ {Picked(a)} \in SUBSET R /\ a \ {Picked(a)} # a
  BY <1>1, <1>3, PickedIn
<1>5. g[a \ {Picked(a)}] = h[a \ {Picked(a)}]
  BY <1>1, <1>4
<1> QED
  BY <1>1, <1>2, <1>5

(* Such a table exists for every finite set.                               *)
LEMMA SumsExist ==
  ASSUME NEW f, NEW S, IsFiniteSet(S)
  PROVE  SumsUp(f, S, Sums(f, S))
<1> DEFINE Wrong == {s \in SUBSET S : ~SumsUp(f, s, Sums(f, s))}
<1> SUFFICES ASSUME Wrong # {}
             PROVE  FALSE
  OBVIOUS
<1>1. PICK a \in Wrong : \A b \in Wrong : b \subseteq a => b = a
  <2>1. Wrong \in SUBSET (SUBSET S)
    OBVIOUS
  <2> HIDE DEF Wrong
  <2> QED
    BY <2>1, LeastSubset
<1> DEFINE Rest(s) == s \ {Picked(s)}
           g == [s \in SUBSET a |->
                   IF s = {} THEN 0
                   ELSE f[Picked(s)] + Sums(f, Rest(s))[Rest(s)]]
<1>2. ASSUME NEW s \in SUBSET a, s # {}
      PROVE  g[Rest(s)] = Sums(f, Rest(s))[Rest(s)]
  <2>1. Rest(s) \in SUBSET a /\ Rest(s) # a
    BY <1>2, PickedIn
  <2>2. SumsUp(f, Rest(s), Sums(f, Rest(s))) /\ IsFiniteSet(Rest(s))
    <3>1. Rest(s) \in SUBSET S
      BY <1>1, <2>1
    <3>2. IsFiniteSet(Rest(s))
      BY <3>1, FS_Subset, Zenon
    <3> QED
      BY <3>1, <3>2, <1>1, <2>1
  <2>3. CASE Rest(s) = {}
    <3>1. Sums(f, Rest(s))[Rest(s)] = 0
      BY <2>2, <2>3 DEF SumsUp
    <3> QED
      BY <3>1, <2>1, <2>3
  <2>4. CASE Rest(s) # {}
    <3> DEFINE r == Rest(s)
    <3>1. Rest(r) \in SUBSET r /\ Rest(r) \in SUBSET a /\ Rest(r) # a
      BY <2>1, <2>4, PickedIn
    <3>2. SumsUp(f, Rest(r), Sums(f, Rest(r)))
      BY <1>1, <3>1
    <3>3. Sums(f, r)[Rest(r)] = Sums(f, Rest(r))[Rest(r)]
      <4> HIDE DEF Rest
      <4>1. \A u \in SUBSET Rest(r) : Sums(f, r)[u] = Sums(f, Rest(r))[u]
        BY <2>2, <3>1, <3>2, SumsUpOnce
      <4> QED
        BY <4>1
    <3>4. Sums(f, r)[r] = f[Picked(r)] + Sums(f, r)[Rest(r)]
      BY <2>2, <2>4 DEF SumsUp
    <3>5. g[r] = f[Picked(r)] + Sums(f, Rest(r))[Rest(r)]
      BY <2>1, <2>4
    <3> QED
      BY <3>3, <3>4, <3>5
  <2> QED
    BY <2>3, <2>4
<1>3. SumsUp(f, a, g)
  <2>1. ASSUME NEW s \in SUBSET a
        PROVE  g[s] = IF s = {} THEN 0 ELSE f[Picked(s)] + g[Rest(s)]
    <3>1. g[s] = IF s = {} THEN 0
                 ELSE f[Picked(s)] + Sums(f, Rest(s))[Rest(s)]
      OBVIOUS
    <3> QED
      BY <3>1, <1>2
  <2>2. g = [s \in SUBSET a |->
               IF s = {} THEN 0 ELSE f[Picked(s)] + g[Rest(s)]]
    BY <2>1
  <2> QED
    BY <2>2 DEF SumsUp
<1>4. SumsUp(f, a, Sums(f, a))
  <2> HIDE DEF g
  <2> QED
    BY <1>3 DEF Sums
<1> QED
  BY <1>1, <1>4

LEMMA SumOfNone ==
  ASSUME NEW f
  PROVE  SumFunctionOnSet(f, {}) = 0
<1>1. SumsUp(f, {}, Sums(f, {}))
  BY SumsExist, FS_EmptySet
<1>2. Sums(f, {})[{}] = 0
  BY <1>1 DEF SumsUp
<1> QED
  BY <1>2, SumIsSums

(* The recursion of the definition *)
LEMMA SumPicked ==
  ASSUME NEW f, NEW S, IsFiniteSet(S), S # {}
  PROVE  SumFunctionOnSet(f, S) =
           f[Picked(S)] + SumFunctionOnSet(f, S \ {Picked(S)})
<1> DEFINE R == S \ {Picked(S)}
<1>1. SumsUp(f, S, Sums(f, S))
  BY SumsExist
<1>2. IsFiniteSet(R) /\ R \in SUBSET S
  BY FS_RemoveElement
<1>3. SumsUp(f, R, Sums(f, R))
  BY <1>2, SumsExist
<1>4. Sums(f, S)[S] = f[Picked(S)] + Sums(f, S)[R]
  BY <1>1 DEF SumsUp
<1>5. Sums(f, S)[R] = Sums(f, R)[R]
  <2> HIDE DEF R
  <2>1. \A s \in SUBSET R : Sums(f, S)[s] = Sums(f, R)[s]
    BY <1>1, <1>2, <1>3, SumsUpOnce
  <2> QED
    BY <2>1
<1> QED
  BY <1>4, <1>5, SumIsSums

LEMMA SumType ==
  ASSUME NEW f, NEW S, IsFiniteSet(S), \A x \in S : f[x] \in Int
  PROVE  SumFunctionOnSet(f, S) \in Int
<1> DEFINE Wrong == {s \in SUBSET S : SumFunctionOnSet(f, s) \notin Int}
<1> SUFFICES ASSUME Wrong # {}
             PROVE  FALSE
  OBVIOUS
<1>1. PICK a \in Wrong : \A b \in Wrong : b \subseteq a => b = a
  <2>1. Wrong \in SUBSET (SUBSET S)
    OBVIOUS
  <2> HIDE DEF Wrong
  <2> QED
    BY <2>1, LeastSubset
<1>2. a # {}
  <2>1. SumFunctionOnSet(f, a) \notin Int
    BY <1>1
  <2>2. SumFunctionOnSet(f, {}) \in Int
    BY SumOfNone
  <2> QED
    BY <2>1, <2>2
<1>3. IsFiniteSet(a)
  BY <1>1, FS_Subset
<1>4. Picked(a) \in a
  BY <1>2, PickedIn
<1>5. SumFunctionOnSet(f, a \ {Picked(a)}) \in Int
  BY <1>1, <1>4
<1>6. f[Picked(a)] \in Int
  BY <1>1, <1>4
<1>7. SumFunctionOnSet(f, a) \in Int
  BY <1>2, <1>3, <1>5, <1>6, SumPicked
<1> QED
  BY <1>1, <1>7

(* Any element may be taken out first.                                     *)
LEMMA SumTake ==
  ASSUME NEW f, NEW S, IsFiniteSet(S), \A x \in S : f[x] \in Int,
         NEW y \in S
  PROVE  SumFunctionOnSet(f, S) = f[y] + SumFunctionOnSet(f, S \ {y})
<1> DEFINE Sum(s) == SumFunctionOnSet(f, s)
           Wrong == {s \in SUBSET S :
                       \E x \in s : Sum(s) # f[x] + Sum(s \ {x})}
<1> SUFFICES ASSUME Wrong # {}
             PROVE  FALSE
  OBVIOUS
<1>1. PICK a \in Wrong : \A b \in Wrong : b \subseteq a => b = a
  <2>1. Wrong \in SUBSET (SUBSET S)
    OBVIOUS
  <2> HIDE DEF Wrong
  <2> QED
    BY <2>1, LeastSubset
<1>2. PICK x \in a : Sum(a) # f[x] + Sum(a \ {x})
  BY <1>1
<1> DEFINE p == Picked(a)
<1>3. \A s \in SUBSET S : IsFiniteSet(s) /\ Sum(s) \in Int
  <2> SUFFICES ASSUME NEW s \in SUBSET S
               PROVE  IsFiniteSet(s) /\ Sum(s) \in Int
    OBVIOUS
  <2>1. IsFiniteSet(s)
    BY FS_Subset
  <2> QED
    BY <2>1, SumType
<1>4. p \in a /\ p \in S /\ x \in S /\ p # x
  <2>1. p \in a
    BY <1>2, PickedIn
  <2>2. Sum(a) = f[p] + Sum(a \ {p})
    BY <1>1, <1>2, <1>3, SumPicked
  <2> QED
    BY <1>1, <1>2, <2>1, <2>2
<1>5. Sum(a) = f[p] + Sum(a \ {p})
  BY <1>1, <1>2, <1>3, SumPicked
<1>6. Sum(a \ {p}) = f[x] + Sum((a \ {p}) \ {x})
  <2>1. a \ {p} \notin Wrong /\ x \in a \ {p}
    BY <1>1, <1>2, <1>4
  <2> QED
    BY <2>1, <1>1
<1>7. Sum(a \ {x}) = f[p] + Sum((a \ {x}) \ {p})
  <2>1. a \ {x} \notin Wrong /\ p \in a \ {x}
    BY <1>1, <1>2, <1>4
  <2> QED
    BY <2>1, <1>1
<1>8. (a \ {p}) \ {x} = (a \ {x}) \ {p}
  OBVIOUS
<1>9. /\ Sum((a \ {p}) \ {x}) \in Int
      /\ f[x] \in Int
      /\ f[p] \in Int
  BY <1>1, <1>3, <1>4
<1> HIDE DEF Sum, p
<1> QED
  BY <1>2, <1>5, <1>6, <1>7, <1>8, <1>9

LEMMA SumAdd ==
  ASSUME NEW f, NEW S, IsFiniteSet(S), \A x \in S : f[x] \in Int,
         NEW y, y \notin S, f[y] \in Int
  PROVE  SumFunctionOnSet(f, S \cup {y}) = SumFunctionOnSet(f, S) + f[y]
<1>1. IsFiniteSet(S \cup {y}) /\ \A x \in S \cup {y} : f[x] \in Int
  BY FS_AddElement
<1>2. (S \cup {y}) \ {y} = S
  OBVIOUS
<1>3. SumFunctionOnSet(f, S \cup {y}) = f[y] + SumFunctionOnSet(f, S)
  BY <1>1, <1>2, SumTake
<1> QED
  BY <1>3, SumType

(* Functions that agree on a set have the same sum over it.                *)
LEMMA SumSame ==
  ASSUME NEW f, NEW g, NEW S, IsFiniteSet(S),
         \A x \in S : f[x] \in Int /\ f[x] = g[x]
  PROVE  SumFunctionOnSet(f, S) = SumFunctionOnSet(g, S)
<1> DEFINE Good ==
             {s \in SUBSET S : SumFunctionOnSet(f, s) = SumFunctionOnSet(g, s)}
<1>1. {} \in Good
  BY SumOfNone
<1>2. ASSUME NEW s \in Good, NEW x \in S \ s
      PROVE  s \cup {x} \in Good
  <2>1. IsFiniteSet(s) /\ \A y \in s : f[y] \in Int /\ g[y] \in Int
    BY FS_Subset
  <2>2. /\ SumFunctionOnSet(f, s \cup {x}) = SumFunctionOnSet(f, s) + f[x]
        /\ SumFunctionOnSet(g, s \cup {x}) = SumFunctionOnSet(g, s) + g[x]
    BY <2>1, SumAdd
  <2> QED
    BY <2>2
<1>3. S \in Good
  <2> HIDE DEF Good
  <2>1. Good \in SUBSET (SUBSET S)
    BY DEF Good
  <2> QED
    BY <1>1, <1>2, <2>1, SetInduction
<1> QED
  BY <1>3

(* Two sets that have no element in common                                 *)
LEMMA SumUnion ==
  ASSUME NEW f, NEW R, NEW S, IsFiniteSet(R), IsFiniteSet(S),
         R \cap S = {}, \A x \in R \cup S : f[x] \in Int
  PROVE  SumFunctionOnSet(f, R \cup S) =
           SumFunctionOnSet(f, R) + SumFunctionOnSet(f, S)
<1> DEFINE Good == {s \in SUBSET S :
                      SumFunctionOnSet(f, R \cup s) =
                        SumFunctionOnSet(f, R) + SumFunctionOnSet(f, s)}
<1>0. SumFunctionOnSet(f, R) \in Int
  BY SumType
<1>1. {} \in Good
  <2>1. R \cup {} = R
    OBVIOUS
  <2> QED
    BY <1>0, <2>1, SumOfNone
<1>2. ASSUME NEW s \in Good, NEW x \in S \ s
      PROVE  s \cup {x} \in Good
  <2>1. /\ IsFiniteSet(s) /\ \A y \in s : f[y] \in Int
        /\ IsFiniteSet(R \cup s) /\ \A y \in R \cup s : f[y] \in Int
    <3>1. IsFiniteSet(s)
      BY FS_Subset
    <3> QED
      BY <3>1, FS_Union
  <2>2. x \notin s /\ x \notin R \cup s /\ f[x] \in Int
    OBVIOUS
  <2>3. SumFunctionOnSet(f, s \cup {x}) = SumFunctionOnSet(f, s) + f[x]
    BY <2>1, <2>2, SumAdd
  <2>4. SumFunctionOnSet(f, (R \cup s) \cup {x}) =
          SumFunctionOnSet(f, R \cup s) + f[x]
    BY <2>1, <2>2, SumAdd
  <2>5. SumFunctionOnSet(f, R \cup (s \cup {x})) =
          SumFunctionOnSet(f, (R \cup s) \cup {x})
    <3>1. R \cup (s \cup {x}) = (R \cup s) \cup {x}
      OBVIOUS
    <3> QED
      BY <3>1, Zenon
  <2>6. SumFunctionOnSet(f, s) \in Int
    BY <2>1, SumType
  <2>7. SumFunctionOnSet(f, R \cup s) =
          SumFunctionOnSet(f, R) + SumFunctionOnSet(f, s)
    OBVIOUS
  <2>8. SumFunctionOnSet(f, R \cup (s \cup {x})) =
          SumFunctionOnSet(f, R) + SumFunctionOnSet(f, s \cup {x})
    BY <1>0, <2>2, <2>3, <2>4, <2>5, <2>6, <2>7
  <2>9. s \cup {x} \in SUBSET S
    OBVIOUS
  <2> QED
    BY <2>8, <2>9
<1>3. S \in Good
  <2> HIDE DEF Good
  <2>1. Good \in SUBSET (SUBSET S)
    BY DEF Good
  <2> QED
    BY <1>1, <1>2, <2>1, SetInduction
<1> QED
  BY <1>3

(* Bounds: each element at least m, each at most m, and term by term       *)
LEMMA SumAtLeast ==
  ASSUME NEW f, NEW S, IsFiniteSet(S), NEW m \in Int,
         \A x \in S : f[x] \in Int /\ f[x] >= m
  PROVE  SumFunctionOnSet(f, S) >= Cardinality(S) * m
<1> DEFINE Good == {s \in SUBSET S :
                      SumFunctionOnSet(f, s) >= Cardinality(s) * m}
<1>1. {} \in Good
  BY SumOfNone, FS_EmptySet
<1>2. ASSUME NEW s \in Good, NEW x \in S \ s
      PROVE  s \cup {x} \in Good
  <2>1. IsFiniteSet(s)
    BY FS_Subset
  <2>2. SumFunctionOnSet(f, s \cup {x}) = SumFunctionOnSet(f, s) + f[x]
    BY <2>1, SumAdd
  <2>3. Cardinality(s \cup {x}) = Cardinality(s) + 1 /\ Cardinality(s) \in Nat
    BY <2>1, FS_AddElement, FS_CardinalityType
  <2>4. (Cardinality(s) + 1) * m = Cardinality(s) * m + m
    BY <2>3
  <2>5. /\ SumFunctionOnSet(f, s) \in Int
        /\ Cardinality(s) * m \in Int
        /\ f[x] \in Int /\ f[x] >= m
        /\ SumFunctionOnSet(f, s) >= Cardinality(s) * m
    BY <2>1, <2>3, SumType
  <2>6. SumFunctionOnSet(f, s \cup {x}) >= Cardinality(s \cup {x}) * m
    BY <2>2, <2>3, <2>4, <2>5
  <2> QED
    BY <2>6
<1>3. S \in Good
  <2> HIDE DEF Good
  <2>1. Good \in SUBSET (SUBSET S)
    BY DEF Good
  <2> QED
    BY <1>1, <1>2, <2>1, SetInduction
<1> QED
  BY <1>3

LEMMA SumAtMost ==
  ASSUME NEW f, NEW S, IsFiniteSet(S), NEW m \in Int,
         \A x \in S : f[x] \in Int /\ f[x] <= m
  PROVE  SumFunctionOnSet(f, S) <= Cardinality(S) * m
<1> DEFINE Good == {s \in SUBSET S :
                      SumFunctionOnSet(f, s) <= Cardinality(s) * m}
<1>1. {} \in Good
  BY SumOfNone, FS_EmptySet
<1>2. ASSUME NEW s \in Good, NEW x \in S \ s
      PROVE  s \cup {x} \in Good
  <2>1. IsFiniteSet(s)
    BY FS_Subset
  <2>2. SumFunctionOnSet(f, s \cup {x}) = SumFunctionOnSet(f, s) + f[x]
    BY <2>1, SumAdd
  <2>3. Cardinality(s \cup {x}) = Cardinality(s) + 1 /\ Cardinality(s) \in Nat
    BY <2>1, FS_AddElement, FS_CardinalityType
  <2>4. (Cardinality(s) + 1) * m = Cardinality(s) * m + m
    BY <2>3
  <2>5. /\ SumFunctionOnSet(f, s) \in Int
        /\ Cardinality(s) * m \in Int
        /\ f[x] \in Int /\ f[x] <= m
        /\ SumFunctionOnSet(f, s) <= Cardinality(s) * m
    BY <2>1, <2>3, SumType
  <2>6. SumFunctionOnSet(f, s \cup {x}) <= Cardinality(s \cup {x}) * m
    BY <2>2, <2>3, <2>4, <2>5
  <2> QED
    BY <2>6
<1>3. S \in Good
  <2> HIDE DEF Good
  <2>1. Good \in SUBSET (SUBSET S)
    BY DEF Good
  <2> QED
    BY <1>1, <1>2, <2>1, SetInduction
<1> QED
  BY <1>3

LEMMA SumOrder ==
  ASSUME NEW f, NEW g, NEW S, IsFiniteSet(S),
         \A x \in S : f[x] \in Int /\ g[x] \in Int /\ f[x] <= g[x]
  PROVE  SumFunctionOnSet(f, S) <= SumFunctionOnSet(g, S)
<1> DEFINE Good == {s \in SUBSET S :
                      SumFunctionOnSet(f, s) <= SumFunctionOnSet(g, s)}
<1>1. {} \in Good
  BY SumOfNone
<1>2. ASSUME NEW s \in Good, NEW x \in S \ s
      PROVE  s \cup {x} \in Good
  <2>1. IsFiniteSet(s)
    BY FS_Subset
  <2>2. /\ SumFunctionOnSet(f, s \cup {x}) = SumFunctionOnSet(f, s) + f[x]
        /\ SumFunctionOnSet(g, s \cup {x}) = SumFunctionOnSet(g, s) + g[x]
    BY <2>1, SumAdd
  <2>3. SumFunctionOnSet(f, s) \in Int /\ SumFunctionOnSet(g, s) \in Int
    BY <2>1, SumType
  <2>4. SumFunctionOnSet(f, s \cup {x}) <= SumFunctionOnSet(g, s \cup {x})
    BY <2>2, <2>3
  <2> QED
    BY <2>4
<1>3. S \in Good
  <2> HIDE DEF Good
  <2>1. Good \in SUBSET (SUBSET S)
    BY DEF Good
  <2> QED
    BY <1>1, <1>2, <2>1, SetInduction
<1> QED
  BY <1>3

(* What is left out of a sum of sizes makes it no larger.                   *)
LEMMA SumPart ==
  ASSUME NEW f, NEW S, IsFiniteSet(S), NEW R \in SUBSET S,
         \A x \in S : f[x] \in Int /\ f[x] >= 0
  PROVE  SumFunctionOnSet(f, R) <= SumFunctionOnSet(f, S)
<1>1. IsFiniteSet(R) /\ IsFiniteSet(S \ R)
  BY FS_Subset, FS_Difference
<1>2. SumFunctionOnSet(f, S) = SumFunctionOnSet(f, R \cup (S \ R))
  <2>1. S = R \cup (S \ R)
    OBVIOUS
  <2> QED
    BY <2>1, Zenon
<1>3. SumFunctionOnSet(f, R \cup (S \ R)) =
        SumFunctionOnSet(f, R) + SumFunctionOnSet(f, S \ R)
  BY <1>1, SumUnion
<1>4. SumFunctionOnSet(f, R) \in Int /\ SumFunctionOnSet(f, S \ R) \in Int
  BY <1>1, SumType
<1>5. SumFunctionOnSet(f, S \ R) >= Cardinality(S \ R) * 0
  BY <1>1, SumAtLeast
<1>6. Cardinality(S \ R) * 0 = 0
  BY <1>1, FS_CardinalityType
<1> QED
  BY <1>2, <1>3, <1>4, <1>5, <1>6

-----------------------------------------------------------------------------
(* The sort *)

(* Torrents of which the planner may be asked: they have a size and a      *)
(* place in the order of hashes.                                           *)
Sized(snap, hashes) ==
  /\ IsFiniteSet(hashes)
  /\ hashes \subseteq DOMAIN HashOrder
  /\ hashes \subseteq DOMAIN snap
  /\ \A h \in hashes : snap[h].left \in Int

(* The lexical order, written out                                          *)
LEMMA SortsBeforeIs ==
  ASSUME NEW policy, NEW snap, NEW g, NEW h
  PROVE  LET s == SizeKey(policy, snap[g].left)
             t == SizeKey(policy, snap[h].left)
         IN  SortsBefore(policy, snap, g, h) <=>
               \/ s < t
               \/ s = t /\ -Priority[g] < -Priority[h]
               \/ /\ s = t /\ -Priority[g] = -Priority[h]
                  /\ AddedOn[g] < AddedOn[h]
               \/ /\ s = t /\ -Priority[g] = -Priority[h]
                  /\ AddedOn[g] = AddedOn[h] /\ HashOrder[g] < HashOrder[h]
<1> DEFINE a == SortKey(policy, snap, g)
           b == SortKey(policy, snap, h)
<1>1. LexLess(a, b) <=>
        \/ a[1] < b[1] /\ \A j \in 1..0 : a[j] = b[j]
        \/ a[2] < b[2] /\ \A j \in 1..1 : a[j] = b[j]
        \/ a[3] < b[3] /\ \A j \in 1..2 : a[j] = b[j]
        \/ a[4] < b[4] /\ \A j \in 1..3 : a[j] = b[j]
  <2> HIDE DEF a, b
  <2>1. 1..4 = {1, 2, 3, 4}
    OBVIOUS
  <2> QED
    BY <2>1 DEF LexLess
<1>2. /\ 1..0 = {} /\ 1..1 = {1} /\ 1..2 = {1, 2} /\ 1..3 = {1, 2, 3}
  OBVIOUS
<1>3. LexLess(a, b) <=>
        \/ a[1] < b[1]
        \/ a[2] < b[2] /\ a[1] = b[1]
        \/ a[3] < b[3] /\ a[1] = b[1] /\ a[2] = b[2]
        \/ a[4] < b[4] /\ a[1] = b[1] /\ a[2] = b[2] /\ a[3] = b[3]
  <2> HIDE DEF a, b
  <2> QED
    BY <1>1, <1>2
<1>4. /\ a[1] = SizeKey(policy, snap[g].left) /\ a[2] = -Priority[g]
      /\ a[3] = AddedOn[g] /\ a[4] = HashOrder[g]
      /\ b[1] = SizeKey(policy, snap[h].left) /\ b[2] = -Priority[h]
      /\ b[3] = AddedOn[h] /\ b[4] = HashOrder[h]
  BY DEF SortKey
<1>5. SortsBefore(policy, snap, g, h) <=> LexLess(a, b)
  BY DEF SortsBefore
<1> HIDE DEF a, b
<1> QED
  BY <1>3, <1>4, <1>5

(* It is a strict total order.                                             *)
LEMMA SortIsTotal ==
  ASSUME NEW policy, NEW snap, NEW C, Sized(snap, C)
  PROVE  /\ \A g \in C : ~SortsBefore(policy, snap, g, g)
         /\ \A g, h \in C : \/ SortsBefore(policy, snap, g, h)
                            \/ SortsBefore(policy, snap, h, g)
                            \/ g = h
         /\ \A g, h, k \in C :
              /\ SortsBefore(policy, snap, g, h)
              /\ SortsBefore(policy, snap, h, k)
              => SortsBefore(policy, snap, g, k)
<1> DEFINE key(h) == SizeKey(policy, snap[h].left)
<1>1. ASSUME NEW h \in C
      PROVE  /\ key(h) \in Int /\ Priority[h] \in Int /\ AddedOn[h] \in Int
             /\ HashOrder[h] \in Int
  BY OrderAssumption DEF OrderAssumption, Sized, SizeKey
<1>2. \A g, h \in C : HashOrder[g] = HashOrder[h] => g = h
  BY OrderAssumption DEF OrderAssumption, Sized
<1>3. \A g, h \in C :
        SortsBefore(policy, snap, g, h) <=>
          \/ key(g) < key(h)
          \/ key(g) = key(h) /\ -Priority[g] < -Priority[h]
          \/ /\ key(g) = key(h) /\ -Priority[g] = -Priority[h]
             /\ AddedOn[g] < AddedOn[h]
          \/ /\ key(g) = key(h) /\ -Priority[g] = -Priority[h]
             /\ AddedOn[g] = AddedOn[h] /\ HashOrder[g] < HashOrder[h]
  BY SortsBeforeIs
<1> HIDE DEF key
<1>4. \A g \in C : ~SortsBefore(policy, snap, g, g)
  BY <1>1, <1>3
<1>5. \A g, h \in C : \/ SortsBefore(policy, snap, g, h)
                      \/ SortsBefore(policy, snap, h, g)
                      \/ g = h
  BY <1>1, <1>2, <1>3
<1>6. \A g, h, k \in C :
        /\ SortsBefore(policy, snap, g, h)
        /\ SortsBefore(policy, snap, h, k)
        => SortsBefore(policy, snap, g, k)
  BY <1>1, <1>3
<1> QED
  BY <1>4, <1>5, <1>6

Increasing(policy, snap, order) ==
  \A i, j \in DOMAIN order :
    i < j => SortsBefore(policy, snap, order[i], order[j])

(* An increasing enumeration exists: it lists each torrent at the place    *)
(* that is the number of those up to it.                                   *)
LEMMA SortExists ==
  ASSUME NEW policy, NEW snap, NEW C, Sized(snap, C)
  PROVE  \E order \in [1..Cardinality(C) -> C] :
           Increasing(policy, snap, order)
<1> DEFINE before(g, h) == SortsBefore(policy, snap, g, h)
           upTo(h) == {g \in C : g = h \/ before(g, h)}
           N == Cardinality(C)
           place == [h \in C |-> Cardinality(upTo(h))]
<1>1. IsFiniteSet(C) /\ N \in Nat
  BY FS_CardinalityType DEF Sized
<1>2. /\ \A g \in C : ~before(g, g)
      /\ \A g, h \in C : before(g, h) \/ before(h, g) \/ g = h
      /\ \A g, h, k \in C : before(g, h) /\ before(h, k) => before(g, k)
  BY SortIsTotal
<1> HIDE DEF before
<1>3. ASSUME NEW h \in C
      PROVE  IsFiniteSet(upTo(h)) /\ place[h] \in 1..N
  <2>1. IsFiniteSet(upTo(h)) /\ Cardinality(upTo(h)) <= N
    BY <1>1, FS_Subset
  <2>2. Cardinality(upTo(h)) \in Nat /\ Cardinality(upTo(h)) # 0
    <3>1. h \in upTo(h)
      OBVIOUS
    <3> HIDE DEF upTo
    <3> QED
      BY <2>1, <3>1, FS_CardinalityType, FS_EmptySet
  <2> QED
    BY <1>1, <2>1, <2>2
<1>4. ASSUME NEW g \in C, NEW h \in C, before(g, h)
      PROVE  place[g] < place[h]
  <2>1. upTo(g) \in SUBSET upTo(h)
    BY <1>2, <1>4
  <2>2. h \in upTo(h) /\ h \notin upTo(g)
    BY <1>2, <1>4
  <2>3. /\ Cardinality(upTo(g)) <= Cardinality(upTo(h))
        /\ Cardinality(upTo(h)) # Cardinality(upTo(g))
    <3>1. IsFiniteSet(upTo(h))
      BY <1>3
    <3> HIDE DEF upTo
    <3> QED
      BY <2>1, <2>2, <3>1, FS_Subset
  <2> QED
    BY <1>3, <2>3
<1>5. \A i \in 1..N : \E h \in C : place[h] = i
  <2>1. place \in [C -> 1..N]
    BY <1>3
  <2> HIDE DEF place
  <2>2. IsInjective(place)
    BY <1>2, <1>3, <1>4, <2>1 DEF IsInjective
  <2>3. place \in Injection(C, 1..N)
    BY <2>1, <2>2 DEF Injection
  <2>4. IsFiniteSet(1..N) /\ Cardinality(1..N) = N
    BY <1>1, FS_Interval
  <2>5. place \in Surjection(C, 1..N)
    BY <2>3, <2>4, FS_Injection
  <2> QED
    BY <2>5 DEF Surjection
<1> DEFINE order == [i \in 1..N |-> CHOOSE h \in C : place[h] = i]
<1>6. \A i \in 1..N : order[i] \in C /\ place[order[i]] = i
  <2> HIDE DEF place, N
  <2> QED
    BY <1>5
<1>7. Increasing(policy, snap, order)
  <2>1. ASSUME NEW i \in 1..N, NEW j \in 1..N, i < j
        PROVE  before(order[i], order[j])
    <3> HIDE DEF order, place, N
    <3>1. ~before(order[j], order[i]) /\ order[i] # order[j]
      BY <1>1, <1>4, <1>6, <2>1
    <3> QED
      BY <1>2, <1>6, <3>1
  <2> QED
    BY <2>1 DEF Increasing, before
<1>8. order \in [1..N -> C]
  BY <1>6
<1> QED
  BY <1>7, <1>8

(* What the sort returns: an increasing enumeration of all candidates      *)
LEMMA SortedEnumerates ==
  ASSUME NEW policy, NEW snap, NEW C, Sized(snap, C)
  PROVE  LET order == Sorted(policy, snap, C) IN
           /\ order \in [1..Cardinality(C) -> C]
           /\ \A i, j \in 1..Cardinality(C) :
                /\ i < j => SortsBefore(policy, snap, order[i], order[j])
                /\ order[i] = order[j] => i = j
           /\ \A h \in C : \E i \in 1..Cardinality(C) : order[i] = h
<1> DEFINE order == Sorted(policy, snap, C)
           N == Cardinality(C)
<1>1. IsFiniteSet(C) /\ N \in Nat
  BY FS_CardinalityType DEF Sized
<1>2. order \in [1..N -> C] /\ Increasing(policy, snap, order)
  BY SortExists DEF Sorted, Increasing
<1> HIDE DEF order, N
<1>3. \A i, j \in 1..N :
        i < j => SortsBefore(policy, snap, order[i], order[j])
  BY <1>2 DEF Increasing
<1>4. \A i, j \in 1..N : order[i] = order[j] => i = j
  <2>1. \A g \in C : ~SortsBefore(policy, snap, g, g)
    BY SortIsTotal
  <2> QED
    BY <1>1, <1>2, <1>3, <2>1
<1>5. \A h \in C : \E i \in 1..N : order[i] = h
  <2>1. order \in Injection(1..N, C)
    BY <1>2, <1>4 DEF Injection, IsInjective
  <2>2. Cardinality(1..N) = Cardinality(C)
    BY <1>1, FS_Interval DEF N
  <2>3. order \in Surjection(1..N, C)
    BY <1>1, <2>1, <2>2, FS_Injection
  <2> QED
    BY <2>3 DEF Surjection
<1> QED
  BY <1>2, <1>3, <1>4, <1>5 DEF order, N

-----------------------------------------------------------------------------
(* The loop *)

AfterOne(size, order, room, i) ==
  IF size[order[i]] <= room[i - 1]
  THEN room[i - 1] - size[order[i]] ELSE room[i - 1]

RunsDown(size, order, budget, n, room) ==
  /\ room \in [0..n -> Int]
  /\ room[0] = budget
  /\ \A i \in 1..n : room[i] = AfterOne(size, order, room, i)

(* The recursive definition of remaining_budget says what the loop does.   *)
LEMMA RemainingBudgetIs ==
  ASSUME NEW C, NEW size, \A h \in C : size[h] \in Int, NEW N \in Nat,
         NEW order \in [1..N -> C], NEW budget \in Int
  PROVE  RunsDown(size, order, budget, N, RemainingBudget(size, order, budget))
<1> DEFINE Good == {n \in 0..N :
                      \E room : RunsDown(size, order, budget, n, room)}
<1>1. 0 \in Good
  <2>1. RunsDown(size, order, budget, 0, [i \in 0..0 |-> budget])
    BY DEF RunsDown
  <2> QED
    BY <2>1
<1>2. ASSUME NEW n \in 0..(N - 1), n \in Good
      PROVE  n + 1 \in Good
  <2>1. PICK g : RunsDown(size, order, budget, n, g)
    BY <1>2
  <2> DEFINE next == IF size[order[n + 1]] <= g[n]
                     THEN g[n] - size[order[n + 1]] ELSE g[n]
             room == [i \in 0..(n + 1) |-> IF i = n + 1 THEN next ELSE g[i]]
  <2>2. next \in Int /\ g \in [0..n -> Int] /\ g[0] = budget
    BY <2>1 DEF RunsDown
  <2>3. /\ room[n + 1] = next
        /\ \A i \in 0..n : room[i] = g[i]
        /\ room \in [0..(n + 1) -> Int]
    <3> HIDE DEF next
    <3> QED
      BY <2>2
  <2>4. ASSUME NEW i \in 1..(n + 1)
        PROVE  room[i] = AfterOne(size, order, room, i)
    <3> HIDE DEF room
    <3>1. CASE i = n + 1
      BY <3>1, <2>3 DEF AfterOne
    <3>2. CASE i \in 1..n
      <4>1. i \in 0..n /\ i - 1 \in 0..n
        BY <3>2
      <4>2. g[i] = AfterOne(size, order, g, i)
        BY <2>1, <3>2 DEF RunsDown
      <4> QED
        BY <4>1, <4>2, <2>3 DEF AfterOne
    <3> QED
      BY <3>1, <3>2
  <2>5. RunsDown(size, order, budget, n + 1, room)
    <3> HIDE DEF room
    <3> QED
      BY <2>2, <2>3, <2>4 DEF RunsDown
  <2> QED
    BY <2>5
<1>3. PICK g : RunsDown(size, order, budget, N, g)
  <2>1. \A n \in 0..N : n \in Good
    <3> HIDE DEF Good
    <3> QED
      BY <1>1, <1>2, NumberInduction
  <2> QED
    BY <2>1
<1> DEFINE Table(room) ==
             room = [i \in {0} \cup DOMAIN order |->
                       IF i = 0 THEN budget
                       ELSE IF size[order[i]] <= room[i - 1]
                            THEN room[i - 1] - size[order[i]]
                            ELSE room[i - 1]]
<1>4. {0} \cup DOMAIN order = 0..N
  OBVIOUS
<1>5. Table(g)
  <2>1. g = [i \in 0..N |-> g[i]]
    BY <1>3 DEF RunsDown
  <2>2. \A i \in 0..N :
          g[i] = IF i = 0 THEN budget
                 ELSE IF size[order[i]] <= g[i - 1]
                      THEN g[i - 1] - size[order[i]]
                      ELSE g[i - 1]
    BY <1>3 DEF RunsDown, AfterOne
  <2> QED
    BY <1>4, <2>1, <2>2
<1> DEFINE room == RemainingBudget(size, order, budget)
<1>6. Table(room)
  <2>1. room = CHOOSE r : Table(r)
    BY DEF RemainingBudget
  <2> HIDE DEF Table, room
  <2> QED
    BY <1>5, <2>1
<1>7. /\ DOMAIN room = 0..N
      /\ room = [i \in 0..N |-> room[i]]
      /\ \A i \in 0..N :
           room[i] = IF i = 0 THEN budget
                     ELSE IF size[order[i]] <= room[i - 1]
                          THEN room[i - 1] - size[order[i]]
                          ELSE room[i - 1]
  <2> HIDE DEF room
  <2> QED
    BY <1>4, <1>6
<1>8. \A i \in 0..N : room[i] \in Int
  <2> DEFINE Typed == {i \in 0..N : room[i] \in Int}
  <2>1. 0 \in Typed
    <3> HIDE DEF room
    <3> QED
      BY <1>7
  <2>2. ASSUME NEW n \in 0..(N - 1), n \in Typed
        PROVE  n + 1 \in Typed
    <3> HIDE DEF room
    <3>1. n + 1 \in 0..N /\ n + 1 # 0 /\ (n + 1) - 1 = n
      OBVIOUS
    <3>2. order[n + 1] \in C /\ size[order[n + 1]] \in Int
      OBVIOUS
    <3>3. room[n + 1] = IF size[order[n + 1]] <= room[n]
                        THEN room[n] - size[order[n + 1]] ELSE room[n]
      BY <1>7, <3>1
    <3> QED
      BY <2>2, <3>1, <3>2, <3>3
  <2>3. \A n \in 0..N : n \in Typed
    <3> HIDE DEF Typed
    <3> QED
      BY <2>1, <2>2, NumberInduction
  <2> QED
    BY <2>3
<1> HIDE DEF room
<1>9. RunsDown(size, order, budget, N, room)
  <2>1. room \in [0..N -> Int]
    BY <1>7, <1>8
  <2>2. ASSUME NEW i \in 1..N
        PROVE  room[i] = AfterOne(size, order, room, i)
    <3>1. i \in 0..N /\ i # 0
      OBVIOUS
    <3>2. room[i] = IF size[order[i]] <= room[i - 1]
                    THEN room[i - 1] - size[order[i]] ELSE room[i - 1]
      BY <1>7, <3>1
    <3> QED
      BY <3>2, Zenon DEF AfterOne
  <2>3. room[0] = budget
    <3>1. 0 \in 0..N
      OBVIOUS
    <3>2. room[0] = IF 0 = 0 THEN budget
                    ELSE IF size[order[0]] <= room[0 - 1]
                         THEN room[0 - 1] - size[order[0]] ELSE room[0 - 1]
      BY <1>7, <3>1, Zenon
    <3> QED
      BY <3>2, Zenon
  <2> QED
    BY <2>1, <2>2, <2>3 DEF RunsDown
<1> QED
  BY <1>9 DEF room

Fits(size, order, room, i) == size[order[i]] <= room[i - 1]

(* What the loop has started, and what it has looked at, after i rounds    *)
Taken(size, order, room, i) ==
  {order[j] : j \in {k \in 1..i : Fits(size, order, room, k)}}

Seen(order, i) == {order[j] : j \in 1..i}

Enumerates(order, C) ==
  /\ IsFiniteSet(C)
  /\ order \in [1..Cardinality(C) -> C]
  /\ \A i, j \in 1..Cardinality(C) : order[i] = order[j] => i = j
  /\ \A h \in C : \E i \in 1..Cardinality(C) : order[i] = h

(* The loop's invariant: the room is the budget less all that is started,  *)
(* and has not become negative by starting something.                      *)
LEMMA LoopInvariant ==
  ASSUME NEW C, NEW order, Enumerates(order, C),
         NEW size, \A h \in C : size[h] \in Int /\ size[h] > 0,
         NEW budget \in Int, NEW room,
         RunsDown(size, order, budget, Cardinality(C), room)
  PROVE  \A i \in 0..Cardinality(C) :
           /\ Taken(size, order, room, i) \in SUBSET C
           /\ room[i] =
                budget - SumFunctionOnSet(size, Taken(size, order, room, i))
           /\ Taken(size, order, room, i) # {} => room[i] >= 0
<1> DEFINE N == Cardinality(C)
           taken(i) == Taken(size, order, room, i)
           Good == {i \in 0..N :
                      /\ room[i] = budget - SumFunctionOnSet(size, taken(i))
                      /\ taken(i) # {} => room[i] >= 0}
<1>1. N \in Nat
  BY FS_CardinalityType DEF Enumerates
<1>2. ASSUME NEW i \in 0..N
      PROVE  taken(i) \in SUBSET C /\ IsFiniteSet(taken(i))
  <2>1. taken(i) \in SUBSET C
    BY <1>1 DEF Taken, Enumerates
  <2> QED
    BY <2>1, FS_Subset DEF Enumerates
<1>3. 0 \in Good
  <2>1. taken(0) = {}
    BY DEF Taken
  <2>2. SumFunctionOnSet(size, taken(0)) = 0
    BY <2>1, SumOfNone, Zenon
  <2>3. room[0] = budget
    BY DEF RunsDown
  <2> QED
    BY <1>1, <2>1, <2>2, <2>3
<1>4. ASSUME NEW i \in 0..(N - 1), i \in Good
      PROVE  i + 1 \in Good
  <2> DEFINE h == order[i + 1]
  <2>1. i \in 0..N /\ i + 1 \in 1..N /\ i + 1 \in 0..N /\ (i + 1) - 1 = i
    BY <1>1
  <2>2. h \in C /\ size[h] \in Int /\ size[h] > 0
    BY <2>1 DEF Enumerates
  <2>3. h \notin taken(i)
    BY <1>1, <2>1 DEF Enumerates, Taken
  <2>4. /\ room[i] \in Int
        /\ room[i + 1] = IF size[h] <= room[i] THEN room[i] - size[h]
                         ELSE room[i]
    <3> HIDE DEF N
    <3> QED
      BY <2>1 DEF RunsDown, AfterOne, N
  <2>5. SumFunctionOnSet(size, taken(i)) \in Int
    BY <1>2, <2>1, SumType
  <2>6. CASE Fits(size, order, room, i + 1)
    <3>1. taken(i + 1) = taken(i) \cup {h}
      <4>1. {k \in 1..(i + 1) : Fits(size, order, room, k)} =
              {k \in 1..i : Fits(size, order, room, k)} \cup {i + 1}
        BY <2>6
      <4> QED
        BY <4>1 DEF Taken
    <3>2. SumFunctionOnSet(size, taken(i) \cup {h}) =
            SumFunctionOnSet(size, taken(i)) + size[h]
      <4> HIDE DEF taken, h
      <4> QED
        BY <1>2, <2>1, <2>2, <2>3, SumAdd
    <3>3. SumFunctionOnSet(size, taken(i + 1)) =
            SumFunctionOnSet(size, taken(i)) + size[h]
      <4> HIDE DEF taken, h
      <4> QED
        BY <3>1, <3>2, Zenon
    <3>4. size[h] <= room[i]
      BY <2>1, <2>6 DEF Fits
    <3>5. /\ room[i + 1] = budget - SumFunctionOnSet(size, taken(i + 1))
          /\ room[i + 1] >= 0
      <4>1. room[i] = budget - SumFunctionOnSet(size, taken(i))
        BY <1>4
      <4> HIDE DEF taken, h
      <4> QED
        BY <2>2, <2>4, <2>5, <3>3, <3>4, <4>1
    <3> QED
      BY <2>1, <3>5
  <2>7. CASE ~Fits(size, order, room, i + 1)
    <3>1. taken(i + 1) = taken(i)
      <4>1. {k \in 1..(i + 1) : Fits(size, order, room, k)} =
              {k \in 1..i : Fits(size, order, room, k)}
        BY <2>7
      <4> QED
        BY <4>1, Zenon DEF Taken
    <3>2. room[i + 1] = room[i]
      BY <2>1, <2>4, <2>7 DEF Fits
    <3>3. SumFunctionOnSet(size, taken(i + 1)) =
            SumFunctionOnSet(size, taken(i))
      <4> HIDE DEF taken
      <4> QED
        BY <3>1, Zenon
    <3>4. /\ room[i] = budget - SumFunctionOnSet(size, taken(i))
          /\ taken(i) # {} => room[i] >= 0
      BY <1>4
    <3> HIDE DEF taken
    <3> QED
      BY <2>1, <3>1, <3>2, <3>3, <3>4
  <2> QED
    BY <2>6, <2>7
<1>5. \A i \in 0..N : i \in Good
  <2> HIDE DEF Good, N
  <2> QED
    BY <1>1, <1>3, <1>4, NumberInduction
<1> QED
  BY <1>2, <1>5

-----------------------------------------------------------------------------
(* What the loop starts *)

Positive(snap, C) ==
  Sized(snap, C) /\ \A h \in C : snap[h].left > 0

Costs(snap, S) == SumFunctionOnSet(AmountLeft(snap), S)

SortedUpTo(policy, snap, h, S) ==
  {g \in S : g = h \/ SortsBefore(policy, snap, g, h)}

(* Without strict order a candidate is started exactly if it fits together *)
(* with all that is started before it; in strict order exactly if all      *)
(* candidates up to it fit together.  Either way, what is started fits.    *)
LEMMA FittingIs ==
  ASSUME NEW resume, NEW snap, NEW C, Positive(snap, C), NEW budget \in Int
  PROVE  LET started == Fitting(resume, snap, C, budget)
             upTo(h, S) == SortedUpTo(resume.policy, snap, h, S)
         IN  /\ started \in SUBSET C
             /\ started # {} => Costs(snap, started) <= budget
             /\ \A h \in C :
                  h \in started <=>
                    IF StopsAtMisfit(resume)
                    THEN Costs(snap, upTo(h, C)) <= budget
                    ELSE Costs(snap, upTo(h, started) \cup {h}) <= budget
<1> DEFINE started == Fitting(resume, snap, C, budget)
           before(g, h) == SortsBefore(resume.policy, snap, g, h)
           upTo(h, S) == SortedUpTo(resume.policy, snap, h, S)
           order == Sorted(resume.policy, snap, C)
           size == AmountLeft(snap)
           room == RemainingBudget(size, order, budget)
           N == Cardinality(C)
           fits(i) == Fits(size, order, room, i)
           taken(i) == Taken(size, order, room, i)
           seen(i) == Seen(order, i)
           sum(S) == SumFunctionOnSet(size, S)
<1>1. Sized(snap, C) /\ IsFiniteSet(C) /\ N \in Nat
  BY FS_CardinalityType DEF Positive, Sized
<1>2. \A h \in C : size[h] = snap[h].left /\ size[h] \in Int /\ size[h] > 0
  BY DEF AmountLeft, Positive, Sized
<1>3. /\ order \in [1..N -> C]
      /\ \A i, j \in 1..N : i < j => before(order[i], order[j])
      /\ \A i, j \in 1..N : order[i] = order[j] => i = j
      /\ \A h \in C : \E i \in 1..N : order[i] = h
  BY <1>1, SortedEnumerates
<1>4. Enumerates(order, C)
  <2> HIDE DEF order
  <2> QED
    BY <1>1, <1>3 DEF Enumerates
<1>5. RunsDown(size, order, budget, N, room)
  <2> HIDE DEF order, size, N
  <2> QED
    BY <1>1, <1>2, <1>3, RemainingBudgetIs
<1>6. started = {h \in C : \E i \in 1..N :
                   /\ order[i] = h
                   /\ fits(i)
                   /\ StopsAtMisfit(resume) => \A j \in 1..(i - 1) : fits(j)}
  <2>1. DOMAIN order = 1..N
    <3> HIDE DEF order, N
    <3> QED
      BY <1>3
  <2>2. started = {h \in C : \E i \in 1..N :
                     /\ order[i] = h
                     /\ snap[order[i]].left <= room[i - 1]
                     /\ StopsAtMisfit(resume) =>
                          \A j \in 1..(i - 1) :
                            snap[order[j]].left <= room[j - 1]}
    BY <2>1, Zenon DEF Fitting
  <2>3. ASSUME NEW i \in 1..N
        PROVE  snap[order[i]].left <= room[i - 1] <=> fits(i)
    <3> HIDE DEF order, size, room, N
    <3> QED
      BY <1>2, <1>3 DEF Fits
  <2>4. \A i \in 1..N : 1..(i - 1) \in SUBSET (1..N)
    BY <1>1
  <2> HIDE DEF order, size, room, N, fits, started
  <2> QED
    BY <2>2, <2>3, <2>4
<1>7. \A i \in 0..N :
        /\ taken(i) \in SUBSET C
        /\ room[i] = budget - sum(taken(i))
        /\ taken(i) # {} => room[i] >= 0
  <2> HIDE DEF order, size, room
  <2> QED
    BY <1>2, <1>4, <1>5, LoopInvariant
<1>8. \A i, j \in 1..N : order[j] = order[i] \/ before(order[j], order[i])
                           <=> j <= i
  <2>1. \A g, h \in C : ~(before(g, h) /\ before(h, g))
    BY <1>1, SortIsTotal, Zenon
  <2> HIDE DEF order, before, N
  <2> QED
    BY <1>1, <1>3, <2>1
<1>9. \A S \in SUBSET C : IsFiniteSet(S) /\ sum(S) \in Int
  <2> SUFFICES ASSUME NEW S \in SUBSET C
               PROVE  IsFiniteSet(S) /\ sum(S) \in Int
    OBVIOUS
  <2>1. IsFiniteSet(S)
    BY <1>1, FS_Subset
  <2> HIDE DEF size
  <2> QED
    BY <1>2, <2>1, SumType
<1>10. \A S \in SUBSET C : \A R \in SUBSET S : sum(R) <= sum(S)
  <2> HIDE DEF size
  <2> QED
    BY <1>2, <1>9, SumPart
<1>11. \A i \in 0..N : room[i] \in Int
  <2> HIDE DEF order, size, room
  <2> QED
    BY <1>5 DEF RunsDown
<1> HIDE DEF order, size, room, N, before, started
<1>12. \A i \in 1..N : i - 1 \in 0..N /\ i \in 0..N
  BY <1>1
(* One round: what is started or seen grows by the candidate *)
<1>13. ASSUME NEW i \in 1..N
       PROVE  /\ order[i] \in C
              /\ order[i] \notin taken(i - 1)
              /\ sum(taken(i - 1) \cup {order[i]}) =
                   sum(taken(i - 1)) + size[order[i]]
              /\ fits(i) <=> sum(taken(i - 1) \cup {order[i]}) <= budget
  <2>1. order[i] \in C
    BY <1>3
  <2>2. order[i] \notin taken(i - 1)
    BY <1>1, <1>3 DEF Taken
  <2>3. sum(taken(i - 1) \cup {order[i]}) =
          sum(taken(i - 1)) + size[order[i]]
    BY <1>2, <1>7, <1>9, <1>12, <2>1, <2>2, SumAdd
  <2>4. room[i - 1] = budget - sum(taken(i - 1)) /\ sum(taken(i - 1)) \in Int
    BY <1>7, <1>9, <1>12
  <2>5. size[order[i]] \in Int
    BY <1>2, <2>1
  <2>6. fits(i) <=> size[order[i]] <= room[i - 1]
    BY DEF Fits
  <2> HIDE DEF taken, sum, fits
  <2> QED
    BY <2>1, <2>2, <2>3, <2>4, <2>5, <2>6
<1>14. started \in SUBSET C
  BY <1>6
<1>15. CASE ~StopsAtMisfit(resume)
  <2>1. started = taken(N)
    <3>1. started = {h \in C : \E i \in 1..N : order[i] = h /\ fits(i)}
      BY <1>6, <1>15
    <3> QED
      BY <1>3, <3>1 DEF Taken
  <2>2. started # {} => sum(started) <= budget
    BY <1>1, <1>7, <1>9, <1>11, <2>1
  <2>3. ASSUME NEW i \in 1..N
        PROVE  order[i] \in started <=>
                 sum(upTo(order[i], started) \cup {order[i]}) <= budget
    <3>1. upTo(order[i], started) \cup {order[i]} =
            taken(i - 1) \cup {order[i]}
      <4>1. started = {order[j] : j \in {k \in 1..N : fits(k)}}
        BY <2>1 DEF Taken
      <4>2. taken(i - 1) = {order[j] : j \in {k \in 1..(i - 1) : fits(k)}}
        BY DEF Taken
      <4>3. ASSUME NEW g \in started, g # order[i]
            PROVE  before(g, order[i]) <=> g \in taken(i - 1)
        <5>1. PICK j \in 1..N : fits(j) /\ g = order[j]
          BY <4>1
        <5>2. before(g, order[i]) <=> j <= i
          BY <1>8, <4>3, <5>1
        <5>3. j # i
          BY <4>3, <5>1
        <5>4. g \in taken(i - 1) <=> j <= i - 1
          <6> HIDE DEF fits
          <6> QED
            BY <1>1, <1>3, <4>2, <5>1
        <5> QED
          BY <5>2, <5>3, <5>4
      <4>4. taken(i - 1) \in SUBSET started
        <5>1. 1..(i - 1) \in SUBSET (1..N)
          BY <1>1
        <5> QED
          BY <4>1, <4>2, <5>1
      <4> HIDE DEF taken
      <4> QED
        BY <4>3, <4>4 DEF SortedUpTo, before
    <3>2. sum(upTo(order[i], started) \cup {order[i]}) =
            sum(taken(i - 1) \cup {order[i]})
      <4> HIDE DEF upTo, taken
      <4> QED
        BY <3>1, Zenon
    <3>3. order[i] \in started <=> fits(i)
      <4>1. started = {h \in C : \E k \in 1..N : order[k] = h /\ fits(k)}
        BY <1>6, <1>15
      <4> HIDE DEF fits
      <4> QED
        BY <1>3, <4>1
    <3> HIDE DEF upTo, taken, sum, fits
    <3> QED
      BY <1>13, <3>2, <3>3
  <2> HIDE DEF upTo, sum
  <2>4. \A h \in C : h \in started <=>
                       sum(upTo(h, started) \cup {h}) <= budget
    BY <1>3, <2>3
  <2> QED
    BY <1>14, <1>15, <2>2, <2>4 DEF Costs, upTo, sum, size, started
<1>16. CASE StopsAtMisfit(resume)
  <2>1. ASSUME NEW i \in 1..N
        PROVE  upTo(order[i], C) = seen(i)
    <3>1. seen(i) \in SUBSET C
      BY <1>1, <1>3 DEF Seen
    <3>2. ASSUME NEW h \in C
          PROVE  h \in upTo(order[i], C) <=> h \in seen(i)
      <4>1. PICK j \in 1..N : order[j] = h
        BY <1>3
      <4>2. h \in upTo(order[i], C) <=> j <= i
        BY <1>8, <4>1 DEF SortedUpTo, before
      <4>3. h \in seen(i) <=> j \in 1..i
        BY <1>1, <1>3, <4>1 DEF Seen
      <4> QED
        BY <4>2, <4>3
    <3>3. upTo(order[i], C) \in SUBSET C
      BY DEF SortedUpTo
    <3> HIDE DEF upTo, seen
    <3> QED
      BY <3>1, <3>2, <3>3
  <2>2. ASSUME NEW i \in 1..N
        PROVE  /\ seen(i) \in SUBSET C
               /\ seen(i) = seen(i - 1) \cup {order[i]}
               /\ taken(i - 1) \in SUBSET seen(i - 1)
               /\ \A j \in 1..i : seen(j) \in SUBSET seen(i)
    <3>1. 1..i = (1..(i - 1)) \cup {i} /\ 1..i \in SUBSET (1..N)
      BY <1>1
    <3>2. \A j \in 1..i : 1..j \in SUBSET (1..i)
      OBVIOUS
    <3> QED
      BY <1>3, <3>1, <3>2 DEF Seen, Taken
  <2>3. ASSUME NEW i \in 1..N
        PROVE  sum(seen(i)) <= budget <=> \A j \in 1..i : fits(j)
    <3>1. ASSUME sum(seen(i)) <= budget, NEW j \in 1..i
          PROVE  fits(j)
      <4>1. j \in 1..N
        BY <1>1
      <4>2. taken(j - 1) \cup {order[j]} \in SUBSET seen(j)
        BY <2>2, <4>1
      <4>3. seen(j) \in SUBSET seen(i) /\ seen(i) \in SUBSET C
        BY <2>2
      <4>4. sum(taken(j - 1) \cup {order[j]}) <= sum(seen(i))
        <5>1. taken(j - 1) \cup {order[j]} \in SUBSET seen(i)
          BY <4>2, <4>3
        <5> HIDE DEF taken, seen, sum
        <5> QED
          BY <1>10, <4>3, <5>1
      <4>5. /\ sum(taken(j - 1) \cup {order[j]}) \in Int
            /\ sum(seen(i)) \in Int
        <5>1. taken(j - 1) \cup {order[j]} \in SUBSET C
          BY <4>2, <4>3
        <5> HIDE DEF taken, seen, sum
        <5> QED
          BY <1>9, <4>3, <5>1
      <4>6. fits(j) <=> sum(taken(j - 1) \cup {order[j]}) <= budget
        BY <1>13, <4>1
      <4> HIDE DEF taken, seen, sum, fits
      <4> QED
        BY <3>1, <4>4, <4>5, <4>6
    <3>2. ASSUME \A j \in 1..i : fits(j)
          PROVE  sum(seen(i)) <= budget
      <4>1. taken(i - 1) = seen(i - 1)
        <5>1. {k \in 1..(i - 1) : fits(k)} = 1..(i - 1)
          BY <3>2
        <5> QED
          BY <5>1 DEF Taken, Seen
      <4>2. seen(i) = taken(i - 1) \cup {order[i]}
        BY <2>2, <4>1
      <4>3. sum(seen(i)) = sum(taken(i - 1) \cup {order[i]})
        <5> HIDE DEF seen, taken
        <5> QED
          BY <4>2, Zenon
      <4>4. fits(i)
        BY <3>2
      <4> HIDE DEF taken, seen, sum, fits
      <4> QED
        BY <1>13, <4>3, <4>4
    <3> QED
      BY <3>1, <3>2
  <2>4. ASSUME NEW i \in 1..N
        PROVE  order[i] \in started <=> \A j \in 1..i : fits(j)
    <3>1. 1..i = (1..(i - 1)) \cup {i}
      OBVIOUS
    <3>2. started = {h \in C : \E k \in 1..N :
                       order[k] = h /\ fits(k) /\ \A j \in 1..(k - 1) : fits(j)}
      BY <1>6, <1>16
    <3> HIDE DEF fits
    <3> QED
      BY <1>3, <3>1, <3>2
  <2>5. ASSUME NEW i \in 1..N
        PROVE  order[i] \in started <=> sum(upTo(order[i], C)) <= budget
    <3>1. sum(upTo(order[i], C)) = sum(seen(i))
      <4>1. upTo(order[i], C) = seen(i)
        BY <2>1
      <4> HIDE DEF upTo, seen
      <4> QED
        BY <4>1, Zenon
    <3> HIDE DEF upTo, seen, sum, fits
    <3> QED
      BY <2>3, <2>4, <3>1
  <2>6. \A h \in C : h \in started <=> sum(upTo(h, C)) <= budget
    <3> HIDE DEF upTo, sum
    <3> QED
      BY <1>3, <2>5
  <2>7. started \in SUBSET taken(N)
    <3>1. started \in SUBSET {h \in C : \E i \in 1..N : order[i] = h /\ fits(i)}
      BY <1>6
    <3> QED
      BY <3>1 DEF Taken
  <2>8. started # {} => sum(started) <= budget
    <3>1. ASSUME started # {}
          PROVE  sum(started) <= budget
      <4>1. N \in 0..N /\ taken(N) # {} /\ taken(N) \in SUBSET C
        BY <1>1, <1>7, <2>7, <3>1
      <4>2. room[N] >= 0 /\ room[N] = budget - sum(taken(N))
        BY <1>7, <4>1
      <4>3. sum(started) <= sum(taken(N))
        BY <1>10, <2>7, <4>1
      <4>4. sum(started) \in Int /\ sum(taken(N)) \in Int
        BY <1>9, <1>14, <4>1
      <4> HIDE DEF taken, sum
      <4> QED
        BY <4>2, <4>3, <4>4
    <3> QED
      BY <3>1
  <2> HIDE DEF upTo, sum
  <2> QED
    BY <1>14, <1>16, <2>6, <2>8 DEF Costs, upTo, sum, size, started
<1> QED
  BY <1>15, <1>16

-----------------------------------------------------------------------------
(* The plan *)

LEMMA FloorType == FloorBytes \in Int /\ SafetyBuffer \in Int
<1>1. TotalBytes * FloorPct \in Int
  BY ConfigAssumption DEF ConfigAssumption
<1> QED
  BY <1>1, ConfigAssumption DEF ConfigAssumption, FloorBytes

Listing(snap) ==
  /\ IsFiniteSet(DOMAIN snap)
  /\ DOMAIN snap \subseteq DOMAIN HashOrder
  /\ \A h \in DOMAIN snap : snap[h].left \in Int

Projected(snap, paused) ==
  {h \in DOMAIN snap : IsActiveForProjection(snap, paused, h)}

(* The plan is what the loop starts of the eligible torrents with what the *)
(* active downloads leave, and nothing while the size of one is unknown.   *)
LEMMA PlannedIs ==
  ASSUME NEW resume, NEW snap, Listing(snap), NEW paused \in SUBSET DOMAIN snap,
         NEW freeBytes \in Int
  PROVE  LET C == EligibleCandidates(snap, paused)
             A == Projected(snap, paused)
             budget ==
               freeBytes - FloorBytes - SafetyBuffer - Costs(snap, A)
         IN  /\ Positive(snap, C) /\ C \in SUBSET DOMAIN snap
             /\ A \in SUBSET DOMAIN snap /\ budget \in Int
             /\ (\E h \in A : snap[h].left < 0)
                  => Planned(resume, snap, paused, freeBytes) = {}
             /\ (\A h \in A : snap[h].left >= 0)
                  => Planned(resume, snap, paused, freeBytes) =
                       Fitting(resume, snap, C, budget)
<1> DEFINE C == EligibleCandidates(snap, paused)
           A == Projected(snap, paused)
           budget == freeBytes - FloorBytes - SafetyBuffer - Costs(snap, A)
<1>1. A \in SUBSET DOMAIN snap /\ C \in SUBSET DOMAIN snap
  BY DEF Projected, EligibleCandidates
<1>2. IsFiniteSet(A) /\ IsFiniteSet(C)
  BY <1>1, FS_Subset DEF Listing
<1>3. Positive(snap, C)
  BY <1>1, <1>2 DEF Positive, Sized, Listing, EligibleCandidates
<1>4. \A h \in A : AmountLeft(snap)[h] = snap[h].left /\ snap[h].left \in Int
  BY <1>1 DEF AmountLeft, Listing
<1>5. Costs(snap, A) \in Int
  <2> HIDE DEF A
  <2> QED
    BY <1>2, <1>4, SumType DEF Costs
<1>6. budget \in Int
  BY <1>5, FloorType
<1>7. ASSUME NEW h \in A, snap[h].left < 0
      PROVE  Planned(resume, snap, paused, freeBytes) = {}
  BY <1>7 DEF Planned, ActiveRemaining, Projected
<1>8. ASSUME \A h \in A : snap[h].left >= 0
      PROVE  Planned(resume, snap, paused, freeBytes) =
               Fitting(resume, snap, C, budget)
  <2>1. ActiveRemaining(snap, paused) = Costs(snap, A)
    <3>1. ~ \E h \in A : snap[h].left < 0
      BY <1>4, <1>8
    <3> QED
      BY <3>1 DEF ActiveRemaining, Costs, Projected
  <2>2. Costs(snap, A) # Unknown
    <3>1. Costs(snap, A) >= Cardinality(A) * 0
      <4> HIDE DEF A
      <4> QED
        BY <1>2, <1>4, <1>8, SumAtLeast DEF Costs
    <3>2. Cardinality(A) * 0 = 0
      BY <1>2, FS_CardinalityType
    <3> QED
      BY <1>5, <3>1, <3>2 DEF Unknown
  <2>3. CalculateBudget(freeBytes, ActiveRemaining(snap, paused)) = budget
    BY <2>1 DEF CalculateBudget
  <2>4. Fitting(resume, snap, C, budget) \in SUBSET C
    <3> HIDE DEF C, budget
    <3> QED
      BY <1>3, <1>6, FittingIs
  <2> HIDE DEF C, budget
  <2>5. Planned(resume, snap, paused, freeBytes) =
          {h \in C : h \in Fitting(resume, snap, C, budget)}
    BY <2>1, <2>2, <2>3, Zenon DEF Planned, C
  <2> QED
    BY <2>4, <2>5
<1> HIDE DEF C, A, budget
<1>9. /\ (\E h \in A : snap[h].left < 0)
           => Planned(resume, snap, paused, freeBytes) = {}
      /\ (\A h \in A : snap[h].left >= 0)
           => Planned(resume, snap, paused, freeBytes) =
                Fitting(resume, snap, C, budget)
  BY <1>7, <1>8
<1> QED
  BY <1>1, <1>3, <1>6, <1>9 DEF C, A, budget

(* Whatever is started, together with what the active downloads still      *)
(* need, fits above the floor and the buffer.                              *)
LEMMA PlannedFits ==
  ASSUME NEW resume, NEW snap, Listing(snap), NEW paused \in SUBSET DOMAIN snap,
         NEW freeBytes \in Int,
         Planned(resume, snap, paused, freeBytes) # {}
  PROVE  /\ \A h \in Projected(snap, paused) : snap[h].left >= 0
         /\ Costs(snap, Planned(resume, snap, paused, freeBytes))
              + Costs(snap, Projected(snap, paused))
              + FloorBytes + SafetyBuffer <= freeBytes
<1> DEFINE C == EligibleCandidates(snap, paused)
           A == Projected(snap, paused)
           budget == freeBytes - FloorBytes - SafetyBuffer - Costs(snap, A)
           plan == Planned(resume, snap, paused, freeBytes)
<1>1. /\ Positive(snap, C) /\ C \in SUBSET DOMAIN snap
      /\ A \in SUBSET DOMAIN snap /\ budget \in Int
      /\ (\E h \in A : snap[h].left < 0) => plan = {}
      /\ (\A h \in A : snap[h].left >= 0)
           => plan = Fitting(resume, snap, C, budget)
  BY PlannedIs
<1>2. \A h \in DOMAIN snap : AmountLeft(snap)[h] \in Int /\ snap[h].left \in Int
  BY DEF AmountLeft, Listing
<1>3. \A h \in A : snap[h].left >= 0
  <2> HIDE DEF A, C, budget
  <2> QED
    BY <1>1, <1>2
<1>4. plan = Fitting(resume, snap, C, budget)
  <2> HIDE DEF A, C, budget, plan
  <2> QED
    BY <1>1, <1>3
<1>5. /\ Fitting(resume, snap, C, budget) \in SUBSET C
      /\ Fitting(resume, snap, C, budget) # {}
           => Costs(snap, Fitting(resume, snap, C, budget)) <= budget
  <2> HIDE DEF C, budget
  <2> QED
    BY <1>1, FittingIs
<1>6. plan \in SUBSET C /\ Costs(snap, plan) <= budget
  <2> USE DEF plan
  <2> HIDE DEF C, budget
  <2> QED
    BY <1>4, <1>5, Zenon
<1>7. Costs(snap, plan) \in Int /\ Costs(snap, A) \in Int
  <2>1. \A S \in SUBSET DOMAIN snap : Costs(snap, S) \in Int
    <3> SUFFICES ASSUME NEW S \in SUBSET DOMAIN snap
                 PROVE  Costs(snap, S) \in Int
      OBVIOUS
    <3>1. IsFiniteSet(S)
      BY FS_Subset DEF Listing
    <3> QED
      BY <1>2, <3>1, SumType DEF Costs
  <2>2. plan \in SUBSET DOMAIN snap
    <3> HIDE DEF A, C, budget, plan
    <3> QED
      BY <1>1, <1>6
  <2> HIDE DEF A, C, budget, plan
  <2> QED
    BY <1>1, <2>1, <2>2
<1>8. Costs(snap, plan) + Costs(snap, A) + FloorBytes + SafetyBuffer
        <= freeBytes
  <2> HIDE DEF A, C, plan
  <2> QED
    BY <1>6, <1>7, FloorType
<1> QED
  BY <1>3, <1>8
=============================================================================

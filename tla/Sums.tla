-------------------------------- MODULE Sums --------------------------------
(****************************************************************************)
(* The sum of a function over a finite set, SumFunctionOnSet of the module  *)
(* Functions: that it may be taken element by element, in any order, and    *)
(* what follows from that.  The byte totals of the traffic modules and the  *)
(* repeated points of the feed are such sums.                               *)
(*                                                                          *)
(* The fold behind it is a recursive function that is chosen, so a sum is   *)
(* shown first to have one that fits, and then that all of them agree.      *)
(* Both, and every fact below that goes through a set element by element,   *)
(* are inductions over a collection of sets (FiniteIsGenerated).            *)
(****************************************************************************)
EXTENDS Integers, FiniteSets, Functions, FiniteSetTheorems, WellFoundedInduction, TLAPS

(* A set of numbers that holds 0 and every successor holds all of them. *)
LEMMA NatIsGenerated ==
    ASSUME NEW G, 0 \in G, \A n \in Nat : n \in G => n + 1 \in G
    PROVE  Nat \subseteq G
<1> SUFFICES ASSUME Nat \ G # {} PROVE FALSE
  OBVIOUS
<1> DEFINE R == OpToRel(<, Nat)
           rest == Nat \ G
<1>1. \A a, b \in Nat : a < b => <<a, b>> \in R
  BY DEF OpToRel
<1>2. IsWellFoundedOn(R, Nat) /\ rest \subseteq Nat /\ rest # {}
  BY NatLessThanWellFounded
<1> HIDE DEF R
<1>3. PICK m \in rest : \A y \in rest : <<y, m>> \notin R
  <2> HIDE DEF rest
  <2> QED BY <1>2, WFMin, Zenon
<1>4. m \in Nat /\ m # 0
  BY <1>3
<1>5. m - 1 \in Nat /\ m - 1 < m /\ (m - 1) + 1 = m
  BY <1>4
<1>6. m - 1 \in G
  BY <1>1, <1>3, <1>4, <1>5
<1> QED
  BY <1>3, <1>5, <1>6

(* Induction over a finite set, with the sets that are known to be good. *)
LEMMA FiniteIsGenerated ==
    ASSUME NEW S, IsFiniteSet(S), NEW G, {} \in G,
           \A T \in SUBSET S, x \in S : T \in G /\ x \notin T => T \cup {x} \in G
    PROVE  S \in G
<1> DEFINE N == {n \in Nat : \A T \in SUBSET S : Cardinality(T) = n => T \in G}
<1>1. \A T \in SUBSET S : IsFiniteSet(T) /\ Cardinality(T) \in Nat
  BY FS_Subset, FS_CardinalityType
<1>2. 0 \in N
  BY <1>1, FS_EmptySet
<1>3. ASSUME NEW n \in Nat, n \in N PROVE n + 1 \in N
  <2> SUFFICES ASSUME NEW T \in SUBSET S, Cardinality(T) = n + 1 PROVE T \in G
    OBVIOUS
  <2>1. T # {}
    <3>1. Cardinality({}) = 0
      BY FS_EmptySet
    <3>2. n + 1 # 0
      OBVIOUS
    <3> QED BY <3>1, <3>2
  <2>2. PICK x \in T : TRUE
    BY <2>1
  <2>3. Cardinality(T \ {x}) = n
    <3>1. Cardinality(T \ {x}) = Cardinality(T) - 1
      BY <1>1, <2>2, FS_RemoveElement
    <3> QED BY <3>1
  <2>4. T \ {x} \in G
    BY <1>3, <2>3
  <2>5. T = (T \ {x}) \cup {x}
    OBVIOUS
  <2> QED
    BY <2>4, <2>5
<1> HIDE DEF N
<1>4. Nat \subseteq N
  BY <1>2, <1>3, NatIsGenerated
<1> QED
  BY <1>1, <1>4 DEF N

-----------------------------------------------------------------------------

Pick(s) == CHOOSE x \in s : TRUE

(* The equation by which the sums of all sets in D are defined *)
SumsUp(g, f, D) == g = [s \in D |-> IF s = {} THEN 0 ELSE f[Pick(s)] + g[s \ {Pick(s)}]]

SumsUpAll(g, f, S) == SumsUp(g, f, SUBSET S)

(* A sum by its definition.                                                 *)
LEMMA SumUnfolds ==
    ASSUME NEW f, NEW S
    PROVE  SumFunctionOnSet(f, S) = (CHOOSE g : SumsUpAll(g, f, S))[S]
BY DEF SumFunctionOnSet, FoldFunctionOnSet, MapThenFoldSet, SumsUpAll, SumsUp, Pick

(* The element that a fold takes next is one of the set.                    *)
LEMMA PickIsMember == ASSUME NEW s, s # {} PROVE Pick(s) \in s
BY DEF Pick

(* There is a function that sums up every subset of a finite set.           *)
LEMMA SumsExist ==
    ASSUME NEW f, NEW S, IsFiniteSet(S)
    PROVE  \E g : SumsUpAll(g, f, S)
<1> DEFINE Upto(n) == {s \in SUBSET S : Cardinality(s) <= n}
           N == {n \in Nat : \E g : SumsUp(g, f, Upto(n))}
<1>1. \A s \in SUBSET S : IsFiniteSet(s) /\ Cardinality(s) \in Nat /\ Cardinality(s) <= Cardinality(S)
  BY FS_Subset, FS_CardinalityType
<1>2. 0 \in N
  <2>1. \A s \in Upto(0) : s = {}
    BY <1>1, FS_EmptySet
  <2> DEFINE g == [s \in Upto(0) |-> 0]
  <2>2. SumsUp(g, f, Upto(0))
    BY <2>1 DEF SumsUp
  <2> QED
    BY <2>2
<1>3. ASSUME NEW n \in Nat, n \in N PROVE n + 1 \in N
  <2>1. PICK g : SumsUp(g, f, Upto(n))
    BY <1>3
  <2> DEFINE h == [s \in Upto(n + 1) |-> IF s = {} THEN 0 ELSE f[Pick(s)] + g[s \ {Pick(s)}]]
  <2>2. ASSUME NEW s \in Upto(n) PROVE s \in Upto(n + 1) /\ h[s] = g[s]
    <3>1. s \in Upto(n + 1)
      BY <1>1
    <3>2. g[s] = IF s = {} THEN 0 ELSE f[Pick(s)] + g[s \ {Pick(s)}]
      <4> HIDE DEF Upto
      <4> QED BY <2>1 DEF SumsUp
    <3> QED BY <3>1, <3>2
  <2>3. ASSUME NEW s \in Upto(n + 1), s # {} PROVE s \ {Pick(s)} \in Upto(n)
    <3>1. Cardinality(s \ {Pick(s)}) = Cardinality(s) - 1
      BY <1>1, <2>3, PickIsMember, FS_RemoveElement
    <3> QED BY <1>1, <3>1
  <2>4. \A s \in Upto(n + 1) : h[s] = IF s = {} THEN 0 ELSE f[Pick(s)] + h[s \ {Pick(s)}]
    BY <2>2, <2>3
  <2>5. h = [s \in Upto(n + 1) |-> IF s = {} THEN 0 ELSE f[Pick(s)] + h[s \ {Pick(s)}]]
    BY <2>4
  <2>6. SumsUp(h, f, Upto(n + 1))
    <3> HIDE DEF h, Upto
    <3> QED BY <2>5 DEF SumsUp
  <2> HIDE DEF h, Upto
  <2> QED
    BY <2>6
<1>4. Nat \subseteq N
  <2> HIDE DEF N
  <2> QED BY <1>2, <1>3, NatIsGenerated
<1>5. Upto(Cardinality(S)) = SUBSET S /\ Cardinality(S) \in Nat
  BY <1>1
<1> QED
  BY <1>4, <1>5 DEF SumsUpAll

(* One function sums up all subsets, and gives the sum of each. *)
LEMMA SumsAgree ==
    ASSUME NEW f, NEW S, NEW T, IsFiniteSet(T), S \subseteq T,
           NEW g, NEW h, SumsUpAll(g, f, S), SumsUpAll(h, f, T)
    PROVE  g[S] = h[S]
<1> DEFINE N == {n \in Nat : \A s \in SUBSET S : Cardinality(s) = n => g[s] = h[s]}
<1>1. \A s \in SUBSET S : IsFiniteSet(s) /\ Cardinality(s) \in Nat
  BY FS_Subset, FS_CardinalityType
<1>2. \A s \in SUBSET S :
        /\ g[s] = IF s = {} THEN 0 ELSE f[Pick(s)] + g[s \ {Pick(s)}]
        /\ h[s] = IF s = {} THEN 0 ELSE f[Pick(s)] + h[s \ {Pick(s)}]
  BY DEF SumsUp, SumsUpAll
<1>3. 0 \in N
  BY <1>1, <1>2, FS_EmptySet
<1>4. ASSUME NEW n \in Nat, n \in N PROVE n + 1 \in N
  <2> SUFFICES ASSUME NEW s \in SUBSET S, Cardinality(s) = n + 1 PROVE g[s] = h[s]
    OBVIOUS
  <2>1. s # {}
    BY FS_EmptySet
  <2>2. Cardinality(s \ {Pick(s)}) = Cardinality(s) - 1
    BY <1>1, <2>1, PickIsMember, FS_RemoveElement
  <2>3. Cardinality(s \ {Pick(s)}) = n /\ s \ {Pick(s)} \in SUBSET S
    BY <2>2
  <2> QED
    BY <1>2, <1>4, <2>1, <2>3
<1>5. Nat \subseteq N
  <2> HIDE DEF N
  <2> QED BY <1>3, <1>4, NatIsGenerated
<1> QED
  BY <1>1, <1>5

(* A sum is nothing, or one element and the sum of the rest.                *)
LEMMA SumRecursion ==
    ASSUME NEW f, NEW S, IsFiniteSet(S)
    PROVE  SumFunctionOnSet(f, S) =
             IF S = {} THEN 0 ELSE f[Pick(S)] + SumFunctionOnSet(f, S \ {Pick(S)})
<1> DEFINE g == CHOOSE g : SumsUpAll(g, f, S)
           R == S \ {Pick(S)}
           h == CHOOSE h : SumsUpAll(h, f, R)
<1>1. SumsUpAll(g, f, S)
  BY SumsExist
<1>2. IsFiniteSet(R) /\ R \subseteq S
  BY FS_Subset
<1>3. SumsUpAll(h, f, R)
  BY <1>2, SumsExist
<1>4. SumFunctionOnSet(f, S) = g[S] /\ SumFunctionOnSet(f, R) = h[R]
  BY SumUnfolds
<1> HIDE DEF g, h
<1>5. h[R] = g[R]
  <2> HIDE DEF R
  <2> QED BY <1>1, <1>2, <1>3, SumsAgree
<1>6. g[S] = IF S = {} THEN 0 ELSE f[Pick(S)] + g[R]
  BY <1>1 DEF SumsUp, SumsUpAll
<1> QED
  BY <1>4, <1>5, <1>6

(* Nothing sums to zero.                                                    *)
LEMMA SumEmpty == ASSUME NEW f PROVE SumFunctionOnSet(f, {}) = 0
BY SumRecursion, FS_EmptySet

(* The sum does not depend on the order in which the elements are taken. *)
LEMMA SumRemove ==
    ASSUME NEW f, NEW S, IsFiniteSet(S), \A s \in S : f[s] \in Int
    PROVE  /\ SumFunctionOnSet(f, S) \in Int
           /\ \A x \in S : SumFunctionOnSet(f, S) = f[x] + SumFunctionOnSet(f, S \ {x})
<1> DEFINE Sum(T) == SumFunctionOnSet(f, T)
           Good(T) == Sum(T) \in Int /\ \A x \in T : Sum(T) = f[x] + Sum(T \ {x})
           N == {n \in Nat : \A T \in SUBSET S : Cardinality(T) <= n => Good(T)}
<1>1. \A T \in SUBSET S : IsFiniteSet(T) /\ Cardinality(T) \in Nat
  BY FS_Subset, FS_CardinalityType
<1>2. Sum({}) = 0
  BY SumEmpty
<1>3. \A T \in SUBSET S : T # {} => Pick(T) \in T /\ Sum(T) = f[Pick(T)] + Sum(T \ {Pick(T)})
  BY <1>1, SumRecursion, PickIsMember
<1> HIDE DEF Sum
<1>4. 0 \in N
  <2>1. \A T \in SUBSET S : Cardinality(T) <= 0 => T = {}
    BY <1>1, FS_EmptySet
  <2>2. Good({})
    BY <1>2
  <2> HIDE DEF Good
  <2> QED
    BY <2>1, <2>2
<1>5. ASSUME NEW n \in Nat, n \in N PROVE n + 1 \in N
  <2> SUFFICES ASSUME NEW T \in SUBSET S, Cardinality(T) <= n + 1, T # {} PROVE Good(T)
    BY <1>2
  <2> DEFINE y == Pick(T)
  <2>1. y \in T /\ y \in S /\ f[y] \in Int /\ Sum(T) = f[y] + Sum(T \ {y})
    BY <1>3
  <2> HIDE DEF y
  <2>2. ASSUME NEW x \in T PROVE T \ {x} \in SUBSET S /\ Good(T \ {x}) /\ Good((T \ {x}) \ {y})
    <3>1. Cardinality(T \ {x}) = Cardinality(T) - 1
      BY <1>1, FS_RemoveElement
    <3>2. Cardinality(T \ {x}) <= n
      BY <1>1, <3>1
    <3>3. (T \ {x}) \ {y} \in SUBSET S /\ T \ {x} \in SUBSET S
      OBVIOUS
    <3>4. Cardinality((T \ {x}) \ {y}) <= Cardinality(T \ {x})
      BY <1>1, <3>3, FS_Subset
    <3>5. Cardinality((T \ {x}) \ {y}) <= n
      BY <1>1, <3>2, <3>3, <3>4
    <3> HIDE DEF Good
    <3> QED BY <1>5, <3>2, <3>3, <3>5
  <2>3. Sum(T) \in Int
    BY <2>1, <2>2
  <2>4. ASSUME NEW x \in T, x # y PROVE Sum(T) = f[x] + Sum(T \ {x})
    <3> DEFINE U == (T \ {x}) \ {y}
    <3>1. Sum(T \ {y}) = f[x] + Sum((T \ {y}) \ {x})
      BY <2>1, <2>2, <2>4
    <3>2. Sum(T \ {x}) = f[y] + Sum(U)
      BY <2>1, <2>2, <2>4
    <3>3. (T \ {y}) \ {x} = U
      OBVIOUS
    <3>4. Sum(U) \in Int /\ f[x] \in Int
      BY <2>2
    <3>5. Sum(T) = f[y] + Sum(T \ {y}) /\ f[y] \in Int
      BY <2>1
    <3>6. Sum(T \ {y}) = f[x] + Sum(U)
      BY <3>1, <3>3
    <3> HIDE DEF U
    <3>7. Sum(T) = f[y] + (f[x] + Sum(U))
      BY <3>5, <3>6
    <3>8. f[y] + (f[x] + Sum(U)) = f[x] + (f[y] + Sum(U))
      BY <3>4, <3>5
    <3> QED BY <3>2, <3>7, <3>8
  <2> QED
    BY <2>1, <2>3, <2>4
<1>6. Nat \subseteq N
  <2> HIDE DEF N
  <2> QED BY <1>4, <1>5, NatIsGenerated
<1>7. Good(S)
  BY <1>1, <1>6
<1> QED
  BY <1>7 DEF Sum

(* A new element adds its own share.                                        *)
LEMMA SumInsert ==
    ASSUME NEW f, NEW S, IsFiniteSet(S), NEW x, x \notin S, \A s \in S \cup {x} : f[s] \in Int
    PROVE  SumFunctionOnSet(f, S \cup {x}) = f[x] + SumFunctionOnSet(f, S)
<1>1. IsFiniteSet(S \cup {x})
  BY FS_AddElement
<1>2. (S \cup {x}) \ {x} = S
  OBVIOUS
<1> QED
  BY <1>1, <1>2, SumRemove

(* A single element is its own sum.                                         *)
LEMMA SumOfOne ==
    ASSUME NEW f, NEW x, f[x] \in Int
    PROVE  SumFunctionOnSet(f, {x}) = f[x]
<1>1. {x} = {} \cup {x}
  OBVIOUS
<1>2. SumFunctionOnSet(f, {} \cup {x}) = f[x] + 0
  BY SumInsert, SumEmpty, FS_EmptySet
<1> QED
  BY <1>1, <1>2

(* Sums may be compared, added and subtracted element by element. *)
LEMMA SumCompare ==
    ASSUME NEW S, IsFiniteSet(S), NEW f, NEW g,
           \A s \in S : f[s] \in Int /\ g[s] \in Int /\ f[s] <= g[s]
    PROVE  SumFunctionOnSet(f, S) <= SumFunctionOnSet(g, S)
<1> DEFINE G == {T \in SUBSET S : SumFunctionOnSet(f, T) <= SumFunctionOnSet(g, T)}
<1>1. {} \in G
  BY SumEmpty
<1>2. ASSUME NEW T \in SUBSET S, NEW x \in S, T \in G, x \notin T PROVE T \cup {x} \in G
  <2>1. IsFiniteSet(T)
    BY FS_Subset
  <2>2. SumFunctionOnSet(f, T) \in Int /\ SumFunctionOnSet(g, T) \in Int
    BY <2>1, SumRemove
  <2>3. /\ SumFunctionOnSet(f, T \cup {x}) = f[x] + SumFunctionOnSet(f, T)
        /\ SumFunctionOnSet(g, T \cup {x}) = g[x] + SumFunctionOnSet(g, T)
    BY <1>2, <2>1, SumInsert
  <2> QED
    BY <1>2, <2>2, <2>3
<1> HIDE DEF G
<1>3. S \in G
  BY <1>1, <1>2, FiniteIsGenerated
<1> QED
  BY <1>3 DEF G

(* Functions that agree on a set have the same sum over it.                 *)
LEMMA SumSame ==
    ASSUME NEW S, IsFiniteSet(S), NEW f, NEW g, \A s \in S : f[s] \in Int /\ f[s] = g[s]
    PROVE  SumFunctionOnSet(f, S) = SumFunctionOnSet(g, S)
<1>1. SumFunctionOnSet(f, S) <= SumFunctionOnSet(g, S) /\ SumFunctionOnSet(g, S) <= SumFunctionOnSet(f, S)
  BY SumCompare
<1>2. SumFunctionOnSet(f, S) \in Int /\ SumFunctionOnSet(g, S) \in Int
  BY SumRemove
<1> QED
  BY <1>1, <1>2

(* The sum of what two functions add up to is what their sums add up to.    *)
LEMMA SumAdds ==
    ASSUME NEW S, IsFiniteSet(S), NEW f, NEW g, NEW h,
           \A s \in S : f[s] \in Int /\ g[s] \in Int /\ h[s] = f[s] + g[s]
    PROVE  SumFunctionOnSet(h, S) = SumFunctionOnSet(f, S) + SumFunctionOnSet(g, S)
<1> DEFINE G == {T \in SUBSET S :
                  SumFunctionOnSet(h, T) = SumFunctionOnSet(f, T) + SumFunctionOnSet(g, T)}
<1>1. {} \in G
  BY SumEmpty
<1>2. ASSUME NEW T \in SUBSET S, NEW x \in S, T \in G, x \notin T PROVE T \cup {x} \in G
  <2>1. IsFiniteSet(T)
    BY FS_Subset
  <2>2. SumFunctionOnSet(f, T) \in Int /\ SumFunctionOnSet(g, T) \in Int
    BY <2>1, SumRemove
  <2>3. \A s \in T \cup {x} : f[s] \in Int /\ g[s] \in Int /\ h[s] \in Int
    OBVIOUS
  <2>4. /\ SumFunctionOnSet(f, T \cup {x}) = f[x] + SumFunctionOnSet(f, T)
        /\ SumFunctionOnSet(g, T \cup {x}) = g[x] + SumFunctionOnSet(g, T)
        /\ SumFunctionOnSet(h, T \cup {x}) = h[x] + SumFunctionOnSet(h, T)
    BY <1>2, <2>1, <2>3, SumInsert
  <2> QED
    BY <1>2, <2>2, <2>4
<1> HIDE DEF G
<1>3. S \in G
  BY <1>1, <1>2, FiniteIsGenerated
<1> QED
  BY <1>3 DEF G

(* Two disjoint sets. *)
LEMMA SumOfUnion ==
    ASSUME NEW S, IsFiniteSet(S), NEW T, IsFiniteSet(T), S \cap T = {},
           NEW f, \A s \in S \cup T : f[s] \in Int
    PROVE  SumFunctionOnSet(f, S \cup T) = SumFunctionOnSet(f, S) + SumFunctionOnSet(f, T)
<1> DEFINE G == {U \in SUBSET T :
                  SumFunctionOnSet(f, S \cup U) = SumFunctionOnSet(f, S) + SumFunctionOnSet(f, U)}
<1>1. {} \in G
  <2>1. S \cup {} = S
    OBVIOUS
  <2> QED BY <2>1, SumEmpty, SumRemove
<1>2. ASSUME NEW U \in SUBSET T, NEW x \in T, U \in G, x \notin U PROVE U \cup {x} \in G
  <2>1. IsFiniteSet(U) /\ IsFiniteSet(S \cup U)
    BY FS_Subset, FS_Union
  <2>2. SumFunctionOnSet(f, S) \in Int /\ SumFunctionOnSet(f, U) \in Int
    BY <2>1, SumRemove
  <2>3. x \notin S \cup U
    BY <1>2
  <2>4. /\ SumFunctionOnSet(f, (S \cup U) \cup {x}) = f[x] + SumFunctionOnSet(f, S \cup U)
        /\ SumFunctionOnSet(f, U \cup {x}) = f[x] + SumFunctionOnSet(f, U)
    BY <1>2, <2>1, <2>3, SumInsert
  <2>5. S \cup (U \cup {x}) = (S \cup U) \cup {x}
    OBVIOUS
  <2>6. f[x] \in Int /\ SumFunctionOnSet(f, S \cup U) = SumFunctionOnSet(f, S) + SumFunctionOnSet(f, U)
    BY <1>2
  <2>7. SumFunctionOnSet(f, S \cup (U \cup {x})) = f[x] + (SumFunctionOnSet(f, S) + SumFunctionOnSet(f, U))
    BY <2>4, <2>5, <2>6
  <2>8. f[x] + (SumFunctionOnSet(f, S) + SumFunctionOnSet(f, U))
          = SumFunctionOnSet(f, S) + (f[x] + SumFunctionOnSet(f, U))
    BY <2>2, <2>6
  <2> QED
    BY <2>4, <2>7, <2>8
<1> HIDE DEF G
<1>3. T \in G
  BY <1>1, <1>2, FiniteIsGenerated
<1> QED
  BY <1>3 DEF G

(* Renaming the elements. *)
LEMMA SumRenamed ==
    ASSUME NEW S, IsFiniteSet(S), NEW b, \A s, t \in S : b[s] = b[t] => s = t,
           NEW f, NEW g, \A s \in S : f[s] \in Int /\ g[b[s]] = f[s]
    PROVE  /\ IsFiniteSet({b[s] : s \in S})
           /\ SumFunctionOnSet(g, {b[s] : s \in S}) = SumFunctionOnSet(f, S)
<1> DEFINE Image(T) == {b[s] : s \in T}
           G == {T \in SUBSET S : /\ IsFiniteSet(Image(T))
                                  /\ SumFunctionOnSet(g, Image(T)) = SumFunctionOnSet(f, T)}
<1>1. {} \in G
  <2>1. Image({}) = {}
    OBVIOUS
  <2> QED BY <2>1, SumEmpty, FS_EmptySet
<1>2. ASSUME NEW T \in SUBSET S, NEW x \in S, T \in G, x \notin T PROVE T \cup {x} \in G
  <2>1. Image(T \cup {x}) = Image(T) \cup {b[x]} /\ b[x] \notin Image(T)
    BY <1>2
  <2>2. IsFiniteSet(T) /\ IsFiniteSet(Image(T))
    BY <1>2, FS_Subset
  <2>3. \A t \in Image(T) \cup {b[x]} : g[t] \in Int
    OBVIOUS
  <2>4. SumFunctionOnSet(g, Image(T)) = SumFunctionOnSet(f, T) /\ f[x] = g[b[x]]
    BY <1>2
  <2>5. SumFunctionOnSet(f, T \cup {x}) = f[x] + SumFunctionOnSet(f, T)
    BY <1>2, <2>2, SumInsert
  <2> HIDE DEF Image
  <2>6. SumFunctionOnSet(g, Image(T) \cup {b[x]}) = g[b[x]] + SumFunctionOnSet(g, Image(T))
    BY <2>1, <2>2, <2>3, SumInsert
  <2>7. IsFiniteSet(Image(T) \cup {b[x]})
    BY <2>2, FS_AddElement
  <2> QED
    BY <2>1, <2>4, <2>5, <2>6, <2>7
<1> HIDE DEF G
<1>3. S \in G
  BY <1>1, <1>2, FiniteIsGenerated
<1> QED
  BY <1>3 DEF G

(* A sum of natural numbers is one, and no less than any of them. *)
LEMMA SumIsNat ==
    ASSUME NEW S, IsFiniteSet(S), NEW f, \A s \in S : f[s] \in Nat
    PROVE  /\ SumFunctionOnSet(f, S) \in Nat
           /\ \A x \in S : f[x] <= SumFunctionOnSet(f, S)
<1> DEFINE G == {T \in SUBSET S : SumFunctionOnSet(f, T) \in Nat}
<1>1. {} \in G
  BY SumEmpty
<1>2. ASSUME NEW T \in SUBSET S, NEW x \in S, T \in G, x \notin T PROVE T \cup {x} \in G
  <2>1. IsFiniteSet(T)
    BY FS_Subset
  <2>2. SumFunctionOnSet(f, T \cup {x}) = f[x] + SumFunctionOnSet(f, T)
    BY <1>2, <2>1, SumInsert
  <2> QED
    BY <1>2, <2>2
<1> HIDE DEF G
<1>3. \A T \in SUBSET S : T \in G
  <2> SUFFICES ASSUME NEW T \in SUBSET S PROVE T \in G
    OBVIOUS
  <2>1. IsFiniteSet(T) /\ \A U \in SUBSET T, x \in T : U \in G /\ x \notin U => U \cup {x} \in G
    BY <1>2, FS_Subset
  <2> QED
    BY <1>1, <2>1, FiniteIsGenerated
<1>4. ASSUME NEW x \in S PROVE f[x] <= SumFunctionOnSet(f, S)
  <2>1. SumFunctionOnSet(f, S) = f[x] + SumFunctionOnSet(f, S \ {x})
    BY SumRemove
  <2>2. SumFunctionOnSet(f, S \ {x}) \in Nat
    BY <1>3 DEF G
  <2> QED
    BY <2>1, <2>2
<1> QED
  BY <1>3, <1>4 DEF G

(* Elements that count nothing may be left out. *)
LEMMA SumOfPart ==
    ASSUME NEW S, IsFiniteSet(S), NEW T \in SUBSET S, NEW f,
           \A s \in S : f[s] \in Int, \A s \in S \ T : f[s] = 0
    PROVE  SumFunctionOnSet(f, S) = SumFunctionOnSet(f, T)
<1> DEFINE G == {U \in SUBSET (S \ T) : SumFunctionOnSet(f, U) = 0}
           R == S \ T
<1>1. IsFiniteSet(T) /\ IsFiniteSet(R) /\ T \cap R = {} /\ T \cup R = S
  BY FS_Subset
<1>2. {} \in G
  BY SumEmpty
<1>3. ASSUME NEW U \in SUBSET R, NEW x \in R, U \in G, x \notin U PROVE U \cup {x} \in G
  <2>1. IsFiniteSet(U)
    BY <1>1, FS_Subset
  <2>2. SumFunctionOnSet(f, U \cup {x}) = f[x] + SumFunctionOnSet(f, U)
    BY <1>3, <2>1, SumInsert
  <2> QED
    BY <1>3, <2>2
<1>4. R \in G
  <2> HIDE DEF G, R
  <2> QED BY <1>1, <1>2, <1>3, FiniteIsGenerated
<1>5. SumFunctionOnSet(f, T \cup R) = SumFunctionOnSet(f, T) + SumFunctionOnSet(f, R)
  <2>1. \A s \in T \cup R : f[s] \in Int
    OBVIOUS
  <2> HIDE DEF R
  <2> QED BY <1>1, <2>1, SumOfUnion
<1>6. SumFunctionOnSet(f, R) = 0
  BY <1>4
<1>7. SumFunctionOnSet(f, T) \in Int
  BY <1>1, SumRemove
<1>8. SumFunctionOnSet(f, S) = SumFunctionOnSet(f, T \cup R)
  BY <1>1
<1> HIDE DEF R
<1> QED
  BY <1>5, <1>6, <1>7, <1>8

(* Fewer natural numbers have no greater sum. *)
LEMMA SumOfFewer ==
    ASSUME NEW S, IsFiniteSet(S), NEW T \in SUBSET S, NEW f, \A s \in S : f[s] \in Nat
    PROVE  SumFunctionOnSet(f, T) <= SumFunctionOnSet(f, S)
<1> DEFINE R == S \ T
<1>1. IsFiniteSet(T) /\ IsFiniteSet(R) /\ T \cap R = {} /\ T \cup R = S
  BY FS_Subset
<1>2. \A s \in T \cup R : f[s] \in Nat /\ f[s] \in Int
  BY <1>1
<1> HIDE DEF R
<1>3. SumFunctionOnSet(f, T \cup R) = SumFunctionOnSet(f, T) + SumFunctionOnSet(f, R)
  BY <1>1, <1>2, SumOfUnion
<1>4. SumFunctionOnSet(f, T) \in Nat /\ SumFunctionOnSet(f, R) \in Nat
  BY <1>1, <1>2, SumIsNat
<1>5. SumFunctionOnSet(f, S) = SumFunctionOnSet(f, T \cup R)
  BY <1>1
<1> QED
  BY <1>3, <1>4, <1>5

(* The image of a finite set is finite. *)
LEMMA FiniteImage ==
    ASSUME NEW S, IsFiniteSet(S), NEW b
    PROVE  IsFiniteSet({b[s] : s \in S})
<1> DEFINE G == {T \in SUBSET S : IsFiniteSet({b[s] : s \in T})}
<1>1. {} \in G
  <2>1. {b[s] : s \in {}} = {}
    OBVIOUS
  <2> QED BY <2>1, FS_EmptySet
<1>2. ASSUME NEW T \in SUBSET S, NEW x \in S, T \in G, x \notin T PROVE T \cup {x} \in G
  <2>1. {b[s] : s \in T \cup {x}} = {b[s] : s \in T} \cup {b[x]}
    OBVIOUS
  <2>2. IsFiniteSet({b[s] : s \in T} \cup {b[x]})
    BY <1>2, FS_AddElement
  <2>3. IsFiniteSet({b[s] : s \in T \cup {x}})
    BY <2>1, <2>2
  <2> QED BY <2>3
<1>3. S \in G
  <2> HIDE DEF G
  <2> QED BY <1>1, <1>2, FiniteIsGenerated
<1> QED BY <1>3
=============================================================================

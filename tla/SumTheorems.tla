---------------------------- MODULE SumTheorems ----------------------------
(***************************************************************************)
(* Facts about numbers, finite sets and sums that the proofs share.        *)
(*                                                                         *)
(* Induction comes from WFMin: a set of numbers has a least one            *)
(* (LeastNumber).  Stated for sets it needs no operator as parameter: a    *)
(* set of numbers that holds 0 and every successor holds all numbers       *)
(* (NumberInduction), and a set of subsets of a finite set S that holds a  *)
(* subset whenever it holds each of those with one element less holds S    *)
(* itself (SubsetInduction).                                               *)
(*                                                                         *)
(* Functions!SumFunctionOnSet is a fold: it takes one element after        *)
(* another out of the set, by CHOOSE, and is defined by the function that  *)
(* solves this recursion.  Such a function exists (SumsExist), its values  *)
(* do not depend on the set it is defined for (SumsAgree), and for natural *)
(* numbers not on the order in which the elements are taken (SumTakesOut). *)
(* The rest is arithmetic.                                                 *)
(***************************************************************************)
EXTENDS Integers, FiniteSets, Functions, WellFoundedInduction, FiniteSetTheorems, TLAPS

---------------------------------------------------------------------------
(* Induction *)

(* A set of natural numbers that is not empty has a least element.          *)
LEMMA LeastNumber ==
    ASSUME NEW T, T \subseteq Nat, T # {}
    PROVE  \E n \in T : \A m \in T : n <= m
<1> DEFINE R == OpToRel(<, Nat)
<1>1. IsWellFoundedOn(R, Nat)
  BY NatLessThanWellFounded
<1>2. \A m, n \in Nat : <<m, n>> \in R <=> m < n
  BY DEF OpToRel
<1> HIDE DEF R
<1>3. \E n \in T : \A m \in T : <<m, n>> \notin R
  BY <1>1, WFMin
<1>4. \A m, n \in T : <<m, n>> \notin R => n <= m
  BY <1>2
<1> QED
  BY <1>3, <1>4

(* A set that holds 0, and the successor of each of its numbers, holds all. *)
LEMMA NumberInduction ==
    ASSUME NEW T, 0 \in T, \A n \in Nat : n \in T => n + 1 \in T
    PROVE  Nat \subseteq T
<1> SUFFICES ASSUME Nat \ T # {}
             PROVE  FALSE
  OBVIOUS
<1>1. PICK n \in Nat \ T : \A m \in Nat \ T : n <= m
  BY LeastNumber
<1>2. n # 0 /\ n - 1 \in Nat /\ n - 1 \in T
  BY <1>1
<1> QED
  BY <1>1, <1>2

(* A family that holds a subset of a finite set S whenever it holds what is *)
(* left of it without any one element holds every subset of S.              *)
LEMMA SubsetInduction ==
    ASSUME NEW S, IsFiniteSet(S), NEW Good,
           \A T \in SUBSET S : (\A x \in T : T \ {x} \in Good) => T \in Good
    PROVE  \A T \in SUBSET S : T \in Good
<1> SUFFICES ASSUME NEW B \in SUBSET S, B \notin Good
             PROVE  FALSE
  OBVIOUS
<1> DEFINE Sizes == {Cardinality(T) : T \in (SUBSET S) \ Good}
<1>1. \A T \in SUBSET S : IsFiniteSet(T) /\ Cardinality(T) \in Nat
  BY FS_Subset, FS_CardinalityType
<1>2. PICK n \in Sizes : \A m \in Sizes : n <= m
  <2>1. Sizes \subseteq Nat /\ Sizes # {}
    BY <1>1
  <2> HIDE DEF Sizes
  <2> QED
    BY <2>1, LeastNumber
<1>3. PICK T \in (SUBSET S) \ Good : n = Cardinality(T)
  BY <1>2
<1>4. ASSUME NEW x \in T
      PROVE  T \ {x} \in Good
  <2>1. Cardinality(T \ {x}) = n - 1 /\ T \ {x} \in SUBSET S
    BY <1>1, <1>3, <1>4, FS_RemoveElement
  <2>2. Cardinality(T \ {x}) \notin Sizes
    BY <1>1, <1>2, <1>3, <2>1
  <2> QED
    BY <2>1, <2>2
<1> QED
  BY <1>3, <1>4

---------------------------------------------------------------------------
(* The recursion of SumFunctionOnSet *)

Pick(s) == CHOOSE x \in s : TRUE

(* What Functions!SumFunctionOnSet computes, for each subset of S. *)
Solves(h, f, D) ==
    h = [s \in D |-> IF s = {} THEN 0 ELSE f[Pick(s)] + h[s \ {Pick(s)}]]

Sums(f, S) == CHOOSE h : Solves(h, f, SUBSET S)

(* The fold of the library, written as this recursion.                      *)
LEMMA SumIsOfSums == \A f, S : SumFunctionOnSet(f, S) = Sums(f, S)[S]
  BY DEF SumFunctionOnSet, FoldFunctionOnSet, MapThenFoldSet, Sums, Solves, Pick

LEMMA PickIn == \A s : s # {} => Pick(s) \in s
  BY DEF Pick

(* A function that solves the recursion exists: by induction on the size of *)
(* the subsets for which it is to be defined.                               *)
LEMMA SumsExist ==
    ASSUME NEW f, NEW S, IsFiniteSet(S)
    PROVE  \E h : Solves(h, f, SUBSET S)
<1> DEFINE Small(n) == {s \in SUBSET S : Cardinality(s) <= n}
           Solved == {n \in Nat : \E h : Solves(h, f, Small(n))}
<1>1. \A s \in SUBSET S : IsFiniteSet(s) /\ Cardinality(s) \in Nat
  BY FS_Subset, FS_CardinalityType
<1>2. \A n \in Nat : \A s \in Small(n + 1) : s # {} => s \ {Pick(s)} \in Small(n)
  BY <1>1, PickIn, FS_RemoveElement
<1>3. 0 \in Solved
  <2> DEFINE h == [s \in Small(0) |-> 0]
  <2>1. \A s \in Small(0) : s = {}
    BY <1>1, FS_EmptySet
  <2>2. Solves(h, f, Small(0))
    BY <2>1 DEF Solves
  <2> QED
    BY <2>2
<1>4. ASSUME NEW n \in Nat, n \in Solved
      PROVE  n + 1 \in Solved
  <2>1. PICK h : Solves(h, f, Small(n))
    BY <1>4
  <2> DEFINE g == [s \in Small(n + 1) |->
                     IF s = {} THEN 0 ELSE f[Pick(s)] + h[s \ {Pick(s)}]]
  <2>2. Small(n) \subseteq Small(n + 1)
    BY <1>1
  <2>3. \A s \in Small(n) : g[s] = h[s]
    BY <2>1, <2>2 DEF Solves
  <2>4. \A s \in Small(n + 1) : s # {} => g[s \ {Pick(s)}] = h[s \ {Pick(s)}]
    BY <1>2, <2>3
  <2> HIDE DEF Small
  <2>5. Solves(g, f, Small(n + 1))
    BY <2>4 DEF Solves
  <2> HIDE DEF g
  <2> QED
    BY <2>5
<1>5. Cardinality(S) \in Solved
  <2> HIDE DEF Solved
  <2> QED
    BY <1>1, <1>3, <1>4, NumberInduction
<1>6. Small(Cardinality(S)) = SUBSET S
  BY FS_Subset
<1> QED
  BY <1>5, <1>6

(* One element is taken out, and the sum of the others added.               *)
LEMMA SumsStep ==
    ASSUME NEW f, NEW S, IsFiniteSet(S), NEW s \in SUBSET S
    PROVE  Sums(f, S)[s] = IF s = {} THEN 0
                           ELSE f[Pick(s)] + Sums(f, S)[s \ {Pick(s)}]
<1>1. Solves(Sums(f, S), f, SUBSET S)
  BY SumsExist DEF Sums
<1> QED
  BY <1>1 DEF Solves

(* The sums of the subsets do not depend on the set they are subsets of.    *)
LEMMA SumsAgree ==
    ASSUME NEW f, NEW S, IsFiniteSet(S), NEW T \in SUBSET S
    PROVE  Sums(f, S)[T] = SumFunctionOnSet(f, T)
<1> DEFINE Good == {t \in SUBSET S : \A u \in SUBSET S :
                       t \subseteq u => Sums(f, u)[t] = SumFunctionOnSet(f, t)}
<1>1. ASSUME NEW t \in SUBSET S, \A x \in t : t \ {x} \in Good,
             NEW u \in SUBSET S, t \subseteq u
      PROVE  Sums(f, u)[t] = SumFunctionOnSet(f, t)
  <2>1. IsFiniteSet(u) /\ IsFiniteSet(t)
    BY FS_Subset
  <2>2. CASE t = {}
    BY <2>1, <2>2, <1>1, SumsStep, SumIsOfSums
  <2>3. CASE t # {}
    <3>1. t \ {Pick(t)} \in Good
      BY <1>1, <2>3, PickIn
    <3>2. Sums(f, u)[t \ {Pick(t)}] = Sums(f, t)[t \ {Pick(t)}]
      BY <3>1, <1>1
    <3>3. /\ Sums(f, u)[t] = f[Pick(t)] + Sums(f, u)[t \ {Pick(t)}]
          /\ Sums(f, t)[t] = f[Pick(t)] + Sums(f, t)[t \ {Pick(t)}]
      BY <1>1, <2>1, <2>3, SumsStep
    <3> QED
      BY <3>2, <3>3, SumIsOfSums
  <2> QED
    BY <2>2, <2>3
<1>2. \A t \in SUBSET S : (\A x \in t : t \ {x} \in Good) => t \in Good
  BY <1>1
<1> HIDE DEF Good
<1>3. T \in Good
  BY <1>2, SubsetInduction
<1> QED
  BY <1>3 DEF Good

---------------------------------------------------------------------------
(* Sums of natural numbers *)

(* The empty sum. *)
LEMMA SumOfNone == \A f : SumFunctionOnSet(f, {}) = 0
<1>1. \A f : Sums(f, {})[{}] = 0
  BY SumsStep, FS_EmptySet
<1> QED
  BY <1>1, SumIsOfSums

(* A sum is its chosen element and the sum of the others.                   *)
LEMMA SumOfPick ==
    ASSUME NEW f, NEW S, IsFiniteSet(S), S # {}
    PROVE  SumFunctionOnSet(f, S) = f[Pick(S)] + SumFunctionOnSet(f, S \ {Pick(S)})
<1>1. Sums(f, S)[S] = f[Pick(S)] + Sums(f, S)[S \ {Pick(S)}]
  BY SumsStep
<1>2. Sums(f, S)[S \ {Pick(S)}] = SumFunctionOnSet(f, S \ {Pick(S)})
  BY SumsAgree
<1> QED
  BY <1>1, <1>2, SumIsOfSums

(* A sum of natural numbers is one. *)
LEMMA SumIsNat ==
    ASSUME NEW f, NEW S, IsFiniteSet(S), \A x \in S : f[x] \in Nat
    PROVE  SumFunctionOnSet(f, S) \in Nat
<1> DEFINE Good == {T \in SUBSET S : SumFunctionOnSet(f, T) \in Nat}
<1>1. ASSUME NEW T \in SUBSET S, \A x \in T : T \ {x} \in Good
      PROVE  T \in Good
  <2>1. CASE T = {}
    BY <2>1, SumOfNone
  <2>2. CASE T # {}
    <3>1. Pick(T) \in T /\ IsFiniteSet(T)
      BY <2>2, PickIn, FS_Subset
    <3>2. SumFunctionOnSet(f, T) = f[Pick(T)] + SumFunctionOnSet(f, T \ {Pick(T)})
      BY <2>2, <3>1, SumOfPick
    <3>3. f[Pick(T)] \in Nat /\ SumFunctionOnSet(f, T \ {Pick(T)}) \in Nat
      BY <1>1, <3>1
    <3> QED
      BY <3>2, <3>3
  <2> QED
    BY <2>1, <2>2
<1>2. \A T \in SUBSET S : (\A x \in T : T \ {x} \in Good) => T \in Good
  BY <1>1
<1> HIDE DEF Good
<1>3. S \in SUBSET S
  OBVIOUS
<1>4. S \in Good
  BY <1>2, <1>3, SubsetInduction
<1> QED
  BY <1>4 DEF Good

(* The order of the summands does not matter: any one may be taken out. *)
LEMMA SumTakesOut ==
    ASSUME NEW f, NEW S, IsFiniteSet(S), \A x \in S : f[x] \in Nat, NEW y \in S
    PROVE  SumFunctionOnSet(f, S) = f[y] + SumFunctionOnSet(f, S \ {y})
<1> DEFINE Good == {T \in SUBSET S : \A z \in T :
                       SumFunctionOnSet(f, T) = f[z] + SumFunctionOnSet(f, T \ {z})}
<1>1. ASSUME NEW T \in SUBSET S, \A x \in T : T \ {x} \in Good, NEW z \in T
      PROVE  SumFunctionOnSet(f, T) = f[z] + SumFunctionOnSet(f, T \ {z})
  <2> DEFINE p == Pick(T)
             Rest == T \ {p, z}
  <2>1. /\ p \in T /\ IsFiniteSet(T) /\ IsFiniteSet(T \ {z})
        /\ IsFiniteSet(T \ {p}) /\ IsFiniteSet(Rest)
    BY PickIn, FS_Subset
  <2>2. SumFunctionOnSet(f, T) = f[p] + SumFunctionOnSet(f, T \ {p})
    BY <2>1, SumOfPick
  <2> HIDE DEF p
  <2>3. CASE p = z
    BY <2>2, <2>3
  <2>4. CASE p # z
    <3>1. T \ {p} \in Good /\ T \ {z} \in Good
      BY <1>1, <2>1
    <3>2. (T \ {p}) \ {z} = Rest /\ (T \ {z}) \ {p} = Rest
      OBVIOUS
    <3>3. SumFunctionOnSet(f, T \ {p}) = f[z] + SumFunctionOnSet(f, Rest)
      BY <2>4, <3>1, <3>2
    <3>4. SumFunctionOnSet(f, T \ {z}) = f[p] + SumFunctionOnSet(f, Rest)
      BY <2>1, <2>4, <3>1, <3>2
    <3>5. f[p] \in Nat /\ f[z] \in Nat /\ SumFunctionOnSet(f, Rest) \in Nat
      BY <2>1, SumIsNat
    <3> QED
      BY <2>2, <3>3, <3>4, <3>5
  <2> QED
    BY <2>3, <2>4
<1>2. \A T \in SUBSET S : (\A x \in T : T \ {x} \in Good) => T \in Good
  BY <1>1
<1> HIDE DEF Good
<1>3. S \in SUBSET S
  OBVIOUS
<1>4. S \in Good
  BY <1>2, <1>3, SubsetInduction
<1> QED
  BY <1>4 DEF Good

(* Larger summands make no smaller sum. *)
LEMMA SumMonotone ==
    ASSUME NEW S, IsFiniteSet(S), NEW f, NEW g,
           \A x \in S : f[x] \in Nat /\ g[x] \in Nat /\ f[x] <= g[x]
    PROVE  SumFunctionOnSet(f, S) <= SumFunctionOnSet(g, S)
<1> DEFINE Good == {T \in SUBSET S : SumFunctionOnSet(f, T) <= SumFunctionOnSet(g, T)}
<1>1. ASSUME NEW T \in SUBSET S, \A x \in T : T \ {x} \in Good
      PROVE  T \in Good
  <2>1. CASE T = {}
    BY <2>1, SumOfNone
  <2>2. CASE T # {}
    <3>1. Pick(T) \in T /\ IsFiniteSet(T) /\ IsFiniteSet(T \ {Pick(T)})
      BY <2>2, PickIn, FS_Subset
    <3>2. /\ SumFunctionOnSet(f, T) = f[Pick(T)] + SumFunctionOnSet(f, T \ {Pick(T)})
          /\ SumFunctionOnSet(g, T) = g[Pick(T)] + SumFunctionOnSet(g, T \ {Pick(T)})
      BY <2>2, <3>1, SumOfPick
    <3>3. /\ SumFunctionOnSet(f, T \ {Pick(T)}) \in Nat
          /\ SumFunctionOnSet(g, T \ {Pick(T)}) \in Nat
      BY <3>1, SumIsNat
    <3>4. SumFunctionOnSet(f, T \ {Pick(T)}) <= SumFunctionOnSet(g, T \ {Pick(T)})
      BY <1>1, <3>1
    <3>5. f[Pick(T)] \in Nat /\ g[Pick(T)] \in Nat /\ f[Pick(T)] <= g[Pick(T)]
      BY <3>1
    <3> QED
      BY <3>2, <3>3, <3>4, <3>5
  <2> QED
    BY <2>1, <2>2
<1>2. \A T \in SUBSET S : (\A x \in T : T \ {x} \in Good) => T \in Good
  BY <1>1
<1> HIDE DEF Good
<1>3. S \in SUBSET S
  OBVIOUS
<1>4. S \in Good
  BY <1>2, <1>3, SubsetInduction
<1> QED
  BY <1>4 DEF Good

(* Functions that agree on a set have the same sum over it.                 *)
LEMMA SumEqual ==
    ASSUME NEW S, IsFiniteSet(S), NEW f, NEW g,
           \A x \in S : f[x] \in Nat /\ f[x] = g[x]
    PROVE  SumFunctionOnSet(f, S) = SumFunctionOnSet(g, S)
<1>1. /\ SumFunctionOnSet(f, S) <= SumFunctionOnSet(g, S)
      /\ SumFunctionOnSet(g, S) <= SumFunctionOnSet(f, S)
  BY SumMonotone
<1>2. SumFunctionOnSet(f, S) \in Nat /\ SumFunctionOnSet(g, S) \in Nat
  BY SumIsNat
<1> QED
  BY <1>1, <1>2

(* Where functions differ at one place, so do their sums. *)
LEMMA SumChangesAt ==
    ASSUME NEW S, IsFiniteSet(S), NEW f, NEW g, NEW y \in S,
           \A x \in S : f[x] \in Nat /\ g[x] \in Nat,
           \A x \in S \ {y} : f[x] = g[x]
    PROVE  SumFunctionOnSet(g, S) = SumFunctionOnSet(f, S) + g[y] - f[y]
<1>1. /\ SumFunctionOnSet(f, S) = f[y] + SumFunctionOnSet(f, S \ {y})
      /\ SumFunctionOnSet(g, S) = g[y] + SumFunctionOnSet(g, S \ {y})
  BY SumTakesOut
<1>2. IsFiniteSet(S \ {y})
  BY FS_Subset
<1>3. SumFunctionOnSet(f, S \ {y}) = SumFunctionOnSet(g, S \ {y})
  BY <1>2, SumEqual
<1>4. SumFunctionOnSet(f, S \ {y}) \in Nat /\ f[y] \in Nat /\ g[y] \in Nat
  BY <1>2, SumIsNat
<1> QED
  BY <1>1, <1>3, <1>4

(* No summand exceeds the sum. *)
LEMMA SummandFits ==
    ASSUME NEW S, IsFiniteSet(S), NEW f, \A x \in S : f[x] \in Nat, NEW y \in S
    PROVE  f[y] <= SumFunctionOnSet(f, S)
<1>1. SumFunctionOnSet(f, S) = f[y] + SumFunctionOnSet(f, S \ {y})
  BY SumTakesOut
<1>2. SumFunctionOnSet(f, S \ {y}) \in Nat
  BY FS_Subset, SumIsNat
<1> QED
  BY <1>1, <1>2

(* The sum over a part is the sum over the whole of what the part selects.  *)
LEMMA SumOfPart ==
    ASSUME NEW S, IsFiniteSet(S), NEW f, NEW P \in SUBSET S,
           \A x \in S : f[x] \in Nat, \A x \in S \ P : f[x] = 0
    PROVE  SumFunctionOnSet(f, P) = SumFunctionOnSet(f, S)
<1> DEFINE Good == {T \in SUBSET S :
                       SumFunctionOnSet(f, T \cap P) = SumFunctionOnSet(f, T)}
<1>1. ASSUME NEW T \in SUBSET S, \A x \in T : T \ {x} \in Good
      PROVE  T \in Good
  <2>1. CASE T \subseteq P
    <3>1. T \cap P = T
      BY <2>1
    <3> QED
      BY <3>1
  <2>2. ASSUME NEW y \in T \ P
        PROVE  T \in Good
    <3>1. IsFiniteSet(T) /\ T \ {y} \in Good /\ (T \ {y}) \cap P = T \cap P
      BY <1>1, FS_Subset
    <3>2. SumFunctionOnSet(f, T) = f[y] + SumFunctionOnSet(f, T \ {y})
      BY <3>1, SumTakesOut
    <3>3. f[y] = 0 /\ SumFunctionOnSet(f, T \ {y}) \in Nat
      BY FS_Subset, SumIsNat
    <3>4. SumFunctionOnSet(f, (T \ {y}) \cap P) = SumFunctionOnSet(f, T \ {y})
      BY <3>1
    <3>5. SumFunctionOnSet(f, T) = SumFunctionOnSet(f, T \ {y})
      BY <3>2, <3>3
    <3>6. SumFunctionOnSet(f, T \cap P) = SumFunctionOnSet(f, T \ {y})
      BY <3>1, <3>4
    <3> QED
      BY <3>5, <3>6
  <2> QED
    BY <2>1, <2>2
<1>2. \A T \in SUBSET S : (\A x \in T : T \ {x} \in Good) => T \in Good
  BY <1>1
<1> HIDE DEF Good
<1>3. S \in SUBSET S
  OBVIOUS
<1>4. S \in Good
  BY <1>2, <1>3, SubsetInduction
<1>5. S \cap P = P
  OBVIOUS
<1> QED
  BY <1>4, <1>5 DEF Good

=============================================================================

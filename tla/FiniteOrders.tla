---------------------------- MODULE FiniteOrders -----------------------------
(***************************************************************************)
(* What the proofs of several components need of numbers and finite sets:  *)
(* the smallest counterexample, with which a claim about every number or   *)
(* every finite set is proved, and the ranks of an ordered set.            *)
(***************************************************************************)
EXTENDS FiniteSetTheorems, TLAPS

(* Every nonempty set of numbers has a least one. *)
LEMMA LeastNumber ==
    ASSUME NEW T \in SUBSET Nat, T # {}
    PROVE  \E x \in T : \A y \in T : x =< y
  <1> DEFINE R == OpToRel(<, Nat)
  <1>1. IsWellFoundedOn(R, Nat)
    BY NatLessThanWellFounded
  <1>2. \A x, y \in Nat : <<y, x>> \in R <=> y < x
    BY DEF OpToRel
  <1> HIDE DEF R
  <1>3. PICK x \in T : \A y \in T : ~ (<<y, x>> \in R)
    BY <1>1, WFMin
  <1>4. \A y \in T : x =< y
    <2> TAKE y \in T
    <2>1. x \in Nat /\ y \in Nat /\ ~(y < x)
      BY <1>2, <1>3
    <2> QED BY <2>1
  <1> QED BY <1>3, <1>4

(* Every nonempty set of numbers below some number has a greatest one. *)
LEMMA GreatestNumber ==
    ASSUME NEW T \in SUBSET Nat, NEW top \in Nat, \A x \in T : x =< top, T # {}
    PROVE  \E x \in T : \A y \in T : y =< x
<1> DEFINE U == {top - x : x \in T}
<1>1. \A x \in T : x \in Nat /\ top - x \in Nat
    OBVIOUS
<1>2. U \in SUBSET Nat /\ U # {}
    BY <1>1
<1>3. PICK u \in U : \A v \in U : u =< v
    <2> HIDE DEF U
    <2> QED BY <1>2, LeastNumber
<1>4. PICK x \in T : u = top - x
    BY <1>3
<1>5. \A y \in T : top - x =< top - y
    BY <1>3, <1>4
<1> QED BY <1>1, <1>4, <1>5

(* Every nonempty family of finite sets has a smallest member. *)
LEMMA SmallestSet ==
    ASSUME NEW U, U # {}, \A s \in U : IsFiniteSet(s)
    PROVE  \E s \in U : \A t \in U : Cardinality(s) =< Cardinality(t)
  <1> DEFINE N == {Cardinality(s) : s \in U}
  <1>1. N \in SUBSET Nat
    BY FS_CardinalityType
  <1>2. N # {}
    OBVIOUS
  <1>3. \A s \in U : Cardinality(s) \in N
    OBVIOUS
  <1>4. \A n \in N : \E s \in U : n = Cardinality(s)
    OBVIOUS
  <1> HIDE DEF N
  <1>5. PICK n \in N : \A m \in N : n =< m
    BY <1>1, <1>2, LeastNumber
  <1>6. PICK s \in U : n = Cardinality(s)
    BY <1>4
  <1> QED BY <1>3, <1>5, <1>6

(* A finite set without one of its elements is smaller by one. *)
LEMMA SmallerWithout ==
    ASSUME NEW S, IsFiniteSet(S), NEW x \in S
    PROVE  /\ IsFiniteSet(S \ {x})
           /\ Cardinality(S \ {x}) \in Nat /\ Cardinality(S) \in Nat
           /\ Cardinality(S \ {x}) = Cardinality(S) - 1
           /\ Cardinality(S \ {x}) < Cardinality(S)
  <1>1. IsFiniteSet(S \ {x}) /\ Cardinality(S \ {x}) = Cardinality(S) - 1
    BY FS_RemoveElement
  <1>2. Cardinality(S \ {x}) \in Nat /\ Cardinality(S) \in Nat
    BY <1>1, FS_CardinalityType
  <1> QED BY <1>1, <1>2

-----------------------------------------------------------------------------
\* R is a strict total order of S
Orders(R, S) ==
    /\ \A x \in S : <<x, x>> \notin R
    /\ \A x, y, z \in S : <<x, y>> \in R /\ <<y, z>> \in R => <<x, z>> \in R
    /\ \A x, y \in S : x # y => <<x, y>> \in R \/ <<y, x>> \in R

\* The elements of S before x
Before(x, R, S) == {y \in S : <<y, x>> \in R}

(* An element is before another one just if fewer elements are before it, *)
(* and no two have the same number of elements before them.               *)
LEMMA RanksFollowOrder ==
    ASSUME NEW R, NEW S, IsFiniteSet(S), Orders(R, S)
    PROVE  /\ \A x \in S : Cardinality(Before(x, R, S)) \in 0..(Cardinality(S) - 1)
           /\ \A x, y \in S : Cardinality(Before(x, R, S)) < Cardinality(Before(y, R, S))
                                 <=> <<x, y>> \in R
           /\ \A x, y \in S : Cardinality(Before(x, R, S)) = Cardinality(Before(y, R, S))
                                 => x = y
  <1>1. Cardinality(S) \in Nat
    BY FS_CardinalityType
  <1>2. ASSUME NEW x \in S
        PROVE  /\ IsFiniteSet(Before(x, R, S))
               /\ Cardinality(Before(x, R, S)) \in Nat
               /\ Cardinality(Before(x, R, S)) < Cardinality(S)
    <2>1. Before(x, R, S) \in SUBSET S /\ x \notin Before(x, R, S)
      BY DEF Before, Orders
    <2> DEFINE B == Before(x, R, S)
    <2>2. IsFiniteSet(B) /\ Cardinality(B) =< Cardinality(S) /\ Cardinality(B) # Cardinality(S)
      <3> HIDE DEF B
      <3> QED BY <2>1, FS_Subset DEF B
    <2>3. Cardinality(B) \in Nat
      BY <2>2, FS_CardinalityType
    <2> QED BY <2>2, <2>3, <1>1
  <1>3. ASSUME NEW x \in S, NEW y \in S, <<x, y>> \in R
        PROVE  Cardinality(Before(x, R, S)) < Cardinality(Before(y, R, S))
    <2>1. /\ Before(x, R, S) \in SUBSET Before(y, R, S)
          /\ x \in Before(y, R, S) /\ x \notin Before(x, R, S)
      BY <1>3 DEF Before, Orders
    <2>2. /\ Cardinality(Before(x, R, S)) =< Cardinality(Before(y, R, S))
          /\ Cardinality(Before(x, R, S)) # Cardinality(Before(y, R, S))
      <3> DEFINE A == Before(x, R, S)
                 B == Before(y, R, S)
      <3>1. IsFiniteSet(B) /\ A \in SUBSET B /\ A # B
        BY <1>2, <2>1
      <3> HIDE DEF A, B
      <3>2. Cardinality(A) =< Cardinality(B) /\ Cardinality(A) # Cardinality(B)
        BY <3>1, FS_Subset
      <3> QED BY <3>2 DEF A, B
    <2>3. Cardinality(Before(x, R, S)) \in Nat /\ Cardinality(Before(y, R, S)) \in Nat
      BY <1>2
    <2> QED BY <2>2, <2>3
  <1>4. \A x, y \in S : x = y \/ <<x, y>> \in R \/ <<y, x>> \in R
    BY DEF Orders
  <1>5. ASSUME NEW x \in S, NEW y \in S
        PROVE  /\ Cardinality(Before(x, R, S)) < Cardinality(Before(y, R, S)) <=> <<x, y>> \in R
               /\ Cardinality(Before(x, R, S)) = Cardinality(Before(y, R, S)) => x = y
    <2>1. Cardinality(Before(x, R, S)) \in Nat /\ Cardinality(Before(y, R, S)) \in Nat
      BY <1>2
    <2>2. CASE x = y
      BY <2>1, <2>2 DEF Orders
    <2>3. CASE <<x, y>> \in R
      BY <1>3, <2>1, <2>3
    <2>4. CASE <<y, x>> \in R /\ x # y
      <3>1. Cardinality(Before(y, R, S)) < Cardinality(Before(x, R, S))
        BY <1>3, <2>4
      <3>2. <<x, y>> \notin R
        BY <2>4 DEF Orders
      <3> QED BY <2>1, <3>1, <3>2
    <2> QED BY <1>4, <2>2, <2>3, <2>4
  <1>6. \A x \in S : Cardinality(Before(x, R, S)) \in 0..(Cardinality(S) - 1)
    BY <1>1, <1>2
  <1> QED BY <1>5, <1>6

(* The numbers of elements before each one are 0, 1, ... without a gap. *)
LEMMA RanksAreAllTaken ==
    ASSUME NEW R, NEW S, IsFiniteSet(S), Orders(R, S)
    PROVE  {Cardinality(Before(x, R, S)) : x \in S} = 0..(Cardinality(S) - 1)
  <1> DEFINE T == 0..(Cardinality(S) - 1)
             f == [x \in S |-> Cardinality(Before(x, R, S))]
  <1>1. Cardinality(S) \in Nat
    BY FS_CardinalityType
  <1>2. IsFiniteSet(T) /\ Cardinality(T) = Cardinality(S)
    BY <1>1, FS_Interval
  <1>3. f \in Injection(S, T)
    BY RanksFollowOrder DEF Injection, IsInjective
  <1> HIDE DEF T, f
  <1>4. f \in Surjection(S, T)
    BY <1>2, <1>3, FS_Injection
  <1>5. {f[x] : x \in S} = T
    BY <1>4 DEF Surjection
  <1>6. {f[x] : x \in S} = {Cardinality(Before(x, R, S)) : x \in S}
    BY DEF f
  <1> QED BY <1>5, <1>6 DEF T
=============================================================================

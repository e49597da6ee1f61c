------------------------------ MODULE NatFacts ------------------------------
(***************************************************************************)
(* Facts about natural numbers that the proofs of several components rest  *)
(* on: the least element of a set of them, from which an argument by       *)
(* induction follows by looking at the least exception.                    *)
(***************************************************************************)
EXTENDS Integers, WellFoundedInduction, TLAPS

(***************************************************************************)
(* A set of natural numbers that is not empty has a least element.         *)
(***************************************************************************)
LEMMA LeastNatural ==
  ASSUME NEW T, T \subseteq Nat, T # {}
  PROVE  \E x \in T : \A y \in T : x <= y
<1> DEFINE R == OpToRel(<, Nat)
<1>1. IsWellFoundedOn(R, Nat)
  BY NatLessThanWellFounded
<1>2. PICK x \in T : \A y \in T : << y, x >> \notin R
  <2> HIDE DEF R
  <2> QED
    BY <1>1, WFMin
<1>3. ASSUME NEW a \in Nat, NEW b \in Nat, a < b
      PROVE  << a, b >> \in R
  <2>1. << a, b >> \in Nat \X Nat
    OBVIOUS
  <2>2. << a, b >>[1] < << a, b >>[2]
    BY <1>3
  <2> QED
    BY <2>1, <2>2, Zenon DEF OpToRel
<1>4. ASSUME NEW y \in T
      PROVE  ~ (y < x)
  <2>1. x \in Nat /\ y \in Nat
    OBVIOUS
  <2> HIDE DEF R
  <2> QED
    BY <1>2, <1>3, <2>1, Zenon
<1>5. \A y \in T : x <= y
  <2>1. x \in Nat
    OBVIOUS
  <2> QED
    BY <1>4, <2>1
<1> QED
  BY <1>5

(***************************************************************************)
(* A set of natural numbers with an upper bound has a greatest element.    *)
(***************************************************************************)
LEMMA GreatestNatural ==
  ASSUME NEW T, T \subseteq Nat, T # {}, NEW n \in Nat, \A y \in T : y <= n
  PROVE  \E x \in T : \A y \in T : y <= x
<1> DEFINE D == {n - y : y \in T}
<1>1. D \subseteq Nat
  <2>1. \A y \in T : n - y \in Nat
    OBVIOUS
  <2> QED
    BY <2>1
<1>2. D # {}
  OBVIOUS
<1>3. PICK d \in D : \A e \in D : d <= e
  <2> HIDE DEF D
  <2> QED
    BY <1>1, <1>2, LeastNatural
<1>4. PICK x \in T : d = n - x
  BY <1>3
<1>5. ASSUME NEW y \in T
      PROVE  y <= x
  <2>1. d <= n - y
    BY <1>3
  <2>2. x \in Nat /\ y \in Nat
    OBVIOUS
  <2> QED
    BY <1>4, <2>1, <2>2
<1> QED
  BY <1>4, <1>5

(***************************************************************************)
(* Induction up to a bound: a set of numbers that holds 0 and, below n,    *)
(* the successor of each of its members holds all numbers up to n.         *)
(***************************************************************************)
LEMMA UpToBound ==
  ASSUME NEW n \in Nat, NEW S, 0 \in S,
         \A k \in 0 .. n - 1 : k \in S => k + 1 \in S
  PROVE  0 .. n \subseteq S
<1> DEFINE T == {k \in 0 .. n : k \notin S}
<1>1. SUFFICES T = {}
  OBVIOUS
<1>2. SUFFICES ASSUME T # {}
               PROVE  FALSE
  OBVIOUS
<1>3. T \subseteq Nat
  OBVIOUS
<1>4. PICK x \in T : \A y \in T : x <= y
  <2> HIDE DEF T
  <2> QED
    BY <1>2, <1>3, LeastNatural
<1>5. x \in 1 .. n /\ x \notin S
  BY <1>4
<1>6. x - 1 \in S
  <2>1. x - 1 \notin T
    BY <1>4, <1>5
  <2> QED
    BY <1>5, <2>1
<1> QED
  BY <1>5, <1>6

(***************************************************************************)
(* The shape of a loop as a recursive function, as in stree.c and in the   *)
(* list walks of mm.c: from state s the loop is over when s                *)
(* is in D, with the result O[s], and goes on from G[s] otherwise.         *)
(***************************************************************************)
LoopBody(S, D, G, O, f) == [s \in S |-> IF s \in D THEN O[s] ELSE f[G[s]]]

(***************************************************************************)
(* A function of this shape exists, whether or not the loop ends from      *)
(* every state. The value at s comes from the states of D that every set   *)
(* closed under the loop's steps from s holds: there is one at most.       *)
(***************************************************************************)
LEMMA LoopExists ==
  ASSUME NEW S, NEW D, NEW G \in [S -> S], NEW O
  PROVE  \E f : f = LoopBody(S, D, G, O, f)
<1> DEFINE Closed(C) == \A s \in C : s \in S /\ s \notin D => G[s] \in C
           Ends(s) == {u \in S \cap D : \A C \in SUBSET S : Closed(C) /\ s \in C => u \in C}
           f == [s \in S |-> IF Ends(s) = {} THEN {} ELSE O[CHOOSE u \in Ends(s) : TRUE]]
<1>1. ASSUME NEW s \in S, s \in D
      PROVE  f[s] = O[s]
  <2>1. Closed({s}) /\ {s} \in SUBSET S /\ s \in {s}
    BY <1>1
  <2>2. s \in Ends(s)
    BY <1>1
  <2>3. \A u \in Ends(s) : u \in {s}
    BY <2>1, Zenon
  <2>4. Ends(s) = {s}
    BY <2>2, <2>3
  <2>5. (CHOOSE u \in Ends(s) : TRUE) = s
    BY <2>4
  <2> HIDE DEF Ends
  <2> QED
    BY <2>4, <2>5
<1>2. ASSUME NEW s \in S, s \notin D
      PROVE  f[s] = f[G[s]]
  <2>1. ASSUME NEW u \in Ends(s)
        PROVE  u \in Ends(G[s])
    <3>1. ASSUME NEW C \in SUBSET S, Closed(C), G[s] \in C
          PROVE  u \in C
      <4>1. Closed(C \cup {s})
        BY <3>1
      <4>2. C \cup {s} \in SUBSET S /\ s \in C \cup {s}
        OBVIOUS
      <4>3. u \in C \cup {s}
        <5> HIDE DEF Closed
        <5> QED
          BY <4>1, <4>2, <2>1, Zenon
      <4> QED
        BY <4>3, <1>2, <2>1
    <3> QED
      BY <2>1, <3>1
  <2>2. ASSUME NEW u \in Ends(G[s])
        PROVE  u \in Ends(s)
    BY <1>2, <2>2
  <2>3. Ends(s) = Ends(G[s])
    <3> HIDE DEF Ends
    <3> QED
      BY <2>1, <2>2
  <2>4. G[s] \in S
    OBVIOUS
  <2> HIDE DEF Ends
  <2> QED
    BY <2>3, <2>4
<1>3. f = [s \in S |-> IF s \in D THEN O[s] ELSE f[G[s]]]
  <2>1. ASSUME NEW s \in S
        PROVE  f[s] = IF s \in D THEN O[s] ELSE f[G[s]]
    <3> HIDE DEF f
    <3> QED
      BY <1>1, <1>2
  <2>2. f = [s \in S |-> f[s]]
    OBVIOUS
  <2> HIDE DEF f
  <2> QED
    BY <2>1, <2>2
<1> HIDE DEF f
<1> QED
  BY <1>3 DEF LoopBody

(***************************************************************************)
(* A loop with a measure ends: if from the states J[n] of measure n it     *)
(* steps to a state of a smaller measure, it reaches a state of D that is  *)
(* in some J[m], and its result is that state's. The proof looks at the    *)
(* least measure from which this fails.                                    *)
(***************************************************************************)
LEMMA LoopEnds ==
  ASSUME NEW S, NEW D, NEW G, NEW O, NEW f,
         f = LoopBody(S, D, G, O, f),
         NEW J \in [Nat -> SUBSET S],
         \A n \in Nat : \A s \in J[n] : s \notin D => \E m \in 0 .. n - 1 : G[s] \in J[m],
         NEW n0 \in Nat, NEW s0 \in J[n0]
  PROVE  \E m \in Nat : \E u \in J[m] : u \in D /\ f[s0] = O[u]
<1> DEFINE Fine(s) == \E m \in Nat : \E u \in J[m] : u \in D /\ f[s] = O[u]
           T == {n \in Nat : \E s \in J[n] : ~ Fine(s)}
<1>1. SUFFICES ASSUME T # {}
               PROVE  FALSE
  OBVIOUS
<1>2. PICK n \in T : \A k \in T : n <= k
  <2>1. T \subseteq Nat
    OBVIOUS
  <2> HIDE DEF T
  <2> QED
    BY <1>1, <2>1, LeastNatural
<1>3. PICK s \in J[n] : ~ Fine(s)
  BY <1>2
<1>4. n \in Nat /\ s \in S
  BY <1>2, <1>3
<1>5. CASE s \in D
  BY <1>3, <1>4, <1>5 DEF LoopBody
<1>6. CASE s \notin D
  <2>1. PICK m \in 0 .. n - 1 : G[s] \in J[m]
    BY <1>3, <1>4, <1>6
  <2>2. m \in Nat /\ m < n
    BY <1>4
  <2>3. m \notin T
    BY <1>2, <2>2
  <2>4. Fine(G[s])
    BY <2>1, <2>2, <2>3
  <2>5. f[s] = f[G[s]]
    BY <1>4, <1>6 DEF LoopBody
  <2> QED
    BY <1>3, <2>4, <2>5
<1> QED
  BY <1>5, <1>6
=============================================================================

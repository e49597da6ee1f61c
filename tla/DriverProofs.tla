---------------------------- MODULE DriverProofs ----------------------------
(***************************************************************************)
(* Proofs about the driver's test loop, for every number of trace files    *)
(* and every setting of the timing: the records run_tests holds, the       *)
(* verdicts it reaches and what an alarm does to them.  The proofs about   *)
(* the K-best timing of fcyc.c, on which they rest, come first: for every  *)
(* kbest, maxsamples and set of times, the sampler keeps the least samples *)
(* in order, and what is left behind by a call that is broken off does no  *)
(* harm.                                                                   *)
(***************************************************************************)
EXTENDS Driver, NatFacts, TLAPS

-----------------------------------------------------------------------------
(***************************************************************************)
(* The K-best timing (Fcyc).  values as an array of whole cells.           *)
(***************************************************************************)
Cells == [1 .. kbest -> Nat]

(***************************************************************************)
(* The place add_sample (fcyc.c:73) moves the new value to exists: behind  *)
(* the last value that is not greater.                                     *)
(***************************************************************************)
LEMMA PlaceFound ==
  ASSUME NEW v \in Cells, NEW pos \in 1 .. kbest, NEW val \in Nat
  PROVE  \E p \in 1 .. pos : /\ \A q \in p .. pos - 1 : v[q] > val
                             /\ p > 1 => v[p - 1] <= val
<1> DEFINE T == {p \in 1 .. pos : \A q \in p .. pos - 1 : v[q] > val}
<1>1. kbest \in Nat
  BY FcycAssumption
<1>2. T \subseteq Nat /\ pos \in T
  OBVIOUS
<1>3. PICK p \in T : \A x \in T : p <= x
  <2> HIDE DEF T
  <2> QED
    BY <1>2, LeastNatural
<1>4. p \in 1 .. pos /\ \A q \in p .. pos - 1 : v[q] > val
  BY <1>3
<1>5. ASSUME p > 1
      PROVE  v[p - 1] <= val
  <2>1. p - 1 \in 1 .. pos /\ p - 1 \in 1 .. kbest
    BY <1>1, <1>4, <1>5
  <2>2. p - 1 \notin T
    BY <1>3, <1>4
  <2>3. PICK q \in p - 1 .. pos - 1 : ~ (v[q] > val)
    BY <2>1, <2>2
  <2>4. q = p - 1
    BY <1>4, <2>3
  <2>5. v[p - 1] \in Nat
    BY <2>1 DEF Cells
  <2> QED
    BY <2>3, <2>4, <2>5
<1> QED
  BY <1>4, <1>5

(***************************************************************************)
(* w is v with val put at place to, and the values from there up to place  *)
(* m moved up.                                                             *)
(***************************************************************************)
MovedUp(w, v, m, val, to) ==
  /\ \A q \in to .. m - 1 : v[q] > val
  /\ to > 1 => v[to - 1] <= val
  /\ w = [q \in 1 .. kbest |-> IF q = to THEN val
                               ELSE IF to < q /\ q <= m THEN v[q - 1]
                               ELSE v[q]]
  /\ w \in Cells

(***************************************************************************)
(* A sample that is stored ends at a place to before which none is         *)
(* greater, and those from there on have moved up by one.                  *)
(***************************************************************************)
LEMMA Inserted ==
  ASSUME NEW v \in Cells, NEW n \in Nat, NEW val \in Nat,
         ~ (n >= kbest /\ val >= v[kbest]),
         NEW m, m = IF n < kbest THEN n + 1 ELSE kbest
  PROVE  \E to \in 1 .. m : MovedUp(add_sample(v, n, val), v, m, val, to)
<1> DEFINE pos == IF n < kbest THEN n + 1 ELSE kbest
           P(p) == /\ \A q \in p .. pos - 1 : v[q] > val
                   /\ p > 1 => v[p - 1] <= val
           to == CHOOSE p \in 1 .. pos : P(p)
<1>1. kbest \in Nat \ {0} /\ pos \in 1 .. kbest
  BY FcycAssumption
<1>2. \E p \in 1 .. pos : P(p)
  <2> HIDE DEF pos
  <2> QED
    BY <1>1, PlaceFound
<1>3. to \in 1 .. pos /\ P(to)
  BY <1>2
<1> DEFINE w == [q \in 1 .. kbest |-> IF q = to THEN val
                                 ELSE IF to < q /\ q <= pos THEN v[q - 1]
                                 ELSE v[q]]
<1>4. add_sample(v, n, val) = w
  BY DEF add_sample
<1> HIDE DEF to, pos
<1>5. w \in Cells
  <2> SUFFICES ASSUME NEW q \in 1 .. kbest
               PROVE  (IF q = to THEN val
                       ELSE IF to < q /\ q <= pos THEN v[q - 1] ELSE v[q]) \in Nat
    BY DEF Cells
  <2> QED
    BY <1>1, <1>3 DEF Cells
<1>6. m = pos
  BY DEF pos
<1> QED
  BY <1>3, <1>4, <1>5, <1>6 DEF MovedUp

(***************************************************************************)
(* A sample more: the buffer holds the least again.                        *)
(***************************************************************************)
LEMMA AddSample ==
  ASSUME NEW v \in Cells, NEW ss \in Seq(Times), HoldsLeast(v, ss), NEW val \in Times
  PROVE  LET w == add_sample(v, Len(ss), val)
         IN  w \in Cells /\ HoldsLeast(w, Append(ss, val))
<1> DEFINE n == Len(ss)
           tt == Append(ss, val)
           m == IF n < kbest THEN n ELSE kbest
           m2 == IF n + 1 < kbest THEN n + 1 ELSE kbest
           w == add_sample(v, n, val)
<1>1. kbest \in Nat \ {0} /\ n \in Nat /\ val \in Nat
  BY FcycAssumption
<1>2. /\ tt \in Seq(Times) /\ Len(tt) = n + 1 /\ tt[n + 1] = val
      /\ \A k \in 1 .. n : tt[k] = ss[k]
  OBVIOUS
<1>3. /\ \A p, q \in 1 .. m : p <= q => v[p] <= v[q]
      /\ \A q \in 1 .. kbest : v[q] \in Nat
  BY DEF HoldsLeast, Cells
<1>4. PICK f \in Selections(ss, m) :
        /\ \A q \in 1 .. m : v[q] = ss[f[q]]
        /\ \A k \in 1 .. n : \/ \E q \in 1 .. m : f[q] = k
                             \/ m = kbest /\ v[kbest] <= ss[k]
  BY DEF HoldsLeast
<1>5. /\ \A q \in 1 .. m : f[q] \in 1 .. n
      /\ \A p, q \in 1 .. m : p # q => f[p] # f[q]
  BY <1>4 DEF Selections
<1>6. CASE n >= kbest /\ val >= v[kbest]
  <2>a. w = v
    BY <1>6, Zenon DEF add_sample
  <2>b. m = kbest /\ m2 = kbest
    BY <1>1, <1>6
  <2>1. w = v /\ m = kbest /\ m2 = kbest
    BY <2>a, <2>b
  <2> HIDE DEF w, tt, n, m, m2
  <2>2. f \in Selections(tt, m2)
    <3>1. f \in [1 .. m -> 1 .. n]
      BY <1>4 DEF Selections, n
    <3>2. f \in [1 .. m2 -> 1 .. Len(tt)]
      BY <1>1, <1>2, <2>1, <3>1
    <3> QED
      BY <1>5, <2>1, <3>2 DEF Selections
  <2>3. \A q \in 1 .. m2 : w[q] = tt[f[q]]
    BY <1>2, <1>4, <1>5, <2>1
  <2>4. \A k \in 1 .. n + 1 : \/ \E q \in 1 .. m2 : f[q] = k
                              \/ m2 = kbest /\ w[kbest] <= tt[k]
    <3> SUFFICES ASSUME NEW k \in 1 .. n + 1
                 PROVE  (\E q \in 1 .. m2 : f[q] = k) \/ w[kbest] <= tt[k]
      BY <2>1
    <3>1. CASE k = n + 1
      BY <1>1, <1>2, <1>3, <1>6, <2>1, <3>1
    <3>2. CASE k # n + 1
      <4>1. k \in 1 .. n
        BY <1>1, <3>2
      <4> QED
        BY <1>2, <1>4, <2>1, <4>1
    <3> QED
      BY <3>1, <3>2
  <2>5. HoldsLeast(w, tt)
    <3>1. m2 = IF Len(tt) < kbest THEN Len(tt) ELSE kbest
      BY <1>2 DEF m2
    <3> QED
      BY <1>2, <1>3, <2>1, <2>2, <2>3, <2>4, <3>1 DEF HoldsLeast
  <2> QED
    BY <2>1, <2>5 DEF w, tt, n
<1>7. CASE ~ (n >= kbest /\ val >= v[kbest])
  <2>1. PICK to \in 1 .. m2 :
          /\ \A q \in to .. m2 - 1 : v[q] > val
          /\ to > 1 => v[to - 1] <= val
          /\ w = [q \in 1 .. kbest |-> IF q = to THEN val
                              ELSE IF to < q /\ q <= m2 THEN v[q - 1]
                              ELSE v[q]]
          /\ w \in Cells
    <3>1. m2 = IF n < kbest THEN n + 1 ELSE kbest
      BY <1>1
    <3> HIDE DEF m2, n
    <3>2. PICK to \in 1 .. m2 : MovedUp(w, v, m2, val, to)
      BY <1>1, <1>7, <3>1, Inserted
    <3> QED
      BY <3>2 DEF MovedUp
  <2>2. /\ m2 \in 1 .. kbest /\ m2 <= n + 1
        /\ n < kbest => m = n /\ m2 = n + 1
        /\ n >= kbest => m = kbest /\ m2 = kbest /\ val < v[kbest]
    BY <1>1, <1>3, <1>7
  <2> DEFINE g == [q \in 1 .. m2 |-> IF q < to THEN f[q]
                                    ELSE IF q = to THEN n + 1 ELSE f[q - 1]]
  <2> HIDE DEF m, m2, w, tt, n
  <2>3. \A q \in 1 .. m2 : w[q] = IF q < to THEN v[q]
                                  ELSE IF q = to THEN val ELSE v[q - 1]
    BY <1>1, <2>1, <2>2
  <2>4. \A q \in 1 .. m2 : /\ q < to => q \in 1 .. m
                           /\ q > to => q - 1 \in 1 .. m
    BY <1>1, <2>1, <2>2
  <2>5. \A p, q \in 1 .. m2 : p <= q => w[p] <= w[q]
    <3> SUFFICES ASSUME NEW p \in 1 .. m2, NEW q \in 1 .. m2, p <= q
                 PROVE  w[p] <= w[q]
      OBVIOUS
    <3>1. CASE q < to
      BY <1>3, <2>3, <2>4, <3>1
    <3>2. CASE q = to
      <4>1. CASE p = to
        BY <1>1, <2>3, <3>2, <4>1
      <4>2. CASE p < to
        <5>1. v[p] <= v[to - 1] /\ v[to - 1] <= val
          BY <1>3, <2>1, <2>2, <2>4, <4>2
        <5>2. v[p] \in Nat /\ v[to - 1] \in Nat
          BY <1>1, <1>3, <2>1, <2>2, <4>2
        <5> QED
          BY <1>1, <2>3, <3>2, <4>2, <5>1, <5>2
      <4> QED
        BY <2>1, <3>2, <4>1, <4>2
    <3>3. CASE q > to
      <4>a. q - 1 \in to .. m2 - 1 /\ q - 1 \in 1 .. kbest
        BY <1>1, <2>1, <2>2, <3>3
      <4>b. v[q - 1] > val /\ v[q - 1] \in Nat
        BY <1>3, <2>1, <4>a
      <4>c. w[q] = IF q < to THEN v[q] ELSE IF q = to THEN val ELSE v[q - 1]
        BY <2>3
      <4>1. w[q] = v[q - 1] /\ v[q - 1] > val /\ v[q - 1] \in Nat
        BY <2>1, <3>3, <4>b, <4>c
      <4>2. CASE p = to
        BY <1>1, <2>3, <4>1, <4>2
      <4>3. CASE p > to
        BY <1>3, <2>3, <2>4, <3>3, <4>1, <4>3
      <4>4. CASE p < to
        BY <1>3, <2>3, <2>4, <3>3, <4>1, <4>4
      <4> QED
        BY <2>1, <4>2, <4>3, <4>4
    <3> QED
      BY <2>1, <3>1, <3>2, <3>3
  <2>6. g \in Selections(tt, m2)
    <3>1. \A q \in 1 .. m2 : g[q] \in 1 .. n + 1
      BY <1>1, <1>5, <2>1, <2>4
    <3>2. \A p, q \in 1 .. m2 : p # q => g[p] # g[q]
      <4> SUFFICES ASSUME NEW p \in 1 .. m2, NEW q \in 1 .. m2, p # q
                   PROVE  g[p] # g[q]
        OBVIOUS
      <4>1. \A r \in 1 .. m : f[r] # n + 1
        BY <1>1, <1>5
      <4>2. /\ p < to => p \in 1 .. m /\ g[p] = f[p]
            /\ p = to => g[p] = n + 1
            /\ p > to => p - 1 \in 1 .. m /\ g[p] = f[p - 1]
        BY <2>1, <2>4
      <4>3. /\ q < to => q \in 1 .. m /\ g[q] = f[q]
            /\ q = to => g[q] = n + 1
            /\ q > to => q - 1 \in 1 .. m /\ g[q] = f[q - 1]
        BY <2>1, <2>4
      <4>4. p < to \/ p = to \/ p > to
        BY <2>1
      <4>5. q < to \/ q = to \/ q > to
        BY <2>1
      <4>6. /\ p > to /\ q > to => p - 1 # q - 1
            /\ p > to /\ q < to => p - 1 # q
            /\ p < to /\ q > to => p # q - 1
        BY <2>1
      <4> HIDE DEF g
      <4> QED
        BY <1>5, <4>1, <4>2, <4>3, <4>4, <4>5, <4>6
    <3>3. g \in [1 .. m2 -> 1 .. n + 1]
      BY <3>1
    <3> QED
      BY <1>2, <3>2, <3>3 DEF Selections
  <2>7. \A q \in 1 .. m2 : w[q] = tt[g[q]]
    <3> SUFFICES ASSUME NEW q \in 1 .. m2
                 PROVE  w[q] = tt[g[q]]
      OBVIOUS
    <3>1. CASE q < to
      BY <1>2, <1>4, <1>5, <2>3, <2>4, <3>1
    <3>2. CASE q = to
      BY <1>2, <2>3, <3>2
    <3>3. CASE q > to
      <4>a. w[q] = IF q < to THEN v[q] ELSE IF q = to THEN val ELSE v[q - 1]
        BY <2>3
      <4>b. g[q] = IF q < to THEN f[q] ELSE IF q = to THEN n + 1 ELSE f[q - 1]
        OBVIOUS
      <4>1. q - 1 \in 1 .. m /\ g[q] = f[q - 1] /\ w[q] = v[q - 1]
        <5> HIDE DEF g
        <5> QED
          BY <2>1, <2>4, <3>3, <4>a, <4>b
      <4>2. f[q - 1] \in 1 .. n /\ v[q - 1] = ss[f[q - 1]]
        BY <1>4, <1>5, <4>1
      <4> QED
        BY <1>2, <4>1, <4>2
    <3> QED
      BY <2>1, <3>1, <3>2, <3>3
  <2>8. ASSUME NEW k \in 1 .. n + 1
        PROVE  \/ \E q \in 1 .. m2 : g[q] = k
               \/ m2 = kbest /\ w[kbest] <= tt[k]
    <3>1. CASE k = n + 1
      <4>1. g[to] = k
        BY <2>1, <3>1
      <4> QED
        BY <4>1
    <3>2. CASE k # n + 1
      <4>1. k \in 1 .. n /\ tt[k] = ss[k]
        BY <1>1, <1>2, <3>2
      <4>2. n >= kbest => w[kbest] <= v[kbest]
        BY <1>1, <1>3, <2>1, <2>2, <2>3
      <4>3. CASE \E q \in 1 .. m : f[q] = k
        <5>1. PICK q \in 1 .. m : f[q] = k
          BY <4>3
        <5>2. CASE q < to
          <6>1. q \in 1 .. m2 /\ g[q] = k
            BY <1>1, <2>1, <2>2, <5>1, <5>2
          <6> QED
            BY <6>1
        <5>3. CASE q >= to /\ q + 1 <= m2
          <6>1. q + 1 \in 1 .. m2 /\ q + 1 > to /\ q + 1 - 1 = q
            BY <1>1, <2>1, <2>2, <5>1, <5>3
          <6>2. g[q + 1] = k
            BY <2>1, <5>1, <6>1
          <6> QED
            BY <6>1, <6>2
        <5>4. CASE q + 1 > m2
          <6>1. n >= kbest /\ q = kbest
            BY <1>1, <2>2, <5>1, <5>4
          <6> QED
            BY <1>4, <2>2, <4>1, <4>2, <5>1, <6>1
        <5> QED
          BY <1>1, <2>1, <2>2, <5>1, <5>2, <5>3, <5>4
      <4>4. CASE m = kbest /\ v[kbest] <= ss[k]
        <5>1. n >= kbest
          BY <1>1, <2>2, <4>4
        <5>2. w[kbest] \in Nat /\ v[kbest] \in Nat
          BY <1>1, <1>3, <2>1 DEF Cells
        <5>3. ss[k] \in Nat
          <6>1. ss[k] \in Times
            BY <4>1 DEF n
          <6> QED
            BY <6>1, FcycAssumption
        <5> QED
          BY <2>2, <4>1, <4>2, <4>4, <5>1, <5>2, <5>3
      <4> QED
        BY <1>4, <4>1, <4>3, <4>4
    <3> QED
      BY <3>1, <3>2
  <2>9. HoldsLeast(w, tt)
    <3>1. Len(tt) = n + 1 /\ m2 = IF Len(tt) < kbest THEN Len(tt) ELSE kbest
      BY <1>2 DEF m2
    <3> HIDE DEF g
    <3>2. \A k \in 1 .. Len(tt) : \/ \E q \in 1 .. m2 : g[q] = k
                                  \/ m2 = kbest /\ w[kbest] <= tt[k]
      BY <2>8, <3>1
    <3>3. \E h \in Selections(tt, m2) :
             /\ \A q \in 1 .. m2 : w[q] = tt[h[q]]
             /\ \A k \in 1 .. Len(tt) : \/ \E q \in 1 .. m2 : h[q] = k
                                        \/ m2 = kbest /\ w[kbest] <= tt[k]
      BY <2>6, <2>7, <3>2
    <3> QED
      BY <2>5, <3>1, <3>3 DEF HoldsLeast
  <2> QED
    BY <2>1, <2>9 DEF w, tt, n
<1> QED
  BY <1>6, <1>7

-----------------------------------------------------------------------------
(***************************************************************************)
(* What fsec may return (fcyc.c:213) after count samples ss.               *)
(***************************************************************************)
Measured(ss, count, r) ==
  /\ \E k \in 1 .. Len(ss) : r = ss[k]
  /\ \A k \in 1 .. Len(ss) : r <= ss[k]
  /\ \/ count = maxsamples
     \/ \E f \in Selections(ss, kbest) :
          \A q \in 1 .. kbest : 100 * ss[f[q]] <= 101 * r

(***************************************************************************)
(* The least cell is the answer once there is a sample and the loop has    *)
(* ended.                                                                  *)
(***************************************************************************)
LEMMA LeastIsMeasured ==
  ASSUME NEW v \in Cells, NEW ss \in Seq(Times), HoldsLeast(v, ss), Len(ss) > 0,
         Len(ss) = maxsamples \/ has_converged(v, Len(ss))
  PROVE  v[1] \in Times /\ Measured(ss, Len(ss), v[1])
<1> DEFINE n == Len(ss)
           m == IF n < kbest THEN n ELSE kbest
<1>1. kbest \in Nat \ {0} /\ n \in Nat /\ m \in Nat /\ m >= 1 /\ m <= kbest
  BY FcycAssumption
<1>2. /\ \A p, q \in 1 .. m : p <= q => v[p] <= v[q]
      /\ \A q \in 1 .. kbest : v[q] \in Nat
  BY DEF HoldsLeast, Cells
<1>3. PICK f \in Selections(ss, m) :
        /\ \A q \in 1 .. m : v[q] = ss[f[q]]
        /\ \A k \in 1 .. n : \/ \E q \in 1 .. m : f[q] = k
                             \/ m = kbest /\ v[kbest] <= ss[k]
  BY DEF HoldsLeast
<1>4. \A q \in 1 .. m : f[q] \in 1 .. n
  BY <1>3 DEF Selections
<1>5. ASSUME NEW k \in 1 .. n
      PROVE  ss[k] \in Times /\ ss[k] \in Nat
  <2>1. ss[k] \in Times
    OBVIOUS
  <2> QED
    BY <2>1, FcycAssumption
<1>6. f[1] \in 1 .. n /\ v[1] = ss[f[1]] /\ v[1] \in Times
  BY <1>1, <1>3, <1>4, <1>5
<1>7. ASSUME NEW k \in 1 .. n
      PROVE  v[1] <= ss[k]
  <2>1. CASE \E q \in 1 .. m : f[q] = k
    <3>1. PICK q \in 1 .. m : f[q] = k
      BY <2>1
    <3>2. v[1] <= v[q]
      BY <1>1, <1>2
    <3> QED
      BY <1>3, <3>1, <3>2
  <2>2. CASE m = kbest /\ v[kbest] <= ss[k]
    <3>1. v[1] <= v[kbest] /\ v[1] \in Nat /\ v[kbest] \in Nat
      BY <1>1, <1>2, <2>2
    <3> QED
      BY <1>5, <2>2, <3>1
  <2> QED
    BY <1>3, <2>1, <2>2
<1>8. ASSUME has_converged(v, n)
      PROVE  /\ f \in Selections(ss, kbest)
             /\ \A q \in 1 .. kbest : 100 * ss[f[q]] <= 101 * v[1]
  <2>1. m = kbest /\ 101 * v[1] >= 100 * v[kbest]
    BY <1>1, <1>8 DEF has_converged
  <2>2. ASSUME NEW q \in 1 .. kbest
        PROVE  100 * ss[f[q]] <= 101 * v[1]
    <3>1. v[q] <= v[kbest] /\ v[q] = ss[f[q]]
      BY <1>1, <1>2, <1>3, <2>1
    <3>2. v[q] \in Nat /\ v[kbest] \in Nat /\ v[1] \in Nat
      BY <1>1, <1>2
    <3> QED
      BY <2>1, <3>1, <3>2
  <2> QED
    BY <1>3, <2>1, <2>2
<1> HIDE DEF m, n
<1>9. \/ n = maxsamples
      \/ \E g \in Selections(ss, kbest) :
           \A q \in 1 .. kbest : 100 * ss[g[q]] <= 101 * v[1]
  BY <1>8 DEF n
<1> QED
  BY <1>6, <1>7, <1>9 DEF Measured, n

-----------------------------------------------------------------------------
(***************************************************************************)
(* The invariant of fsec.                                                  *)
(***************************************************************************)
FsecSteps == {"idle", "warm_up", "init_sampler", "calloc", "double_free",
              "sample", "free_values", "clear_values", "return"}

FcycInv ==
  /\ fsec_at \in FsecSteps
  /\ samplecount \in 0 .. maxsamples
  /\ values = [ptr |-> values.ptr, cells |-> values.cells]
  /\ values.cells = << >> \/ values.cells \in Cells
  /\ samples \in Seq(Times)
  /\ fsec_at \in {"sample", "free_values"} =>
       /\ values.cells \in Cells /\ values.ptr = "valid"
       /\ samplecount = Len(samples) /\ HoldsLeast(values.cells, samples)
  /\ fsec_at = "sample" => samplecount < maxsamples
  /\ fsec_at = "free_values" =>
       /\ samplecount > 0
       /\ samplecount = maxsamples \/ has_converged(values.cells, samplecount)
  /\ fsec_at \in {"clear_values", "return"} =>
       result \in Times /\ Measured(samples, samplecount, result)

(***************************************************************************)
(* The buffer is freed and the pointer still says otherwise, or is freed   *)
(* again: the state that a longjmp between free(values) and the assignment *)
(* after it leaves behind (fcyc.c:191).                                    *)
(***************************************************************************)
Dangling ==
  \/ fsec_at = "double_free"
  \/ values.ptr = "freed" /\ fsec_at \notin {"calloc", "clear_values"}

(***************************************************************************)
(* Before the first call of fsec there is no buffer.                       *)
(***************************************************************************)
LEMMA FcycInitInv == FcycInit => FcycInv /\ ~Dangling
<1> SUFFICES ASSUME FcycInit
             PROVE  FcycInv /\ ~Dangling
  OBVIOUS
<1>1. /\ fsec_at = "idle" /\ samplecount = 0 /\ samples = << >>
      /\ values.ptr = "null" /\ values.cells = << >>
      /\ values = [ptr |-> values.ptr, cells |-> values.cells]
  BY DEF FcycInit, NoBuffer
<1>2. samples \in Seq(Times) /\ samplecount \in 0 .. maxsamples
  BY <1>1, FcycAssumption
<1> QED
  BY <1>1, <1>2 DEF FcycInv, Dangling, FsecSteps

(***************************************************************************)
(* A call of fsec begins with the warm-up and leaves the buffer as it is.  *)
(***************************************************************************)
LEMMA CallInv ==
  ASSUME FcycInv, fsec_call
  PROVE  FcycInv' /\ fsec_at' = "warm_up" /\ (~Dangling => ~Dangling')
BY DEF FcycInv, fsec_call, Dangling, FsecSteps

(***************************************************************************)
(* Leaving fsec, at its end or by longjmp from anywhere in it. Only        *)
(* between free(values) and the assignment to values that follows it does  *)
(* this leave a dangling pointer behind.                                   *)
(***************************************************************************)
LEMMA LeaveInv ==
  ASSUME FcycInv, LeaveFsec
  PROVE  /\ FcycInv' /\ fsec_at' = "idle"
         /\ ~Dangling /\ fsec_at \notin {"calloc", "clear_values"} => ~Dangling'
BY DEF FcycInv, LeaveFsec, Dangling, FsecSteps

(***************************************************************************)
(* A sample keeps the array of the least ones sorted and complete.         *)
(***************************************************************************)
LEMMA SampleInv ==
  ASSUME FcycInv, Sample
  PROVE  /\ FcycInv' /\ fsec_at' # "idle" /\ (~Dangling => ~Dangling')
<1>1. PICK val \in Times :
        /\ values' = [values EXCEPT !.cells = add_sample(@, samplecount, val)]
        /\ samples' = Append(samples, val)
  BY DEF Sample
<1>2. /\ fsec_at = "sample" /\ samplecount' = samplecount + 1
      /\ fsec_at' = IF \/ has_converged(values'.cells, samplecount')
                       \/ samplecount' >= maxsamples
                    THEN "free_values" ELSE "sample"
  BY DEF Sample
<1>3. /\ values.cells \in Cells /\ values.ptr = "valid" /\ samples \in Seq(Times)
      /\ samplecount = Len(samples) /\ HoldsLeast(values.cells, samples)
      /\ samplecount \in Nat /\ samplecount < maxsamples /\ maxsamples \in Nat
      /\ values = [ptr |-> values.ptr, cells |-> values.cells]
  BY <1>2, FcycAssumption DEF FcycInv
<1> DEFINE w == add_sample(values.cells, samplecount, val)
<1>4. values' = [ptr |-> "valid", cells |-> w]
  <2> HIDE DEF w
  <2>1. values' = [values EXCEPT !.cells = w]
    BY <1>1 DEF w
  <2> QED
    BY <1>3, <2>1
<1>5. w \in Cells /\ HoldsLeast(w, samples')
  BY <1>1, <1>3, AddSample
<1>6. samples' \in Seq(Times) /\ Len(samples') = samplecount + 1
  BY <1>1, <1>3
<1>7. samplecount' \in 0 .. maxsamples /\ samplecount' > 0
  BY <1>2, <1>3
<1> HIDE DEF w
<1>8. /\ values'.cells = w /\ values'.ptr = "valid"
      /\ values' = [ptr |-> values'.ptr, cells |-> values'.cells]
  BY <1>4
<1>9. CASE fsec_at' = "free_values"
  <2>1. samplecount' = maxsamples \/ has_converged(values'.cells, samplecount')
    <3>1. has_converged(values'.cells, samplecount') \/ samplecount' >= maxsamples
      BY <1>2, <1>9
    <3>2. samplecount' >= maxsamples => samplecount' = maxsamples
      BY <1>3, <1>7
    <3> QED
      BY <3>1, <3>2
  <2> QED
    BY <1>2, <1>5, <1>6, <1>7, <1>8, <1>9, <2>1
       DEF FcycInv, Dangling, FsecSteps
<1>10. CASE fsec_at' = "sample"
  <2>1. samplecount' < maxsamples
    BY <1>2, <1>3, <1>7, <1>10
  <2> QED
    BY <1>2, <1>5, <1>6, <1>7, <1>8, <1>10, <2>1
       DEF FcycInv, Dangling, FsecSteps
<1> QED
  BY <1>2, <1>9, <1>10

(***************************************************************************)
(* Every step of fsec keeps the invariant and, from a buffer that does not *)
(* dangle, does not leave one that does.                                   *)
(***************************************************************************)
LEMMA FsecInv ==
  ASSUME FcycInv, fsec
  PROVE  FcycInv' /\ fsec_at' # "idle" /\ (~Dangling => ~Dangling')
<1>1. CASE WarmUp
  BY <1>1 DEF FcycInv, WarmUp, Dangling, FsecSteps
<1>2. CASE FreeOld
  BY <1>2 DEF FcycInv, FreeOld, Dangling, FsecSteps, FreedBuffer
<1>3. CASE CallocValues
  <2>1. /\ fsec_at' = "sample" /\ samplecount' = 0 /\ samples' = << >>
        /\ values'.ptr = "valid" /\ values'.cells = [q \in 1 .. kbest |-> 0]
        /\ values' = [ptr |-> values'.ptr, cells |-> values'.cells]
    BY <1>3 DEF CallocValues
  <2>2. values'.cells \in Cells
    BY <2>1 DEF Cells
  <2>3. samples' \in Seq(Times) /\ Len(samples') = 0 /\ 0 < maxsamples
        /\ 0 \in 0 .. maxsamples
    BY <2>1, FcycAssumption
  <2>4. HoldsLeast(values'.cells, samples')
    <3> DEFINE f == [q \in 1 .. 0 |-> 1]
    <3>1. f \in Selections(samples', 0)
      BY <2>3 DEF Selections
    <3>2. kbest > 0
      BY FcycAssumption
    <3> QED
      BY <2>3, <3>1, <3>2 DEF HoldsLeast
  <2> QED
    BY <2>1, <2>2, <2>3, <2>4 DEF FcycInv, Dangling, FsecSteps, HoldsLeast, Selections
<1>4. CASE Sample
  BY <1>4, SampleInv
<1>5. CASE FreeValues
  <2>1. /\ fsec_at = "free_values" /\ fsec_at' = "clear_values"
        /\ result' = values.cells[1] /\ samples' = samples
        /\ samplecount' = samplecount
        /\ values'.ptr = "freed" /\ values'.cells = << >>
        /\ values' = [ptr |-> values'.ptr, cells |-> values'.cells]
    BY <1>5 DEF FreeValues, FreedBuffer
  <2>2. result' \in Times /\ Measured(samples, samplecount, result')
    BY <2>1, LeastIsMeasured DEF FcycInv
  <2> QED
    BY <2>1, <2>2 DEF FcycInv, Dangling, FsecSteps, Measured, Selections
<1>6. CASE ClearValues
  <2>1. /\ fsec_at = "clear_values" /\ fsec_at' = "return"
        /\ result' = result /\ samples' = samples
        /\ samplecount' = samplecount
        /\ values'.ptr = "null" /\ values'.cells = << >>
        /\ values' = [ptr |-> values'.ptr, cells |-> values'.cells]
    BY <1>6 DEF ClearValues, NoBuffer
  <2> QED
    BY <2>1 DEF FcycInv, Dangling, FsecSteps, Measured, Selections
<1> QED
  BY <1>1, <1>2, <1>3, <1>4, <1>5, <1>6 DEF fsec

(***************************************************************************)
(* Steps of the rest of the driver leave fsec alone.                       *)
(***************************************************************************)
LEMMA IdleInv ==
  ASSUME FcycInv, UNCHANGED fcyc_vars
  PROVE  FcycInv' /\ fsec_at' = fsec_at /\ (~Dangling => ~Dangling')
BY DEF FcycInv, fcyc_vars, Dangling

(***************************************************************************)
(* What the invariant of fsec is for.                                      *)
(***************************************************************************)
LEMMA FcycFacts ==
  ASSUME FcycInv
  PROVE  /\ KBest
         /\ samplecount \in 0 .. maxsamples /\ Len(values.cells) \in {0, kbest}
         /\ fsec_at = "return" => result \in Times
<1>1. KBest
  BY DEF FcycInv, KBest, Measured
<1>2. Len(values.cells) \in {0, kbest}
  <2>1. CASE values.cells = << >>
    BY <2>1
  <2>2. CASE values.cells \in Cells
    <3>1. kbest \in Nat
      BY FcycAssumption
    <3>2. values.cells \in Seq(Nat) /\ DOMAIN values.cells = 1 .. kbest
      BY <2>2, <3>1 DEF Cells
    <3>3. Len(values.cells) = kbest
      BY <3>1, <3>2
    <3> QED
      BY <3>3
  <2> QED
    BY <2>1, <2>2 DEF FcycInv
<1> QED
  BY <1>1, <1>2 DEF FcycInv

-----------------------------------------------------------------------------
(***************************************************************************)
(* The places of the program while it runs libc's allocator and while it   *)
(* runs the one under test.  fsec is called from both.                     *)
(***************************************************************************)
LibcPcs == {"main", "libc_read_trace", "eval_libc_valid", "libc_free_trace",
            "next_libc_trace", "reference", "mm_stats"}
MmPcs == {"loop", "new_range_set", "read_trace", "setjmp", "eval_1",
          "free_range_set", "new_range_set_2", "eval_2", "measure",
          "onetime_free_trace", "onetime_free_range_set", "free_trace",
          "free_range_set_end", "mem_deinit", "next_trace", "report", "done"}

(***************************************************************************)
(* The places at which the verdict on trace i is final, and those at which *)
(* a bad one has been counted.                                             *)
(***************************************************************************)
Judged == {"onetime_free_range_set", "free_trace", "free_range_set_end",
           "mem_deinit", "next_trace", "report", "done"}
Counted == Judged \cup {"free_range_set", "new_range_set_2", "eval_2", "measure",
                        "onetime_free_trace", "fsec"}

(***************************************************************************)
(* Where the driver is, and what the alarm has done.                       *)
(***************************************************************************)
ControlInv ==
  /\ who \in {"libc", "mm"}
  /\ pc \in (IF who = "libc" THEN LibcPcs ELSE MmPcs) \cup {"fsec", "exit", "undefined"}
  /\ pc # "exit" => (pc = "fsec" <=> fsec_at # "idle")
  /\ i \in 1 .. num_tracefiles + 1
  /\ pc \notin {"loop", "report"} \cup Over => i \in Traces
  /\ pc \in {"main", "reference", "mm_stats"} => i = 1
  /\ pc \in {"report", "done"} => onetime_flag \/ i = num_tracefiles + 1
  /\ pc \in {"onetime_free_trace", "onetime_free_range_set"} => onetime_flag
  /\ trace \in 0 .. num_tracefiles /\ jmpbuf \in 0 .. num_tracefiles
  /\ alarm \in {"off", "armed", "fired"} /\ onetime_flag \in BOOLEAN
  /\ run_libc \in BOOLEAN /\ build \in Builds
  /\ pc = "measure" => build # "mdriver-dbg"
  /\ pc = "fsec" /\ who = "mm" => build = "mdriver"
  /\ alarm # "fired" => fired_at = Never /\ fired_in = 0
  /\ fired_in \in 0 .. i /\ (fired_in = i => pc \in Judged \cup Over)
  /\ who = "libc" => jmpbuf = 0 /\ (alarm = "fired" => pc \in Over)
  /\ /\ who = "mm" /\ alarm = "armed"
     /\ pc \in {"eval_1", "free_range_set", "new_range_set_2", "eval_2", "measure",
                "onetime_free_trace", "fsec", "free_trace"}
     => jmpbuf = i
  /\ Dangling => ~InTime

(***************************************************************************)
(* The records run_tests has allocated and the state of the memory system. *)
(* An alarm at a bad moment leads to free_trace without all of them, and   *)
(* from there to a second free.                                            *)
(***************************************************************************)
RecordsInv ==
  /\ \A j \in 0 .. num_tracefiles : ranges # TraceRecord(j)
  /\ mem_up \in 0 .. 1
  /\ pc \in {"main", "libc_read_trace", "next_libc_trace", "reference", "mm_stats",
             "loop", "new_range_set", "mem_deinit", "next_trace", "report", "done"}
     => live = {}
  /\ pc \in {"eval_libc_valid", "libc_free_trace"} \/ (pc = "fsec" /\ who = "libc")
     => live = {TraceRecord(trace)}
  /\ pc \in {"read_trace", "onetime_free_range_set"} => live = {ranges}
  /\ \/ pc \in {"setjmp", "eval_1", "free_range_set", "eval_2", "measure",
                "onetime_free_trace"}
     \/ pc = "fsec" /\ who = "mm"
     => trace = i /\ live = {ranges, TraceRecord(trace)}
  /\ pc = "new_range_set_2" => trace = i /\ live = {TraceRecord(trace)}
  /\ pc = "free_trace" =>
       \/ trace = i /\ live = {ranges, TraceRecord(trace)} /\ mem_up = 1
       \/ ~InTime /\ (TraceRecord(trace) \notin live \/ ranges \notin live)
  /\ pc = "free_range_set_end" =>
       \/ live = {ranges} /\ mem_up = 1
       \/ ~InTime /\ ranges \notin live
  /\ pc = "undefined" => ~InTime
  /\ pc \in {"loop", "next_trace"} \/ who = "libc" => mem_up = 0
  /\ \/ pc \in {"new_range_set", "read_trace", "setjmp", "eval_1", "free_range_set",
                "new_range_set_2", "eval_2", "measure", "onetime_free_trace",
                "onetime_free_range_set", "mem_deinit"}
     \/ pc = "fsec" /\ who = "mm"
     => mem_up = 1
  /\ pc \in {"report", "done"} /\ mem_up = 1 => onetime_flag

(***************************************************************************)
(* The verdicts: of a trace not reached yet, of the one at work and, if    *)
(* the alarm came in time or not at all, of those that are done with.      *)
(***************************************************************************)
Fresh(j) == ~valid[j] /\ passes[j] = 0 /\ reads[j] = 0

Settled(j) ==
  /\ reads[j] = 1
  /\ valid[j] <=> passes[j] = 2 /\ fired_in # j
  /\ valid[j] /\ ~onetime_flag => secs[j] \in RecordedSecs

VerdictInv ==
  /\ valid \in [Traces -> BOOLEAN] /\ errors \in BOOLEAN /\ libc_failed \in BOOLEAN
  /\ passes \in [Traces -> 0 .. 2] /\ reads \in [Traces -> 0 .. 1]
  /\ secs \in [Traces -> Times \cup {0, 1}]
  /\ build = "mdriver-dbg" => \A j \in Traces : secs[j] = 0
  /\ \A j \in Traces : i < j \/ who = "libc" => Fresh(j)
  /\ pc \in {"loop", "new_range_set", "read_trace"} /\ i \in Traces => Fresh(i)
  /\ pc \in {"setjmp", "eval_1"} => ~valid[i] /\ passes[i] = 0 /\ reads[i] = 1
  /\ pc \in {"free_range_set", "new_range_set_2", "eval_2"} =>
       /\ passes[i] \in 0 .. 1 /\ reads[i] = 1
       /\ valid[i] <=> passes[i] = 1
  /\ pc \in {"measure", "onetime_free_trace"} \/ (pc = "fsec" /\ who = "mm") =>
       reads[i] = 1 /\ (valid[i] <=> passes[i] = 2)
  /\ who = "mm" /\ InTime /\ pc \notin {"exit", "undefined"} =>
       /\ \A j \in Traces : j < i \/ (j = i /\ pc \in Judged) => Settled(j)
       /\ errors <=> \/ libc_failed
                     \/ \E j \in Traces : /\ j < i \/ (j = i /\ pc \in Counted)
                                          /\ ~valid[j]
  /\ who = "libc" /\ pc \notin {"exit", "undefined"} => (errors <=> libc_failed)
  /\ score = "scored" => pc = "done" /\ ~errors

Inv == FcycInv /\ ControlInv /\ RecordsInv /\ VerdictInv

(***************************************************************************)
(* The tuples of variables an action leaves alone, and the two sets that   *)
(* most conditions mention, are expanded in every step below.              *)
(***************************************************************************)
USE DEF others, options, results, summary, records, timing, Traces, Over, Builds,
        RecordedSecs

-----------------------------------------------------------------------------
(***************************************************************************)
(* No trace's record is a range set's, and no two traces share one.        *)
(***************************************************************************)
LEMMA RecordsDiffer ==
  /\ \A j, k : TraceRecord(j) = TraceRecord(k) => j = k
  /\ \A j, k, n : RangeSetRecord(k, n) # TraceRecord(j)
BY DEF TraceRecord, RangeSetRecord

(***************************************************************************)
(* A step that is not the alarm.                                           *)
(***************************************************************************)
LEMMA StillInTime == fired_at' = fired_at => (InTime' <=> InTime)
BY DEF InTime, Covered, SafeToLeave

(***************************************************************************)
(* main before run_tests (mdriver.c:505).                                  *)
(***************************************************************************)
LEMMA MainInv ==
  ASSUME Inv, Main
  PROVE  Inv'
<1>1. FcycInv' /\ (Dangling' => Dangling)
  BY IdleInv DEF Inv, Main, AfterLibc
<1>2. fired_at' = fired_at /\ (InTime' <=> InTime)
  BY StillInTime DEF Main, AfterLibc
<1>3. ControlInv'
  BY <1>1, <1>2, DriverAssumption, CallInv, LeaveInv
     DEF Inv, ControlInv, Main, AfterLibc, fcyc_vars, LibcPcs, MmPcs, Judged
<1>4. RecordsInv'
  BY <1>1, <1>2, RecordsDiffer, DriverAssumption
     DEF Inv, ControlInv, RecordsInv, Main, AfterLibc, LibcPcs, MmPcs
<1>5. VerdictInv'
  BY <1>1, <1>2, DriverAssumption
     DEF Inv, ControlInv, VerdictInv, Main, AfterLibc, Fresh, Settled, Judged,
         Counted, LibcPcs, MmPcs
<1> QED
  BY <1>1, <1>3, <1>4, <1>5 DEF Inv

(***************************************************************************)
(* A trace for libc is read, or the process ends.                          *)
(***************************************************************************)
LEMMA LibcReadTraceInv ==
  ASSUME Inv, libc_read_trace
  PROVE  Inv'
<1>1. FcycInv' /\ (Dangling' => Dangling)
  BY IdleInv DEF Inv, libc_read_trace
<1>2. fired_at' = fired_at /\ (InTime' <=> InTime)
  BY StillInTime DEF libc_read_trace
<1>3. ControlInv'
  BY <1>1, <1>2, DriverAssumption, CallInv, LeaveInv
     DEF Inv, ControlInv, libc_read_trace, fcyc_vars, LibcPcs, MmPcs, Judged
<1>4. RecordsInv'
  BY <1>1, <1>2, RecordsDiffer, DriverAssumption
     DEF Inv, ControlInv, RecordsInv, libc_read_trace, LibcPcs, MmPcs
<1>5. VerdictInv'
  BY <1>1, <1>2, DriverAssumption
     DEF Inv, ControlInv, VerdictInv, libc_read_trace, Fresh, Settled, Judged,
         Counted, LibcPcs, MmPcs
<1> QED
  BY <1>1, <1>3, <1>4, <1>5 DEF Inv

(***************************************************************************)
(* libc's own evaluation, and the call of fsec.                            *)
(***************************************************************************)
LEMMA EvalLibcValidInv ==
  ASSUME Inv, eval_libc_valid
  PROVE  Inv'
<1>1. FcycInv' /\ (Dangling' => Dangling)
  BY CallInv DEF Inv, eval_libc_valid
<1>2. fired_at' = fired_at /\ (InTime' <=> InTime)
  BY StillInTime DEF eval_libc_valid
<1>3. ControlInv'
  BY <1>1, <1>2, DriverAssumption, CallInv, LeaveInv
     DEF Inv, ControlInv, eval_libc_valid, fcyc_vars, LibcPcs, MmPcs, Judged
<1>4. RecordsInv'
  BY <1>1, <1>2, RecordsDiffer, DriverAssumption
     DEF Inv, ControlInv, RecordsInv, eval_libc_valid, LibcPcs, MmPcs
<1>5. VerdictInv'
  BY <1>1, <1>2, DriverAssumption
     DEF Inv, ControlInv, VerdictInv, eval_libc_valid, Fresh, Settled, Judged,
         Counted, LibcPcs, MmPcs
<1> QED
  BY <1>1, <1>3, <1>4, <1>5 DEF Inv

(***************************************************************************)
(* The trace read for libc is given back.                                  *)
(***************************************************************************)
LEMMA LibcFreeTraceInv ==
  ASSUME Inv, free_trace("libc_free_trace", "next_libc_trace")
  PROVE  Inv'
<1>1. FcycInv' /\ (Dangling' => Dangling)
  BY IdleInv DEF Inv, free_trace, Release
<1>2. fired_at' = fired_at /\ (InTime' <=> InTime)
  BY StillInTime DEF free_trace, Release
<1>3. ControlInv'
  BY <1>1, <1>2, DriverAssumption, CallInv, LeaveInv
     DEF Inv, ControlInv, free_trace, Release, fcyc_vars, LibcPcs, MmPcs, Judged
<1>4. RecordsInv'
  BY <1>1, <1>2, RecordsDiffer, DriverAssumption
     DEF Inv, ControlInv, RecordsInv, free_trace, Release, LibcPcs, MmPcs
<1>5. VerdictInv'
  BY <1>1, <1>2, DriverAssumption
     DEF Inv, ControlInv, VerdictInv, free_trace, Release, Fresh, Settled,
         Judged, Counted, LibcPcs, MmPcs
<1> QED
  BY <1>1, <1>3, <1>4, <1>5 DEF Inv

(***************************************************************************)
(* The loop over the traces for libc.                                      *)
(***************************************************************************)
LEMMA NextLibcTraceInv ==
  ASSUME Inv, NextLibcTrace
  PROVE  Inv'
<1>1. FcycInv' /\ (Dangling' => Dangling)
  BY IdleInv DEF Inv, NextLibcTrace, AfterLibc
<1>2. fired_at' = fired_at /\ (InTime' <=> InTime)
  BY StillInTime DEF NextLibcTrace, AfterLibc
<1>3. ControlInv'
  BY <1>1, <1>2, DriverAssumption, CallInv, LeaveInv
     DEF Inv, ControlInv, NextLibcTrace, AfterLibc, fcyc_vars, LibcPcs, MmPcs,
         Judged
<1>4. RecordsInv'
  BY <1>1, <1>2, RecordsDiffer, DriverAssumption
     DEF Inv, ControlInv, RecordsInv, NextLibcTrace, AfterLibc, LibcPcs, MmPcs
<1>5. VerdictInv'
  BY <1>1, <1>2, DriverAssumption
     DEF Inv, ControlInv, VerdictInv, NextLibcTrace, AfterLibc, Fresh, Settled,
         Judged, Counted, LibcPcs, MmPcs
<1> QED
  BY <1>1, <1>3, <1>4, <1>5 DEF Inv

(***************************************************************************)
(* The reference throughput does not touch the tests.                      *)
(***************************************************************************)
LEMMA ReferenceInv ==
  ASSUME Inv, measure_ref_throughput
  PROVE  Inv'
<1>1. FcycInv' /\ (Dangling' => Dangling)
  BY IdleInv DEF Inv, measure_ref_throughput
<1>2. fired_at' = fired_at /\ (InTime' <=> InTime)
  BY StillInTime DEF measure_ref_throughput
<1>3. ControlInv'
  BY <1>1, <1>2, DriverAssumption, CallInv, LeaveInv
     DEF Inv, ControlInv, measure_ref_throughput, fcyc_vars, LibcPcs, MmPcs,
         Judged
<1>4. RecordsInv'
  BY <1>1, <1>2, RecordsDiffer, DriverAssumption
     DEF Inv, ControlInv, RecordsInv, measure_ref_throughput, LibcPcs, MmPcs
<1>5. VerdictInv'
  BY <1>1, <1>2, DriverAssumption
     DEF Inv, ControlInv, VerdictInv, measure_ref_throughput, Fresh, Settled,
         Judged, Counted, LibcPcs, MmPcs
<1> QED
  BY <1>1, <1>3, <1>4, <1>5 DEF Inv

(***************************************************************************)
(* run_tests begins with nothing allocated and nothing judged.             *)
(***************************************************************************)
LEMMA AllocStatsInv ==
  ASSUME Inv, AllocStats
  PROVE  Inv'
<1>1. FcycInv' /\ (Dangling' => Dangling)
  BY IdleInv DEF Inv, AllocStats
<1>2. fired_at' = fired_at /\ (InTime' <=> InTime)
  BY StillInTime DEF AllocStats
<1>3. ControlInv'
  BY <1>1, <1>2, DriverAssumption, CallInv, LeaveInv
     DEF Inv, ControlInv, AllocStats, fcyc_vars, LibcPcs, MmPcs, Judged
<1>4. RecordsInv'
  BY <1>1, <1>2, RecordsDiffer, DriverAssumption
     DEF Inv, ControlInv, RecordsInv, AllocStats, LibcPcs, MmPcs
<1>5. VerdictInv'
  BY <1>1, <1>2, DriverAssumption
     DEF Inv, ControlInv, VerdictInv, AllocStats, Fresh, Settled, Judged,
         Counted, LibcPcs, MmPcs
<1> QED
  BY <1>1, <1>3, <1>4, <1>5 DEF Inv

(***************************************************************************)
(* A round of run_tests begins with the memory system down.                *)
(***************************************************************************)
LEMMA MemInitInv ==
  ASSUME Inv, mem_init
  PROVE  Inv'
<1>1. FcycInv' /\ (Dangling' => Dangling)
  BY IdleInv DEF Inv, mem_init
<1>2. fired_at' = fired_at /\ (InTime' <=> InTime)
  BY StillInTime DEF mem_init
<1>3. ControlInv'
  BY <1>1, <1>2, DriverAssumption, CallInv, LeaveInv
     DEF Inv, ControlInv, mem_init, fcyc_vars, LibcPcs, MmPcs, Judged
<1>4. RecordsInv'
  BY <1>1, <1>2, RecordsDiffer, DriverAssumption
     DEF Inv, ControlInv, RecordsInv, mem_init, LibcPcs, MmPcs
<1>5. VerdictInv'
  BY <1>1, <1>2, DriverAssumption
     DEF Inv, ControlInv, VerdictInv, mem_init, Fresh, Settled, Judged, Counted,
         LibcPcs, MmPcs
<1> QED
  BY <1>1, <1>3, <1>4, <1>5 DEF Inv

(***************************************************************************)
(* The range set of the first evaluation.                                  *)
(***************************************************************************)
LEMMA NewRangeSet1Inv ==
  ASSUME Inv, new_range_set(1, "new_range_set", "read_trace")
  PROVE  Inv'
<1>1. FcycInv' /\ (Dangling' => Dangling)
  BY IdleInv DEF Inv, new_range_set
<1>2. fired_at' = fired_at /\ (InTime' <=> InTime)
  BY StillInTime DEF new_range_set
<1>3. ControlInv'
  BY <1>1, <1>2, DriverAssumption, CallInv, LeaveInv
     DEF Inv, ControlInv, new_range_set, fcyc_vars, LibcPcs, MmPcs, Judged
<1>4. RecordsInv'
  BY <1>1, <1>2, RecordsDiffer, DriverAssumption
     DEF Inv, ControlInv, RecordsInv, new_range_set, LibcPcs, MmPcs
<1>5. VerdictInv'
  BY <1>1, <1>2, DriverAssumption
     DEF Inv, ControlInv, VerdictInv, new_range_set, Fresh, Settled, Judged,
         Counted, LibcPcs, MmPcs
<1> QED
  BY <1>1, <1>3, <1>4, <1>5 DEF Inv

(***************************************************************************)
(* A trace is read only once, since i grows.                               *)
(***************************************************************************)
LEMMA ReadTraceInv ==
  ASSUME Inv, read_trace
  PROVE  Inv'
<1>1. FcycInv' /\ (Dangling' => Dangling)
  BY IdleInv DEF Inv, read_trace
<1>2. fired_at' = fired_at /\ (InTime' <=> InTime)
  BY StillInTime DEF read_trace
<1>3. ControlInv'
  BY <1>1, <1>2, DriverAssumption, CallInv, LeaveInv
     DEF Inv, ControlInv, read_trace, fcyc_vars, LibcPcs, MmPcs, Judged
<1>4. RecordsInv'
  BY <1>1, <1>2, RecordsDiffer, DriverAssumption
     DEF Inv, ControlInv, RecordsInv, read_trace, LibcPcs, MmPcs
<1>5. VerdictInv'
  BY <1>1, <1>2, DriverAssumption
     DEF Inv, ControlInv, VerdictInv, read_trace, Fresh, Settled, Judged,
         Counted, LibcPcs, MmPcs
<1> QED
  BY <1>1, <1>3, <1>4, <1>5 DEF Inv

(***************************************************************************)
(* From here on a jump returns to the trace at work.                       *)
(***************************************************************************)
LEMMA SetjmpInv ==
  ASSUME Inv, setjmp
  PROVE  Inv'
<1>1. FcycInv' /\ (Dangling' => Dangling)
  BY IdleInv DEF Inv, setjmp
<1>2. fired_at' = fired_at /\ (InTime' <=> InTime)
  BY StillInTime DEF setjmp
<1>3. ControlInv'
  BY <1>1, <1>2, DriverAssumption, CallInv, LeaveInv
     DEF Inv, ControlInv, setjmp, fcyc_vars, LibcPcs, MmPcs, Judged
<1>4. RecordsInv'
  BY <1>1, <1>2, RecordsDiffer, DriverAssumption
     DEF Inv, ControlInv, RecordsInv, setjmp, LibcPcs, MmPcs
<1>5. VerdictInv'
  BY <1>1, <1>2, DriverAssumption
     DEF Inv, ControlInv, VerdictInv, setjmp, Fresh, Settled, Judged, Counted,
         LibcPcs, MmPcs
<1> QED
  BY <1>1, <1>3, <1>4, <1>5 DEF Inv

(***************************************************************************)
(* The first range set is there to be freed.                               *)
(***************************************************************************)
LEMMA FreeRangeSet1Inv ==
  ASSUME Inv, free_range_set("free_range_set", "new_range_set_2")
  PROVE  Inv'
<1>1. FcycInv' /\ (Dangling' => Dangling)
  BY IdleInv DEF Inv, free_range_set, Release
<1>2. fired_at' = fired_at /\ (InTime' <=> InTime)
  BY StillInTime DEF free_range_set, Release
<1>3. ControlInv'
  BY <1>1, <1>2, DriverAssumption, CallInv, LeaveInv
     DEF Inv, ControlInv, free_range_set, Release, fcyc_vars, LibcPcs, MmPcs,
         Judged
<1>4. RecordsInv'
  BY <1>1, <1>2, RecordsDiffer, DriverAssumption
     DEF Inv, ControlInv, RecordsInv, free_range_set, Release, LibcPcs, MmPcs
<1>5. VerdictInv'
  BY <1>1, <1>2, DriverAssumption
     DEF Inv, ControlInv, VerdictInv, free_range_set, Release, Fresh, Settled,
         Judged, Counted, LibcPcs, MmPcs
<1> QED
  BY <1>1, <1>3, <1>4, <1>5 DEF Inv

(***************************************************************************)
(* The range set of the second evaluation.                                 *)
(***************************************************************************)
LEMMA NewRangeSet2Inv ==
  ASSUME Inv, new_range_set(2, "new_range_set_2", "eval_2")
  PROVE  Inv'
<1>1. FcycInv' /\ (Dangling' => Dangling)
  BY IdleInv DEF Inv, new_range_set
<1>2. fired_at' = fired_at /\ (InTime' <=> InTime)
  BY StillInTime DEF new_range_set
<1>3. ControlInv'
  BY <1>1, <1>2, DriverAssumption, CallInv, LeaveInv
     DEF Inv, ControlInv, new_range_set, fcyc_vars, LibcPcs, MmPcs, Judged
<1>4. RecordsInv'
  BY <1>1, <1>2, RecordsDiffer, DriverAssumption
     DEF Inv, ControlInv, RecordsInv, new_range_set, LibcPcs, MmPcs
<1>5. VerdictInv'
  BY <1>1, <1>2, DriverAssumption
     DEF Inv, ControlInv, VerdictInv, new_range_set, Fresh, Settled, Judged,
         Counted, LibcPcs, MmPcs
<1> QED
  BY <1>1, <1>3, <1>4, <1>5 DEF Inv

(***************************************************************************)
(* With -c the trace is freed after its evaluations.                       *)
(***************************************************************************)
LEMMA OnetimeFreeTraceInv ==
  ASSUME Inv, free_trace("onetime_free_trace", "onetime_free_range_set")
  PROVE  Inv'
<1>1. FcycInv' /\ (Dangling' => Dangling)
  BY IdleInv DEF Inv, free_trace, Release
<1>2. fired_at' = fired_at /\ (InTime' <=> InTime)
  BY StillInTime DEF free_trace, Release
<1>3. ControlInv'
  BY <1>1, <1>2, DriverAssumption, CallInv, LeaveInv
     DEF Inv, ControlInv, free_trace, Release, fcyc_vars, LibcPcs, MmPcs, Judged
<1>4. RecordsInv'
  BY <1>1, <1>2, RecordsDiffer, DriverAssumption
     DEF Inv, ControlInv, RecordsInv, free_trace, Release, LibcPcs, MmPcs
<1>5. VerdictInv'
  BY <1>1, <1>2, DriverAssumption
     DEF Inv, ControlInv, VerdictInv, free_trace, Release, Fresh, Settled,
         Judged, Counted, LibcPcs, MmPcs
<1> QED
  BY <1>1, <1>3, <1>4, <1>5 DEF Inv

(***************************************************************************)
(* With -c run_tests returns after one trace.                              *)
(***************************************************************************)
LEMMA OnetimeReturnInv ==
  ASSUME Inv, OnetimeReturn
  PROVE  Inv'
<1>1. FcycInv' /\ (Dangling' => Dangling)
  BY IdleInv DEF Inv, OnetimeReturn, Release
<1>2. fired_at' = fired_at /\ (InTime' <=> InTime)
  BY StillInTime DEF OnetimeReturn, Release
<1>3. ControlInv'
  BY <1>1, <1>2, DriverAssumption, CallInv, LeaveInv
     DEF Inv, ControlInv, OnetimeReturn, Release, fcyc_vars, LibcPcs, MmPcs,
         Judged
<1>4. RecordsInv'
  BY <1>1, <1>2, RecordsDiffer, DriverAssumption
     DEF Inv, ControlInv, RecordsInv, OnetimeReturn, Release, LibcPcs, MmPcs
<1>5. VerdictInv'
  BY <1>1, <1>2, DriverAssumption
     DEF Inv, ControlInv, VerdictInv, OnetimeReturn, Release, Fresh, Settled,
         Judged, Counted, LibcPcs, MmPcs
<1> QED
  BY <1>1, <1>3, <1>4, <1>5 DEF Inv

(***************************************************************************)
(* A wrong trace passes by the second evaluation and the timing.           *)
(***************************************************************************)
LEMMA SkipWrongInv ==
  ASSUME Inv, SkipWrong
  PROVE  Inv'
<1>1. FcycInv' /\ (Dangling' => Dangling)
  BY IdleInv DEF Inv, SkipWrong, AfterEvals
<1>2. fired_at' = fired_at /\ (InTime' <=> InTime)
  BY StillInTime DEF SkipWrong, AfterEvals
<1>3. ControlInv'
  BY <1>1, <1>2, DriverAssumption, CallInv, LeaveInv
     DEF Inv, ControlInv, SkipWrong, AfterEvals, fcyc_vars, LibcPcs, MmPcs,
         Judged
<1>4. RecordsInv'
  BY <1>1, <1>2, RecordsDiffer, DriverAssumption
     DEF Inv, ControlInv, RecordsInv, SkipWrong, AfterEvals, LibcPcs, MmPcs
<1>5. VerdictInv'
  BY <1>1, <1>2, DriverAssumption
     DEF Inv, ControlInv, VerdictInv, SkipWrong, AfterEvals, Fresh, Settled,
         Judged, Counted, LibcPcs, MmPcs
<1> QED
  BY <1>1, <1>3, <1>4, <1>5 DEF Inv

(***************************************************************************)
(* A trace that was timed has a time of fsec, and is settled.              *)
(***************************************************************************)
LEMMA FsecReturnInv ==
  ASSUME Inv, FsecReturn
  PROVE  Inv'
<1>1. FcycInv' /\ (Dangling' => Dangling)
  BY LeaveInv DEF Inv, FsecReturn
<1>2. fired_at' = fired_at /\ (InTime' <=> InTime)
  BY StillInTime DEF FsecReturn
<1>3. ControlInv'
  BY <1>1, <1>2, DriverAssumption, CallInv, LeaveInv
     DEF Inv, ControlInv, FsecReturn, fcyc_vars, LibcPcs, MmPcs, Judged
<1>a. fsec_at = "double_free" => ~InTime
  BY DEF Inv, ControlInv, Dangling
<1>4. RecordsInv'
  BY <1>2, <1>a, DriverAssumption
     DEF Inv, ControlInv, RecordsInv, FsecReturn, LibcPcs, MmPcs
<1>5. VerdictInv'
  <2>1. /\ pc = "fsec" /\ fsec_at \in {"return", "double_free"} /\ i \in Traces
        /\ pc' = IF fsec_at = "double_free" THEN "undefined"
                 ELSE IF who = "mm" THEN "free_trace" ELSE "libc_free_trace"
        /\ secs' = IF who = "mm" /\ fsec_at = "return"
                   THEN [secs EXCEPT ![i] = result] ELSE secs
        /\ who = "mm" => build = "mdriver"
        /\ UNCHANGED << i, who, onetime_flag, build, score, libc_failed, valid,
                        errors, passes, reads, fired_in >>
    BY DEF FsecReturn, Inv, ControlInv
  <2>2. fsec_at = "return" => result \in Times
    BY FcycFacts DEF Inv
  <2>3. secs' \in [Traces -> Times \cup {0, 1}]
    BY <2>1, <2>2 DEF Inv, VerdictInv
  <2>4. CASE who = "mm" /\ fsec_at = "return"
    <3>1. /\ secs'[i] = result /\ result \in Times /\ pc' = "free_trace"
          /\ \A j \in Traces : j # i => secs'[j] = secs[j]
      BY <2>1, <2>2, <2>4 DEF Inv, VerdictInv
    <3>2. fired_in # i
      BY <2>1 DEF Inv, ControlInv, Judged
    <3>3. reads[i] = 1 /\ (valid[i] <=> passes[i] = 2)
      BY <2>1, <2>4 DEF Inv, VerdictInv
    <3>4. Fresh(i)' = Fresh(i) /\ \A j \in Traces : Fresh(j)' = Fresh(j)
      BY <2>1 DEF Fresh
    <3>5. InTime => \A j \in Traces : j < i \/ j = i => Settled(j)'
      BY <2>1, <2>4, <3>1, <3>2, <3>3 DEF Inv, VerdictInv, Settled, Judged
    <3> QED
      BY <1>2, <2>1, <2>3, <2>4, <3>1, <3>3, <3>4, <3>5
         DEF Inv, ControlInv, VerdictInv, Judged, Counted, MmPcs
  <2>5. CASE ~ (who = "mm" /\ fsec_at = "return")
    BY <1>2, <1>a, <2>1, <2>3, <2>5
       DEF Inv, ControlInv, VerdictInv, Fresh, Settled, Judged, Counted,
           LibcPcs, MmPcs
  <2> QED
    BY <2>4, <2>5
<1> QED
  BY <1>1, <1>3, <1>4, <1>5 DEF Inv

(***************************************************************************)
(* At the end of a round the trace is freed, unless it is gone.            *)
(***************************************************************************)
LEMMA FreeTraceInv ==
  ASSUME Inv, free_trace("free_trace", "free_range_set_end")
  PROVE  Inv'
<1>1. FcycInv' /\ (Dangling' => Dangling)
  BY IdleInv DEF Inv, free_trace, Release
<1>2. fired_at' = fired_at /\ (InTime' <=> InTime)
  BY StillInTime DEF free_trace, Release
<1>3. ControlInv'
  BY <1>1, <1>2, DriverAssumption, CallInv, LeaveInv
     DEF Inv, ControlInv, free_trace, Release, fcyc_vars, LibcPcs, MmPcs, Judged
<1>4. RecordsInv'
  BY <1>1, <1>2, RecordsDiffer, DriverAssumption
     DEF Inv, ControlInv, RecordsInv, free_trace, Release, LibcPcs, MmPcs
<1>5. VerdictInv'
  BY <1>1, <1>2, DriverAssumption
     DEF Inv, ControlInv, VerdictInv, free_trace, Release, Fresh, Settled,
         Judged, Counted, LibcPcs, MmPcs
<1> QED
  BY <1>1, <1>3, <1>4, <1>5 DEF Inv

(***************************************************************************)
(* At the end of a round the range set is freed, unless gone.              *)
(***************************************************************************)
LEMMA FreeRangeSetEndInv ==
  ASSUME Inv, free_range_set("free_range_set_end", "mem_deinit")
  PROVE  Inv'
<1>1. FcycInv' /\ (Dangling' => Dangling)
  BY IdleInv DEF Inv, free_range_set, Release
<1>2. fired_at' = fired_at /\ (InTime' <=> InTime)
  BY StillInTime DEF free_range_set, Release
<1>3. ControlInv'
  BY <1>1, <1>2, DriverAssumption, CallInv, LeaveInv
     DEF Inv, ControlInv, free_range_set, Release, fcyc_vars, LibcPcs, MmPcs,
         Judged
<1>4. RecordsInv'
  BY <1>1, <1>2, RecordsDiffer, DriverAssumption
     DEF Inv, ControlInv, RecordsInv, free_range_set, Release, LibcPcs, MmPcs
<1>5. VerdictInv'
  BY <1>1, <1>2, DriverAssumption
     DEF Inv, ControlInv, VerdictInv, free_range_set, Release, Fresh, Settled,
         Judged, Counted, LibcPcs, MmPcs
<1> QED
  BY <1>1, <1>3, <1>4, <1>5 DEF Inv

(***************************************************************************)
(* mem_deinit takes down what mem_init of this round set up.               *)
(***************************************************************************)
LEMMA MemDeinitInv ==
  ASSUME Inv, mem_deinit
  PROVE  Inv'
<1>1. FcycInv' /\ (Dangling' => Dangling)
  BY IdleInv DEF Inv, mem_deinit
<1>2. fired_at' = fired_at /\ (InTime' <=> InTime)
  BY StillInTime DEF mem_deinit
<1>3. ControlInv'
  BY <1>1, <1>2, DriverAssumption, CallInv, LeaveInv
     DEF Inv, ControlInv, mem_deinit, fcyc_vars, LibcPcs, MmPcs, Judged
<1>4. RecordsInv'
  BY <1>1, <1>2, RecordsDiffer, DriverAssumption
     DEF Inv, ControlInv, RecordsInv, mem_deinit, LibcPcs, MmPcs
<1>5. VerdictInv'
  BY <1>1, <1>2, DriverAssumption
     DEF Inv, ControlInv, VerdictInv, mem_deinit, Fresh, Settled, Judged,
         Counted, LibcPcs, MmPcs
<1> QED
  BY <1>1, <1>3, <1>4, <1>5 DEF Inv

(***************************************************************************)
(* The next trace is one that has not been touched.                        *)
(***************************************************************************)
LEMMA NextTraceInv ==
  ASSUME Inv, NextTrace
  PROVE  Inv'
<1>1. FcycInv' /\ (Dangling' => Dangling)
  BY IdleInv DEF Inv, NextTrace
<1>2. fired_at' = fired_at /\ (InTime' <=> InTime)
  BY StillInTime DEF NextTrace
<1>3. ControlInv'
  BY <1>1, <1>2, DriverAssumption, CallInv, LeaveInv
     DEF Inv, ControlInv, NextTrace, fcyc_vars, LibcPcs, MmPcs, Judged
<1>4. RecordsInv'
  BY <1>1, <1>2, RecordsDiffer, DriverAssumption
     DEF Inv, ControlInv, RecordsInv, NextTrace, LibcPcs, MmPcs
<1>5. VerdictInv'
  BY <1>1, <1>2, DriverAssumption
     DEF Inv, ControlInv, VerdictInv, NextTrace, Fresh, Settled, Judged,
         Counted, LibcPcs, MmPcs
<1> QED
  BY <1>1, <1>3, <1>4, <1>5 DEF Inv

(***************************************************************************)
(* run_tests returns when every trace is settled.                          *)
(***************************************************************************)
LEMMA EndOfTestsInv ==
  ASSUME Inv, EndOfTests
  PROVE  Inv'
<1>1. FcycInv' /\ (Dangling' => Dangling)
  BY IdleInv DEF Inv, EndOfTests
<1>2. fired_at' = fired_at /\ (InTime' <=> InTime)
  BY StillInTime DEF EndOfTests
<1>3. ControlInv'
  BY <1>1, <1>2, DriverAssumption, CallInv, LeaveInv
     DEF Inv, ControlInv, EndOfTests, fcyc_vars, LibcPcs, MmPcs, Judged
<1>4. RecordsInv'
  BY <1>1, <1>2, RecordsDiffer, DriverAssumption
     DEF Inv, ControlInv, RecordsInv, EndOfTests, LibcPcs, MmPcs
<1>5. VerdictInv'
  BY <1>1, <1>2, DriverAssumption
     DEF Inv, ControlInv, VerdictInv, EndOfTests, Fresh, Settled, Judged,
         Counted, LibcPcs, MmPcs
<1> QED
  BY <1>1, <1>3, <1>4, <1>5 DEF Inv

(***************************************************************************)
(* A score is computed only without errors.                                *)
(***************************************************************************)
LEMMA ReportInv ==
  ASSUME Inv, Report
  PROVE  Inv'
<1>1. FcycInv' /\ (Dangling' => Dangling)
  BY IdleInv DEF Inv, Report
<1>2. fired_at' = fired_at /\ (InTime' <=> InTime)
  BY StillInTime DEF Report
<1>3. ControlInv'
  BY <1>1, <1>2, DriverAssumption, CallInv, LeaveInv
     DEF Inv, ControlInv, Report, fcyc_vars, LibcPcs, MmPcs, Judged
<1>4. RecordsInv'
  BY <1>1, <1>2, RecordsDiffer, DriverAssumption
     DEF Inv, ControlInv, RecordsInv, Report, LibcPcs, MmPcs
<1>5. VerdictInv'
  BY <1>1, <1>2, DriverAssumption
     DEF Inv, ControlInv, VerdictInv, Report, Fresh, Settled, Judged, Counted,
         LibcPcs, MmPcs
<1> QED
  BY <1>1, <1>3, <1>4, <1>5 DEF Inv

(***************************************************************************)
(* The first verdict.                                                      *)
(***************************************************************************)
LEMMA FirstEvalInv ==
  ASSUME Inv, FirstEval
  PROVE  Inv'
<1>1. FcycInv' /\ (Dangling' => Dangling)
  BY IdleInv DEF Inv, FirstEval, eval_mm_valid
<1>2. fired_at' = fired_at /\ (InTime' <=> InTime)
  BY StillInTime DEF FirstEval, eval_mm_valid
<1>3. ControlInv'
  BY <1>1, <1>2, DriverAssumption, CallInv, LeaveInv
     DEF Inv, ControlInv, FirstEval, eval_mm_valid, fcyc_vars, LibcPcs, MmPcs,
         Judged
<1>4. RecordsInv'
  BY <1>1, <1>2, RecordsDiffer, DriverAssumption
     DEF Inv, ControlInv, RecordsInv, FirstEval, eval_mm_valid, LibcPcs, MmPcs
<1>5. VerdictInv'
  <2>1. PICK ok \in BOOLEAN :
          /\ errors' = (errors \/ ~ok)
          /\ passes' = [passes EXCEPT ![i] = IF ok THEN @ + 1 ELSE @]
          /\ valid' = [valid EXCEPT ![i] = ok]
    BY DEF FirstEval, eval_mm_valid
  <2>2. /\ pc = "eval_1" /\ pc' = "free_range_set" /\ i \in Traces /\ who = "mm"
        /\ UNCHANGED << i, who, onetime_flag, build, score, libc_failed, secs, reads,
                        fired_in >>
    BY DEF FirstEval, eval_mm_valid, Inv, ControlInv, LibcPcs, MmPcs
  <2>3. ~valid[i] /\ passes[i] = 0 /\ reads[i] = 1 /\ score # "scored"
    BY <2>2 DEF Inv, VerdictInv
  <2>4. /\ valid' \in [Traces -> BOOLEAN] /\ errors' \in BOOLEAN
        /\ passes' \in [Traces -> 0 .. 2]
    BY <2>1, <2>2, <2>3 DEF Inv, VerdictInv
  <2>5. /\ valid'[i] = ok /\ passes'[i] = (IF ok THEN 1 ELSE 0)
        /\ \A j \in Traces : j # i => valid'[j] = valid[j] /\ passes'[j] = passes[j]
    BY <2>1, <2>2, <2>3 DEF Inv, VerdictInv
  <2>6. \A j \in Traces : i < j => Fresh(j)'
    BY <2>2, <2>5 DEF Inv, ControlInv, VerdictInv, Fresh
  <2>7. ASSUME InTime
        PROVE  /\ \A j \in Traces : j < i => Settled(j)'
               /\ errors' <=> \/ libc_failed
                              \/ \E j \in Traces : j <= i /\ ~valid'[j]
    <3>1. \A j \in Traces : j < i => Settled(j)
      BY <2>2, <2>7 DEF Inv, VerdictInv
    <3>2. errors <=> libc_failed \/ \E j \in Traces : j < i /\ ~valid[j]
      BY <2>2, <2>7 DEF Inv, VerdictInv, Counted, Judged
    <3>3. \A j \in Traces : j \in Nat /\ (j <= i <=> j < i \/ j = i) /\ (j < i => j # i)
      BY <2>2, DriverAssumption
    <3>4. \A j \in Traces : j < i => Settled(j)'
      BY <2>2, <2>5, <3>1, <3>3 DEF Settled
    <3>5. errors' <=> libc_failed \/ \E j \in Traces : j <= i /\ ~valid'[j]
      BY <2>1, <2>2, <2>5, <3>2, <3>3
    <3> QED
      BY <3>4, <3>5
  <2>8. \A j \in Traces : (j <= i <=> j < i \/ j = i)
    BY <2>2, DriverAssumption
  <2> QED
    BY <1>2, <2>1, <2>2, <2>3, <2>4, <2>5, <2>6, <2>7, <2>8
       DEF Inv, VerdictInv, Judged, Counted
<1> QED
  BY <1>1, <1>3, <1>4, <1>5 DEF Inv

(***************************************************************************)
(* The second verdict replaces the first, which was good.                  *)
(***************************************************************************)
LEMMA SecondEvalInv ==
  ASSUME Inv, SecondEval
  PROVE  Inv'
<1>1. FcycInv' /\ (Dangling' => Dangling)
  BY IdleInv DEF Inv, SecondEval, eval_mm_valid, AfterEvals
<1>2. fired_at' = fired_at /\ (InTime' <=> InTime)
  BY StillInTime DEF SecondEval, eval_mm_valid, AfterEvals
<1>3. ControlInv'
  BY <1>1, <1>2, DriverAssumption, CallInv, LeaveInv
     DEF Inv, ControlInv, SecondEval, eval_mm_valid, AfterEvals, fcyc_vars,
         LibcPcs, MmPcs, Judged
<1>4. RecordsInv'
  BY <1>1, <1>2, RecordsDiffer, DriverAssumption
     DEF Inv, ControlInv, RecordsInv, SecondEval, eval_mm_valid, AfterEvals,
         LibcPcs, MmPcs
<1>5. VerdictInv'
  BY <1>1, <1>2, DriverAssumption
     DEF Inv, ControlInv, VerdictInv, SecondEval, eval_mm_valid, AfterEvals,
         Fresh, Settled, Judged, Counted, LibcPcs, MmPcs
<1> QED
  BY <1>1, <1>3, <1>4, <1>5 DEF Inv

(***************************************************************************)
(* Only a correct trace is measured.                                       *)
(***************************************************************************)
LEMMA EvalMmUtilInv ==
  ASSUME Inv, eval_mm_util
  PROVE  Inv'
<1>1. FcycInv' /\ (Dangling' => Dangling)
  BY IdleInv, CallInv DEF Inv, eval_mm_util
<1>2. fired_at' = fired_at /\ (InTime' <=> InTime)
  BY StillInTime DEF eval_mm_util
<1>3. ControlInv'
  BY <1>1, <1>2, DriverAssumption, CallInv, LeaveInv
     DEF Inv, ControlInv, eval_mm_util, fcyc_vars, LibcPcs, MmPcs, Judged
<1>4. RecordsInv'
  BY <1>1, <1>2, RecordsDiffer, DriverAssumption
     DEF Inv, ControlInv, RecordsInv, eval_mm_util, LibcPcs, MmPcs
<1>5. VerdictInv'
  BY <1>1, <1>2, DriverAssumption
     DEF Inv, ControlInv, VerdictInv, eval_mm_util, Fresh, Settled, Judged,
         Counted, LibcPcs, MmPcs
<1> QED
  BY <1>1, <1>3, <1>4, <1>5 DEF Inv

(***************************************************************************)
(* A step inside fsec changes nothing of run_tests.                        *)
(***************************************************************************)
LEMMA FsecStepInv ==
  ASSUME Inv, FsecStep
  PROVE  Inv'
<1>1. FcycInv' /\ fsec_at' # "idle" /\ (Dangling' => Dangling)
  BY FsecInv DEF Inv, FsecStep
<1>2. fired_at' = fired_at /\ (InTime' <=> InTime)
  BY StillInTime DEF FsecStep
<1>3. ControlInv'
  BY <1>1, <1>2, DriverAssumption, CallInv, LeaveInv
     DEF Inv, ControlInv, FsecStep, fcyc_vars, LibcPcs, MmPcs, Judged
<1>4. RecordsInv'
  BY <1>1, <1>2, RecordsDiffer, DriverAssumption
     DEF Inv, ControlInv, RecordsInv, FsecStep, LibcPcs, MmPcs
<1>5. VerdictInv'
  BY <1>1, <1>2, DriverAssumption
     DEF Inv, ControlInv, VerdictInv, FsecStep, Fresh, Settled, Judged, Counted,
         LibcPcs, MmPcs
<1> QED
  BY <1>1, <1>3, <1>4, <1>5 DEF Inv

(***************************************************************************)
(* The process ends in an evaluation.                                      *)
(***************************************************************************)
LEMMA EvalExitsInv ==
  ASSUME Inv, EvalExits
  PROVE  Inv'
<1>1. FcycInv' /\ (Dangling' => Dangling)
  BY IdleInv DEF Inv, EvalExits
<1>2. fired_at' = fired_at /\ (InTime' <=> InTime)
  BY StillInTime DEF EvalExits
<1>3. ControlInv'
  BY <1>1, <1>2, DriverAssumption
     DEF Inv, ControlInv, EvalExits, fcyc_vars, LibcPcs, MmPcs, Judged
<1>4. RecordsInv'
  BY <1>2 DEF Inv, ControlInv, RecordsInv, EvalExits, LibcPcs, MmPcs
<1>5. VerdictInv'
  BY <1>2, DriverAssumption
     DEF Inv, ControlInv, VerdictInv, EvalExits, Fresh, LibcPcs, MmPcs
<1> QED
  BY <1>1, <1>3, <1>4, <1>5 DEF Inv

(***************************************************************************)
(* The process ends when the allocator fails in fsec.                      *)
(***************************************************************************)
LEMMA SpeedFailsInv ==
  ASSUME Inv, SpeedFails
  PROVE  Inv'
<1>1. FcycInv' /\ (Dangling' => Dangling)
  BY IdleInv DEF Inv, SpeedFails
<1>2. fired_at' = fired_at /\ (InTime' <=> InTime)
  BY StillInTime DEF SpeedFails
<1>3. ControlInv'
  BY <1>1, <1>2, DriverAssumption, CallInv, LeaveInv
     DEF Inv, ControlInv, SpeedFails, fcyc_vars, LibcPcs, MmPcs, Judged
<1>4. RecordsInv'
  BY <1>1, <1>2, RecordsDiffer, DriverAssumption
     DEF Inv, ControlInv, RecordsInv, SpeedFails, LibcPcs, MmPcs
<1>5. VerdictInv'
  BY <1>1, <1>2, DriverAssumption
     DEF Inv, ControlInv, VerdictInv, SpeedFails, Fresh, Settled, Judged,
         Counted, LibcPcs, MmPcs
<1> QED
  BY <1>1, <1>3, <1>4, <1>5 DEF Inv

(***************************************************************************)
(* The alarm (mdriver.c:224), which longjmps to the last setjmp.           *)
(***************************************************************************)
LEMMA TimeoutInv ==
  ASSUME Inv, timeout_handler
  PROVE  Inv'
<1>1. /\ FcycInv' /\ fsec_at' = "idle"
      /\ ~Dangling /\ fsec_at \notin {"calloc", "clear_values"} => ~Dangling'
  BY LeaveInv DEF Inv, timeout_handler
<1>2. /\ alarm = "armed" /\ pc \notin Over /\ alarm' = "fired"
      /\ fired_at' = FiredAt /\ fired_in' = i /\ errors' = TRUE
      /\ pc' = IF jmpbuf = 0 \/ i \notin Traces THEN "undefined" ELSE "free_trace"
      /\ trace' \in (IF jmpbuf = 0 THEN {trace} ELSE {trace, jmpbuf})
      /\ valid' = IF i \in Traces THEN [valid EXCEPT ![i] = FALSE] ELSE valid
      /\ UNCHANGED << i, who, options, secs, score, libc_failed, passes, reads,
                      ranges, live, freed, mem_up, jmpbuf >>
  BY DEF timeout_handler
<1>3. InTime /\ ~Dangling /\ fired_in = 0 /\ fired_at = Never
  BY <1>2 DEF Inv, ControlInv, InTime
(***************************************************************************)
(* At a point that is covered all records are there and fsec can be left.  *)
(***************************************************************************)
<1>4. InTime' => /\ who = "mm"
                 /\ pc \in {"eval_1", "free_range_set", "eval_2", "measure",
                            "free_trace", "onetime_free_trace", "fsec"}
                 /\ fsec_at \notin {"calloc", "clear_values"}
  <2>1. InTime' => FiredAt \in Covered
    BY <1>2
       DEF InTime, FiredAt, Covered, SafeToLeave, Never, Inv, ControlInv,
           FcycInv, FsecSteps, MmPcs, LibcPcs
  <2>2. who # "libc" => who = "mm"
    BY DEF Inv, ControlInv
  <2>3. FiredAt \in Covered => who # "libc"
    BY DEF FiredAt, Covered, SafeToLeave
  <2>4. FiredAt \in Covered /\ pc # "fsec" =>
          /\ pc \in {"eval_1", "free_range_set", "eval_2", "measure", "free_trace",
                     "onetime_free_trace"}
          /\ fsec_at \notin {"calloc", "clear_values"}
    BY <1>2, <2>3 DEF FiredAt, Covered, SafeToLeave, Inv, ControlInv, MmPcs
  <2>5. FiredAt \in Covered /\ pc = "fsec" => fsec_at \notin {"calloc", "clear_values"}
    BY <2>3 DEF FiredAt, Covered, SafeToLeave
  <2> QED
    BY <2>1, <2>2, <2>3, <2>4, <2>5
<1>5. InTime' => jmpbuf = i /\ i \in Traces /\ pc' = "free_trace"
  <2>1. InTime' => jmpbuf = i /\ i \in Traces
    BY <1>2, <1>4 DEF Inv, ControlInv
  <2> QED
    BY <1>2, <2>1, DriverAssumption
<1>6. ControlInv'
  BY <1>1, <1>2, <1>3, <1>4, DriverAssumption
     DEF Inv, ControlInv, LibcPcs, MmPcs, Judged
<1>7. RecordsInv'
  <2>1. InTime' => trace' = i /\ live' = {ranges', TraceRecord(trace')} /\ mem_up' = 1
    <3>1. InTime' => trace = i /\ live = {ranges, TraceRecord(trace)} /\ mem_up = 1
      BY <1>3, <1>4 DEF Inv, RecordsInv
    <3> QED
      BY <1>2, <1>5, <3>1
  <2>2. ASSUME pc' = "free_trace"
        PROVE  \/ trace' = i /\ live = {ranges, TraceRecord(trace')} /\ mem_up = 1
               \/ TraceRecord(trace') \notin live \/ ranges \notin live
    <3>1. jmpbuf # 0 /\ who = "mm" /\ i \in Traces /\ trace' \in 0 .. num_tracefiles
      BY <1>2, <2>2 DEF Inv, ControlInv, LibcPcs, MmPcs
    <3> QED
      BY <1>2, <1>3, <2>2, <3>1, RecordsDiffer
         DEF Inv, ControlInv, RecordsInv, LibcPcs, MmPcs
  <2> QED
    BY <1>2, <1>5, <2>1, <2>2 DEF Inv, ControlInv, RecordsInv
<1>8. VerdictInv'
  <2>1. /\ valid' \in [Traces -> BOOLEAN] /\ errors' \in BOOLEAN
        /\ \A j \in Traces : valid'[j] = IF j = i THEN FALSE ELSE valid[j]
    BY <1>2 DEF Inv, VerdictInv
  <2>2. \A j \in Traces : i < j \/ who = "libc" => Fresh(j)'
    BY <1>2, <2>1, DriverAssumption DEF Inv, ControlInv, VerdictInv, Fresh
  <2>3. ASSUME InTime'
        PROVE  /\ \A j \in Traces : j < i \/ j = i => Settled(j)'
               /\ i \in Traces /\ ~valid'[i]
    <3>1. reads[i] = 1 /\ i \in Traces
      BY <1>3, <1>4, <1>5, <2>3 DEF Inv, VerdictInv, Settled, Judged
    <3>2. \A j \in Traces : j < i => Settled(j) /\ j # i
      BY <1>3, <1>4, <2>3, DriverAssumption DEF Inv, VerdictInv
    <3>3. \A j \in Traces : j < i => Settled(j)'
      BY <1>2, <1>3, <2>1, <3>2 DEF Settled
    <3>4. ASSUME NEW j \in Traces, j = i
          PROVE  Settled(j)'
      <4>1. ~valid'[j] /\ reads'[j] = 1 /\ fired_in' = j
        BY <1>2, <2>1, <3>1, <3>4
      <4> QED
        BY <4>1, <1>2, <2>1, <3>4 DEF Settled
    <3>5. i \in Traces /\ ~valid'[i]
      BY <2>1, <3>1
    <3> QED
      BY <3>3, <3>4, <3>5
  <2>4. score' # "scored"
    BY <1>2 DEF Inv, VerdictInv
  <2>5. /\ passes' \in [Traces -> 0 .. 2] /\ reads' \in [Traces -> 0 .. 1]
        /\ secs' \in [Traces -> Times \cup {0, 1}] /\ libc_failed' \in BOOLEAN
        /\ build' = "mdriver-dbg" => \A j \in Traces : secs'[j] = 0
    BY <1>2 DEF Inv, VerdictInv
  <2>6. pc' \in {"undefined", "free_trace"} /\ i' = i /\ who' = who
    BY <1>2
  <2>7. who' = "libc" => pc' = "undefined"
    BY <1>2 DEF Inv, ControlInv
  <2>8. InTime' => /\ \A j \in Traces : j < i' \/ j = i' => Settled(j)'
                   /\ errors' /\ pc' = "free_trace" /\ i' \in Traces /\ ~valid'[i']
    BY <1>2, <1>5, <2>3, <2>6
  <2>9. \A j \in Traces : i' < j \/ who' = "libc" => Fresh(j)'
    BY <2>2, <2>6
  <2> QED
    BY <2>1, <2>4, <2>5, <2>6, <2>7, <2>8, <2>9 DEF VerdictInv, Counted, Judged
<1> QED
  BY <1>1, <1>6, <1>7, <1>8 DEF Inv

(***************************************************************************)
(* The invariant holds at the start of main.                               *)
(***************************************************************************)
LEMMA InitInv == Init => Inv
<1> SUFFICES ASSUME Init
             PROVE  Inv
  OBVIOUS
<1>1. FcycInv /\ ~Dangling
  BY FcycInitInv DEF Init
<1>2. ControlInv
  BY <1>1, DriverAssumption DEF Init, FcycInit, ControlInv, LibcPcs, Judged
<1>3. RecordsInv
  <2>1. \A j : << >> # TraceRecord(j)
    BY DEF TraceRecord
  <2> QED
    BY <2>1 DEF Init, RecordsInv
<1>4. VerdictInv
  <2>1. \A j \in Traces : Fresh(j)
    BY DEF Init, Fresh
  <2>2. /\ valid \in [Traces -> BOOLEAN] /\ errors = FALSE /\ libc_failed = FALSE
        /\ passes \in [Traces -> 0 .. 2] /\ reads \in [Traces -> 0 .. 1]
        /\ secs \in [Traces -> Times \cup {0, 1}]
        /\ \A j \in Traces : secs[j] = 0
    BY DEF Init
  <2>3. pc = "main" /\ who = "libc" /\ score = "unset"
    BY DEF Init
  <2> QED
    BY <2>1, <2>2, <2>3 DEF VerdictInv
<1> QED
  BY <1>1, <1>2, <1>3, <1>4 DEF Inv

(***************************************************************************)
(* A step that changes nothing.                                            *)
(***************************************************************************)
LEMMA StutterInv ==
  ASSUME Inv, UNCHANGED vars
  PROVE  Inv'
<1>1. FcycInv' /\ (Dangling' => Dangling)
  BY IdleInv DEF Inv, vars
<1>2. fired_at' = fired_at /\ (InTime' <=> InTime)
  BY StillInTime DEF vars
<1>3. ControlInv'
  BY <1>1, <1>2 DEF Inv, ControlInv, vars, fcyc_vars
<1>4. RecordsInv'
  BY <1>2 DEF Inv, RecordsInv, vars
<1>5. VerdictInv'
  BY <1>2 DEF Inv, VerdictInv, Fresh, Settled, vars
<1> QED
  BY <1>1, <1>3, <1>4, <1>5 DEF Inv

(***************************************************************************)
(* Every step of the driver keeps the invariant.                           *)
(***************************************************************************)
LEMMA NextInv == Inv /\ [Next]_vars => Inv'
<1> SUFFICES ASSUME Inv, [Next]_vars
             PROVE  Inv'
  OBVIOUS
<1>1. CASE Advance
  BY <1>1, MainInv, LibcReadTraceInv, EvalLibcValidInv, LibcFreeTraceInv,
     NextLibcTraceInv, ReferenceInv, AllocStatsInv, MemInitInv, NewRangeSet1Inv,
     ReadTraceInv, SetjmpInv, FreeRangeSet1Inv, NewRangeSet2Inv,
     OnetimeFreeTraceInv, OnetimeReturnInv, SkipWrongInv, FsecReturnInv,
     FreeTraceInv, FreeRangeSetEndInv, MemDeinitInv, NextTraceInv,
     EndOfTestsInv, ReportInv
     DEF Advance
<1>2. CASE Evaluate
  BY <1>2, FirstEvalInv, SecondEvalInv, EvalMmUtilInv, FsecStepInv DEF Evaluate
<1>3. CASE EvalExits \/ SpeedFails
  BY <1>3, EvalExitsInv, SpeedFailsInv
<1>4. CASE timeout_handler
  BY <1>4, TimeoutInv
<1>5. CASE UNCHANGED vars
  BY <1>5, StutterInv
<1> QED
  BY <1>1, <1>2, <1>3, <1>4, <1>5 DEF Next

(***************************************************************************)
(* Inv is an invariant of the driver.                                      *)
(***************************************************************************)
THEOREM Invariance == Spec => []Inv
BY InitInv, NextInv, PTL DEF Spec

(***************************************************************************)
(* Type correctness: no trace is read twice or evaluated more than twice,  *)
(* and the memory system is not set up twice, whenever the alarm comes.    *)
(***************************************************************************)
THEOREM TypeCorrect == Spec => []TypeOK
<1>1. Inv => TypeOK
  BY FcycFacts DEF Inv, ControlInv, RecordsInv, VerdictInv, TypeOK
<1> QED
  BY <1>1, Invariance, PTL

(***************************************************************************)
(* run_tests survives an alarm at a covered point (mdriver.c:242-318):     *)
(* nothing is freed twice and nothing stays behind.                        *)
(***************************************************************************)
THEOREM AlarmSurvived == Spec => []CleanRun
<1>1. Inv => CleanRun
  BY DEF Inv, ControlInv, RecordsInv, CleanRun
<1> QED
  BY <1>1, Invariance, PTL

(***************************************************************************)
(* The verdicts and the count of errors at the end are exactly what the    *)
(* evaluations found, and a score rests on correct traces, timed where the *)
(* build times them, for any number of traces.                             *)
(***************************************************************************)
THEOREM VerdictsRight == Spec => []VerdictExact
<1>1. ASSUME Inv, pc = "done", InTime
      PROVE  /\ \A j \in Traces : valid[j] <=> passes[j] = 2 /\ fired_in # j
             /\ ~onetime_flag => \A j \in Traces : reads[j] > 0
             /\ errors <=> libc_failed \/ \E j \in Traces : reads[j] > 0 /\ ~valid[j]
             /\ score = "scored" /\ ~onetime_flag =>
                  \A j \in Traces : valid[j] /\ secs[j] \in RecordedSecs
  <2>1. who = "mm" /\ i \in Nat /\ (onetime_flag \/ i = num_tracefiles + 1)
    BY <1>1, DriverAssumption DEF Inv, ControlInv, LibcPcs
  <2>2. \A j \in Traces : j <= i => Settled(j)
    BY <1>1, <2>1, DriverAssumption DEF Inv, VerdictInv, Judged
  <2>3. \A j \in Traces : ~ (j <= i) => Fresh(j)
    BY <1>1, <2>1, DriverAssumption DEF Inv, VerdictInv
  <2>4. errors <=> libc_failed \/ \E j \in Traces : j <= i /\ ~valid[j]
    BY <1>1, <2>1, DriverAssumption DEF Inv, VerdictInv, Judged, Counted
  <2>5. ~onetime_flag => \A j \in Traces : j <= i
    BY <2>1, DriverAssumption
  <2>6. score = "scored" => ~errors
    BY <1>1 DEF Inv, VerdictInv
  <2> QED
    BY <2>2, <2>3, <2>4, <2>5, <2>6 DEF Settled, Fresh
<1>2. Inv => VerdictExact
  BY <1>1 DEF VerdictExact
<1> QED
  BY <1>2, Invariance, PTL

(***************************************************************************)
(* fsec (fcyc.c:170) returns the least of its samples, and not before they *)
(* agree or are enough, whatever an alarm has broken off before.           *)
(***************************************************************************)
THEOREM TimingRight == Spec => []KBest
<1>1. Inv => KBest
  BY FcycFacts DEF Inv
<1> QED
  BY <1>1, Invariance, PTL
=============================================================================

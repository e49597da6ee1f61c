-------------------------------- MODULE Fcyc --------------------------------
(***************************************************************************)
(* The K-best timing of fcyc.c: fsec calls a function over and over, first *)
(* until enough repetitions take a measurable time, then until the kbest   *)
(* least times agree or maxsamples were taken, and returns the least.      *)
(* fcyc is the same loop with another clock.                               *)
(*                                                                         *)
(* The k least times are in a heap buffer behind the static pointer        *)
(* values, which outlives a call of fsec that is left by a longjmp.        *)
(* Times are natural numbers; epsilon is 1/100.  In a behaviour a          *)
(* measurement of 0, which fsec does not count, is no step.                *)
(***************************************************************************)
EXTENDS Integers, Sequences

CONSTANTS kbest, maxsamples, min_reps, min_time,
          RepTimes,      \* times one repetition may take while reps grows
          Times          \* times per repetition a sample may show

ASSUME FcycAssumption ==
  /\ kbest \in Nat \ {0} /\ maxsamples \in Nat \ {0}
  /\ min_reps \in Nat \ {0} /\ min_time \in Nat \ {0}
  /\ RepTimes \subseteq Nat \ {0} /\ Times \subseteq Nat \ {0}

VARIABLES fsec_at,       \* the step of fsec, "idle" outside of it
          reps,
          values,        \* the buffer: "null", "valid" or "freed", and cells
          samplecount,
          result,
          samples        \* history: the samples of this call

fcyc_vars == << fsec_at, reps, values, samplecount, result, samples >>

-----------------------------------------------------------------------------
NoBuffer == [ptr |-> "null", cells |-> << >>]
FreedBuffer == [ptr |-> "freed", cells |-> << >>]

FcycInit ==
  /\ fsec_at = "idle" /\ reps = 0
  /\ values = NoBuffer /\ samplecount = 0
  /\ result = 0 /\ samples = << >>

add_sample_append(v, n, val) == IF n < kbest THEN [v EXCEPT ![n + 1] = val] ELSE v

(***************************************************************************)
(* The new value takes the next free place, or that of the greatest if it  *)
(* is less, and moves down past the greater ones.                          *)
(***************************************************************************)
add_sample(v, n, val) ==
  LET pos == IF n < kbest THEN n + 1 ELSE kbest
      to == CHOOSE p \in 1 .. pos :
              /\ \A q \in p .. pos - 1 : v[q] > val
              /\ p > 1 => v[p - 1] <= val
  IN  IF n >= kbest /\ val >= v[kbest] THEN v
      ELSE [q \in 1 .. kbest |-> IF q = to THEN val
                                 ELSE IF to < q /\ q <= pos THEN v[q - 1]
                                 ELSE v[q]]

has_converged(v, n) == n >= kbest /\ 101 * v[1] >= 100 * v[kbest]

-----------------------------------------------------------------------------
fsec_call ==
  /\ fsec_at = "idle" /\ fsec_at' = "warm_up"
  /\ reps' = min_reps
  /\ UNCHANGED << values, samplecount, result, samples >>

WarmUp_same_reps ==
  /\ fsec_at = "warm_up"
  /\ \E t \in RepTimes :
       fsec_at' = IF reps * t < min_time THEN fsec_at ELSE "init_sampler"
  /\ UNCHANGED << reps, values, samplecount, result, samples >>

WarmUp ==
  /\ fsec_at = "warm_up"
  /\ \E t \in RepTimes :
       IF reps * t < min_time
       THEN reps' = reps + reps /\ UNCHANGED fsec_at
       ELSE fsec_at' = "init_sampler" /\ UNCHANGED reps
  /\ UNCHANGED << values, samplecount, result, samples >>

(***************************************************************************)
(* init_sampler: a buffer left by an interrupted call is freed first.      *)
(***************************************************************************)
FreeOld ==
  /\ fsec_at = "init_sampler"
  /\ fsec_at' = IF values.ptr = "freed" THEN "double_free" ELSE "calloc"
  /\ values' = IF values.ptr = "null" THEN values
               ELSE FreedBuffer
  /\ UNCHANGED << reps, samplecount, result, samples >>

CallocValues ==
  /\ fsec_at = "calloc" /\ fsec_at' = "sample"
  /\ values' = [ptr |-> "valid", cells |-> [q \in 1 .. kbest |-> 0]]
  /\ samplecount' = 0 /\ samples' = << >>
  /\ UNCHANGED << reps, result >>

Sample ==
  /\ fsec_at = "sample"
  /\ \E val \in Times :
       /\ values' = [values EXCEPT !.cells = add_sample(@, samplecount, val)]
       /\ samples' = Append(samples, val)
  /\ samplecount' = samplecount + 1
  /\ fsec_at' = IF \/ has_converged(values'.cells, samplecount')
                   \/ samplecount' >= maxsamples
                THEN "free_values" ELSE "sample"
  /\ UNCHANGED << reps, result >>

FreeValues ==
  /\ fsec_at = "free_values" /\ fsec_at' = "clear_values"
  /\ result' = values.cells[1]
  /\ values' = FreedBuffer
  /\ UNCHANGED << reps, samplecount, samples >>

ClearValues ==
  /\ fsec_at = "clear_values" /\ fsec_at' = "return"
  /\ values' = NoBuffer
  /\ UNCHANGED << reps, samplecount, result, samples >>

(***************************************************************************)
(* fsec returns, or is left by a longjmp: its local variables are gone,    *)
(* values and samplecount stay as they are.                                *)
(***************************************************************************)
LeaveFsec ==
  /\ fsec_at' = "idle" /\ reps' = 0 /\ result' = 0 /\ samples' = << >>
  /\ UNCHANGED << values, samplecount >>

fsec == WarmUp \/ FreeOld \/ CallocValues \/ Sample \/ FreeValues \/ ClearValues

(***************************************************************************)
(* The points at which fsec may be left for good and called again.         *)
(***************************************************************************)
SafeToLeave == {"warm_up", "init_sampler", "sample", "free_values", "return"}

-----------------------------------------------------------------------------
(***************************************************************************)
(* The ways to choose n different samples of ss.                           *)
(***************************************************************************)
Selections(ss, n) ==
  {f \in [1 .. n -> 1 .. Len(ss)] : \A p, q \in 1 .. n : p # q => f[p] # f[q]}

(***************************************************************************)
(* cells starts with the kbest least of the samples ss, in order, or with  *)
(* all of them while there are fewer.                                      *)
(***************************************************************************)
HoldsLeast(cells, ss) ==
  LET n == IF Len(ss) < kbest THEN Len(ss) ELSE kbest
  IN  /\ \A p, q \in 1 .. n : p <= q => cells[p] <= cells[q]
      /\ \E f \in Selections(ss, n) :
           /\ \A q \in 1 .. n : cells[q] = ss[f[q]]
           /\ \A k \in 1 .. Len(ss) :
                \/ \E q \in 1 .. n : f[q] = k
                \/ n = kbest /\ cells[kbest] <= ss[k]

(***************************************************************************)
(* K-best: the buffer holds the kbest least samples of this call, in       *)
(* order, whatever call was broken off before; what fsec returns is the    *)
(* least of them, and it returns when kbest samples agree with it within   *)
(* epsilon or maxsamples were taken, and not before.                       *)
(***************************************************************************)
KBest ==
  /\ fsec_at \in {"sample", "free_values"} =>
       samplecount = Len(samples) /\ HoldsLeast(values.cells, samples)
  /\ fsec_at = "return" =>
       /\ \E k \in 1 .. Len(samples) : result = samples[k]
       /\ \A k \in 1 .. Len(samples) : result <= samples[k]
       /\ \/ samplecount = maxsamples
          \/ \E f \in Selections(samples, kbest) :
               \A q \in 1 .. kbest : 100 * samples[f[q]] <= 101 * result
=============================================================================

------------------------------- MODULE Driver -------------------------------
(***************************************************************************)
(* The program mdriver: main arms an alarm, runs the traces on the libc    *)
(* allocator if asked to, and scores what run_tests finds; run_tests takes *)
(* the trace files one by one, and timeout_handler may interrupt it at any *)
(* point with a longjmp to the last setjmp.                                *)
(*                                                                         *)
(* pc names the call that is about to be made; at "fsec" the step inside   *)
(* it is fsec_at of Fcyc.  The evaluations run the allocator under test:   *)
(* each ends with some verdict, or not at all (Evaluate has the details);  *)
(* it may also end the process, where add_range asserts or runs out of     *)
(* memory or memlib gives up.                                              *)
(* "undefined" is the end of a run whose behaviour C does not define: a    *)
(* jump to a buffer that is not set or whose function has returned, or a   *)
(* record freed twice.                                                     *)
(***************************************************************************)
EXTENDS Fcyc

CONSTANT num_tracefiles

ASSUME DriverAssumption == num_tracefiles \in Nat \ {0}

Traces == 1 .. num_tracefiles
Over == {"done", "exit", "undefined"}
Never == "never"

(***************************************************************************)
(* The programs the Makefile makes of mdriver.c: the plain one, the one    *)
(* with DEBUG, which leaves the measurement out, and the sparse one.       *)
(***************************************************************************)
Builds == {"mdriver", "mdriver-dbg", "mdriver-emulate"}

VARIABLES pc,
          i,            \* the trace of the loop
          trace,        \* the trace whose record the local variable holds
          ranges,       \* the range set the local variable holds
          live, freed,  \* the records allocated and those given back
          mem_up,       \* mem_init without mem_deinit
          jmpbuf,       \* trace at which setjmp was last called, 0 for none
          alarm,        \* "off", "armed" or "fired"
          onetime_flag, run_libc, build,
          who,          \* the allocator at work: "libc" or "mm"
          valid,        \* mm_stats[].valid
          secs,         \* mm_stats[].secs, 0 for not measured
          errors,       \* errors > 0
          score,        \* perfindex: "unset", "zero" or "scored"
          passes,       \* history: evaluations that found trace j correct
          reads,        \* history: how often run_tests read trace j
          libc_failed,  \* history: a call of libc's malloc failed
          fired_at, fired_in   \* history: pc and i when the alarm came

options == << onetime_flag, run_libc, build >>
results == << valid, errors, passes, reads >>
summary == << secs, score, libc_failed >>
records == << trace, ranges, live, freed, mem_up >>
timing == << jmpbuf, alarm, fired_at, fired_in >>
others == << who, options, summary, fcyc_vars >>
vars == << pc, i, others, results, records, timing >>

-----------------------------------------------------------------------------
TraceRecord(j) == << "trace", j >>
RangeSetRecord(j, n) == << "ranges", j, n >>

Init ==
  /\ pc = "main" /\ i = 1 /\ who = "libc"
  /\ trace = 0 /\ ranges = << >> /\ live = {} /\ freed = {} /\ mem_up = 0
  /\ jmpbuf = 0 /\ alarm \in {"off", "armed"} /\ onetime_flag \in BOOLEAN
  /\ run_libc \in BOOLEAN /\ build \in Builds
  /\ valid = [j \in Traces |-> FALSE] /\ secs = [j \in Traces |-> 0]
  /\ errors = FALSE /\ score = "unset" /\ libc_failed = FALSE
  /\ passes = [j \in Traces |-> 0] /\ reads = [j \in Traces |-> 0]
  /\ fired_at = Never /\ fired_in = 0
  /\ FcycInit

(***************************************************************************)
(* The reference throughput is asked for when several traces are scored,   *)
(* and not with -c.                                                        *)
(***************************************************************************)
AfterLibc ==
  IF ~onetime_flag /\ num_tracefiles > 1 THEN "reference" ELSE "mm_stats"

Main ==
  /\ pc = "main"
  /\ \/ run_libc /\ pc' \in {"libc_read_trace", "exit"}    \* or calloc failed
     \/ ~run_libc /\ pc' = AfterLibc
  /\ UNCHANGED << i, others, results, records, timing >>

-----------------------------------------------------------------------------
(***************************************************************************)
(* The traces on the libc allocator.  eval_libc_valid counts the calls     *)
(* that fail and returns true; eval_libc_speed ends the process for them.  *)
(***************************************************************************)
libc_read_trace ==
  /\ pc = "libc_read_trace"
  /\ \/ /\ pc' = "eval_libc_valid"
        /\ trace' = i /\ live' = live \cup {TraceRecord(i)}
     \/ pc' = "exit" /\ UNCHANGED << trace, live >>
  /\ UNCHANGED << i, others, results, ranges, freed, mem_up, timing >>

eval_libc_valid ==
  /\ pc = "eval_libc_valid" /\ pc' = "fsec"
  /\ \E failed \in BOOLEAN :
       errors' = (errors \/ failed) /\ libc_failed' = (libc_failed \/ failed)
  /\ fsec_call
  /\ UNCHANGED << i, who, options, secs, score, valid, passes, reads, records,
                  timing >>

NextLibcTrace ==
  /\ pc = "next_libc_trace"
  /\ IF i < num_tracefiles THEN i' = i + 1 /\ pc' = "libc_read_trace"
     ELSE i' = 1 /\ pc' = AfterLibc
  /\ UNCHANGED << others, results, records, timing >>

(***************************************************************************)
(* The throughput of the reference driver, from a file or by running it;   *)
(* the process ends if neither gives a number.                             *)
(***************************************************************************)
measure_ref_throughput ==
  /\ pc = "reference" /\ pc' \in {"mm_stats", "exit"}
  /\ UNCHANGED << i, others, results, records, timing >>

AllocStats ==
  /\ pc = "mm_stats" /\ pc' \in {"loop", "exit"}
  /\ who' = "mm"
  /\ UNCHANGED << i, options, summary, fcyc_vars, results, records, timing >>

-----------------------------------------------------------------------------
mem_init_any_i ==
  /\ pc = "loop"
  /\ mem_up' = mem_up + 1
  /\ pc' = "new_range_set"
  /\ UNCHANGED << i, others, results, trace, ranges, live,
                  freed, timing >>

mem_init ==
  /\ pc = "loop" /\ i <= num_tracefiles
  /\ \/ mem_up' = mem_up + 1 /\ pc' = "new_range_set"
     \/ UNCHANGED mem_up /\ pc' = "exit"              \* mmap failed
  /\ UNCHANGED << i, others, results, trace, ranges, live,
                  freed, timing >>

(***************************************************************************)
(* The range set of the first evaluation and that of the second.           *)
(***************************************************************************)
new_range_set(n, at, next) ==
  /\ pc = at /\ pc' = next
  /\ ranges' = RangeSetRecord(i, n)
  /\ live' = live \cup {RangeSetRecord(i, n)}
  /\ UNCHANGED << i, others, results, trace, freed, mem_up, timing >>

read_trace ==
  /\ pc = "read_trace"
  /\ \/ /\ pc' = "setjmp"
        /\ trace' = i
        /\ live' = live \cup {TraceRecord(i)}
        /\ reads' = [reads EXCEPT ![i] = @ + 1]
     \/ /\ pc' = "exit"                               \* not a valid trace
        /\ UNCHANGED << trace, live, reads >>
  /\ UNCHANGED << i, others, valid, errors, passes, ranges, freed,
                  mem_up, timing >>

setjmp ==
  /\ pc = "setjmp" /\ pc' = "eval_1"
  /\ jmpbuf' = i
  /\ UNCHANGED << i, others, results, records, alarm,
                  fired_at, fired_in >>

(***************************************************************************)
(* eval_mm_valid returns a verdict, after counting an error if it is bad,  *)
(* or the process ends in it.                                              *)
(***************************************************************************)
eval_mm_valid(ok) ==
  /\ errors' = (errors \/ ~ok)
  /\ passes' = [passes EXCEPT ![i] = IF ok THEN @ + 1 ELSE @]
  /\ UNCHANGED << i, others, records, reads, timing >>

FirstEval ==
  /\ pc = "eval_1" /\ pc' = "free_range_set"
  /\ \E ok \in BOOLEAN :
       eval_mm_valid(ok) /\ valid' = [valid EXCEPT ![i] = ok]

AfterEvals ==
  IF onetime_flag THEN "onetime_free_trace"
  ELSE IF build = "mdriver-dbg" THEN "free_trace" ELSE "measure"

SecondEval ==
  /\ pc = "eval_2" /\ pc' = AfterEvals
  /\ valid[i]
  /\ \E ok \in BOOLEAN :
       eval_mm_valid(ok) /\ valid' = [valid EXCEPT ![i] = ok]

EvalExits ==
  /\ pc = "eval_1" \/ (pc = "eval_2" /\ valid[i])
  /\ pc' = "exit"
  /\ UNCHANGED << i, others, results, records, timing >>

(***************************************************************************)
(* eval_mm_util for a correct trace, which ends the process when the       *)
(* allocator fails, and the call of fsec.  In sparse mode nothing is timed *)
(* and a trace is taken to need one second.                                *)
(***************************************************************************)
eval_mm_util ==
  /\ pc = "measure" /\ valid[i]
  /\ \/ pc' = "exit" /\ UNCHANGED << secs, fcyc_vars >>
     \/ /\ build = "mdriver-emulate" /\ pc' = "free_trace"
        /\ secs' = [secs EXCEPT ![i] = 1] /\ UNCHANGED fcyc_vars
     \/ build = "mdriver" /\ pc' = "fsec" /\ fsec_call /\ UNCHANGED secs
  /\ UNCHANGED << i, who, options, score, libc_failed, results, records, timing >>

(***************************************************************************)
(* A step of fsec; eval_mm_speed and eval_libc_speed end the process when  *)
(* the allocator fails, and so does a clock that cannot be read.           *)
(***************************************************************************)
FsecStep ==
  /\ pc = "fsec" /\ fsec
  /\ UNCHANGED << pc, i, who, options, summary, results, records, timing >>

SpeedFails ==
  /\ pc = "fsec" /\ fsec_at \in {"warm_up", "sample"}
  /\ pc' = "exit"
  /\ UNCHANGED << i, others, results, records, timing >>

FsecReturn ==
  /\ pc = "fsec" /\ fsec_at \in {"return", "double_free"}
  /\ pc' = IF fsec_at = "double_free" THEN "undefined"
           ELSE IF who = "mm" THEN "free_trace" ELSE "libc_free_trace"
  /\ LeaveFsec
  /\ secs' = IF who = "mm" /\ fsec_at = "return" THEN [secs EXCEPT ![i] = result]
             ELSE secs
  /\ UNCHANGED << i, who, options, score, libc_failed, results, records,
                  timing >>

(***************************************************************************)
(* A trace already found wrong is neither evaluated again nor measured.    *)
(***************************************************************************)
SkipWrong ==
  /\ \/ pc = "eval_2" /\ pc' = AfterEvals
     \/ pc = "measure" /\ pc' = "free_trace"
  /\ ~valid[i]
  /\ UNCHANGED << i, others, results, records, timing >>

(***************************************************************************)
(* Giving a record back.  What a second free of it does is undefined.      *)
(***************************************************************************)
Release(record, at, next) ==
  /\ pc = at
  /\ pc' = IF record \in live THEN next ELSE "undefined"
  /\ live' = live \ {record} /\ freed' = freed \cup {record}
  /\ UNCHANGED << i, others, results, trace, ranges, mem_up >>

free_trace(at, next) ==
  Release(TraceRecord(trace), at, next) /\ UNCHANGED timing

free_range_set(at, next) ==
  Release(ranges, at, next) /\ UNCHANGED timing

(***************************************************************************)
(* With -c run_tests returns here, and the jump buffer is void.            *)
(***************************************************************************)
OnetimeReturn ==
  /\ Release(ranges, "onetime_free_range_set", "report")
  /\ jmpbuf' = 0
  /\ UNCHANGED << alarm, fired_at, fired_in >>

mem_deinit ==
  /\ pc = "mem_deinit" /\ pc' = "next_trace"
  /\ mem_up' = mem_up - 1
  /\ UNCHANGED << i, others, results, trace, ranges, live,
                  freed, timing >>

NextTrace ==
  /\ pc = "next_trace" /\ pc' = "loop"
  /\ i' = i + 1
  /\ UNCHANGED << others, results, records, timing >>

EndOfTests ==
  /\ pc = "loop" /\ i > num_tracefiles
  /\ pc' = "report"
  /\ jmpbuf' = 0
  /\ UNCHANGED << i, others, results, records, alarm,
                  fired_at, fired_in >>

(***************************************************************************)
(* The score: zero after an error, and not computed for a single trace.    *)
(***************************************************************************)
Report ==
  /\ pc = "report" /\ pc' = "done"
  /\ score' = IF errors THEN "zero"
              ELSE IF num_tracefiles > 1 THEN "scored" ELSE score
  /\ UNCHANGED << i, who, options, secs, libc_failed, fcyc_vars, results,
                  records, timing >>

-----------------------------------------------------------------------------
FiredAt == IF who = "libc" THEN "early" ELSE IF pc = "fsec" THEN fsec_at ELSE pc

timeout_handler_keeps_verdict ==
  /\ alarm = "armed" /\ pc \notin Over
  /\ alarm' = "fired" /\ fired_at' = FiredAt /\ fired_in' = i
  /\ errors' = TRUE
  /\ pc' = IF jmpbuf = 0 \/ i \notin Traces THEN "undefined" ELSE "free_trace"
  /\ trace' \in (IF jmpbuf = 0 THEN {trace} ELSE {trace, jmpbuf})
  /\ LeaveFsec
  /\ UNCHANGED << i, who, options, summary, valid, passes, reads, ranges, live,
                  freed, mem_up, jmpbuf >>

timeout_handler_next_trace ==
  /\ alarm = "armed" /\ pc \notin Over
  /\ alarm' = "fired" /\ fired_at' = FiredAt /\ fired_in' = i
  /\ errors' = TRUE
  /\ pc' = IF jmpbuf = 0 \/ i \notin Traces THEN "undefined" ELSE "next_trace"
  /\ valid' = IF i \in Traces THEN [valid EXCEPT ![i] = FALSE] ELSE valid
  /\ LeaveFsec
  /\ UNCHANGED << i, who, options, summary, passes, reads, records, jmpbuf >>

(***************************************************************************)
(* The alarm, set once by main.  longjmp returns from the setjmp of trace  *)
(* jmpbuf: i and ranges are volatile and keep their values; trace is not,  *)
(* and if it was assigned since, it may be back at its old value.  The     *)
(* trace is marked wrong and run_tests goes on behind the evaluations.     *)
(***************************************************************************)
timeout_handler ==
  /\ alarm = "armed" /\ pc \notin Over
  /\ alarm' = "fired" /\ fired_at' = FiredAt /\ fired_in' = i
  /\ errors' = TRUE
  /\ pc' = IF jmpbuf = 0 \/ i \notin Traces THEN "undefined" ELSE "free_trace"
  /\ trace' \in (IF jmpbuf = 0 THEN {trace} ELSE {trace, jmpbuf})
  /\ valid' = IF i \in Traces THEN [valid EXCEPT ![i] = FALSE] ELSE valid
  /\ LeaveFsec
  /\ UNCHANGED << i, who, options, summary, passes, reads, ranges, live, freed,
                  mem_up, jmpbuf >>

(***************************************************************************)
(* The steps that end by themselves, and those that run the allocator.     *)
(***************************************************************************)
Advance ==
  \/ Main
  \/ libc_read_trace
  \/ eval_libc_valid
  \/ free_trace("libc_free_trace", "next_libc_trace")
  \/ NextLibcTrace
  \/ measure_ref_throughput
  \/ AllocStats
  \/ mem_init
  \/ new_range_set(1, "new_range_set", "read_trace")
  \/ read_trace
  \/ setjmp
  \/ free_range_set("free_range_set", "new_range_set_2")
  \/ new_range_set(2, "new_range_set_2", "eval_2")
  \/ free_trace("onetime_free_trace", "onetime_free_range_set")
  \/ OnetimeReturn
  \/ SkipWrong
  \/ FsecReturn
  \/ free_trace("free_trace", "free_range_set_end")
  \/ free_range_set("free_range_set_end", "mem_deinit")
  \/ mem_deinit
  \/ NextTrace
  \/ EndOfTests
  \/ Report

Evaluate == FirstEval \/ SecondEval \/ eval_mm_util \/ FsecStep

Next == Advance \/ Evaluate \/ EvalExits \/ SpeedFails \/ timeout_handler

(***************************************************************************)
(* The driver keeps running and an armed alarm comes.  Nothing makes the   *)
(* allocator under test return.                                            *)
(***************************************************************************)
Spec == Init /\ [][Next]_vars /\ WF_vars(Advance) /\ WF_vars(timeout_handler)

(***************************************************************************)
(* With allocators that return from every call, and a clock that advances: *)
(* fsec sees a positive time again and again.                              *)
(***************************************************************************)
FairSpec == Spec /\ WF_vars(Evaluate)

-----------------------------------------------------------------------------
(***************************************************************************)
(* Type correctness.                                                       *)
(***************************************************************************)
TypeOK ==
  /\ i \in 1 .. num_tracefiles + 1 /\ trace \in 0 .. num_tracefiles
  /\ jmpbuf \in 0 .. num_tracefiles /\ mem_up \in 0 .. 1
  /\ alarm \in {"off", "armed", "fired"} /\ onetime_flag \in BOOLEAN
  /\ run_libc \in BOOLEAN /\ build \in Builds
  /\ valid \in [Traces -> BOOLEAN] /\ errors \in BOOLEAN
  /\ passes \in [Traces -> 0 .. 2] /\ reads \in [Traces -> 0 .. 1]
  /\ secs \in [Traces -> Times \cup {0, 1}]
  /\ samplecount \in 0 .. maxsamples /\ Len(values.cells) \in {0, kbest}

(***************************************************************************)
(* The alarm comes at one of the points of run_tests where the records of  *)
(* the trace are all there and fsec can be left, or it does not come.      *)
(***************************************************************************)
Covered == {"eval_1", "free_range_set", "eval_2", "measure", "free_trace",
            "onetime_free_trace"} \cup SafeToLeave
InTime == fired_at \in Covered \cup {Never}

(***************************************************************************)
(* run_tests survives an alarm at a covered point: nothing is freed twice, *)
(* and when the loop goes on all records of the trace before have been     *)
(* given back and the memory system is down, as after a trace that was not *)
(* interrupted.                                                            *)
(***************************************************************************)
CleanRun ==
  InTime =>
    /\ pc # "undefined"
    /\ pc = "loop" => live = {} /\ mem_up = 0
    /\ pc = "done" => live = {} /\ (mem_up = 1 => onetime_flag)

(***************************************************************************)
(* What secs may be of a trace that was found correct: a time fsec has     *)
(* returned in mdriver, the stand-in of one second in mdriver-emulate,     *)
(* which times nothing, and the zero of calloc in mdriver-dbg.             *)
(***************************************************************************)
RecordedSecs ==
  IF build = "mdriver" THEN Times
  ELSE IF build = "mdriver-emulate" THEN {1} ELSE {0}

(***************************************************************************)
(* The verdicts at the end: a trace counts as correct exactly when both    *)
(* evaluations found it correct and the alarm did not come during it; the  *)
(* other traces lose nothing by the alarm, and all are run; errors are     *)
(* counted exactly when a trace that was run is not correct or libc        *)
(* failed; and a score other than zero rests on traces that are all        *)
(* correct, and in mdriver, the only build that times them, on a time of   *)
(* fsec for each.                                                          *)
(***************************************************************************)
VerdictExact ==
  pc = "done" /\ InTime =>
    /\ \A j \in Traces : valid[j] <=> passes[j] = 2 /\ fired_in # j
    /\ ~onetime_flag => \A j \in Traces : reads[j] > 0
    /\ errors <=> libc_failed \/ \E j \in Traces : reads[j] > 0 /\ ~valid[j]
    /\ score = "scored" /\ ~onetime_flag =>
         \A j \in Traces : valid[j] /\ secs[j] \in RecordedSecs

(***************************************************************************)
(* With allocators that return and a clock that advances the driver ends:  *)
(* the repetitions of fsec grow until they can be measured, and sampling   *)
(* stops, also after an alarm has broken off an earlier call.              *)
(***************************************************************************)
Termination == <>(pc \in Over)

(***************************************************************************)
(* mdriver.c:1722, the option -s: "Timeout after s secs".  With the alarm  *)
(* set the driver ends, whatever the allocator under test does.            *)
(***************************************************************************)
TimeoutStops == alarm = "armed" ~> pc \in Over
=============================================================================

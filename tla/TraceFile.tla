----------------------------- MODULE TraceFile -----------------------------
(***************************************************************************)
(* Trace files, tracefile.c: read_trace reads a header and one request per *)
(* line into a trace record, and ends the process when the file is not a   *)
(* valid trace; reinit_trace makes the record ready for another run.       *)
(*                                                                         *)
(* A line is one of Lines, already taken apart into its opcode and its     *)
(* numbers, or Malformed when the text does not have the form read_trace   *)
(* wants.  A block id is a C unsigned int, counted modulo UINT_MOD; the    *)
(* greatest one stands for the null pointer in a free request.             *)
(***************************************************************************)
EXTENDS Integers, Sequences

CONSTANTS UINT_MOD,     \* number of values of unsigned int
          Lines,        \* the requests a file may hold: [type, index, size]
          NumIds,       \* what the header may say of the number of block ids
          NumOps        \* what the header may say of the number of requests

Opcodes == {"ALLOC", "REALLOC", "FREE"}

ASSUME TraceAssumption ==
  /\ UINT_MOD \in Nat \ {0}
  /\ Lines \subseteq [type : Opcodes, index : 0 .. UINT_MOD - 1, size : Nat]
  /\ NumIds \subseteq 0 .. UINT_MOD - 1
  /\ NumOps \subseteq Nat

VARIABLES trace,         \* the trace record: num_ids, num_ops, ops and, for
                         \* each id, blocks, block_sizes, block_rand_base
          reader,        \* "header", "lines", "closed" or "exit"
          max_id_used

trace_vars == << trace, reader, max_id_used >>

NULL_ID == UINT_MOD - 1
Ids(t) == 0 .. t.num_ids - 1

-----------------------------------------------------------------------------
NoTrace == [num_ids |-> 0, num_ops |-> 0, ops |-> << >>, blocks |-> << >>,
            block_sizes |-> << >>, block_rand_base |-> << >>]

(***************************************************************************)
(* The record as read_trace allocates it: all arrays zero, no request yet. *)
(***************************************************************************)
NewTrace(num_ids, num_ops) ==
  LET zeros == [id \in 0 .. num_ids - 1 |-> 0]
  IN  [num_ids |-> num_ids, num_ops |-> num_ops, ops |-> << >>,
       blocks |-> zeros, block_sizes |-> zeros, block_rand_base |-> zeros]

reinit_trace_blocks_only(t) == [t EXCEPT !.blocks = [id \in Ids(t) |-> 0]]

(***************************************************************************)
(* block_rand_base keeps its old values.                                   *)
(***************************************************************************)
reinit_trace(t) ==
  [t EXCEPT !.blocks = [id \in Ids(t) |-> 0],
            !.block_sizes = [id \in Ids(t) |-> 0]]

-----------------------------------------------------------------------------
TraceInit == trace = NoTrace /\ reader = "header" /\ max_id_used = 0

app_error == reader' = "exit" /\ trace' = NoTrace /\ max_id_used' = 0

(***************************************************************************)
(* The four header lines.  Weight and peak size play no part in a run.     *)
(***************************************************************************)
ReadHeader ==
  /\ reader = "header"
  /\ \E num_ids \in NumIds, num_ops \in NumOps :
       trace' = NewTrace(num_ids, num_ops)
  /\ reader' = "lines"
  /\ UNCHANGED max_id_used

(***************************************************************************)
(* A header line that is missing or is not a number.                       *)
(***************************************************************************)
BadHeader == reader = "header" /\ app_error

(***************************************************************************)
(* One request line.                                                       *)
(***************************************************************************)
ReadLine(line) ==
  /\ reader = "lines"
  /\ IF Len(trace.ops) = trace.num_ops
     THEN app_error                    \* too many ops
     ELSE /\ trace' = [trace EXCEPT !.ops = Append(@, line)]
          /\ max_id_used' = IF line.index > max_id_used THEN line.index
                            ELSE max_id_used
          /\ UNCHANGED reader

ReadMalformed == reader = "lines" /\ app_error

EndOfFile_any_ids ==
  /\ reader = "lines"
  /\ IF Len(trace.ops) < trace.num_ops
     THEN app_error
     ELSE reader' = "closed" /\ max_id_used' = 0 /\ UNCHANGED trace

(***************************************************************************)
(* The end of the file, with the two checks of the whole trace.  num_ids   *)
(* is unsigned: the greatest id of a trace without ids is NULL_ID.         *)
(***************************************************************************)
EndOfFile ==
  /\ reader = "lines"
  /\ IF \/ Len(trace.ops) < trace.num_ops
        \/ max_id_used # (trace.num_ids - 1) % UINT_MOD
     THEN app_error
     ELSE reader' = "closed" /\ max_id_used' = 0 /\ UNCHANGED trace

read_trace ==
  \/ ReadHeader
  \/ BadHeader
  \/ \E line \in Lines : ReadLine(line)
  \/ ReadMalformed
  \/ EndOfFile

-----------------------------------------------------------------------------
(***************************************************************************)
(* What a trace must be for an allocator to be judged by it: its requests  *)
(* name its ids, an id is given to malloc only while it has no block and   *)
(* for at least one byte, and a block that was freed is neither freed      *)
(* again nor resized.  read_trace looks at little of this.                 *)
(***************************************************************************)
Before(ops, k) == {j \in 1 .. k - 1 : ops[j].index = ops[k].index}
Latest(J) == CHOOSE j \in J : \A l \in J : l <= j

NamesId(t, op) ==
  op.index \in Ids(t) \/ (op.type = "FREE" /\ op.index = NULL_ID)

WellFormed(t) ==
  \A k \in DOMAIN t.ops :
    LET op == t.ops[k]
        last == t.ops[Latest(Before(t.ops, k))]
        first == Before(t.ops, k) = {}
    IN  /\ NamesId(t, op)
        /\ op.type = "ALLOC" => op.size > 0 /\ (first \/ last.size = 0)
        /\ op.type # "ALLOC" /\ op.index # NULL_ID =>
             first \/ last.type # "FREE"
=============================================================================

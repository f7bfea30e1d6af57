---------------------------- MODULE CancelBuf ----------------------------
(***************************************************************************)
(* What the storage blocks of the core do in a clock cycle, seen from      *)
(* outside.  HiCore_pipe is a one-entry register and HiCore_queue a ring   *)
(* of DP entries; both are first-in first-out, keep a cancel mark beside   *)
(* every entry and, on a flush, mark every entry they hold and the one     *)
(* that enters in the same cycle instead of dropping them.  A buffer is a  *)
(* sequence of records with a field "cancel", oldest first.  PipeReg,      *)
(* Queue and Bypbuf model the registers themselves and are shown to        *)
(* implement CancelFifo, which steps by BufNext.                           *)
(***************************************************************************)
EXTENDS Integers, Sequences

\* Mutant: a flush marks nothing.
CancelIf_Never(flush, item) == item

\* An entry as it is stored at the end of a cycle with this flush input.
CancelIf(flush, item) == [item EXCEPT !.cancel = flush \/ @]

\* The buffer after a cycle; push is <<>> or <<item>>.
BufNext(buf, push, pop, flush) ==
  LET all  == buf \o push
      kept == IF pop THEN Tail(all) ELSE all
  IN  [k \in 1 .. Len(kept) |-> CancelIf(flush, kept[k])]

Valid(buf) == buf # <<>>

\* i_rdy of HiCore_pipe (CUT_READY = 0) and i_ready of HiCore_queue.
PipeReady(pipe, pop) == ~Valid(pipe) \/ pop
QueueReady(buf, depth) == Len(buf) < depth

\* <<item>> if the condition holds: the argument form of BufNext.
When(cond, item) == IF cond THEN <<item>> ELSE <<>>
==========================================================================

--------------------------- MODULE MCInterrupt ---------------------------
(***************************************************************************)
(* The traps and registers of the core (Trap), the interrupt controller    *)
(* with its response register (Plic), which has CUT_READY = 1, and the     *)
(* stage register of the pipeline, PipeReg with CUT_READY = 0, for one     *)
(* run.  They share no state and no property is about two of them, so one  *)
(* of them, "part", works and the others stay as they are after reset.     *)
(***************************************************************************)
EXTENDS MCTrap, Plic

VARIABLES part,
          stage_vld, stage_dat, stage_cancel, stage_put, stage_got, stage_flushed

stage_vars == <<stage_vld, stage_dat, stage_cancel, stage_put, stage_got, stage_flushed>>

Stage == INSTANCE PipeReg WITH CUT_READY <- 0, vld_r <- stage_vld, o_dat <- stage_dat,
           o_cancel <- stage_cancel, put <- stage_put, got <- stage_got, flushed <- stage_flushed

InterruptInit ==
  /\ part \in {"trap", "plic", "stage"}
  /\ TrapInit /\ PlicInit /\ Stage!PipeInit
  /\ part # "stage" => stage_dat = 0
InterruptNext ==
  \/ part = "trap" /\ TrapNext /\ UNCHANGED <<part, plic_vars, stage_vars>>
  \/ part = "plic" /\ PlicNext /\ UNCHANGED <<part, trap_vars, stage_vars>>
  \/ part = "stage" /\ Stage!PipeNext /\ UNCHANGED <<part, trap_vars, plic_vars>>
InterruptSpec == InterruptInit /\ [][InterruptNext]_<<part, trap_vars, plic_vars, stage_vars>>

(***************************************************************************)
(* The stage register that accepts an entry in the cycle in which the one  *)
(* before it leaves (CUT_READY = 0, HiCore_pipe.v:26-46) is a cancellable  *)
(* FIFO of one entry, under flushes at any time: the entry that enters     *)
(* with a flush is marked, the one that leaves with it is not, and a mark  *)
(* never outlives its entry.                                               *)
(***************************************************************************)
StageIsFifo == Stage!ImplementsFifo
==========================================================================

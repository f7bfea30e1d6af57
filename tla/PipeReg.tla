----------------------------- MODULE PipeReg -----------------------------
(***************************************************************************)
(* HiCore_pipe (HiCore_pipe.v:1-49): the register between two stages, used *)
(* twelve times.  With CUT_READY = 1 (bus splitter, PLIC) it accepts only  *)
(* when it is empty; with CUT_READY = 0 also when its entry leaves.        *)
(***************************************************************************)
EXTENDS CancelBuf

CONSTANTS CUT_READY, Item

ASSUME PipeAssumption == CUT_READY \in {0, 1} /\ Item # {}

VARIABLES vld_r, o_dat, o_cancel,
          put, got, flushed     \* the ports in the last cycle, see CancelFifo

pipe_vars == <<vld_r, o_dat, o_cancel, put, got, flushed>>

PipeInit == /\ vld_r = FALSE
            /\ o_dat \in Item       \* reset to 0; the value is never used
            /\ o_cancel = FALSE
            /\ put = <<>> /\ got = <<>> /\ flushed = FALSE

\* Mutants: ready although the entry stays; CUT_READY is ignored.
i_rdy_Always(o_rdy) == TRUE
i_rdy_Uncut(o_rdy) == ~vld_r \/ o_rdy
i_rdy(o_rdy) == ~vld_r \/ (CUT_READY = 0 /\ o_rdy)

\* Mutant: where one entry leaves and one enters, the register is empty.
vld_nxt_ClrFirst(vld_set, vld_clr) == ~vld_clr
vld_nxt(vld_set, vld_clr) == vld_set \/ ~vld_clr

PipeStep(i_vld, i_dat, i_cancel, o_rdy, branch) ==
  LET vld_set == i_vld /\ i_rdy(o_rdy)
      vld_clr == vld_r /\ o_rdy
  IN  /\ vld_r' = IF vld_set \/ vld_clr THEN vld_nxt(vld_set, vld_clr) ELSE vld_r
      /\ o_dat' = IF vld_set THEN i_dat ELSE o_dat
      /\ o_cancel' = IF branch THEN TRUE ELSE IF vld_set THEN i_cancel ELSE o_cancel
      /\ put' = When(vld_set, [dat |-> i_dat, cancel |-> i_cancel])
      /\ flushed' = branch
      /\ got' = When(vld_clr, [dat |-> o_dat, cancel |-> o_cancel])

PipeNext ==
  \E i_vld, i_cancel, o_rdy, branch \in BOOLEAN, i_dat \in Item :
    PipeStep(i_vld, i_dat, i_cancel, o_rdy, branch)

PipeSpec == PipeInit /\ [][PipeNext]_pipe_vars
--------------------------------------------------------------------------
(***************************************************************************)
(* The register is a cancellable FIFO of one entry: what goes in under the *)
(* handshake comes out once, also where one entry leaves as the next one   *)
(* enters, and its cancel flop marks no later entry although it is also    *)
(* set while the register is empty.                                        *)
(***************************************************************************)
Held == When(vld_r, [dat |-> o_dat, cancel |-> o_cancel])
Fifo == INSTANCE CancelFifo WITH buf <- Held, Depth <- 1
ImplementsFifo == Fifo!FifoSpec
==========================================================================

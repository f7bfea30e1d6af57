----------------------------- MODULE Bypbuf ------------------------------
(***************************************************************************)
(* sirv_bypbuf: HiCore_queue with a combinational bypass around it when it *)
(* is empty, and a counter that feeds the fifo_half_full output.  It is    *)
(* the buffer before decode (DP = 8) and the command buffer of the         *)
(* load/store unit (DP = 4).                                               *)
(***************************************************************************)
EXTENDS Queue

VARIABLE fifo_cnt_r     \* LOGDP bits: counts modulo DP

byp_vars == <<queue_vars, fifo_cnt_r>>

BypInit == QueueInit /\ fifo_cnt_r = 0

fifo_half_full == fifo_cnt_r >= DP \div 2

\* Mutant: the bypassed entry is stored as well.
fifo_i_vld_Always(i_vld, o_rdy) == i_vld
\* The entry is stored unless the consumer takes it at once.
fifo_i_vld(i_vld, o_rdy) == i_vld /\ ~(o_rdy /\ empty)

CntUp   == IF fifo_cnt_r = DP - 1 THEN 0 ELSE fifo_cnt_r + 1
CntDown == IF fifo_cnt_r = 0 THEN DP - 1 ELSE fifo_cnt_r - 1

\* Mutant: counts the entry that comes in and forgets the one that leaves.
CntNext_WenFirst(wen, ren) == IF wen THEN CntUp ELSE IF ren THEN CntDown ELSE fifo_cnt_r
CntNext(wen, ren) == IF wen = ren THEN fifo_cnt_r ELSE IF wen THEN CntUp ELSE CntDown

\* An entry offered to a full buffer is not taken: i_rdy is ~full.
BypStep(i_vld, i_dat, i_cancel, o_rdy, flush) ==
  /\ RingStep(fifo_i_vld(i_vld, o_rdy), i_dat, i_cancel, o_rdy, flush)
  /\ fifo_cnt_r' = CntNext(fifo_i_vld(i_vld, o_rdy) /\ ~full, ~empty /\ o_rdy)
  /\ put' = When(i_vld /\ ~full, [dat |-> i_dat, cancel |-> i_cancel])
  /\ flushed' = flush
  /\ got' = When(o_rdy /\ (~empty \/ i_vld),
                 IF empty THEN [dat |-> i_dat, cancel |-> i_cancel]
                          ELSE [dat |-> o_info, cancel |-> o_cancel])

\* Where no entry is offered nothing looks at i_dat and i_cancel.
BypNext ==
  \E o_rdy, flush \in BOOLEAN :
    \/ \E i_dat \in Item, i_cancel \in BOOLEAN : BypStep(TRUE, i_dat, i_cancel, o_rdy, flush)
    \/ BypStep(FALSE, o_info, FALSE, o_rdy, flush)

BypSpec == BypInit /\ [][BypNext]_byp_vars
--------------------------------------------------------------------------
(***************************************************************************)
(* The counter agrees with the pointers except that a full buffer counts   *)
(* as empty, so fifo_half_full is down for less than half full and for     *)
(* full buffers (sirv_bypbuf.v:55-60).                                     *)
(***************************************************************************)
CounterTracksContents == fifo_cnt_r = IF Count = DP THEN 0 ELSE Count
==========================================================================

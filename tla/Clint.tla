------------------------------ MODULE Clint ------------------------------
(***************************************************************************)
(* The timer and software interrupt device (HiCore_Clint): the two 32-bit  *)
(* halves of mtime and of mtimecmp are registers of their own, mtime       *)
(* counts rising edges of an asynchronous clock that it samples through a  *)
(* synchroniser.  A step is a clock cycle with the command "fire" that the *)
(* device takes in it, <<>> or <<[addr, read, wdata]>>.  A half has the    *)
(* values 0 .. W - 1.  The response register is that of a bus slave, see   *)
(* Bus.                                                                    *)
(***************************************************************************)
EXTENDS Integers, Sequences

CONSTANT W      \* 2^32 in the code

ASSUME ClintAssumption == W \in Nat \ {0, 1}

VARIABLES
  sync_dat,     \* the two stages of HiCore_sync
  sync_clk_r,
  mtime_L_r, mtime_H_r,
  mtimecmp_L_r, mtimecmp_H_r,
  msip_r

mtime_vars == <<mtime_L_r, mtime_H_r>>
clint_vars == <<sync_dat, sync_clk_r, mtime_vars, mtimecmp_L_r, mtimecmp_H_r, msip_r>>

Word == 0 .. W - 1
mtime    == mtime_H_r * W + mtime_L_r
mtimecmp == mtimecmp_H_r * W + mtimecmp_L_r

sync_clk_edge == sync_dat[2] /\ ~sync_clk_r
\* Mutant: the count is wider than the two halves.
mtime_plus_one_NoWrap == IF sync_clk_edge THEN mtime + 1 ELSE mtime
mtime_plus_one == IF sync_clk_edge THEN (mtime + 1) % (W * W) ELSE mtime

rd(fire, r) == fire # <<>> /\ fire[1].addr = r /\ fire[1].read
wr(fire, r) == fire # <<>> /\ fire[1].addr = r /\ ~fire[1].read

\* Mutants: the carry comes with the tick after; a tick goes before a write.
mtime_H_nxt_CarryLate(fire) == IF wr(fire, "mtime_H") THEN fire[1].wdata
                               ELSE IF sync_clk_edge /\ mtime_L_r = 0 THEN (mtime_H_r + 1) % W
                               ELSE mtime_H_r
mtime_L_nxt_TickFirst(fire) == IF sync_clk_edge THEN mtime_plus_one % W
                               ELSE IF wr(fire, "mtime_L") THEN fire[1].wdata ELSE mtime_L_r
mtime_L_nxt(fire) == IF wr(fire, "mtime_L") THEN fire[1].wdata ELSE mtime_plus_one % W
mtime_H_nxt(fire) == IF wr(fire, "mtime_H") THEN fire[1].wdata ELSE mtime_plus_one \div W

\* The interrupt lines.
m_time_irq == mtime > mtimecmp
m_soft_irq == msip_r = 1

\* The word a command reads; offsets without a register read 0.
\* Mutant: a read of the upper half returns the next count.
pipe_idat_PlusOne(fire) == CASE rd(fire, "mtime_L")    -> mtime_L_r
                             [] rd(fire, "mtime_H")    -> mtime_plus_one \div W
                             [] rd(fire, "mtimecmp_L") -> mtimecmp_L_r
                             [] rd(fire, "mtimecmp_H") -> mtimecmp_H_r
                             [] rd(fire, "msip")       -> msip_r
                             [] OTHER                  -> 0
pipe_idat(fire) == CASE rd(fire, "mtime_L")    -> mtime_L_r
                     [] rd(fire, "mtime_H")    -> mtime_H_r
                     [] rd(fire, "mtimecmp_L") -> mtimecmp_L_r
                     [] rd(fire, "mtimecmp_H") -> mtimecmp_H_r
                     [] rd(fire, "msip")       -> msip_r
                     [] OTHER                  -> 0

ClintInit ==
  /\ sync_dat = <<FALSE, FALSE>> /\ sync_clk_r = FALSE
  /\ mtime_L_r = 0 /\ mtime_H_r = 0
  /\ mtimecmp_L_r = 0 /\ mtimecmp_H_r = 0 /\ msip_r = 0

ClintStep(fire, async_clk) ==
  /\ sync_dat' = <<async_clk, sync_dat[1]>>
  /\ sync_clk_r' = sync_dat[2]
  /\ mtime_L_r' = mtime_L_nxt(fire)
  /\ mtime_H_r' = mtime_H_nxt(fire)
  /\ mtimecmp_L_r' = IF wr(fire, "mtimecmp_L") THEN fire[1].wdata ELSE mtimecmp_L_r
  /\ mtimecmp_H_r' = IF wr(fire, "mtimecmp_H") THEN fire[1].wdata ELSE mtimecmp_H_r
  /\ msip_r' = IF wr(fire, "msip") THEN fire[1].wdata % 2 ELSE msip_r
==========================================================================

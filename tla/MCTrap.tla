----------------------------- MODULE MCTrap ------------------------------
(***************************************************************************)
(* Programs for model checking Trap.  The handler is at address 7 in the   *)
(* first and at address 5 in the others.                                   *)
(***************************************************************************)
EXTENDS Trap, Sequences

At(op, next) == [op |-> op, next |-> next, mie |-> TRUE, mpie |-> TRUE, epc |-> 2,
                 en |-> Lines, cnt |-> W - 1]
Disable(next) == [At("csrw", next) EXCEPT !.mie = FALSE]
MaskTimer(next) == [At("csrw_mie", next) EXCEPT !.en = Lines \ {7}]
Program(seq) == [p \in 0 .. Len(seq) - 1 |-> seq[p + 1]]

\* Interrupts are switched on, the timer later; the loop writes mie, mstatus
\* and the counter, synchronises and traps, with interrupts at any of these.
\* The handler masks the timer and goes round.
LoopProg == Program(<<MaskTimer(1), At("csrw", 2), At("csrw_minstret", 3), At("csrw_mie", 4), At("csrw", 5),
                      At("fence_i", 6), At("ecall", 1), At("csrw_mepc", 8), MaskTimer(9), At("csrw_minstreth", 1)>>)
\* A trap whose handler returns with mret.
MretProg == Program(<<At("ecall", 1), At("alu", 2), At("alu", 0), At("alu", 0), At("alu", 0),
                      At("mret", 6), At("alu", 7), At("alu", 5)>>)
\* Interrupts are switched on and off again.
CriticalProg == Program(<<At("csrw_mie", 1), At("csrw", 2), Disable(3), At("alu", 1), At("alu", 1),
                          At("alu", 6), At("alu", 7), At("csrw", 1)>>)
\* Interrupts on, and a handler that returns with mret.
ReturnProg == Program(<<At("csrw_mie", 1), At("csrw", 2), At("alu", 3), At("alu", 2), At("alu", 2),
                        At("mret", 6), At("alu", 7), At("alu", 5)>>)
==========================================================================

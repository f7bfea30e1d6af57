------------------------------- MODULE Hart ------------------------------
(***************************************************************************)
(* The privileged behaviour a program sees: one instruction at a time,     *)
(* traps and interrupts between instructions.  pc is the instruction that  *)
(* executes next; mie and mpie are the interrupt-enable stack of mstatus,  *)
(* enab the enabled lines of the register mie, instret the 64-bit count of *)
(* instructions.  Prog gives the instruction at each address: [op, next,   *)
(* mie, mpie, epc, en, cnt], where next is the address of its successor    *)
(* and the other fields are what an instruction of class "csrw" writes to  *)
(* mstatus, "csrw_mepc" to mepc, "csrw_mie" to mie, "csrw_minstret" and    *)
(* "csrw_minstreth" to a half of the counter.  A half has W values.        *)
(***************************************************************************)
EXTENDS Integers

CONSTANTS Prog, Mtvec, Lines, W

VARIABLES pc, mie, mpie, mepc, mcause, enab, instret

hart_vars == <<pc, mie, mpie, mepc, mcause, enab, instret>>

PC == DOMAIN Prog

HartInit == /\ pc = 0 /\ mie = FALSE /\ mpie = FALSE /\ mepc = 0
            /\ mcause = <<FALSE, 0>> /\ enab = {} /\ instret = 0

\* State after the instruction at pc, which does not trap, has executed.
Mie1  == CASE Prog[pc].op = "mret" -> mpie [] Prog[pc].op = "csrw" -> Prog[pc].mie [] OTHER -> mie
Mpie1 == CASE Prog[pc].op = "mret" -> TRUE [] Prog[pc].op = "csrw" -> Prog[pc].mpie [] OTHER -> mpie
Pc1   == IF Prog[pc].op = "mret" THEN mepc ELSE Prog[pc].next
Enab1 == IF Prog[pc].op = "csrw_mie" THEN Prog[pc].en ELSE enab

\* The instruction counts, then a write of a half replaces that half.
Count == (instret + 1) % (W * W)
Instret1 == CASE Prog[pc].op = "csrw_minstret"  -> (Count \div W) * W + Prog[pc].cnt
              [] Prog[pc].op = "csrw_minstreth" -> Prog[pc].cnt * W + (Count % W)
              [] OTHER                          -> Count

Execute ==
  /\ Prog[pc].op # "ecall"
  /\ pc' = Pc1 /\ mie' = Mie1 /\ mpie' = Mpie1 /\ enab' = Enab1 /\ instret' = Instret1
  /\ mepc' = IF Prog[pc].op = "csrw_mepc" THEN Prog[pc].epc ELSE mepc
  /\ UNCHANGED mcause

\* The instruction executes, and an interrupt that is enabled then is taken
\* before the next one.
ExecuteThenInterrupt ==
  /\ Prog[pc].op # "ecall"
  /\ Mie1
  /\ \E line \in Enab1 : mcause' = <<TRUE, line>>
  /\ pc' = Mtvec /\ mepc' = Pc1 /\ mpie' = Mie1 /\ mie' = FALSE
  /\ enab' = Enab1 /\ instret' = Instret1

\* A trapping instruction is counted, too.
Exception ==
  /\ Prog[pc].op = "ecall"
  /\ pc' = Mtvec /\ mepc' = pc /\ mpie' = mie /\ mie' = FALSE
  /\ mcause' = <<FALSE, 11>> /\ instret' = Count
  /\ UNCHANGED enab

HartNext == Execute \/ ExecuteThenInterrupt \/ Exception
HartSpec == HartInit /\ [][HartNext]_hart_vars
==========================================================================

------------------------------ MODULE Trap -------------------------------
(***************************************************************************)
(* Traps and returns: the reorder buffer with the program counters and     *)
(* interrupt lines recorded in its slots, the commit stage (HiCore_commit) *)
(* and the registers of HiCore_csr that commit changes: mstatus, mie,      *)
(* mepc, mcause and the two halves of minstret.  The units between issue   *)
(* and write-back are reduced to what Backend shows of them (RobSpec): in  *)
(* any cycle any set of waiting slots may get its result.  Decode takes    *)
(* the instructions of Prog in the order of the fetch unit, which follows  *)
(* taken branches by itself and is restarted by a flush.  mtvec is fixed.  *)
(***************************************************************************)
EXTENDS ROB

CONSTANTS Prog,     \* address -> [op, next, mie, mpie, epc, en, cnt], see Hart
          Mtvec,    \* address of the trap handler
          Lines,    \* interrupt lines: software 3, timer 7, external 11
          W         \* values of a 32-bit counter half

VARIABLES
  rob_pc,       \* address of the instruction last put into each slot
  rob_irq,      \* the interrupt lines at the time the slot was filled
  fetch_pc,     \* address of the next instruction for decode
  status_mie, status_mpie, mepc,
  mie_r,        \* the enabled lines
  mcause_r,     \* <<is an interrupt, number>>
  minstret_r, minstreth_r

csr_vars  == <<status_mie, status_mpie, mepc, mie_r, mcause_r, minstret_r, minstreth_r>>
trap_vars == <<rob_vars, rob_pc, rob_irq, fetch_pc, csr_vars>>

PC   == DOMAIN Prog
NoPC == -1          \* a slot that was never filled
Op(p) == IF p = NoPC THEN "none" ELSE Prog[p].op

ASSUME TrapAssumption ==
  /\ 0 \in PC /\ Mtvec \in PC /\ NoPC \notin PC
  /\ Lines \subseteq {3, 7, 11} /\ W \in Nat \ {0, 1}
  /\ \A p \in PC : /\ Prog[p].next \in PC /\ Prog[p].epc \in PC
                   /\ Prog[p].mie \in BOOLEAN /\ Prog[p].mpie \in BOOLEAN
                   /\ Prog[p].en \subseteq Lines /\ Prog[p].cnt \in 0 .. W - 1
                   /\ Prog[p].op \in {"alu", "csrw", "csrw_mepc", "csrw_mie", "csrw_minstret",
                                      "csrw_minstreth", "mret", "ecall", "fence_i"}

--------------------------------------------------------------------------
\* Commit (HiCore_commit.v); commit_ready is csr_valid.
HeadSlot   == SlotOf(rob_head_ptr)
commit_pc  == rob_pc[HeadSlot]
commit_op  == Op(commit_pc)

excp_en == commit_ready /\ commit_op = "ecall"
\* csr_irq: the recorded lines that are enabled now.
csr_irq == IF status_mie THEN rob_irq[HeadSlot] \cap mie_r ELSE {}
irq_en  == commit_ready /\ csr_irq # {}
flush   == commit_ready /\ (excp_en \/ irq_en \/ commit_op \in {"fence_i", "mret"})
flush_pc == IF excp_en \/ irq_en THEN Mtvec
            ELSE IF commit_op = "fence_i" THEN Prog[commit_pc].next ELSE mepc

\* csr_mret_op is the flag of the head slot, with or without a commit.
commit_mret_op == commit_op = "mret"
csr_wr(op) == commit_ready /\ ~excp_en /\ commit_op = op
wr_mstatus == csr_wr("csrw")
wr_mepc == csr_wr("csrw_mepc")
wr_mie  == csr_wr("csrw_mie")

\* The mstatus and mepc registers (HiCore_csr.v).
\* Mutant: mepc of an interrupt is the instruction that has just retired.
MepcNext_IrqAtPc == IF excp_en \/ irq_en THEN commit_pc
                    ELSE IF wr_mepc THEN Prog[commit_pc].epc ELSE mepc

MieNext  == IF excp_en \/ irq_en THEN FALSE
            ELSE IF commit_mret_op THEN status_mpie
            ELSE IF wr_mstatus THEN Prog[commit_pc].mie ELSE status_mie
MpieNext == IF excp_en \/ irq_en THEN status_mie
            ELSE IF commit_mret_op THEN TRUE
            ELSE IF wr_mstatus THEN Prog[commit_pc].mpie ELSE status_mpie
MepcNext == IF excp_en THEN commit_pc
            ELSE IF irq_en THEN Prog[commit_pc].next
            ELSE IF wr_mepc THEN Prog[commit_pc].epc ELSE mepc

\* Lowest cause first (CauseAgrees of Datapath).
Lowest(S) == CHOOSE i \in S : \A j \in S : i <= j
McauseNext == IF excp_en THEN <<FALSE, 11>>
              ELSE IF irq_en THEN <<TRUE, Lowest(csr_irq)>> ELSE mcause_r

\* The halves of minstret.
wr_minstret  == csr_wr("csrw_minstret")
wr_minstreth == csr_wr("csrw_minstreth")
minstreth_ena == wr_minstreth \/ (commit_ready /\ minstret_r = W - 1)
minstret_nxt  == IF wr_minstret THEN Prog[commit_pc].cnt ELSE (minstret_r + 1) % W
minstreth_nxt == IF wr_minstreth THEN Prog[commit_pc].cnt ELSE (minstreth_r + 1) % W

CsrStep ==
  /\ status_mie' = MieNext
  /\ status_mpie' = MpieNext
  /\ mepc' = MepcNext
  /\ mie_r' = IF wr_mie THEN Prog[commit_pc].en ELSE mie_r
  /\ mcause_r' = McauseNext
  /\ minstret_r' = IF commit_ready THEN minstret_nxt ELSE minstret_r
  /\ minstreth_r' = IF minstreth_ena THEN minstreth_nxt ELSE minstreth_r
--------------------------------------------------------------------------
TrapInit ==
  /\ RobInit
  /\ rob_pc = [s \in Slot |-> NoPC]
  /\ rob_irq = [s \in Slot |-> {}]
  /\ fetch_pc = 0
  /\ status_mie = FALSE /\ status_mpie = FALSE /\ mepc = 0
  /\ mie_r = {} /\ mcause_r = <<FALSE, 0>> /\ minstret_r = 0 /\ minstreth_r = 0

\* Decode holds a CSR instruction back while one of the same CSR is in the
\* buffer.
CsrOp == {"csrw", "csrw_mepc", "csrw_mie", "csrw_minstret", "csrw_minstreth"}
csr_depend == /\ Prog[fetch_pc].op \in CsrOp
              /\ \E s \in Slot : rob_state[s] # EMPTY_S /\ Op(rob_pc[s]) = Prog[fetch_pc].op

\* One clock cycle: decode may take an instruction while the interrupt lines
\* of irq are up, the slots of wb get their results.  The lines of a freed
\* slot are never read again and are forgotten.
TrapTick(issue_wen, irq, wb) ==
  /\ issue_wen => ~rob_full /\ ~flush /\ ~csr_depend
  /\ \A i \in wb : rob_state[i] = MAPPED_S
  /\ RobStep(issue_wen, wb, flush)
  /\ rob_pc' = IF issue_wen THEN [rob_pc EXCEPT ![SlotOf(rob_tail_ptr)] = fetch_pc] ELSE rob_pc
  /\ rob_irq' = [s \in Slot |-> IF issue_wen /\ s = SlotOf(rob_tail_ptr) THEN irq
                               ELSE IF rob_state'[s] = EMPTY_S THEN {} ELSE rob_irq[s]]
  /\ fetch_pc' = IF flush THEN flush_pc
                 ELSE IF issue_wen THEN Prog[fetch_pc].next ELSE fetch_pc
  /\ CsrStep

TrapNext == \E wb \in SUBSET Slot : \/ TrapTick(FALSE, {}, wb)
                                  \/ \E irq \in SUBSET Lines : TrapTick(TRUE, irq, wb)
TrapSpec == TrapInit /\ [][TrapNext]_trap_vars
--------------------------------------------------------------------------
\* The registers hold values of their types.
TrapTypeOK ==
  /\ RobTypeOK
  /\ rob_pc \in [Slot -> PC \cup {NoPC}] /\ rob_irq \in [Slot -> SUBSET Lines]
  /\ fetch_pc \in PC /\ mepc \in PC
  /\ status_mie \in BOOLEAN /\ status_mpie \in BOOLEAN /\ mie_r \subseteq Lines
  /\ mcause_r \in {<<FALSE, 0>>, <<FALSE, 11>>} \cup {<<TRUE, i>> : i \in Lines}
  /\ minstret_r \in 0 .. W - 1 /\ minstreth_r \in 0 .. W - 1

(***************************************************************************)
(* The buffer holds a stretch of the program as the fetch unit follows it: *)
(* each slot the successor of the slot before it, and fetch_pc that of the *)
(* last, after any mixture of allocations, commits and flushes.  It is why *)
(* the PC of a retired instruction's successor, which mepc takes on an     *)
(* interrupt, is the next PC to retire.                                    *)
(***************************************************************************)
NextSlot(s) == IF s = RobSize - 1 THEN 0 ELSE s + 1
ProgramOrder ==
  \A s \in Slot :
    /\ RobAge(s) < RobCount => rob_pc[s] \in PC
    /\ RobAge(s) + 1 < RobCount => rob_pc[NextSlot(s)] = Prog[rob_pc[s]].next
    /\ RobAge(s) + 1 = RobCount => fetch_pc = Prog[rob_pc[s]].next

\* The next instruction to retire: the oldest in the buffer, else the one
\* decode takes next.
ArchPc == IF rob_empty THEN fetch_pc ELSE commit_pc

(***************************************************************************)
(* Precise traps: seen through the retiring instructions the core is the   *)
(* one-at-a-time machine of Hart, with mstatus, mie, mepc and mcause as    *)
(* there; and the two halves of minstret are one 64-bit count of the       *)
(* instructions, also where a half is written in the cycle of a carry.     *)
(***************************************************************************)
Arch == INSTANCE Hart WITH pc <- ArchPc, mie <- status_mie, mpie <- status_mpie,
                           mcause <- mcause_r, enab <- mie_r,
                           instret <- minstreth_r * W + minstret_r
ImplementsHart == Arch!HartSpec

(***************************************************************************)
(* The interrupt-enable bits change only in a cycle in which an            *)
(* instruction retires.                                                    *)
(***************************************************************************)
MstatusChangesAtCommit ==
  [][<<status_mie, status_mpie>>' # <<status_mie, status_mpie>> => commit_ready]_trap_vars

(***************************************************************************)
(* An interrupt taken after a write of mstatus saves the enable bit that   *)
(* the write gave it.                                                      *)
(***************************************************************************)
InterruptKeepsMstatusWrite ==
  [][irq_en /\ wr_mstatus => status_mpie' = Prog[commit_pc].mie]_trap_vars

(***************************************************************************)
(* An interrupt taken after an instruction saves in mepc the address at    *)
(* which execution would have gone on; after mret that is the old mepc.    *)
(***************************************************************************)
InterruptSavesReturnPoint ==
  [][irq_en /\ ~excp_en =>
       mepc' = IF commit_op = "mret" THEN mepc ELSE Prog[commit_pc].next]_trap_vars
==========================================================================

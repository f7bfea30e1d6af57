------------------------------ MODULE Instr ------------------------------
(***************************************************************************)
(* Instructions and data as the pipeline modules see them.  An instruction *)
(* is the record [op, rd, rs, mis, taken]: its class, the rd field of the  *)
(* word (present in every format, HiCore_ROB.v:200), one source register,  *)
(* whether its memory address is misaligned and whether it is a branch     *)
(* that is taken.  "ecall" stands for every exception known at decode:     *)
(* ecall, ebreak, an illegal word, a faulting fetch (HiCore_Decode.v:136). *)
(* Data is reduced to what tells orders apart: an ALU operation adds one   *)
(* to its operand modulo NVal, there is one memory word and one CSR.       *)
(***************************************************************************)
EXTENDS Integers

CONSTANTS Ins,      \* the instructions of the model
          NReg,     \* registers 0 .. NReg; register 0 reads 0
          NVal      \* values 0 .. NVal - 1

Op  == {"alu", "csr", "load", "store", "jalr", "branch", "nop", "ecall",
        "fence", "fence_i", "mret"}
Reg == 0 .. NReg
Val == 0 .. NVal - 1

ASSUME InstrAssumption ==
  /\ NReg \in Nat
  /\ NVal \in Nat \ {0}
  /\ Ins \subseteq [op : Op, rd : Reg, rs : Reg, mis : BOOLEAN, taken : BOOLEAN]

AluOp(v) == (v + 1) % NVal
LinkVal  == 0
==========================================================================

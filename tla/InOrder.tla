----------------------------- MODULE InOrder -----------------------------
(***************************************************************************)
(* What the execution part of the core promises to a program: a queue of   *)
(* decoded instructions that take effect one at a time, in order, each     *)
(* atomically.  A trapping instruction has no effect and the instructions  *)
(* behind it disappear; an interrupt, fence.i or mret takes effect and     *)
(* the instructions behind it disappear ("Precise Exception", README.md).  *)
(***************************************************************************)
EXTENDS Instr, Sequences

VARIABLES pending,  \* decoded, not retired: [ins, done], oldest first
          regs,     \* the register file
          csr,      \* a control and status register
          mem       \* a memory word

arch_vars == <<pending, regs, csr, mem>>

\* Instructions that trap by themselves.
Traps(ins) == ins.op = "ecall" \/ (ins.op \in {"load", "store"} /\ ins.mis)
\* Instructions that write a register / that empty the pipeline when done.
WritesRd(ins)  == ins.op \in {"alu", "csr", "load", "jalr"}
Serialises(ins) == ins.op \in {"fence_i", "mret"}

Result(ins) == CASE ins.op = "alu"  -> AluOp(regs[ins.rs])
                 [] ins.op = "csr"  -> csr
                 [] ins.op = "load" -> mem
                 [] OTHER           -> LinkVal

ArchInit ==
  /\ pending = <<>>
  /\ regs = [r \in Reg |-> 0]
  /\ csr = 0
  /\ mem = 0

Entry(ins) == [ins |-> ins, done |-> FALSE]

\* Registers and CSR after the instruction took effect.
Effect(ins) ==
  /\ regs' = IF WritesRd(ins) /\ ins.rd # 0 THEN [regs EXCEPT ![ins.rd] = Result(ins)]
                                            ELSE regs
  /\ csr' = IF ins.op = "csr" THEN regs[ins.rs] ELSE csr

\* Decode adds an instruction, or not (new is <<>> or <<entry>>).
Accept(new) ==
  /\ pending' = pending \o new
  /\ UNCHANGED <<regs, csr, mem>>

\* The oldest instruction is a store and writes the memory word.
Perform(new) ==
  /\ pending # <<>>
  /\ LET e == pending[1]
     IN  /\ e.ins.op = "store" /\ ~Traps(e.ins) /\ ~e.done
         /\ mem' = regs[e.ins.rs]
         /\ pending' = [pending EXCEPT ![1].done = TRUE] \o new
  /\ UNCHANGED <<regs, csr>>

\* The oldest instruction takes effect; a store must have written before.
Retire(new) ==
  /\ pending # <<>>
  /\ LET e == pending[1]
     IN  /\ ~Traps(e.ins) /\ ~Serialises(e.ins)
         /\ e.ins.op = "store" => e.done
         /\ Effect(e.ins)
  /\ pending' = Tail(pending) \o new
  /\ UNCHANGED mem

\* The oldest instruction takes effect and everything behind it is dropped:
\* fence.i, mret, or an interrupt taken after any instruction.
RetireAndFlush ==
  /\ pending # <<>>
  /\ LET e == pending[1]
     IN  /\ ~Traps(e.ins)
         /\ e.ins.op = "store" => e.done
         /\ Effect(e.ins)
  /\ pending' = <<>>
  /\ UNCHANGED mem

\* The oldest instruction traps.
Trap ==
  /\ pending # <<>>
  /\ Traps(pending[1].ins)
  /\ pending' = <<>>
  /\ UNCHANGED <<regs, csr, mem>>

ArchNext ==
  \/ \E new \in {<<>>} \cup {<<Entry(i)>> : i \in Ins} : Accept(new) \/ Perform(new) \/ Retire(new)
  \/ RetireAndFlush
  \/ Trap

ArchSpec == ArchInit /\ [][ArchNext]_arch_vars
==========================================================================

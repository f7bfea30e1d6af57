----------------------------- MODULE Backend -----------------------------
(***************************************************************************)
(* The execution part of the core: decode (HiCore_Decode), issue           *)
(* (HiCore_Issue), the units (bjp, nop, alu, csr, agu, lsu), the reorder   *)
(* buffer and commit (HiCore_commit), with the register file.  A step is a *)
(* clock cycle.  The inputs of a cycle are the record "in":                *)
(*   fetch      what the fetch buffer offers: <<>> or <<[ins, cancel]>>    *)
(*   irq        the oldest instruction has an enabled interrupt recorded   *)
(*   cmd_ready  the bus takes the command of the load/store unit           *)
(*   rsp_valid  the bus answers the command it holds                       *)
(* Wires are operators; the name is the Verilog one.  Every slave of the   *)
(* bus ties rsp_err to 0, so bus errors are left out.                      *)
(***************************************************************************)
EXTENDS ROB, CancelBuf, Instr

CONSTANTS LsuDepth,     \* depth of the LSU queues: 4 in the code
          Irqs          \* {FALSE}: no interrupt line is ever up; BOOLEAN otherwise

ASSUME BackendAssumption == LsuDepth \in Nat \ {0} /\ Irqs \subseteq BOOLEAN

VARIABLES
  de2issue,     \* decode -> issue pipe: [ptr, ins, src, cancel]
  alu2wb,       \* ALU result pipe: [ptr, dat, cancel]
  csr2wb,       \* CSR result pipe: [ptr, dat, csrdat, cancel]
  agu2lsu,      \* address pipe: [ptr, excp, read, wdat, cancel]
  excp_queue,   \* misaligned accesses: [ptr, cancel]
  mem_queue,    \* accesses without their answer: [ptr, cancel]
  mem_fifo,     \* commands the bus has not taken: [read, wdat]
  bus,          \* the command the bus has taken: [read, dat]
  rob_entry,    \* payload of the slots: [ins, excp, dat, csrdat]
  regs, csr,    \* architectural registers
  mem,          \* the memory word
  redirect      \* entries of the old path may still come from the fetch buffer

pipe_vars == <<de2issue, alu2wb, csr2wb, agu2lsu, excp_queue, mem_queue, mem_fifo, bus>>
vars == <<rob_vars, pipe_vars, rob_entry, regs, csr, mem, redirect>>

\* The payload of an EMPTY slot is never read; it is forgotten here.
NoEntry == [ins |-> [op |-> "nop", rd |-> 0, rs |-> 0, mis |-> FALSE, taken |-> FALSE],
            excp |-> FALSE, dat |-> 0, csrdat |-> 0]
--------------------------------------------------------------------------
\* Commit (HiCore_commit.v)

Oldest == rob_entry[SlotOf(rob_head_ptr)]

excp_en     == commit_ready /\ Oldest.excp
irq_en(in)  == commit_ready /\ in.irq
flush(in)   == \/ excp_en \/ irq_en(in)
               \/ commit_ready /\ Oldest.ins.op \in {"fence_i", "mret"}

\* rd_need of decode, false for a trapping word.
rd_need(ins) == ins.op \in {"alu", "csr", "load", "jalr"}

\* Mutant: an instruction that traps still writes its register.
reg_wen_DespiteExcp == commit_ready /\ rd_need(Oldest.ins)

reg_wen == commit_ready /\ ~excp_en /\ rd_need(Oldest.ins)
csr_wen == commit_ready /\ ~excp_en /\ Oldest.ins.op = "csr"

CommitStep ==
  /\ regs' = IF reg_wen /\ Oldest.ins.rd # 0
             THEN [regs EXCEPT ![Oldest.ins.rd] = Oldest.dat] ELSE regs
  /\ csr' = IF csr_wen THEN Oldest.csrdat ELSE csr
--------------------------------------------------------------------------
\* Load/store unit (HiCore_lsu.v)

\* Mutant: the arbiter lets a misaligned access go only with an answer.
excp_pop_WithRsp(in) == Valid(excp_queue) /\ in.rsp_valid
excp_pop(in) == Valid(excp_queue) /\ ~in.rsp_valid
mem_pop(in)  == Valid(mem_queue) /\ in.rsp_valid

LsuIn == agu2lsu[1]
\* Mutant: mem_queue is taken to have room.
mem_push_NoQueueReady == /\ Valid(agu2lsu) /\ ~LsuIn.excp /\ ~LsuIn.cancel
                         /\ QueueReady(mem_fifo, LsuDepth)
mem_push == /\ Valid(agu2lsu) /\ ~LsuIn.excp /\ ~LsuIn.cancel
            /\ QueueReady(mem_queue, LsuDepth) /\ QueueReady(mem_fifo, LsuDepth)
excp_push(in) == /\ Valid(agu2lsu) /\ LsuIn.excp /\ ~LsuIn.cancel
                 /\ PipeReady(excp_queue, excp_pop(in))
\* o_agu2lsu_ready, given that the pipe holds an access
agu_pop(in) == Valid(agu2lsu) /\ (LsuIn.cancel \/ mem_push \/ excp_push(in))

\* The command offered to the bus: the oldest waiting one, or the new one
\* straight through the bypass of mem_bypbuf.
NewCmd    == When(mem_push, [read |-> LsuIn.read, wdat |-> LsuIn.wdat])
Cmds      == mem_fifo \o NewCmd
cmd_fire(in) == Cmds # <<>> /\ in.cmd_ready

LsuStep(in) ==
  /\ mem_queue' = BufNext(mem_queue,
                          When(mem_push, [ptr |-> LsuIn.ptr, cancel |-> FALSE]),
                          mem_pop(in), flush(in))
  /\ excp_queue' = BufNext(excp_queue,
                           When(excp_push(in), [ptr |-> LsuIn.ptr, cancel |-> FALSE]),
                           excp_pop(in), flush(in))
  /\ mem_fifo' = IF cmd_fire(in) THEN Tail(Cmds) ELSE Cmds

\* The bus holds one command at a time (the register of sirv_icb_splt is
\* full until the answer is taken); a memory is written when the command is
\* taken and keeps the word of a load until it is answered.
BusStep(in) ==
  /\ bus' = IF cmd_fire(in)
            THEN <<[read |-> Cmds[1].read, dat |-> IF Cmds[1].read THEN mem ELSE 0]>>
            ELSE IF in.rsp_valid THEN <<>> ELSE bus
  /\ mem' = IF cmd_fire(in) /\ ~Cmds[1].read THEN Cmds[1].wdat ELSE mem
--------------------------------------------------------------------------
\* Issue and the units (HiCore_Issue.v, bjp, nop, alu, csr, agu)

Iss == de2issue[1]
agu_sel(op) == op \in {"load", "store"}

\* Mutants.
agu_valid_AnyStore == TRUE

\* i_agu2lsu_valid: a store waits until it is the oldest instruction.
agu_valid == Iss.ins.op = "load" \/ SlotOf(rob_head_ptr) = Iss.ptr
\* i_de2issue_ready: bjp, nop, alu and csr always take their instruction.
issue_pop(in) ==
  /\ Valid(de2issue)
  /\ agu_sel(Iss.ins.op) => agu_valid /\ PipeReady(agu2lsu, agu_pop(in))

Issued(in, ops) == issue_pop(in) /\ Iss.ins.op \in ops

ExecStep(in) ==
  /\ alu2wb' = BufNext(alu2wb,
                 When(Issued(in, {"alu"}),
                      [ptr |-> Iss.ptr, dat |-> AluOp(Iss.src),
                       cancel |-> Iss.cancel]),
                 Valid(alu2wb), flush(in))
  /\ csr2wb' = BufNext(csr2wb,
                 When(Issued(in, {"csr"}),
                      [ptr |-> Iss.ptr, dat |-> csr, csrdat |-> Iss.src,
                       cancel |-> Iss.cancel]),
                 Valid(csr2wb), flush(in))
  /\ agu2lsu' = BufNext(agu2lsu,
                  When(Issued(in, {"load", "store"}),
                       [ptr |-> Iss.ptr, excp |-> Iss.ins.mis,
                        read |-> Iss.ins.op = "load", wdat |-> Iss.src,
                        cancel |-> Iss.cancel]),
                  agu_pop(in), flush(in))
--------------------------------------------------------------------------
\* Write-back: what each unit delivers to the reorder buffer in this cycle.

Wb(o, excp, dat, csrdat) ==
  [ptr |-> o.ptr, excp |-> excp, dat |-> dat, csrdat |-> csrdat]

bjp_nop_wb(in) ==
  IF Valid(de2issue) /\ ~Iss.cancel /\ ~flush(in)
     /\ Iss.ins.op \notin {"alu", "csr", "load", "store"}
  THEN {Wb(Iss, Iss.ins.op = "ecall", LinkVal, 0)} ELSE {}
alu_wb(in) ==
  IF Valid(alu2wb) /\ ~alu2wb[1].cancel /\ ~flush(in)
  THEN {Wb(alu2wb[1], FALSE, alu2wb[1].dat, 0)} ELSE {}
csr_wb(in) ==
  IF Valid(csr2wb) /\ ~csr2wb[1].cancel /\ ~flush(in)
  THEN {Wb(csr2wb[1], FALSE, csr2wb[1].dat, csr2wb[1].csrdat)} ELSE {}

\* Mutants.
lsu_wb_IgnoreCancel(in) ==
  IF mem_pop(in) THEN {Wb(mem_queue[1], FALSE, bus[1].dat, 0)}
  ELSE IF excp_pop(in) THEN {Wb(excp_queue[1], TRUE, 0, 0)} ELSE {}

\* The answer of the bus goes before a waiting misaligned access; unlike
\* the other units, this one is not silenced by a flush.
lsu_wb(in) ==
  IF mem_pop(in) /\ ~mem_queue[1].cancel THEN {Wb(mem_queue[1], FALSE, bus[1].dat, 0)}
  ELSE IF excp_pop(in) /\ ~excp_queue[1].cancel THEN {Wb(excp_queue[1], TRUE, 0, 0)} ELSE {}

WriteBacks(in) == bjp_nop_wb(in) \cup alu_wb(in) \cup csr_wb(in) \cup lsu_wb(in)
--------------------------------------------------------------------------
\* Decode (HiCore_Decode.v) and its dependency check (HiCore_ROB.v:197-206)

rs_need(ins) == ins.op \in {"alu", "csr", "load", "store", "branch", "jalr"}

\* Mutants.
depend_OnlyMapped(f) ==
  /\ ~f.cancel
  /\ \E s \in Slot :
       /\ rob_state[s] = MAPPED_S
       /\ \/ rs_need(f.ins) /\ f.ins.rs # 0 /\ rob_entry[s].ins.rd = f.ins.rs
          \/ f.ins.op = "csr" /\ rob_entry[s].ins.op = "csr"

\* An older instruction in the buffer names the source as its rd field
\* (needed or not), or both are CSR instructions.
depend(f) ==
  /\ ~f.cancel
  /\ \E s \in Slot :
       /\ rob_state[s] # EMPTY_S
       /\ \/ rs_need(f.ins) /\ f.ins.rs # 0 /\ rob_entry[s].ins.rd = f.ins.rs
          \/ f.ins.op = "csr" /\ rob_entry[s].ins.op = "csr"
dep(f) == depend(f) \/ (f.ins.op = "fence" /\ ~rob_empty) \/ rob_full

Accepted(in) == /\ in.fetch # <<>>
                /\ ~dep(in.fetch[1])
                /\ PipeReady(de2issue, issue_pop(in))

rob_wen(in) == Accepted(in) /\ ~in.fetch[1].cancel /\ ~flush(in)
\* Mutant: a cancelled jump still redirects.
branch_DespiteCancel(in) == LET f == in.fetch[1]
                            IN  Accepted(in) /\ (f.ins.op = "jalr" \/ (f.ins.op = "branch" /\ f.ins.taken))
branch(in)  == LET f == in.fetch[1]
               IN  Accepted(in) /\ ~f.cancel /\ (f.ins.op = "jalr" \/ (f.ins.op = "branch" /\ f.ins.taken))

\* A cancelled entry takes no slot but still travels with the tail pointer.
DecodeStep(in) ==
  LET f == in.fetch[1]
  IN  /\ de2issue' = BufNext(de2issue,
                       When(Accepted(in),
                            [ptr |-> SlotOf(rob_tail_ptr), ins |-> f.ins,
                             src |-> regs[f.ins.rs], cancel |-> f.cancel]),
                       issue_pop(in), flush(in))
      /\ redirect' = \/ flush(in) \/ branch(in)
                     \/ redirect /\ ~(Accepted(in) /\ ~f.cancel)

\* Payload of slot s after the cycle; wbs are the write-backs of the cycle.
EntryNext(in, wbs, s) ==
  IF rob_wen(in) /\ s = SlotOf(rob_tail_ptr) THEN [NoEntry EXCEPT !.ins = in.fetch[1].ins]
  ELSE IF \E w \in wbs : w.ptr = s
       THEN LET w == CHOOSE w \in wbs : w.ptr = s
            IN  [ins |-> rob_entry[s].ins, excp |-> w.excp,
                 dat |-> w.dat, csrdat |-> w.csrdat]
  ELSE IF commit_ready /\ s = SlotOf(rob_head_ptr) THEN NoEntry
  ELSE rob_entry[s]

RobUpdate(in) ==
  LET wbs == WriteBacks(in)
  IN  /\ RobStep(rob_wen(in), {w.ptr : w \in wbs}, flush(in))
      /\ rob_entry' = IF flush(in) THEN [s \in Slot |-> NoEntry]
                      ELSE [s \in Slot |-> EntryNext(in, wbs, s)]
--------------------------------------------------------------------------
Init ==
  /\ RobInit
  /\ de2issue = <<>> /\ alu2wb = <<>> /\ csr2wb = <<>> /\ agu2lsu = <<>>
  /\ excp_queue = <<>> /\ mem_queue = <<>> /\ mem_fifo = <<>> /\ bus = <<>>
  /\ rob_entry = [s \in Slot |-> NoEntry]
  /\ regs = [r \in Reg |-> 0] /\ csr = 0 /\ mem = 0
  /\ redirect = FALSE

Tick(in) ==
  /\ DecodeStep(in) /\ ExecStep(in) /\ LsuStep(in) /\ BusStep(in)
  /\ RobUpdate(in) /\ CommitStep

(***************************************************************************)
(* The surroundings.  The fetch buffer offers cancelled entries after a    *)
(* redirection, until the first entry of the new path; only a cancelled    *)
(* fetch exception (of the class of ecall) may come later (StreamOrder of  *)
(* Fetch).  An entry that decode holds up (dep) leaves no trace, which is  *)
(* the case of no offer.                                                   *)
(***************************************************************************)
Offers ==
  LET Entry == {f \in [ins : Ins, cancel : BOOLEAN] : f.cancel => redirect \/ f.ins.op = "ecall"}
  IN  {<<>>} \cup {<<f>> : f \in {f \in Entry : ~dep(f)}}
CmdReadies == IF bus = <<>> THEN BOOLEAN ELSE {FALSE}
RspValids  == IF bus = <<>> THEN {FALSE} ELSE BOOLEAN
IrqsNow == IF commit_ready THEN Irqs ELSE {FALSE}    \* otherwise not read
Inputs == [fetch : Offers, irq : IrqsNow, cmd_ready : CmdReadies, rsp_valid : RspValids]

Next == \E in \in Inputs : Tick(in)
Spec == Init /\ [][Next]_vars
--------------------------------------------------------------------------
\* Entries of the pipes, of the queues, of the bus and of the reorder buffer.
DeEntry  == [ptr : Slot, ins : Ins, src : Val, cancel : BOOLEAN]
AluEntry == [ptr : Slot, dat : Val, cancel : BOOLEAN]
CsrEntry == [ptr : Slot, dat : Val, csrdat : Val, cancel : BOOLEAN]
AguEntry == [ptr : Slot, excp : BOOLEAN, read : BOOLEAN, wdat : Val, cancel : BOOLEAN]
LsuEntry == [ptr : Slot, cancel : BOOLEAN]
CmdEntry == [read : BOOLEAN, wdat : Val]
BusEntry == [read : BOOLEAN, dat : Val]
RobEntry == [ins : Ins \cup {NoEntry.ins}, excp : BOOLEAN, dat : Val, csrdat : Val]

\* Every register holds values of its type and no buffer exceeds its depth.
TypeOK ==
  /\ RobTypeOK
  /\ de2issue \in Seq(DeEntry) /\ Len(de2issue) <= 1
  /\ alu2wb \in Seq(AluEntry) /\ Len(alu2wb) <= 1
  /\ csr2wb \in Seq(CsrEntry) /\ Len(csr2wb) <= 1
  /\ agu2lsu \in Seq(AguEntry) /\ Len(agu2lsu) <= 1
  /\ excp_queue \in Seq(LsuEntry) /\ Len(excp_queue) <= 1
  /\ mem_queue \in Seq(LsuEntry) /\ Len(mem_queue) <= LsuDepth
  /\ mem_fifo \in Seq(CmdEntry) /\ Len(mem_fifo) <= LsuDepth
  /\ bus \in Seq(BusEntry) /\ Len(bus) <= 1
  /\ rob_entry \in [Slot -> RobEntry]
  /\ regs \in [Reg -> Val] /\ csr \in Val /\ mem \in Val /\ redirect \in BOOLEAN

\* The units that hold operations, and the places <<unit, position>> that hold
\* an operation for slot s that is not cancelled.
Units == <<de2issue, alu2wb, csr2wb, agu2lsu, excp_queue, mem_queue>>
LiveFor(s) == {p \in (1 .. 6) \X (1 .. LsuDepth) :
                 LET unit == Units[p[1]]
                 IN  p[2] <= Len(unit) /\ ~unit[p[2]].cancel /\ unit[p[2]].ptr = s}

(***************************************************************************)
(* A slot waits for a result exactly when one operation that is not        *)
(* cancelled is under way for it, and never two.  So no instruction is     *)
(* lost, none is written back twice, and an operation that outlives a      *)
(* flush (a load on the bus, an entry of a pipe) never writes into the     *)
(* slot's next owner.                                                      *)
(***************************************************************************)
OneOperationPerSlot ==
  \A s \in Slot :
    IF rob_state[s] = MAPPED_S THEN \E p \in LiveFor(s) : LiveFor(s) = {p} ELSE LiveFor(s) = {}

(***************************************************************************)
(* The n-th command on or towards the bus belongs to the n-th entry of     *)
(* mem_queue, which is how HiCore_lsu.v:148-178 gives an answer its slot;  *)
(* and a write among them is not cancelled and belongs to the oldest       *)
(* instruction, still without result.  So memory is written only for       *)
(* instructions that will retire.                                          *)
(***************************************************************************)
Commands == [k \in 1 .. Len(bus) |-> bus[k].read] \o [k \in 1 .. Len(mem_fifo) |-> mem_fifo[k].read]
WritesAreOldest ==
  /\ Len(Commands) = Len(mem_queue)
  /\ \A k \in 1 .. Len(Commands) :
       ~Commands[k] => /\ ~mem_queue[k].cancel
                       /\ mem_queue[k].ptr = SlotOf(rob_head_ptr)
                       /\ rob_state[SlotOf(rob_head_ptr)] = MAPPED_S

(***************************************************************************)
(* The pipeline, with its units working in parallel, its speculation and   *)
(* its cancelled leftovers, implements the in-order machine of InOrder.    *)
(***************************************************************************)
SlotAt(age) == IF SlotOf(rob_head_ptr) + age < RobSize
               THEN SlotOf(rob_head_ptr) + age ELSE SlotOf(rob_head_ptr) + age - RobSize
StoreDone == /\ Oldest.ins.op = "store"
             /\ (commit_ready /\ ~Oldest.excp) \/ (bus # <<>> /\ ~bus[1].read)
Pending == [k \in 1 .. RobCount |->
             [ins |-> rob_entry[SlotAt(k - 1)].ins, done |-> k = 1 /\ StoreDone]]
Arch == INSTANCE InOrder WITH pending <- Pending
ImplementsInOrder == Arch!ArchSpec

\* Every instruction in the buffer gets its result or is flushed.
ResultsArrive == \A s \in Slot : rob_state[s] = MAPPED_S ~> rob_state[s] # MAPPED_S
==========================================================================

------------------------------- MODULE Core ------------------------------
(***************************************************************************)
(* The core (HiCore_cpu): the fetch unit of Fetch before the execution     *)
(* part of Backend, sharing the ITCM, running a program.  What each of the *)
(* two modules takes as an input is here an output of the other; the only  *)
(* inputs left are the interrupt lines.  A step is a clock cycle.          *)
(***************************************************************************)
EXTENDS Backend

CONSTANTS NPc, Itcm, QueueDepth, BufDepth,  \* as in Fetch
          Mtvec,                            \* the trap handler
          Programs    \* of [word: [Itcm -> [ins, target]], itcm: data is in the ITCM]

VARIABLES
  prog,                                     \* the program
  pc, excp_pipe, if_queue, if2de,           \* the fetch unit; if_queue: its mem_queue
  itcm_vld, addr_r, arbt_queue,             \* the ITCM and its arbiter
  rob_pc,                                   \* the addresses in the reorder buffer
  mepc,
  still                                     \* history: the last cycle changed nothing

fetch_regs == <<pc, excp_pipe, if_queue, if2de, itcm_vld, addr_r, arbt_queue>>
core_regs  == <<vars, fetch_regs, rob_pc, mepc>>
core_vars  == <<core_regs, prog, still>>

--------------------------------------------------------------------------
\* The load/store unit as the ITCM sees it: the command it waits to hand
\* over and the one that is not answered yet.
Kind(c) == IF c.read THEN "read" ELSE "write"
LsuCmd  == IF prog.itcm /\ bus = <<>> /\ mem_fifo # <<>> THEN Kind(mem_fifo[1]) ELSE "none"
LsuWait == IF prog.itcm /\ bus # <<>> THEN Kind(bus[1]) ELSE "none"
LsuNew  == IF prog.itcm /\ bus = <<>> /\ mem_fifo = <<>> /\ NewCmd # <<>>
           THEN Kind(NewCmd[1]) ELSE "none"

Faulty(s) == rob_state[s] # EMPTY_S /\ rob_pc[s] \notin Itcm
RobHolds == IF rob_empty THEN "empty" ELSE IF \E s \in Slot : Faulty(s) THEN "trap" ELSE "some"

F == INSTANCE Fetch WITH mem_queue <- if_queue, lsu_cmd <- LsuCmd, lsu_wait <- LsuWait,
                         rob <- RobHolds, Targets <- 0 .. NPc - 1, KeepCancelled <- TRUE
--------------------------------------------------------------------------
\* The program.  A faulting fetch is of the class of ecall (HiCore_Decode.v).
Faults == [op |-> "ecall", rd |-> 0, rs |-> 0, mis |-> FALSE, taken |-> FALSE]
Fetched(e) == IF e.excp \/ e.word \notin Itcm THEN Faults ELSE prog.word[e.word].ins
InsAt(p) == IF p \in Itcm THEN prog.word[p].ins ELSE Faults
jumps(ins) == ins.op = "jalr" \/ (ins.op = "branch" /\ ins.taken)
next_pc(p) == IF jumps(InsAt(p)) THEN prog.word[p].target ELSE F!PcInc(p)

commit_pc == rob_pc[SlotOf(rob_head_ptr)]
flush_pc(b) == IF excp_en \/ irq_en(b) THEN Mtvec
               ELSE IF Oldest.ins.op = "fence_i" THEN next_pc(commit_pc) ELSE mepc

\* The wires between the two parts.  The DTCM always takes a command, and
\* both memories answer in the cycle after it.
\* Mutant: the splitter lets a command through behind an unanswered one.
BackendIn_NoSplitter(irq) ==
  [fetch |-> [k \in 1 .. Len(F!Offered) |->
                [ins |-> Fetched(F!Offered[k]), cancel |-> F!Offered[k].cancel]],
   irq |-> irq,
   cmd_ready |-> prog.itcm => F!cmd_ready,
   rsp_valid |-> bus # <<>> /\ (prog.itcm => F!rsp_valid("lsu"))]
BackendIn(irq) ==
  [fetch |-> [k \in 1 .. Len(F!Offered) |->
                [ins |-> Fetched(F!Offered[k]), cancel |-> F!Offered[k].cancel]],
   irq |-> irq,
   cmd_ready |-> bus = <<>> /\ (prog.itcm => F!cmd_ready),
   rsp_valid |-> bus # <<>> /\ (prog.itcm => F!rsp_valid("lsu"))]
FetchIn(b) ==
  [o_rdy  |-> Accepted(b),
   branch |-> When(branch(b), next_pc(F!Offered[1].pc)),
   flush  |-> When(flush(b), flush_pc(b)),
   retire |-> commit_ready /\ RobCount = 1,
   lsu    |-> LsuNew]

CoreInit ==
  /\ Init
  /\ prog \in Programs
  /\ pc = 0 /\ excp_pipe = <<>> /\ if_queue = <<>> /\ if2de = <<>>
  /\ itcm_vld = FALSE /\ addr_r = 0 /\ arbt_queue = <<>>
  /\ rob_pc = [s \in Slot |-> 0] /\ mepc = 0
  /\ still = FALSE

\* The address of a freed slot is forgotten.
CoreTick(irq) ==
  LET b == BackendIn(irq)
      f == FetchIn(b)
  IN  /\ Tick(b)
      /\ F!FetchStep(f) /\ F!ItcmStep(f)
      /\ rob_pc' = [s \in Slot |-> IF rob_state'[s] = EMPTY_S THEN 0
                                   ELSE IF rob_wen(b) /\ s = SlotOf(rob_tail_ptr)
                                   THEN F!Offered[1].pc ELSE rob_pc[s]]
      /\ mepc' = IF excp_en THEN commit_pc
                 ELSE IF irq_en(b) THEN next_pc(commit_pc) ELSE mepc
      /\ still' = (core_regs' = core_regs)
      /\ UNCHANGED prog

CoreNext == \E irq \in IrqsNow : CoreTick(irq)
\* The clock never stops: the registers keep their values for ever only
\* after a cycle that left them alone.
ClockTicks == []<>still \/ []<><<TRUE>>_core_vars
CoreSpec == CoreInit /\ [][CoreNext]_core_vars /\ ClockTicks
\* Without interrupts a cycle has no inputs, and this says the same.
CoreFairSpec == CoreInit /\ [][CoreNext]_core_vars /\ WF_core_vars(CoreNext)
--------------------------------------------------------------------------
\* The next instruction to retire: the oldest in the reorder buffer, else
\* the first one on its way to decode that is not cancelled.
ArchPc == IF ~rob_empty THEN commit_pc ELSE SelectSeq(F!Stream, F!Live)[1].pc

(***************************************************************************)
(* The instructions that retire are those of the program, one after the    *)
(* other: a trap or an interrupt goes to the handler, mret to mepc, a jump *)
(* to its target, and no redirection loses, repeats or adds one.           *)
(***************************************************************************)
Successors == IF excp_en THEN {Mtvec}
              ELSE (IF Oldest.ins.op = "mret" THEN {mepc} ELSE {next_pc(commit_pc)})
                   \cup (IF TRUE \in Irqs THEN {Mtvec} ELSE {})
RunsProgram ==
  [][/\ commit_ready => ArchPc' \in Successors
     /\ ~commit_ready => ArchPc' = ArchPc
     /\ ~rob_empty => Oldest.ins = InsAt(commit_pc)]_core_vars

(***************************************************************************)
(* Each part gets from the other what its own module assumes: the core     *)
(* implements the specification of Backend, and that of Fetch with the     *)
(* wires of the cycle as its inputs (where a command comes up behind one   *)
(* that is answered, Fetch sees it as new).  So decode branches and commit *)
(* flushes only for an instruction that fetch has delivered, cancelled     *)
(* entries come only behind a redirection, and a fetch exception that      *)
(* decode has taken ends in a flush.                                       *)
(***************************************************************************)
BackendAssumed == Spec
FetchAssumed ==
  /\ F!FetchInit
  /\ [][\E irq \in IrqsNow, lsu \in {LsuNew} \cup (IF bus = <<>> THEN {} ELSE {"read", "write"}) :
          \E f \in {[FetchIn(BackendIn(irq)) EXCEPT !.lsu = lsu]} :
            f \in F!Inputs /\ F!FetchTick(f)]_core_vars

(***************************************************************************)
(* The core keeps retiring instructions: fetch, decode, the units and the  *)
(* ITCM they share never wait for each other in a circle, and a trap       *)
(* reaches its handler.  That is so for programs without stores.           *)
(***************************************************************************)
NoStores == \A p \in Itcm : prog.word[p].ins.op # "store"
KeepsRetiring == []<>commit_ready
KeepsRetiringNoStores == NoStores => KeepsRetiring
==========================================================================

# A TLA+ verification of HiCore

HiCore (`src/rtl/core`) is a 32-bit RISC-V core with in-order issue, parallel
units, a reorder buffer and precise exceptions, with tightly coupled memories, a
bus splitter, an interrupt controller (PLIC) and a timer (CLINT) around it. This
directory holds TLA+ models of it, the TLC configurations that check them and
TLAPS proofs. Line numbers refer to files of `src/rtl/core`. The reference for what
instructions and the timer do is the instruction set simulator kept with the core
(`src/riscv-tools/riscv-isa-sim`).

## The system and its parts

| Part | Source | What it does |
|---|---|---|
| fetch | `HiCore_ifetch.v` | program counter, fetch commands to the ITCM, fetch exceptions, buffer before decode |
| decode, branch | `HiCore_Decode.v`, `HiCore_branch.v` | classification, dependency stall, operand read, branch resolution, slot allocation |
| issue | `HiCore_Issue.v` | hands the instruction to one unit |
| units | `HiCore_bjp.v`, `HiCore_nop.v`, `HiCore_alu.v`, `HiCore_csr.v`, `HiCore_agu.v`, `HiCore_lsu.v` | results, each with its own delay |
| reorder buffer | `HiCore_ROB.v` | slots from allocation to commit, dependency information |
| commit | `HiCore_commit.v` | register and CSR write, trap, flush |
| storage blocks | `HiCore_pipe.v`, `HiCore_mem_queue.v`, `sirv_bypbuf.v` | every handshake between the parts goes through one of them |
| bus | `HiCore_biu.v`, `sirv_icb_splt.v`, `sirv_icb_arbt.v` | address decoder, splitter with one command at a time, ITCM arbiter |
| slaves | `HiCore_dtcm_ctrl.v`, `sirv_sim_ram.v`, `HiCore_plic_top.v`, `sirv_plic_man.v`, `sirv_LevelGateway.v`, `HiCore_Clint.v`, `HiCore_nop_slave.v` | memories, interrupt controller, timer, idle slave |
| top | `HiCore_cpu.v`, `config.v`, `gnrl_dffs.v` | wiring, sizes, flip-flops |

The core is synchronous. Decode takes an entry of the fetch buffer when it has
no dependency on the reorder buffer, gives it the tail slot and passes it to
issue. The unit writes the result into the slot, the oldest slot commits when it
has its result. A trap, an interrupt, `fence.i` and `mret` flush: the reorder
buffer is emptied, and every entry in a pipe or queue is *marked cancelled* rather
than removed. It goes on travelling, may still be on the bus, and is thrown away
where it would take effect. A taken branch does the same to the fetch stage only.
Most of what can go wrong lies there.

The vendored files `sirv_gnrl_*.v` are not instantiated; `src/rtl/*.v` is an
older copy and `src/vsim/install/rtl` an identical one.

## How the models are written

A step is a clock edge. A register is a variable, a wire an operator with the
Verilog name, the input wires of a module are the parameters of its step and are
chosen with `\E`. A step of a composed module is the conjunction of the steps of
all its parts, so every register moves on every edge as in hardware.

| Module | Models | State and correspondence |
|---|---|---|
| `ROB` | `HiCore_ROB.v` 86-180 | pointers with wrap bit, slot states; `RobStep(issue_wen, wb, flush)` is the clock edge, `RobRely` what the buffer relies on |
| `CancelBuf`, `CancelFifo` | - | what a storage block promises: `BufNext` is one cycle of a FIFO whose entries can be cancelled in place; `CancelFifo` is the abstract specification, which fixes the next contents from what happens at the ports |
| `PipeReg`, `Queue`, `Bypbuf` | `HiCore_pipe.v`, `HiCore_mem_queue.v`, `sirv_bypbuf.v` | every flop of the blocks; `put`, `got` and `flushed` are what the producer handed over, what the consumer took and the flush input in the last cycle |
| `Instr` | the instruction set as far as control depends on it | an instruction is `[op, rd, rs, mis, taken]` |
| `Backend` | decode to commit with the load/store unit | the pipes and queues as `CancelBuf` sequences, the reorder buffer with payloads, registers, one CSR, one memory word; `Tick(in)` is the cycle with inputs `in` |
| `InOrder` | the promise of the execution part | a queue of decoded instructions that take effect one at a time |
| `Trap` | reorder buffer, commit, trap registers and instruction counter of `HiCore_csr.v`, program counter | addresses and interrupt lines recorded per slot, MIE, MPIE, mie, mepc, mcause, the two halves of minstret, `fetch_pc` |
| `Hart` | the promise of the privileged part | one instruction at a time, traps between them, one count of instructions |
| `Fetch` | `HiCore_ifetch.v`, `sirv_icb_arbt.v`, ITCM (`HiCore_dtcm_ctrl.v`, `sirv_sim_ram.v`) | program counter, exception pipe, queue of fetches, buffer before decode, port queue, response and address register of the ITCM, the command of the load/store unit; `FetchTick(in)` is the cycle |
| `Plic` | `sirv_plic_man.v`, `sirv_LevelGateway.v` as `HiCore_plic_top.v` sets them up | the registers of the controller as sets of sources, the response pipe as a `PipeReg`; `PlicStep(lines, cmd, ready)` is the cycle; `serving` is what software has claimed and not completed |
| `Core` | `HiCore_cpu.v`: `Fetch` before `Backend`, one ITCM for both | the variables of both, the program, the addresses in the reorder buffer, mepc; `CoreTick(irq)` is the cycle: `BackendIn` and `FetchIn` are the wires between the parts, the interrupt line is the only input left |
| `Clint` | `HiCore_Clint.v` with `HiCore_sync` | synchroniser, edge flop, the half registers; `ClintStep(fire, async_clk)` is the cycle with the command taken in it |
| `ClintSim` | `riscv-isa-sim/riscv/clint.cc` | mtime and mtimecmp as single variables |
| `Bus` | `HiCore_biu.v`, `sirv_icb_splt.v`, response registers of the five slaves | the register of selected slaves, the response registers, a word per memory, the CLINT; `BusTick(in)` is the cycle; `want` is what the read under way must return, `made` the write to the CLINT taken in the last cycle |
| `TimeRead` | a program that reads the time in halves | `seen` follows its reads |
| `Datapath` | ALU, branch unit, operand selection, byte lanes, CSR operations, cause encoders | operators on words of bits; `ex` is what the units are given |
| `IsaSim` | `riscv-isa-sim/riscv/insns/*.h`, `mmu.h`, `processor.cc` | the same operations on integers |
| `MCBackend`, `MCTrap`, `MCCore` | - | instances for TLC: instruction sets and programs |
| `MCDataPath`, `MCInterrupt` | - | parts that share no state side by side in one run: `part` says which of them works |
| `Lemmas` | - | lemmas on `BufNext`, on a number in two halves and on the reorder buffer |
| `UnitProofs` | - | theorems on `ROB`, `Trap`, `Queue` and `Bypbuf` |
| `BackendProofs`, `BackendExec`, `BackendRefine` | - | theorems on `Backend`: where the operations are; what the registers hold; the refinement of `InOrder` |
| `FetchProofs`, `PlicProofs`, `BusProofs` | - | theorems on `Fetch`; `Plic` and `PipeReg`; `Bus`, `Clint` and `TimeRead` |

`Backend` represents each pipe and queue by a sequence that steps by `BufNext`. That
is justified by the refinements of the storage blocks: `PipeReg`, `Queue` and `Bypbuf`
implement `CancelFifo`, whose step is the same operator. `Trap` replaces everything between
decode and write-back by "any waiting slots may get their results", which is what `Backend`
shows of it when it satisfies `RobSpec`.

Abstractions of data. In `Backend` an ALU operation adds one modulo `NVal`; there is one memory word,
one CSR and registers `0 .. NReg`. This tells apart results computed from old and new
operands, in or out of order. Sources are reduced to one register. `ecall` stands for
every exception known at decode (136). The interrupt lines are recorded in the slot at decode and
masked at commit; in `Backend` nothing reads them before commit, so the choice is made there (`in.irq`), in
`Trap` the line is recorded as in the code. Every slave ties `rsp_err` to 0, so there are no bus errors.
The payload of an empty slot is never read except for the `mret` flag, so `Backend` forgets it; `Trap`
keeps it and shows what the flag does.

The environment of `Backend`: the fetch buffer may offer any instruction or none in any
cycle. Cancelled entries come after a redirection and before the first entry of the
new path (`redirect`), as `HiCore_ifetch` does by marking everything it holds; only a cancelled fetch
exception may come later, since answers of the new path overtake it (`StreamOrder` of `Fetch`). The bus
takes a command when it holds none and answers after any delay. The splitter's register has
`CUT_READY = 1` (138), so a new command is never taken in the cycle of an answer.

The environment of `Fetch`: decode takes the offered entry or not, a taken entry may branch, an instruction
that was taken may flush, and the load/store unit may bring a command to the ITCM whenever it holds none.
A word is named by its address, so a wrong word is seen. An exception that decode has taken ends in a flush,
which is why nothing is asked of the entries behind it.

Both environments are met: `Core` feeds each of the two from the other, and `BackendAssumed` and `FetchAssumed` say that
it implements their specifications. `Fetch` forgets the address of a cancelled entry (nothing reads it);
in `Core`, which gives every entry its instruction, it keeps it (`KeepCancelled`).

The environment of `Bus`: any command to any slave when none is under way, any delay in taking the answer, any word
from the PLIC, any edges of the timer clock. A command that is offered while another one is under way is not taken
and leaves no trace, so it is not offered.

The environment of `Plic`: any lines, any command, any stall of the response; software completes only what it has
claimed. A command that the response register does not let in leaves no trace and is not offered. The tree has `TreeDepth` levels (10 in the code, where all leaves from `PLIC_IRQ_NUM` on are tied to zero).

## What the runs check

| Run | Configuration | Checks | Size |
|---|---|---|---|
| `data_flow` | `BackendData.cfg` | `ImplementsInOrder` with ALU, CSR, load, store, interrupts; `TypeOK`, `OneOperationPerSlot`, `WritesAreOldest`, `RobWindow`, `RobSpec` | 3 slots |
| `control_flow` | `BackendFlow.cfg` | `ImplementsInOrder` with jumps, fence, fence.i, misaligned accesses and decode exceptions | 2 slots |
| `core` | `MCCore.cfg` | `RunsProgram`, `BackendAssumed`, `FetchAssumed`, and the liveness properties `ResultsArrive`, `KeepsRetiringNoStores` | all programs of 3 words, 3 slots, fetch buffer of 8 |
| `redirect_hang` | `CoreStores.cfg` | `KeepsRetiring` fails | programs of loads and stores, no interrupts |
| `fetch` | `MCFetch.cfg` | `FetchTypeOK`, `AnswersBelong`, `StreamOrder`, `LoadsGetThrough`, `NewPathReaches` (the last two liveness) | 11 addresses, 6 of them in the ITCM, buffer of 4 |
| `data_path` | `MCDataPath.cfg` | the bus and the timer: `BusTypeOK`, `SlavesInStep`, `ReadsAddressed`, `TimeReadIsTrue`, `ImplementsClintSim`; the units: `AluAgrees`, `BranchAgrees`, `LanesAgree`, `CsrOpAgrees`, `CauseAgrees`; the bypass buffer: `QueueTypeOK`, `ImplementsFifo`, `CounterTracksContents` | halves of 1 bit, registers of 4 bits, a buffer of 4 |
| `interrupts` | `MCInterrupt.cfg` | the trap registers: `TrapTypeOK`, `ProgramOrder`, `ImplementsHart`; the PLIC: `ClaimedOnce`, `TreePicksBest`, `ClaimsAreCurrent`, `ImplementsFifo`; a stage register: `StageIsFifo` | 2 slots, 2 lines, halves of 1 bit; 2 sources, priorities 0 to 2 |
| `mret_flag` | `TrapMret.cfg` | `MstatusChangesAtCommit` fails | 2 slots |
| `mstatus_write_lost` | `TrapCritical.cfg` | `InterruptKeepsMstatusWrite` fails | 2 slots |
| `mret_interrupted` | `TrapReturn.cfg` | `InterruptSavesReturnPoint` fails | 2 slots |
| `jump_target` | `JumpTarget.cfg` | `JumpsAgree` fails | registers of 4 bits |
| `fetch_overtakes` | `FetchWrap.cfg` | `StreamOrder` fails | 16 addresses, 10 of them in the ITCM, queue of 4 and buffer of 8 as in the code |

* `ImplementsInOrder` is precise exceptions: seen through the refinement mapping (`Pending` is the
  reorder buffer read from head to tail; an entry is `done` when its store has written) every cycle
  of the pipeline is a step of `InOrder` or changes nothing there. Registers, CSR and memory take the
  values they would take one instruction at a time, an instruction that traps changes nothing, and
  everything younger vanishes.
* `OneOperationPerSlot`: a slot waits for a result exactly when one live operation is under way for it.
  It is why a load that outlives a flush on the bus cannot write into the slot's next owner.
* `WritesAreOldest`: the n-th command belongs to the n-th queue entry, and a write among them to the oldest instruction.
* `RobWindow`: the occupied slots are exactly those between head and tail.
* `RobSpec`: the units keep the rely condition under which `RobWindow` is proved.
* `ImplementsHart`: mepc, mcause, mie, MIE, MPIE and the order of instructions are those of the one-at-a-time machine, and the halves of
  minstret are one count of the instructions, also where one is written in the cycle of a carry. An interrupt is accepted only if MIE and its bit of mie are set *after* the instruction
  that retires with it. The program of the run (`LoopProg`) writes mie, mstatus, mepc and both halves of minstret, has `fence.i` and `ecall`, and is interrupted at each of them; its handler
  masks a line.
* `ProgramOrder`: the reorder buffer holds consecutive instructions of the program and fetch stands behind the last.
* `RunsProgram`: the instructions that retire in `Core` are those of the program in its order; a trap or an interrupt goes to the handler, `mret` to mepc, a
  jump to its target, and the instruction that retires is the word at its address.
* `ResultsArrive`: every instruction in the reorder buffer gets its result or is flushed, also when misaligned accesses and answers compete for the write-back port.
* `KeepsRetiringNoStores`: the core retires instructions for ever if the program has no store. Fetch exceptions are not held back by `fifo_half_full`
  and can take the room of a fetch under way; the run shows that this does not lock decode, the reorder buffer and the ITCM into a circle.
* `SlavesInStep`, `ReadsAddressed`: although an access to the CLINT also selects the idle slave (`HiCore_biu.v:85`), no slave keeps an answer back or is waited for in vain,
  and the words or-ed together are the word that was addressed.
* `ImplementsClintSim`: a cycle moves the time of the simulator's device on by the edge of the timer clock and makes the write that the bus took in that cycle (`made`), no other
  and no fewer: a tick with a carry in the cycle of a write loses neither, and no write is lost between the splitter and the device.
* `TimeReadIsTrue`: high, low and high half read one after the other are a time that mtime had in between, if the reads take at most `W * (W - 1)` ticks; in a longer
  time the high half can come round to its old value (2^64 - 2^32 ticks in the code).
* `ImplementsFifo`, `StageIsFifo`: the contents of a storage block are, cycle by cycle, what `put`, `got` and `flushed` make of them. In `data_path` the block is the bypass buffer, in
  `interrupts` the response register of the PLIC (`CUT_READY = 1`); `StageIsFifo` is the same for a register that accepts in the cycle in which its entry leaves (`CUT_READY = 0`), with flushes.
* `AluAgrees`, `BranchAgrees`, `LanesAgree`, `CsrOpAgrees`, `CauseAgrees`: the circuits of `Datapath` against `IsaSim` for every operand of `XLEN` bits. In `data_path` the
  units are given each instruction with each operand in turn.
* `AnswersBelong`: the answer in the ITCM, the port the arbiter remembers and the request of that master fit together, and the RAM still shows the word.
* `StreamOrder`: of what is on its way to decode, the entries that are not cancelled are consecutive words up to `pc`, each with its own word,
  and behind them only fetch exceptions are cancelled. It depends on the address map, see below.
* `LoadsGetThrough`: a load or store to the ITCM gets its turn although decode may wait for it and take nothing; this is what `fifo_half_full` is for.
  The property assumes that no fetch exception is raised: exceptions are not held back by `fifo_half_full`, and a full buffer reads as not half full.
* `NewPathReaches`: decode is offered a live entry again and again, whatever the load/store unit and redirections do.
* `ClaimedOnce`: a source is pending or being served, never both.
* `ClaimsAreCurrent` is about the answer that enters the response register: the source in it is pending, enabled and served by nobody in the cycle of the claim, and it is the only one
  that stops being pending. The number was registered a cycle earlier; the idle cycle of the response register (`CUT_READY = 1`) makes it current, also for a second claim right after the first.
* `TreePicksBest`: the comparison tree against its definition, the highest priority and then the lowest number.

**Bounds.** `RobSize` 2 or 3 (16 in the code): two slots give a full and an empty buffer, wrapped pointers and an
older and a younger instruction; with three there is one between them, and a slot is reused while an older owner's load is still on
the bus. `LsuDepth = 2` (4 in the code) lets both queues fill up; the two may differ by the command on the bus. `NReg = 1` and `NVal = 2`
give a dependency and tell an old operand from a new one. `MCInterrupt.cfg` has two slots,
which hold the instruction that retires and the one behind it; the theorem on `ImplementsHart` is for every size. In `MCFetch.cfg` the ITCM has more words than the
buffer has places, so that the buffer could overflow, and the rest of the addresses are enough exceptions to fill it; the targets are its first and its last word. In `MCCore.cfg` the three words of the ITCM hold any
combination of an ALU instruction, a load, a store, a misaligned load, a jump into or out of the ITCM and `mret`, with the data in either memory; there are more addresses
behind the ITCM than the fetch queue and buffer (of 4 and 8 entries as in the code) hold. `W = 2` makes every second tick carry and lets mtime wrap; `XLEN = 4` has one bit per byte lane,
and the operators are the same for every `XLEN`. The PLIC
has two sources, equal and different priorities, and a tree with a tied leaf. The instruction sets of `MCBackend` are split by
question, since their product with the pipeline state is what limits TLC. No state constraint or counter bound is used: all state spaces are finite.

**Fairness.** *The clock runs.* In `Core` that is all (`ClockTicks`): the registers keep their values for ever only after a cycle that left them
alone (`still` records it). Memories answer in the cycle after a command, as a `HiCore_pipe` does; nothing is assumed of the interrupt line.
`redirect_hang` has no interrupts, so a cycle has no inputs and weak fairness of the cycle (`CoreFairSpec`) says the same.
In `Fetch` alone it is `ClockRuns`: the registers keep their values for ever only where a cycle without inputs leaves them alone. (Weak fairness of the next-state
relation would say more: it would make the environment supply an input whenever nothing else can change.) `FairFetchSpec` adds that decode takes a cancelled
entry or an exception it is offered, and that an exception it has taken reaches commit; both hold where the hang of `redirect_hang`
does not occur. Decode may keep any other entry waiting for ever.

## Where code and documentation disagree

1. **A cancelled store can hang the core** (`redirect_hang`, `HiCore_agu.v:69`). A store waits in issue until the
   head pointer is its slot, also when it is cancelled. After a misaligned `lw`, an
   `lw` and a `sw` the flush moves the head to the slot of the second; the cancelled `sw` has the slot after it and waits for an
   instruction that cannot pass it. The core never retires another instruction.
2. **`mret` acts without a commit** (`mret_flag`, `HiCore_csr.v:151`). The flag of the head slot is not gated by
   `commit_valid`, so an `mret` that waits one cycle pops the interrupt-enable stack twice and always
   leaves interrupts on; an old flag in an empty slot does the same.
3. **An interrupt discards a simultaneous write of mstatus** (`mstatus_write_lost`, `HiCore_csr.v:152`). The end of a critical
   section that follows is reached with interrupts enabled. A write of mie that masks a line is not discarded, but an interrupt of that line is
   still taken with it (`HiCore_commit.v:49` uses the old mie).
4. **An interrupt on `mret` loses the return address** (`mret_interrupted`, `HiCore_csr.v:290`).

5. **A jump to a target that is no multiple of 4 goes wrong** (`jump_target`, `HiCore_branch.v:27`). `jalr` does not clear bit 0 of the sum, so a target that is a multiple of 4 but for that bit
   traps; `ma_fetch.S` of the tests kept with the core (line 42) says that it should not. With bit 1 set the jump should trap, with its own address in mepc and without writing its link (lines 78 and
   86); in the core it retires, link included, and the fetch of the target traps with the target in mepc (`HiCore_ifetch.v:46`). For all other targets the run `data_path` shows that jumps are right.
6. **A word can overtake a fetch exception** (`fetch_overtakes`, `HiCore_ifetch.v:56`). A fetch exception waits for room in the buffer, and the fetch of the next address
   does not wait for the exception (56, 83, 98, 122-135). The last word of the address space is followed by address 0, where the ITCM begins. If a jump goes there while
   the buffer is full of cancelled entries, the word at 0 reaches the buffer before the exception of its predecessor, is decoded first and can retire.

Because of 2 to 4 the trap part of the passing run `interrupts` uses a program without `mret` and without a write that switches interrupts off in the loop; `mret` as a
redirection, without its effect on mstatus, is part of `core`. Because of 6 the address space of `MCFetch.cfg` has no address outside the ITCM before one inside that a redirection
reaches. The proof of `StreamOrder` assumes just that (`RejoinsLate`), so there is no other way to break the order.

The core differs from the simulator in further points, for which we know of no test or document of the repository. They are modelled as the code has them:

* the timer interrupt needs mtime > mtimecmp (118), the simulator's >= (`clint.cc` 69): it comes one tick later, and not at all for a mtimecmp of all ones;
* the CLINT ignores the write mask, so a byte store writes a whole register;
* software cannot write mcause;
* minstret counts the instruction that traps, the simulator's does not (`execute.cc` 194-197, 233);
* a CSR instruction that only reads (`csrrs` with x0) writes the value it read at issue back at commit, which sets a counter back;
* addresses of no region read as zero and ignore writes, without an exception;
* loads are sent out speculatively, also to device registers that change when they are read.

## What is proved

The theorems hold for every value of the constants and are checked by TLAPS. The assumptions on the constants are the ASSUMEs of the modules (positive sizes, a
non-empty payload set, a program whose successors are in it); two theorems assume more, as said there. Every safety property that a passing run checks is proved,
except those of `Core` and `Datapath`.

| Theorem | Module | States |
|---|---|---|
| `BackendImplementsInOrder` | `BackendRefine` | `Spec => ImplementsInOrder` |
| `BackendWritesAreOldest` | `BackendRefine` | `Spec => []WritesAreOldest` |
| `BackendNoneLost` | `BackendProofs` | `Spec => []OneOperationPerSlot` |
| `BackendKeepsRob`, `BackendTypeCorrect` | `BackendProofs` | `Spec => RobSpec /\ []RobWindow`, `Spec => []TypeOK` |
| `RobWindowCorrect`, `RobTypeCorrect` | `UnitProofs` | `RobWindow` and the types under `RobSpec` alone |
| `TrapSafe`, `TrapTypeCorrect` | `UnitProofs` | `ProgramOrder` and the types, for every program |
| `TrapsArePrecise` | `UnitProofs` | `TrapSpec /\ []StillEnabled => ImplementsHart`, assuming `NoMret` |
| `QueueImplementsFifo`, `BypImplementsFifo`, `BypTypeCorrect` | `UnitProofs` | the ring and the bypass buffer implement `CancelFifo`; `CounterTracksContents`, `QueueTypeOK` |
| `PipeImplementsFifo` | `PlicProofs` | the pipe register implements `CancelFifo` of depth 1, for both ready variants |
| `PlicClaimsOnce`, `PlicClaimsAreCurrent`, `PlicPicksBest`, `PlicResponses` | `PlicProofs` | `ClaimedOnce`, `ClaimsAreCurrent`, `TreePicksBest`, `ImplementsFifo` |
| `BusSafe`, `BusSlavesInStep`, `BusTypeCorrect` | `BusProofs` | `ReadsAddressed`, `SlavesInStep`, `BusTypeOK` |
| `ClintImplementsSim`, `TimeReadsAreTrue` | `BusProofs` | `ImplementsClintSim`, `TimeReadIsTrue` |
| `AnswersAlwaysBelong`, `FetchTypeCorrect` | `FetchProofs` | `AnswersBelong`, `FetchTypeOK` |
| `StreamInOrder` | `FetchProofs` | `FetchSpec => []StreamOrder`, assuming `RejoinsLate` |

How the arguments go:

* **Execution part.** The proof has two layers. `Placed` (types, `RobWindow`, `OnePlace`) says where things are: a live operation is in exactly one place of the pipes and queues, and it
  is one that a waiting slot has asked for. It is inductive by itself, since a flush cancels everything and an allocation takes a slot nobody refers to. It also gives the
  rely condition of the reorder buffer (`RobSpec`). `Executes` adds what the places hold. `NoDep` is the scoreboard: no instruction of the buffer reads what an older one in it writes, so the operand that
  decode read is still that of the register file when the instruction retires. `StoresOldest`, `WritesAreOldest`, `AguFirst` and `CmdFirst` order the memory: a store leaves issue only as the oldest
  instruction, so no load that has its word is overtaken by a write. `Results` says that what was written back is what program order gives. The refinement then follows per
  kind of cycle: one that retires nothing, one that retires the oldest, one that flushes (`PendingShape` is the list of pending instructions as a function of the buffer).
* **Reorder buffer.** `RobWindow` with the types is inductive: it fixes which slots are occupied, so that allocation hits a free slot, commit an occupied one and flush empties all.
  `PtrArith` has the arithmetic of wrap-bit pointers.
* **Traps.** `TrapInv` is the types, `RobWindow` and `ProgramOrder`: the address a commit leaves behind is that of the next slot, or of fetch where the buffer becomes empty.
  A cycle is taken apart into one with an exception, an interrupt, another flush, a plain commit and none. `NoMret` leaves out programs with
  `mret`, `StillEnabled` behaviours in which an interrupt is taken with the write that disables it: the property is false for both (2 to 4 above). Programs that switch interrupts off or mask lines are
  covered, as long as no interrupt comes in that very cycle.
* **Storage blocks.** `QueueInv` is the register types and at most `DP` entries; the ring keeps its entries apart only then. `RingPlaces` says where they move,
  `BufNextEntries` what `BufNext` does entry by entry.
* **Bus and timer.** `BusInv` is the types, `SlavesInStep`, which selections `rspid` can hold, and that the response registers hold the word that `want` asks for. The timer needs, besides `BusInv`,
  which says that the CLINT is ready for every write the splitter takes (`ClintGetsTheWrite`), the ranges
  of its registers and the arithmetic of halves: where the carry goes and what replacing a half does. `TimeInv` follows the ticks since the first read (`Since`) and since the second (`LowAfter`).
* **PLIC.** `PlicInv` adds `IdCurrent` to `ClaimedOnce`: whenever a claim can be taken, the registered number still belongs to a source that is pending and enabled. The tree is shown level by level from the
  top to the leaves (`UpTo`), each level selecting the first of the best (`FirstBest`).
* **Fetch.** `FetchInv` is `AnswersBelong` with the shapes of the registers, in particular that the arbiter and the queue of fetches hold at most one entry. `Ordered` ties each place on the way to decode to the one behind it
  (`AfterBuffer`, `AfterQueue`, `FirstExcp`); `StreamOrder` alone does not say where the next word comes from.

Model-checked only:

* all liveness (`ResultsArrive`, `KeepsRetiringNoStores`, `LoadsGetThrough`, `NewPathReaches`), which is outside the prover's reach;
* `RunsProgram`, `BackendAssumed` and `FetchAssumed` of `Core`: they need an invariant over both halves of the pipeline at once, which says of every place which word of
  the program it holds. The halves are proved separately, each under the environment that `Core` is checked to provide;
* `AluAgrees`, `BranchAgrees`, `LanesAgree`, `CsrOpAgrees`, `CauseAgrees`: what the circuits of `Datapath` compute is defined by recursion over the bits and with bitwise operators, for which the prover has
  no induction.

## What is not modelled

* The positions of the fields in an instruction word and the assembly of the immediates (`HiCore_Decode.v` 60-83): an instruction is a record of its fields.
* mcycle, which is minstret with an enable that is always on and would multiply every state space by its period; mtval (the address of the
  instruction on an exception, as mepc) and mip (the interrupt lines one cycle late), which nothing but a CSR read looks at; mtvec as a register.
* The PLIC and the CLINT in one model with the pipeline: `Bus` and `Plic` show what the devices do for any sequence of commands, `Backend` and `Core` what the
  pipeline does for any interrupt line; what is lost is a program that configures them, in particular a cancelled load of the claim register.
* Reset in the middle of operation, metastability of the synchroniser and the timing of the circuits.
* The test bench, the software, the older copy of the RTL and the part of the simulator that has no counterpart in the core.

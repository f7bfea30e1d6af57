-------------------------- MODULE BackendRefine --------------------------
(***************************************************************************)
(* The result of every instruction is the one program order gives it       *)
(* (Results); with the facts of BackendExec it makes the inductive         *)
(* invariant Executes.  From it: the execution part of the core implements *)
(* the in-order machine of InOrder, whose pending instructions are those   *)
(* of the reorder buffer, oldest first (PendingShape).  A cycle that       *)
(* retires nothing adds at most an instruction and performs at most the    *)
(* write of the oldest one; one that retires has the effect of the oldest; *)
(* one that traps drops the rest.                                          *)
(***************************************************************************)
EXTENDS BackendExec

\* The word of a load stays the word of the memory until the load retires.
LEMMA MemKept ==
  ASSUME Placed, Len(Commands) = Len(mem_queue), AguFirst, CmdFirst, NEW in \in Inputs, Tick(in),
         NEW s \in Slot, Loaded(s)
  PROVE  mem' = mem
<1>1. TypeOK
  BY Geometry
<1>2. CASE cmd_fire(in) /\ ~Cmds[1].read
  <2>1. /\ Len(bus) = 0
        /\ Cmds[1].read = IF Len(mem_queue) > 0 THEN Commands[1] ELSE LsuIn.read
        /\ Len(mem_queue) = 0 => mem_push
    BY <1>1, <1>2, BusCycle
  <2>2. CASE Len(mem_queue) > 0
    <3>1. 1 \in 1 .. Len(mem_queue) /\ 1 > Len(bus) /\ ~Commands[1]
      BY <1>1, <1>2, <2>1, <2>2, Shapes
    <3> QED BY <3>1 DEF CmdFirst
  <2>3. CASE Len(mem_queue) = 0
    BY <1>2, <2>1, <2>3 DEF AguFirst, mem_push, Valid
  <2> QED BY <1>1, <2>2, <2>3, Shapes
<1> QED BY <1>1, <1>2, BusCycle

\* A result r of the instruction in slot s is right.
Faults(i) == i.op = "ecall" \/ (agu_sel(i.op) /\ i.mis)
Right(s, r) ==
  /\ r.excp <=> Faults(InsAt(s))
  /\ InsAt(s).op = "alu" => r.dat = AluOp(Operand(s))
  /\ InsAt(s).op = "csr" => r.dat = csr /\ r.csrdat = Operand(s)
  /\ InsAt(s).op = "load" /\ ~InsAt(s).mis => r.dat = mem
  /\ InsAt(s).op = "jalr" => r.dat = LinkVal
Results == \A s \in Slot : rob_state[s] = WRITEBACK_S => Right(s, rob_entry[s])

\* What the units write back is right.
LEMMA WbRight ==
  ASSUME Placed, UnitData, Len(Commands) = Len(mem_queue), MemData, NEW in \in Inputs,
         NEW w \in WriteBacks(in)
  PROVE  Right(w.ptr, w)
<1>1. TypeOK
  BY Geometry
<1>2. w \in bjp_nop_wb(in) \/ w \in alu_wb(in) \/ w \in csr_wb(in) \/ w \in lsu_wb(in)
  BY Zenon DEF WriteBacks
<1>3. CASE w \in bjp_nop_wb(in)
  <2>1. /\ de2issue # <<>> /\ ~Iss.cancel /\ Iss.ins.op \notin {"alu", "csr", "load", "store"}
        /\ w = Wb(Iss, Iss.ins.op = "ecall", LinkVal, 0)
    BY <1>3 DEF bjp_nop_wb, Valid
  <2>2. w.ptr = Iss.ptr /\ w.dat = LinkVal
    BY <2>1 DEF Wb
  <2>3. w.excp <=> Iss.ins.op = "ecall"
    BY <2>1, Zenon DEF Wb
  <2>4. Iss.ptr \in Slot /\ LiveIn(de2issue, Iss.ptr)
    BY <1>1, <2>1, Shapes DEF DeEntry, LiveIn, Iss
  <2>5. Iss.ins = InsAt(Iss.ptr)
    BY <2>4 DEF UnitData, DeData
  <2> QED BY <2>1, <2>2, <2>3, <2>5 DEF Right, Faults, agu_sel
<1>4. CASE w \in alu_wb(in)
  <2>1. alu2wb # <<>> /\ ~alu2wb[1].cancel /\ w = Wb(alu2wb[1], FALSE, alu2wb[1].dat, 0)
    BY <1>4, Zenon DEF alu_wb, Valid
  <2>2. w.ptr = alu2wb[1].ptr /\ w.dat = alu2wb[1].dat /\ w.excp = FALSE
    BY <2>1 DEF Wb
  <2>3. alu2wb[1].ptr \in Slot /\ LiveIn(alu2wb, alu2wb[1].ptr)
    BY <1>1, <2>1, Shapes DEF AluEntry, LiveIn
  <2>4. InsAt(w.ptr).op = "alu" /\ w.dat = AluOp(Operand(w.ptr))
    BY <2>2, <2>3 DEF UnitData, AluData
  <2> QED BY <2>2, <2>4 DEF Right, Faults, agu_sel
<1>5. CASE w \in csr_wb(in)
  <2>1. csr2wb # <<>> /\ ~csr2wb[1].cancel /\ w = Wb(csr2wb[1], FALSE, csr2wb[1].dat, csr2wb[1].csrdat)
    BY <1>5, Zenon DEF csr_wb, Valid
  <2>2. w.ptr = csr2wb[1].ptr /\ w.dat = csr2wb[1].dat /\ w.csrdat = csr2wb[1].csrdat /\ w.excp = FALSE
    BY <2>1 DEF Wb
  <2>3. csr2wb[1].ptr \in Slot /\ LiveIn(csr2wb, csr2wb[1].ptr)
    BY <1>1, <2>1, Shapes, Zenon DEF CsrEntry, LiveIn
  <2>4. InsAt(w.ptr).op = "csr" /\ w.dat = csr /\ w.csrdat = Operand(w.ptr)
    BY <2>2, <2>3 DEF UnitData, CsrData
  <2> QED BY <2>2, <2>4 DEF Right, Faults, agu_sel
<1>6. CASE w \in lsu_wb(in) /\ mem_pop(in) /\ ~mem_queue[1].cancel
  <2>1. w = Wb(mem_queue[1], FALSE, bus[1].dat, 0)
    BY <1>6 DEF lsu_wb
  <2>2. w.ptr = mem_queue[1].ptr /\ w.dat = bus[1].dat /\ w.excp = FALSE
    BY <2>1 DEF Wb
  <2>3. 1 \in 1 .. Len(mem_queue) /\ mem_queue[1].ptr \in Slot
    BY <1>1, <1>6, Shapes, Wires DEF LsuEntry
  <2>4. Waits(1, mem_queue[1].ptr) /\ 1 <= Len(bus)
    BY <1>1, <1>6, <2>3, CommandsAre, InputsAre DEF Waits
  <2>5. MemAt(1, mem_queue[1].ptr)
    BY <2>3 DEF MemData
  <2>6. /\ agu_sel(InsAt(w.ptr).op) /\ ~InsAt(w.ptr).mis
        /\ InsAt(w.ptr).op = "load" => w.dat = mem
    BY <2>2, <2>4, <2>5 DEF MemAt
  <2> QED BY <2>2, <2>6 DEF Right, Faults, agu_sel
<1>7. CASE w \in lsu_wb(in) /\ ~(mem_pop(in) /\ ~mem_queue[1].cancel)
  <2>1. excp_queue # <<>> /\ ~excp_queue[1].cancel /\ w = Wb(excp_queue[1], TRUE, 0, 0)
    BY <1>7, Zenon DEF lsu_wb, excp_pop, Valid
  <2>2. w.ptr = excp_queue[1].ptr /\ w.excp = TRUE
    BY <2>1 DEF Wb
  <2>3. excp_queue[1].ptr \in Slot /\ LiveIn(excp_queue, excp_queue[1].ptr)
    BY <1>1, <2>1, Shapes, Zenon DEF LsuEntry, LiveIn
  <2>4. agu_sel(InsAt(w.ptr).op) /\ InsAt(w.ptr).mis
    BY <2>2, <2>3, Zenon DEF UnitData, ExcpData
  <2> QED BY <2>2, <2>4 DEF Right, Faults, agu_sel
<1> QED BY <1>2, <1>3, <1>4, <1>5, <1>6, <1>7, Zenon

\* A clock cycle keeps Results.
LEMMA ResultsStep ==
  ASSUME Placed, NoDep, UnitData, Len(Commands) = Len(mem_queue), MemData, AguFirst, CmdFirst, Results,
         NEW in \in Inputs, Tick(in)
  PROVE  Results'
<1> SUFFICES ASSUME NEW s \in Slot, rob_state'[s] = WRITEBACK_S PROVE Right(s, rob_entry[s])'
  BY DEF Results
<1>1. /\ ~flush(in) /\ rob_state[s] # EMPTY_S /\ ~(commit_ready /\ s = Hd)
      /\ ~(rob_wen(in) /\ s = SlotOf(rob_tail_ptr))
      /\ s \in WbSlots(in) \/ (s \notin WbSlots(in) /\ rob_state[s] = WRITEBACK_S)
  BY Written
<1>2. /\ InsAt(s)' = InsAt(s)
      /\ rs_need(InsAt(s)) => Operand(s)' = Operand(s)
      /\ InsAt(s).op = "csr" => csr' = csr
  BY <1>1, Kept
<1>3. InsAt(s).op = "load" /\ ~InsAt(s).mis => mem' = mem
  <2>1. SUFFICES ASSUME InsAt(s).op = "load", ~InsAt(s).mis PROVE mem' = mem
    OBVIOUS
  <2>2. Loaded(s)'
    BY <1>2, <2>1 DEF Loaded
  <2>3. CASE Loaded(s)
    BY <2>3, MemKept, Zenon
  <2>4. CASE mem_pop(in)
    BY <2>4, Geometry, BusCycle, Zenon
  <2> QED BY <2>2, <2>3, <2>4, LoadedFrom, Zenon
<1>4. PICK r : /\ Right(s, r) /\ rob_entry'[s].excp = r.excp /\ rob_entry'[s].dat = r.dat
               /\ rob_entry'[s].csrdat = r.csrdat
  <2>1. rob_entry'[s] = EntryNext(in, WriteBacks(in), s)
    BY <1>1, EntryCycle
  <2>2. CASE s \in WbSlots(in)
    <3>1. \E w \in WriteBacks(in) : w.ptr = s
      BY <2>2 DEF WbSlots
    <3>2. PICK w \in WriteBacks(in) :
            /\ w.ptr = s
            /\ rob_entry'[s] = [ins |-> rob_entry[s].ins, excp |-> w.excp,
                                dat |-> w.dat, csrdat |-> w.csrdat]
      BY <1>1, <2>1, <3>1, Zenon DEF EntryNext
    <3>3. Right(s, w)
      BY <3>2, WbRight, Zenon
    <3>4. rob_entry'[s].excp = w.excp /\ rob_entry'[s].dat = w.dat /\ rob_entry'[s].csrdat = w.csrdat
      BY <3>2
    <3> QED BY <3>3, <3>4
  <2>3. CASE s \notin WbSlots(in)
    <3>1. rob_entry'[s] = rob_entry[s]
      BY <1>1, <2>1, <2>3, Zenon DEF EntryNext, WbSlots, Hd
    <3>2. Right(s, rob_entry[s])
      BY <1>1, <2>3 DEF Results
    <3> QED BY <3>1, <3>2
  <2> QED BY <2>2, <2>3, Zenon
<1>5. rs_need(InsAt(s)) <=> InsAt(s).op \in {"alu", "csr", "load", "store", "branch", "jalr"}
  BY DEF rs_need
<1>6. Right(s, rob_entry[s])' <=>
        /\ rob_entry'[s].excp <=> Faults(InsAt(s)')
        /\ InsAt(s)'.op = "alu" => rob_entry'[s].dat = AluOp(Operand(s)')
        /\ InsAt(s)'.op = "csr" => rob_entry'[s].dat = csr' /\ rob_entry'[s].csrdat = Operand(s)'
        /\ InsAt(s)'.op = "load" /\ ~InsAt(s)'.mis => rob_entry'[s].dat = mem'
        /\ InsAt(s)'.op = "jalr" => rob_entry'[s].dat = LinkVal
  BY DEF Right, Faults, agu_sel, AluOp, LinkVal
<1> QED BY <1>2, <1>3, <1>4, <1>5, <1>6, Zenon DEF Right

(***************************************************************************)
(* The second inductive invariant: where the operations are (Placed), what *)
(* they hold (UnitData, MemData, Results), and why nothing changes what    *)
(* they hold while they wait (NoDep, StoresOldest, AguFirst, CmdFirst).    *)
(***************************************************************************)
Executes == /\ Placed /\ Youngest /\ NoDep /\ UnitData /\ StoresOldest /\ WritesAreOldest
            /\ MemData /\ AguFirst /\ CmdFirst /\ Results

\* After reset nothing is in the buffer, and Executes holds.
LEMMA ExecutesInit == Init => Executes
<1> SUFFICES ASSUME Init PROVE Executes
  OBVIOUS
<1>1. Placed
  BY PlacedInit
<1>2. /\ de2issue = <<>> /\ alu2wb = <<>> /\ csr2wb = <<>> /\ agu2lsu = <<>> /\ excp_queue = <<>>
      /\ mem_queue = <<>> /\ mem_fifo = <<>> /\ bus = <<>>
      /\ \A s \in Slot : rob_state[s] = EMPTY_S
  BY DEF Init, RobInit
<1>3. Len(mem_queue) = 0 /\ Len(Commands) = 0
  BY <1>2 DEF Commands
<1>4. Youngest /\ NoDep /\ UnitData
  BY <1>2 DEF Youngest, NoDep, UnitData, DeData, AluData, CsrData, AguData, ExcpData, LiveIn
<1>5. StoresOldest /\ Results
  BY <1>2, <1>3 DEF StoresOldest, Ahead, Waiting, Results, LiveIn, EMPTY_S, WRITEBACK_S
<1>6. WritesAreOldest /\ MemData /\ AguFirst /\ CmdFirst
  BY <1>2, <1>3 DEF WritesAreOldest, MemData, AguFirst, CmdFirst
<1> QED BY <1>1, <1>4, <1>5, <1>6 DEF Executes

\* A clock cycle keeps Executes.
LEMMA ExecutesStep ==
  ASSUME Executes, NEW in \in Inputs, Tick(in)
  PROVE  Executes'
<1>1. /\ Placed /\ Youngest /\ NoDep /\ UnitData /\ StoresOldest /\ WritesAreOldest
      /\ MemData /\ AguFirst /\ CmdFirst /\ Results /\ Len(Commands) = Len(mem_queue)
  BY DEF Executes, WritesAreOldest
<1>2. Placed' /\ Youngest' /\ NoDep' /\ UnitData'
  BY <1>1, PlacedStep, YoungestStep, NoDepStep, UnitDataStep, Zenon
<1>3. StoresOldest' /\ WritesAreOldest'
  BY <1>1, StoresOldestStep, WritesStep
<1>4. MemData' /\ AguFirst'
  BY <1>1, MemDataStep, AguFirstStep
<1>5. CmdFirst' /\ Results'
  BY <1>1, CmdFirstStep, ResultsStep
<1> QED BY <1>2, <1>3, <1>4, <1>5, Zenon DEF Executes

\* Executes is a fact about the variables of the back end.
LEMMA ExecutesIdle == Executes /\ UNCHANGED vars => Executes'
<1> SUFFICES ASSUME Executes, UNCHANGED vars PROVE Executes'
  OBVIOUS
<1>1. /\ UNCHANGED <<rob_head_ptr, rob_tail_ptr, rob_state>>
      /\ UNCHANGED <<de2issue, alu2wb, csr2wb, agu2lsu, excp_queue, mem_queue, mem_fifo, bus>>
      /\ UNCHANGED <<rob_entry, regs, csr, mem, redirect>>
  BY DEF vars, rob_vars, pipe_vars
<1>2. Placed'
  BY PlacedKept, Zenon DEF Executes
<1>3. Youngest' /\ NoDep'
  BY <1>1 DEF Executes, Youngest, NoDep, LiveIn, RobAge, RobCount, SlotOf, InsAt
<1>4. UnitData'
  BY <1>1 DEF Executes, UnitData, DeData, AluData, CsrData, AguData, ExcpData, LiveIn, Iss, LsuIn,
              InsAt, Operand
<1>5. Commands' = Commands /\ Hd' = Hd /\ (\A s, k : Waits(k, s)' <=> Waits(k, s))
  BY <1>1 DEF Commands, Hd, SlotOf, Waits
<1>6. (\A s : Waiting(s)' <=> Waiting(s)) /\ (\A s : Loaded(s)' <=> Loaded(s))
  BY <1>1, <1>5, Zenon DEF Waiting, Loaded, InsAt
<1>7. StoresOldest' /\ WritesAreOldest'
  BY <1>1, <1>5, <1>6, Zenon DEF Executes, StoresOldest, Ahead, LiveIn, InsAt, WritesAreOldest, Hd, SlotOf
<1>8. MemData'
  BY <1>1, <1>5, Zenon DEF Executes, MemData, MemAt, InsAt, Operand
<1>9. AguFirst' /\ CmdFirst'
  BY <1>1, <1>5, <1>6, Zenon DEF Executes, AguFirst, CmdFirst, LsuIn
<1>10. Results'
  BY <1>1 DEF Executes, Results, Right, InsAt, Operand
<1> QED BY <1>2, <1>3, <1>4, <1>7, <1>8, <1>9, <1>10, Zenon DEF Executes

\* Executes holds in every state.
LEMMA AlwaysExecutes == Spec => []Executes
<1>1. Executes /\ [Next]_vars => Executes'
  BY ExecutesStep, ExecutesIdle DEF Next
<1> QED BY <1>1, ExecutesInit, PTL DEF Spec

\* Memory is written only for the oldest instruction, which is then sure to
\* retire, and every answer of the bus finds its slot.
THEOREM BackendWritesAreOldest == Spec => []WritesAreOldest
<1>1. Executes => WritesAreOldest
  BY DEF Executes
<1> QED BY <1>1, AlwaysExecutes, PTL

\* Sequences with the same entries are the same.
LEMMA SameSeq ==
  ASSUME NEW R, NEW p \in Seq(R), NEW q \in Seq(R), Len(p) = Len(q),
         \A k \in 1 .. Len(p) : p[k] = q[k]
  PROVE  p = q
  OBVIOUS

PendEntry == [ins : Ins \cup {NoEntry.ins}, done : BOOLEAN]

\* The sequence Pending, entry by entry, and SlotAt as the inverse of RobAge.
PendingShape ==
  /\ RobCount \in 0 .. RobSize
  /\ \A n \in 0 .. RobSize - 1 : SlotAt(n) \in Slot /\ RobAge(SlotAt(n)) = n
  /\ \A s \in Slot : SlotAt(RobAge(s)) = s
  /\ Pending \in Seq(PendEntry) /\ Len(Pending) = RobCount
  /\ \A k \in 1 .. RobCount : /\ Pending[k] \in PendEntry
                              /\ Pending[k].ins = InsAt(SlotAt(k - 1))
                              /\ Pending[k].done <=> k = 1 /\ StoreDone

\* Placed gives Pending its shape.
LEMMA PendingIs == Placed => PendingShape
<1> SUFFICES ASSUME Placed PROVE PendingShape
  OBVIOUS
<1>1. Hd \in Slot /\ RobCount \in 0 .. RobSize /\ rob_entry \in [Slot -> RobEntry]
  BY Geometry, Zenon DEF TypeOK
<1>2. \A n \in 0 .. RobSize - 1 : SlotAt(n) \in Slot /\ RobAge(SlotAt(n)) = n
  BY <1>1, RobSizeAssumption DEF SlotAt, RobAge, Slot, Hd
<1>3. \A s \in Slot : SlotAt(RobAge(s)) = s
  BY <1>1, RobSizeAssumption DEF SlotAt, RobAge, Slot, Hd
<1>4. \A k \in 1 .. RobCount : InsAt(SlotAt(k - 1)) \in Ins \cup {NoEntry.ins}
  <2>1. SUFFICES ASSUME NEW k \in 1 .. RobCount PROVE InsAt(SlotAt(k - 1)) \in Ins \cup {NoEntry.ins}
    OBVIOUS
  <2>2. k - 1 \in 0 .. RobSize - 1
    BY <1>1, RobSizeAssumption
  <2>3. rob_entry[SlotAt(k - 1)] \in RobEntry
    BY <1>1, <1>2, <2>2
  <2> QED BY <2>3 DEF RobEntry, InsAt
<1>5. PICK d \in [1 .. RobCount -> BOOLEAN] : \A k \in 1 .. RobCount : d[k] = (k = 1 /\ StoreDone)
  <2>1. [k \in 1 .. RobCount |-> k = 1 /\ StoreDone] \in [1 .. RobCount -> BOOLEAN]
    OBVIOUS
  <2> QED BY <2>1, Zenon
<1>6. Pending = [k \in 1 .. RobCount |-> [ins |-> InsAt(SlotAt(k - 1)), done |-> d[k]]]
  BY <1>5, Zenon DEF Pending, InsAt
<1>7. \A k \in 1 .. RobCount : /\ Pending[k] \in PendEntry
                               /\ Pending[k].ins = InsAt(SlotAt(k - 1))
                               /\ Pending[k].done = d[k]
  BY <1>4, <1>6, Zenon DEF PendEntry
<1>8. Pending \in Seq(PendEntry) /\ Len(Pending) = RobCount
  BY <1>1, <1>6, <1>7
<1> QED BY <1>1, <1>2, <1>3, <1>5, <1>7, <1>8, Zenon DEF PendingShape

\* The same after a step.
LEMMA PendingIsNext == Placed' => PendingShape'
  BY PendingIs, PTL

\* The entry decode adds to the queue of the in-order machine in a cycle.
Added(in) == When(rob_wen(in), [ins |-> in.fetch[1].ins, done |-> FALSE])

\* What decode adds is nothing, or one entry that is not done.
LEMMA AddedIs ==
  ASSUME Placed, NEW in \in Inputs, Tick(in), ~flush(in)
  PROVE  /\ Added(in) \in Seq(PendEntry) /\ Len(Added(in)) = (IF rob_wen(in) THEN 1 ELSE 0)
         /\ rob_wen(in) => Added(in)[1] = [ins |-> in.fetch[1].ins, done |-> FALSE]
         /\ Added(in) \in {<<>>} \cup {<<Arch!Entry(i)>> : i \in Ins}
<1>1. rob_wen(in) \in BOOLEAN
  BY Moves
<1>2. CASE rob_wen(in)
  <2>1. in.fetch[1].ins \in Ins
    BY <1>2, Fresh
  <2>2. Added(in) = <<[ins |-> in.fetch[1].ins, done |-> FALSE]>>
    BY <1>2, Zenon DEF Added, When
  <2>3. [ins |-> in.fetch[1].ins, done |-> FALSE] \in PendEntry
    BY <2>1, Zenon DEF PendEntry
  <2>4. Added(in) = <<Arch!Entry(in.fetch[1].ins)>>
    BY <2>2 DEF Arch!Entry
  <2>5. Added(in) \in {<<>>} \cup {<<Arch!Entry(i)>> : i \in Ins}
    BY <2>1, <2>4, Zenon
  <2> QED BY <1>2, <2>2, <2>3, <2>5
<1>3. CASE ~rob_wen(in)
  <2>1. Added(in) = <<>>
    BY <1>3 DEF Added, When
  <2> QED BY <1>3, <2>1
<1> QED BY <1>1, <1>2, <1>3, Zenon

\* Concatenation of two queues, entry by entry.
LEMMA PendingJoined ==
  ASSUME NEW p \in Seq(PendEntry), NEW a \in Seq(PendEntry)
  PROVE  /\ p \o a \in Seq(PendEntry) /\ Len(p \o a) = Len(p) + Len(a)
         /\ \A k \in 1 .. Len(p) + Len(a) : (p \o a)[k] = IF k <= Len(p) THEN p[k] ELSE a[k - Len(p)]
  BY Joined, Zenon

\* The queue of the in-order machine after a cycle without a flush: without
\* its first entry if one retires, with the new entry at its end.
LEMMA NextPending ==
  ASSUME Executes, NEW in \in Inputs, Tick(in), ~flush(in),
         NEW c \in {0, 1}, c = IF commit_ready THEN 1 ELSE 0,
         NEW p \in Seq(PendEntry), Len(p) = RobCount - c,
         \A k \in 1 .. Len(p) : p[k].ins = Pending[k + c].ins /\ (p[k].done <=> k = 1 /\ StoreDone'),
         StoreDone' => Len(p) > 0
  PROVE  Pending' = p \o Added(in)
<1> DEFINE q == p \o Added(in)
<1>1. Placed /\ NoDep /\ Placed'
  BY PlacedStep DEF Executes
<1>2. PendingShape /\ PendingShape'
  BY <1>1, PendingIs, PendingIsNext, Zenon
<1>3. /\ RobCount \in 0 .. RobSize /\ rob_wen(in) \in BOOLEAN /\ (commit_ready => RobCount > 0)
      /\ RobCount' = RobCount + (IF rob_wen(in) THEN 1 ELSE 0) - c
  BY <1>1, Moves, Geometry, Zenon
<1>4. /\ Added(in) \in Seq(PendEntry) /\ Len(Added(in)) = (IF rob_wen(in) THEN 1 ELSE 0)
      /\ rob_wen(in) => Added(in)[1] = [ins |-> in.fetch[1].ins, done |-> FALSE]
  BY <1>1, AddedIs, Zenon
<1>5. /\ q \in Seq(PendEntry) /\ Len(q) = Len(p) + Len(Added(in))
      /\ \A k \in 1 .. Len(p) + Len(Added(in)) :
           q[k] = IF k <= Len(p) THEN p[k] ELSE Added(in)[k - Len(p)]
  <2>1. PICK a \in Seq(PendEntry) : a = Added(in)
    BY <1>4
  <2>2. /\ p \o a \in Seq(PendEntry) /\ Len(p \o a) = Len(p) + Len(a)
        /\ \A k \in 1 .. Len(p) + Len(a) : (p \o a)[k] = IF k <= Len(p) THEN p[k] ELSE a[k - Len(p)]
    BY PendingJoined, Zenon
  <2> QED BY <2>1, <2>2, Zenon
<1>6. Len(p) \in Nat /\ Len(q) = RobCount' /\ Len(p) = RobCount - c
  BY <1>3, <1>4, <1>5
<1>7. /\ Pending' \in Seq(PendEntry) /\ Len(Pending') = RobCount'
      /\ \A k \in 1 .. RobCount' : /\ Pending'[k] \in PendEntry
                                   /\ Pending'[k].ins = InsAt(SlotAt(k - 1))'
                                   /\ Pending'[k].done <=> k = 1 /\ StoreDone'
  BY <1>2, Zenon DEF PendingShape
<1>8. ASSUME NEW s \in Slot, NEW n \in 0 .. RobSize - 1, RobAge(s)' = n PROVE SlotAt(n)' = s
  BY <1>2, <1>8 DEF PendingShape
<1>9. ASSUME NEW k \in 1 .. RobCount' PROVE Pending'[k] = q[k]
  <2>1. CASE k <= Len(p)
    <3>1. k - 1 + c \in 0 .. RobSize - 1 /\ k - 1 + c < RobCount /\ k + c \in 1 .. RobCount
          /\ (k + c) - 1 = k - 1 + c /\ k - 1 \in 0 .. RobSize - 1
      BY <1>3, <1>6, <2>1, RobSizeAssumption
    <3>2. PICK s \in Slot : s = SlotAt(k - 1 + c) /\ RobAge(s) = k - 1 + c
      BY <1>2, <3>1, Zenon DEF PendingShape
    <3>3. RobAge(s)' = k - 1
      BY <1>1, <3>1, <3>2, Moves
    <3>4. rob_state[s] # EMPTY_S /\ ~(commit_ready /\ s = Hd)
      BY <1>1, <3>1, <3>2, Geometry
    <3>5. InsAt(s)' = InsAt(s)
      BY <1>1, <3>4, Kept, Zenon
    <3>6. SlotAt(k - 1)' = s
      BY <1>8, <3>1, <3>3
    <3>7. InsAt(SlotAt(k - 1))' = InsAt(s)'
      BY <3>6, Zenon DEF InsAt
    <3>8. p[k].ins = InsAt(s)
      BY <1>2, <1>6, <2>1, <3>1, <3>2 DEF PendingShape
    <3>9. Pending'[k].ins = p[k].ins /\ Pending'[k] \in PendEntry /\ p[k] \in PendEntry
      BY <1>6, <1>7, <2>1, <3>5, <3>7, <3>8
    <3>10. Pending'[k].done <=> p[k].done
      <4>1. k \in 1 .. Len(p)
        BY <1>6, <2>1
      <4>2. p[k].done <=> k = 1 /\ StoreDone'
        BY <4>1, Zenon
      <4> QED BY <1>7, <4>2, Zenon
    <3>11. Pending'[k] = p[k]
      BY <3>9, <3>10 DEF PendEntry
    <3>12. k \in 1 .. Len(p) + Len(Added(in))
      BY <1>5, <1>6, Zenon
    <3> HIDE DEF q
    <3> QED BY <1>5, <2>1, <3>11, <3>12, Zenon
  <2>2. CASE ~(k <= Len(p))
    <3>1. rob_wen(in) /\ k = Len(p) + 1 /\ k - 1 = RobCount - c /\ k - Len(p) = 1
      BY <1>3, <1>6, <2>2
    <3>2. PICK s \in Slot : s = SlotOf(rob_tail_ptr) /\ RobAge(s) = RobCount
      BY <1>1, <3>1, Geometry, Moves, Zenon
    <3>3. RobAge(s)' = k - 1 /\ k - 1 \in 0 .. RobSize - 1
      <4>1. RobAge(s) \in 0 .. RobSize - 1
        BY <1>1, Geometry, Zenon
      <4>2. commit_ready => RobAge(s) # 0
        BY <1>3, <3>2
      <4>3. RobAge(s)' = IF commit_ready
                         THEN IF RobAge(s) = 0 THEN RobSize - 1 ELSE RobAge(s) - 1
                         ELSE RobAge(s)
        BY <1>1, Moves, Zenon
      <4>4. RobAge(s)' = RobCount - c
        BY <1>3, <3>2, <4>2, <4>3
      <4>5. RobCount \in 0 .. RobSize - 1 /\ RobCount - c >= 0
        BY <1>3, <3>2, <4>1, <4>2
      <4> QED BY <3>1, <4>4, <4>5, RobSizeAssumption
    <3>4. SlotAt(k - 1)' = s
      BY <1>8, <3>3, Zenon
    <3>5. InsAt(SlotAt(k - 1))' = in.fetch[1].ins
      <4>1. InsAt(s)' = in.fetch[1].ins
        BY <1>1, <3>1, <3>2, Fresh, Zenon
      <4> QED BY <3>4, <4>1, Zenon DEF InsAt
    <3>6. ~(k = 1 /\ StoreDone')
      BY <1>6, <3>1
    <3>7. Pending'[k] = [ins |-> in.fetch[1].ins, done |-> FALSE]
      BY <1>7, <3>5, <3>6, Zenon DEF PendEntry
    <3>8. k \in 1 .. Len(p) + Len(Added(in))
      BY <1>5, <1>6
    <3>9. q[k] = Added(in)[1]
      BY <1>5, <2>2, <3>1, <3>8, Zenon
    <3> QED BY <1>4, <3>1, <3>7, <3>9, Zenon
  <2> QED BY <2>1, <2>2, Zenon
<1> HIDE DEF q
<1>10. \A k \in 1 .. Len(Pending') : Pending'[k] = q[k]
  BY <1>7, <1>9
<1>11. Pending' = q
  <2>1. PICK r : r = Pending'
    OBVIOUS
  <2>2. r \in Seq(PendEntry) /\ q \in Seq(PendEntry) /\ Len(r) = Len(q) /\ \A k \in 1 .. Len(r) : r[k] = q[k]
    BY <1>5, <1>6, <1>7, <1>10, <2>1, Zenon
  <2>3. r = q
    BY <2>2, SameSeq, Zenon
  <2> QED BY <2>1, <2>3, Zenon
<1> QED BY <1>11 DEF q

\* A write that the bus holds or takes belongs to the oldest instruction.
LEMMA WriteHeld ==
  ASSUME Executes, NEW in \in Inputs, bus # <<>>, ~bus[1].read
  PROVE  /\ Hd \in Slot /\ rob_state[Hd] = MAPPED_S /\ ~commit_ready /\ Waits(1, Hd)
         /\ InsAt(Hd).op = "store" /\ ~InsAt(Hd).mis
<1>1. TypeOK /\ Len(Commands) = Len(mem_queue) /\ Hd \in Slot
  BY Geometry, Zenon DEF Executes, WritesAreOldest
<1>2. 1 \in 1 .. Len(mem_queue) /\ ~Commands[1]
  BY <1>1, CommandsAre
<1>3. Waits(1, Hd) /\ rob_state[Hd] = MAPPED_S
  BY <1>1, <1>2 DEF Executes, WritesAreOldest, Waits, Hd
<1>4. MemAt(1, Hd)
  BY <1>1, <1>2, Zenon DEF Executes, MemData
<1>5. InsAt(Hd).op = "store" /\ ~InsAt(Hd).mis
  BY <1>2, <1>3, <1>4, Zenon DEF MemAt, agu_sel
<1> QED BY <1>1, <1>3, <1>5, Zenon DEF commit_ready, Hd, MAPPED_S, WRITEBACK_S

\* A write that enters the bus is that of the oldest instruction, a store, with
\* its data.
LEMMA WriteTaken ==
  ASSUME Executes, NEW in \in Inputs, Tick(in), cmd_fire(in), ~Cmds[1].read
  PROVE  /\ Hd \in Slot /\ rob_state[Hd] = MAPPED_S /\ ~commit_ready
         /\ InsAt(Hd).op = "store" /\ ~InsAt(Hd).mis /\ Cmds[1].wdat = Operand(Hd)
<1>1. TypeOK /\ Len(Commands) = Len(mem_queue) /\ Hd \in Slot
  BY Geometry, Zenon DEF Executes, WritesAreOldest
<1>2. /\ Len(bus) = 0
      /\ Cmds[1].read = IF Len(mem_queue) > 0 THEN Commands[1] ELSE LsuIn.read
      /\ Cmds[1].wdat = IF Len(mem_queue) > 0 THEN mem_fifo[1].wdat ELSE LsuIn.wdat
      /\ Len(mem_queue) = 0 => mem_push
  BY <1>1, BusCycle, Zenon
<1>3. CASE Len(mem_queue) > 0
  <2>1. 1 \in 1 .. Len(mem_queue) /\ ~Commands[1] /\ 1 > Len(bus) /\ 1 - Len(bus) = 1
    BY <1>1, <1>2, <1>3, Shapes
  <2>2. Waits(1, Hd) /\ rob_state[Hd] = MAPPED_S
    BY <1>1, <2>1, Zenon DEF Executes, WritesAreOldest, Waits, Hd
  <2>3. MemAt(1, Hd)
    BY <1>1, <2>1 DEF Executes, MemData
  <2>4. InsAt(Hd).op = "store" /\ ~InsAt(Hd).mis /\ mem_fifo[1].wdat = Operand(Hd)
    BY <2>1, <2>2, <2>3, Zenon DEF MemAt, agu_sel
  <2> QED BY <1>1, <1>2, <1>3, <2>2, <2>4, Zenon DEF commit_ready, Hd, MAPPED_S, WRITEBACK_S
<1>4. CASE Len(mem_queue) = 0
  <2>1. agu2lsu # <<>> /\ ~LsuIn.cancel /\ ~LsuIn.read /\ ~LsuIn.excp
    BY <1>2, <1>4 DEF mem_push, Valid
  <2>2. /\ rob_state[Hd] = MAPPED_S /\ InsAt(Hd).op = "store"
        /\ LsuIn.wdat = Operand(Hd) /\ LsuIn.excp = InsAt(Hd).mis
    BY <2>1, AguOldest, Zenon DEF Executes
  <2> QED BY <1>1, <1>2, <1>4, <2>1, <2>2 DEF commit_ready, Hd, MAPPED_S, WRITEBACK_S
<1> QED BY <1>1, <1>3, <1>4, Shapes

\* A write on the bus at the end of a cycle was there or was taken in it.
LEMMA WriteAfter ==
  ASSUME Executes, NEW in \in Inputs, Tick(in), bus' # <<>>, ~bus'[1].read
  PROVE  /\ ~commit_ready /\ rob_state[Hd] = MAPPED_S
         /\ \/ cmd_fire(in) /\ ~Cmds[1].read
            \/ bus # <<>> /\ ~bus[1].read
<1>1. TypeOK /\ Len(Commands) = Len(mem_queue)
  BY Geometry, Zenon DEF Executes, WritesAreOldest
<1>2. \/ cmd_fire(in) /\ ~Cmds[1].read
      \/ bus # <<>> /\ ~bus[1].read
  BY <1>1, BusCycle
<1> QED BY <1>2, WriteHeld, WriteTaken, Zenon

\* A store gets its result only as the oldest instruction: as misaligned, or
\* when the bus answers its write.
LEMMA StoreWritten ==
  ASSUME Executes, NEW in \in Inputs, Tick(in), NEW s \in Slot,
         rob_state'[s] = WRITEBACK_S, InsAt(s)'.op = "store"
  PROVE  /\ s = Hd /\ ~commit_ready
         /\ InsAt(s).mis \/ (bus # <<>> /\ ~bus[1].read)
<1>1. /\ TypeOK /\ Placed /\ NoDep /\ UnitData /\ StoresOldest /\ MemData
      /\ Len(Commands) = Len(mem_queue)
  BY Geometry, Zenon DEF Executes, WritesAreOldest
<1>2. /\ ~flush(in) /\ rob_state[s] # EMPTY_S /\ ~(commit_ready /\ s = Hd)
      /\ s \in WbSlots(in) \/ rob_state[s] = WRITEBACK_S
  BY <1>1, Written, Zenon
<1>3. InsAt(s).op = "store"
  BY <1>1, <1>2, Kept, Zenon
<1>4. rob_state[s] # WRITEBACK_S
  BY <1>1, <1>2, <1>3, Zenon DEF StoresOldest, Ahead, commit_ready, Hd
<1>5. \/ LiveIn(de2issue, s) /\ Iss.ins.op \notin Elsewhere
      \/ LiveIn(alu2wb, s) \/ LiveIn(csr2wb, s)
      \/ mem_pop(in) /\ Waits(1, s)
      \/ LiveIn(excp_queue, s)
  BY <1>1, <1>2, <1>4, WbSlotsAre, Zenon
<1>6. (mem_pop(in) /\ Waits(1, s)) \/ LiveIn(excp_queue, s)
  BY <1>1, <1>3, <1>5, Zenon DEF UnitData, DeData, AluData, CsrData, Elsewhere
<1>7. s = Hd
  BY <1>1, <1>3, <1>6, Zenon DEF StoresOldest, Ahead, Waiting, Waits
<1>8. CASE LiveIn(excp_queue, s)
  BY <1>1, <1>2, <1>7, <1>8, Zenon DEF UnitData, ExcpData
<1>9. CASE mem_pop(in) /\ Waits(1, s)
  <2>1. 1 \in 1 .. Len(mem_queue) /\ MemAt(1, s)
    BY <1>1, <1>9, Zenon DEF Waits, MemData
  <2>2. ~Commands[1]
    BY <1>3, <1>9, <2>1, Zenon DEF MemAt
  <2>3. bus # <<>> /\ ~bus[1].read
    BY <1>1, <1>9, <2>1, <2>2, CommandsAre, InputsAre
  <2> QED BY <1>2, <1>7, <2>3, Zenon
<1> QED BY <1>6, <1>8, <1>9, Zenon

\* In a cycle that retires nothing and in which the bus takes no write, the
\* oldest instruction stays and its store stays done or not done.
LEMMA StoreDoneKept ==
  ASSUME Executes, NEW in \in Inputs, Tick(in), ~commit_ready, ~(cmd_fire(in) /\ ~Cmds[1].read)
  PROVE  StoreDone' <=> StoreDone /\ RobCount > 0
<1>1. /\ TypeOK /\ Placed /\ NoDep /\ UnitData /\ StoresOldest /\ MemData
      /\ Len(Commands) = Len(mem_queue) /\ Hd \in Slot
  BY Geometry, Zenon DEF Executes, WritesAreOldest
<1>2. ~flush(in) /\ Hd' = Hd
  BY <1>1, Quiet
<1>3. Executes'
  BY ExecutesStep, Zenon
<1>4. StoreDone <=> InsAt(Hd).op = "store" /\ bus # <<>> /\ ~bus[1].read
  BY DEF StoreDone, Oldest, InsAt, Hd
<1>5. PICK h \in Slot : h = Hd
  BY <1>1, Zenon
<1>6. StoreDone' <=> /\ InsAt(h)'.op = "store"
                     /\ \/ rob_state'[h] = WRITEBACK_S /\ ~rob_entry'[h].excp
                        \/ bus' # <<>> /\ ~bus'[1].read
  BY <1>2, <1>5, Zenon DEF StoreDone, Oldest, InsAt, Hd, commit_ready
<1>7. ASSUME StoreDone PROVE StoreDone' /\ RobCount > 0
  <2>1. bus # <<>> /\ ~bus[1].read
    BY <1>4, <1>7, Zenon
  <2>2. rob_state[h] = MAPPED_S /\ Waits(1, h) /\ InsAt(h).op = "store" /\ ~InsAt(h).mis
    BY <1>5, <2>1, WriteHeld, Zenon
  <2>3. rob_state[h] # EMPTY_S /\ RobCount > 0
    BY <1>1, <1>5, <2>2, Geometry, Zenon DEF MAPPED_S, EMPTY_S
  <2>4. InsAt(h)' = InsAt(h)
    BY <1>1, <1>2, <2>3, Kept, Zenon
  <2>5. CASE mem_pop(in)
    <3>1. h \in WbSlots(in)
      BY <1>1, <2>2, <2>5, WbSlotsAre, Zenon
    <3>2. ~(rob_wen(in) /\ h = SlotOf(rob_tail_ptr))
      BY <1>1, <1>2, <2>3, Moves, Geometry, Zenon
    <3>3. rob_state'[h] = WRITEBACK_S
      BY <1>1, <1>2, <3>1, <3>2, RobTakes, Zenon DEF RobStep, SlotNext
    <3>4. Right(h, rob_entry[h])'
      BY <1>3, <3>3, Zenon DEF Executes, Results
    <3>5. rob_entry'[h].excp <=> Faults(InsAt(h)')
      BY <3>4, Zenon DEF Right, Faults, agu_sel
    <3>6. ~rob_entry'[h].excp
      BY <2>2, <2>4, <3>5, Zenon DEF Faults
    <3> QED BY <1>6, <2>2, <2>3, <2>4, <3>3, <3>6, Zenon
  <2>6. CASE ~mem_pop(in)
    <3>1. ~cmd_fire(in)
      BY <1>1, <2>1, FifoCycle, Zenon
    <3>2. bus' = bus
      BY <1>1, <2>6, <3>1, BusCycle, Zenon
    <3> QED BY <1>6, <2>1, <2>2, <2>3, <2>4, <3>2, Zenon
  <2> QED BY <2>5, <2>6, Zenon
<1>8. ASSUME StoreDone' PROVE StoreDone
  <2>1. InsAt(h)'.op = "store"
    BY <1>6, <1>8, Zenon
  <2>2. CASE bus' # <<>> /\ ~bus'[1].read
    <3>1. bus # <<>> /\ ~bus[1].read
      BY <2>2, WriteAfter, Zenon
    <3> QED BY <1>4, <3>1, WriteHeld, Zenon
  <2>3. CASE rob_state'[h] = WRITEBACK_S /\ ~rob_entry'[h].excp
    <3>1. InsAt(h).mis \/ (bus # <<>> /\ ~bus[1].read)
      BY <2>1, <2>3, StoreWritten, Zenon
    <3>2. Right(h, rob_entry[h])'
      BY <1>3, <2>3, Zenon DEF Executes, Results
    <3>3. ~InsAt(h)'.mis
      BY <2>1, <2>3, <3>2, Zenon DEF Right, Faults, agu_sel
    <3>4. InsAt(h)' = InsAt(h)
      BY <1>1, <2>3, Written, Kept, Zenon
    <3> QED BY <1>4, <3>1, <3>3, <3>4, WriteHeld, Zenon
  <2> QED BY <1>6, <1>8, <2>2, <2>3, Zenon
<1> QED BY <1>7, <1>8, Zenon

\* The first entry of the in-order machine is the oldest instruction.
LEMMA OldestPending ==
  ASSUME Executes, RobCount > 0
  PROVE  /\ Pending # <<>> /\ Pending \in Seq(PendEntry) /\ Len(Pending) = RobCount
         /\ RobCount \in 1 .. RobSize
         /\ Pending[1] \in PendEntry /\ Pending[1].ins = InsAt(Hd)
         /\ Pending[1].done <=> StoreDone
<1>1. Placed /\ PendingShape /\ Hd \in Slot /\ RobAge(Hd) = 0
  BY PendingIs, Geometry, Zenon DEF Executes
<1>2. SlotAt(0) = Hd
  BY <1>1 DEF PendingShape
<1>3. RobCount \in 1 .. RobSize /\ 1 \in 1 .. RobCount /\ 1 - 1 = 0
  BY <1>1 DEF PendingShape
<1>4. Pending[1] \in PendEntry /\ Pending[1].ins = InsAt(SlotAt(0)) /\ (Pending[1].done <=> StoreDone)
  BY <1>1, <1>3, Zenon DEF PendingShape
<1>5. Pending \in Seq(PendEntry) /\ Len(Pending) = RobCount
  BY <1>1 DEF PendingShape
<1> QED BY <1>2, <1>3, <1>4, <1>5

\* A cycle that retires nothing: the in-order machine takes what decode adds
\* and, when the bus takes the write of a store, performs the store.
LEMMA QuietRefines ==
  ASSUME Executes, NEW in \in Inputs, Tick(in), ~commit_ready
  PROVE  Arch!ArchNext
<1>1. /\ TypeOK /\ Placed /\ PendingShape /\ Len(Commands) = Len(mem_queue) /\ Hd \in Slot
  BY Geometry, PendingIs, Zenon DEF Executes, WritesAreOldest
<1>2. ~flush(in) /\ Hd' = Hd /\ regs' = regs /\ csr' = csr
  BY <1>1, Quiet, Zenon
<1>3. /\ RobCount \in 0 .. RobSize /\ Pending \in Seq(PendEntry) /\ Len(Pending) = RobCount
      /\ \A k \in 1 .. RobCount : /\ Pending[k] \in PendEntry
                                  /\ Pending[k].done <=> k = 1 /\ StoreDone
  BY <1>1, Zenon DEF PendingShape
<1>4. Added(in) \in {<<>>} \cup {<<Arch!Entry(i)>> : i \in Ins}
  BY <1>1, <1>2, AddedIs, Zenon
<1>5. CASE cmd_fire(in) /\ ~Cmds[1].read
  <2> DEFINE p == [Pending EXCEPT ![1].done = TRUE]
  <2>1. /\ rob_state[Hd] = MAPPED_S /\ InsAt(Hd).op = "store" /\ ~InsAt(Hd).mis
        /\ Cmds[1].wdat = Operand(Hd)
    BY <1>5, WriteTaken, Zenon
  <2>2. bus = <<>> /\ mem' = Cmds[1].wdat /\ Len(bus') = 1 /\ ~bus'[1].read
    BY <1>1, <1>5, BusCycle, FifoCycle, Zenon
  <2>3. rob_state[Hd] # EMPTY_S /\ RobCount > 0
    BY <1>1, <2>1, Geometry, Zenon DEF MAPPED_S, EMPTY_S
  <2>4. /\ Pending # <<>> /\ Pending[1] \in PendEntry /\ Pending[1].ins = InsAt(Hd)
        /\ Pending[1].done <=> StoreDone
    BY <2>3, OldestPending, Zenon
  <2>5. ~StoreDone
    BY <2>2 DEF StoreDone
  <2>6. StoreDone'
    <3>1. PICK h \in Slot : h = Hd
      BY <1>1
    <3>2. InsAt(h)' = InsAt(h)
      BY <1>1, <1>2, <2>3, <3>1, Kept, Zenon DEF Executes
    <3>3. bus' # <<>> /\ ~bus'[1].read
      BY <2>2
    <3>4. rob_entry'[SlotOf(rob_head_ptr')].ins.op = "store"
      BY <1>2, <2>1, <3>1, <3>2, Zenon DEF InsAt, Hd
    <3> QED BY <3>3, <3>4 DEF StoreDone, Oldest
  <2>7. /\ p \in Seq(PendEntry) /\ Len(p) = RobCount - 0
        /\ \A k \in 1 .. Len(p) : p[k].ins = Pending[k + 0].ins /\ (p[k].done <=> k = 1 /\ StoreDone')
    <3>1. 1 \in 1 .. Len(Pending)
      BY <1>3, <2>3
    <3>2. p = [Pending EXCEPT ![1] = [Pending[1] EXCEPT !.done = TRUE]]
      OBVIOUS
    <3>3. [Pending[1] EXCEPT !.done = TRUE] \in PendEntry
      BY <2>4, Zenon DEF PendEntry
    <3>4. p \in Seq(PendEntry) /\ Len(p) = Len(Pending)
      BY <1>3, <3>1, <3>2, <3>3
    <3>5. ASSUME NEW k \in 1 .. Len(p)
          PROVE  p[k].ins = Pending[k + 0].ins /\ (p[k].done <=> k = 1 /\ StoreDone')
      <4>1. k \in 1 .. RobCount /\ k + 0 = k /\ Pending[k] \in PendEntry
        BY <1>3, <3>4
      <4>2. CASE k = 1
        BY <1>3, <2>4, <2>6, <3>1, <3>2, <4>1, <4>2 DEF PendEntry
      <4>3. CASE k # 1
        <5>1. p[k] = Pending[k]
          BY <1>3, <3>2, <4>1, <4>3
        <5> QED BY <1>3, <4>1, <4>3, <5>1, Zenon
      <4> QED BY <4>2, <4>3
    <3> QED BY <1>3, <3>4, <3>5
  <2>8. Pending' = p \o Added(in)
    <3> HIDE DEF p
    <3>1. PICK r \in Seq(PendEntry) : r = p
      BY <2>7
    <3>2. PICK c \in {0, 1} : c = 0
      OBVIOUS
    <3>3. /\ c = (IF commit_ready THEN 1 ELSE 0) /\ Len(r) = RobCount - c /\ Len(r) > 0
          /\ \A k \in 1 .. Len(r) : r[k].ins = Pending[k + c].ins /\ (r[k].done <=> k = 1 /\ StoreDone')
      BY <1>3, <2>3, <2>7, <3>1, <3>2
    <3>4. Pending' = r \o Added(in)
      BY <1>2, <3>3, NextPending, Zenon
    <3> QED BY <3>1, <3>4, Zenon
  <2>9. Arch!Perform(Added(in))
    <3>1. ~Arch!Traps(Pending[1].ins)
      BY <2>1, <2>4, Zenon DEF Arch!Traps
    <3> QED BY <1>2, <2>1, <2>2, <2>4, <2>5, <2>8, <3>1, Zenon DEF Arch!Perform, Operand
  <2> QED BY <1>4, <2>9 DEF Arch!ArchNext
<1>6. CASE ~(cmd_fire(in) /\ ~Cmds[1].read)
  <2>1. mem' = mem
    BY <1>1, <1>6, BusCycle, Zenon
  <2>2. StoreDone' <=> StoreDone /\ RobCount > 0
    BY <1>6, StoreDoneKept, Zenon
  <2>3. \A k \in 1 .. Len(Pending) :
          Pending[k].ins = Pending[k + 0].ins /\ (Pending[k].done <=> k = 1 /\ StoreDone')
    BY <1>3, <2>2
  <2>4. Pending' = Pending \o Added(in)
    <3>1. PICK p \in Seq(PendEntry) : p = Pending
      BY <1>3
    <3> QED BY <1>2, <1>3, <2>2, <2>3, <3>1, NextPending
  <2>5. Arch!Accept(Added(in))
    BY <1>2, <2>1, <2>4, Zenon DEF Arch!Accept
  <2> QED BY <1>4, <2>5, Zenon DEF Arch!ArchNext
<1> QED BY <1>5, <1>6, Zenon

\* What a retiring instruction does is what the in-order machine does with it.
LEMMA EffectRefines ==
  ASSUME Executes, NEW in \in Inputs, Tick(in), commit_ready
  PROVE  /\ RobCount > 0 /\ mem' = mem
         /\ Oldest.excp <=> Arch!Traps(InsAt(Hd))
         /\ ~Oldest.excp => Arch!Effect(InsAt(Hd)) /\ (InsAt(Hd).op = "store" => StoreDone)
         /\ Oldest.excp => regs' = regs /\ csr' = csr
         /\ ~(bus' # <<>> /\ ~bus'[1].read)
<1>1. TypeOK /\ Placed /\ Len(Commands) = Len(mem_queue) /\ Hd \in Slot /\ RobCount > 0
  BY Geometry, Zenon DEF Executes, WritesAreOldest
<1>2. mem' = mem
  BY <1>1, BusCycle, WriteTaken, Zenon
<1>3. ~(bus' # <<>> /\ ~bus'[1].read)
  BY WriteAfter, Zenon
<1>4. Right(Hd, rob_entry[Hd]) /\ Oldest = rob_entry[Hd] /\ Oldest.ins = InsAt(Hd)
  BY <1>1, Zenon DEF Executes, Results, commit_ready, Hd, Oldest, InsAt
<1>5. Oldest.excp <=> Arch!Traps(InsAt(Hd))
  BY <1>4, Zenon DEF Right, Faults, agu_sel, Arch!Traps
<1>6. /\ regs' = IF reg_wen /\ Oldest.ins.rd # 0
                 THEN [regs EXCEPT ![Oldest.ins.rd] = Oldest.dat] ELSE regs
      /\ csr' = IF csr_wen THEN Oldest.csrdat ELSE csr
  BY Zenon DEF Tick, CommitStep
<1>7. /\ reg_wen <=> ~Oldest.excp /\ rd_need(InsAt(Hd))
      /\ csr_wen <=> ~Oldest.excp /\ InsAt(Hd).op = "csr"
  BY <1>4, Zenon DEF reg_wen, csr_wen, excp_en
<1>8. ASSUME ~Oldest.excp PROVE Arch!Effect(InsAt(Hd))
  <2>1. ~Faults(InsAt(Hd))
    BY <1>4, <1>8, Zenon DEF Right
  <2>2. rd_need(InsAt(Hd)) => Oldest.dat = Arch!Result(InsAt(Hd))
    BY <1>4, <2>1 DEF Right, Faults, agu_sel, rd_need, Arch!Result, Arch!AluOp, AluOp,
                      Arch!LinkVal, LinkVal, Operand
  <2>3. rd_need(InsAt(Hd)) <=> Arch!WritesRd(InsAt(Hd))
    BY Zenon DEF rd_need, Arch!WritesRd
  <2>4. InsAt(Hd).op = "csr" => Oldest.csrdat = regs[InsAt(Hd).rs]
    BY <1>4, Zenon DEF Right, Operand
  <2> QED BY <1>4, <1>6, <1>7, <1>8, <2>2, <2>3, <2>4, Zenon DEF Arch!Effect
<1>9. ~Oldest.excp /\ InsAt(Hd).op = "store" => StoreDone
  BY <1>4 DEF StoreDone
<1> QED BY <1>1, <1>2, <1>3, <1>5, <1>6, <1>7, <1>8, <1>9, Zenon

\* A cycle that retires an instruction and flushes nothing.
LEMMA RetireRefines ==
  ASSUME Executes, NEW in \in Inputs, Tick(in), commit_ready, ~flush(in)
  PROVE  Arch!ArchNext
<1>1. TypeOK /\ Placed /\ Placed' /\ PendingShape /\ Hd \in Slot /\ RobCount > 0
  BY Geometry, PendingIs, PlacedStep, Zenon DEF Executes
<1>2. /\ Pending # <<>> /\ Pending \in Seq(PendEntry) /\ Len(Pending) = RobCount
      /\ RobCount \in 1 .. RobSize
      /\ Pending[1] \in PendEntry /\ Pending[1].ins = InsAt(Hd)
      /\ Pending[1].done <=> StoreDone
  BY <1>1, OldestPending, Zenon
<1>3. ~Oldest.excp /\ ~(Oldest.ins.op \in {"fence_i", "mret"})
  BY Zenon DEF flush, excp_en
<1>4. /\ mem' = mem /\ ~Arch!Traps(InsAt(Hd)) /\ Arch!Effect(InsAt(Hd))
      /\ InsAt(Hd).op = "store" => StoreDone
  BY <1>3, EffectRefines, Zenon
<1>5. ~StoreDone'
  <2>1. PICK h \in Slot : h = Hd'
    BY <1>1, PtrArith, Zenon DEF Placed, TypeOK, RobTypeOK, Hd
  <2>2. ~(rob_state'[h] = WRITEBACK_S /\ InsAt(h)'.op = "store")
    BY StoreWritten, Zenon
  <2>3. ~(bus' # <<>> /\ ~bus'[1].read)
    BY EffectRefines
  <2> QED BY <2>1, <2>2, <2>3, Zenon DEF StoreDone, Oldest, InsAt, Hd, commit_ready
<1>6. PICK p \in Seq(PendEntry) : /\ p = Tail(Pending) /\ Len(p) = RobCount - 1
                                  /\ \A k \in 1 .. Len(p) : p[k] = Pending[k + 1]
  <2>1. PICK q \in Seq(PendEntry) : q = Pending /\ q # <<>> /\ Len(q) = RobCount
    BY <1>2
  <2>2. /\ Tail(q) \in Seq(PendEntry) /\ Len(Tail(q)) = Len(q) - 1
        /\ \A k \in 1 .. Len(q) - 1 : Tail(q)[k] = q[k + 1]
    BY <2>1
  <2> QED BY <2>1, <2>2, Zenon
<1>7. Pending' = p \o Added(in)
  <2>1. PICK c \in {0, 1} : c = 1
    OBVIOUS
  <2>2. \A k \in 1 .. RobCount : Pending[k].done <=> k = 1 /\ StoreDone
    BY <1>1, Zenon DEF PendingShape
  <2>3. ASSUME NEW k \in 1 .. Len(p)
        PROVE  p[k].ins = Pending[k + c].ins /\ (p[k].done <=> k = 1 /\ StoreDone')
    <3>1. k + 1 \in 1 .. RobCount /\ k + 1 # 1 /\ p[k] = Pending[k + 1]
      BY <1>2, <1>6
    <3>2. ~Pending[k + 1].done
      BY <2>2, <3>1, Zenon
    <3> QED BY <1>5, <2>1, <3>1, <3>2, Zenon
  <2>4. c = (IF commit_ready THEN 1 ELSE 0) /\ Len(p) = RobCount - c
    BY <1>6, <2>1, Zenon
  <2> QED BY <1>5, <2>3, <2>4, NextPending, Zenon
<1>8. Added(in) \in {<<>>} \cup {<<Arch!Entry(i)>> : i \in Ins}
  BY <1>1, AddedIs, Zenon
<1>9. Arch!Retire(Added(in))
  <2>1. ~Arch!Serialises(InsAt(Hd))
    BY <1>3 DEF Arch!Serialises, Oldest, InsAt, Hd
  <2> QED BY <1>2, <1>4, <1>6, <1>7, <2>1, Zenon DEF Arch!Retire
<1> QED BY <1>8, <1>9, Zenon DEF Arch!ArchNext

\* A cycle that flushes: the oldest instruction traps, or takes effect and
\* takes everything behind it away.
LEMMA FlushRefines ==
  ASSUME Executes, NEW in \in Inputs, Tick(in), flush(in)
  PROVE  Arch!ArchNext
<1>1. TypeOK /\ RobTypeOK /\ Placed /\ OnePlace /\ Placed' /\ commit_ready
  BY Geometry, PlacedStep, Zenon DEF Executes, flush, excp_en, irq_en
<1>2. /\ RobCount > 0 /\ mem' = mem
      /\ Oldest.excp <=> Arch!Traps(InsAt(Hd))
      /\ ~Oldest.excp => Arch!Effect(InsAt(Hd)) /\ (InsAt(Hd).op = "store" => StoreDone)
      /\ Oldest.excp => regs' = regs /\ csr' = csr
  BY <1>1, EffectRefines, Zenon
<1>3. Pending # <<>> /\ Pending[1].ins = InsAt(Hd) /\ (Pending[1].done <=> StoreDone)
  BY <1>2, OldestPending
<1>4. Pending' = <<>>
  <2>1. flush(in) = TRUE
    BY <1>1, RobTakes, Zenon
  <2>2. /\ rob_wen(in) \in BOOLEAN /\ WbSlots(in) \in SUBSET Slot
        /\ RobRely(rob_wen(in), WbSlots(in), TRUE) /\ RobStep(rob_wen(in), WbSlots(in), TRUE)
    BY <1>1, <2>1, RelyKept, RobTakes, Zenon
  <2>3. RobCount' = 0
    BY <1>1, <2>2, RobFlushed, Zenon
  <2>4. Pending' \in Seq(PendEntry) /\ Len(Pending') = 0
    BY <1>1, <2>3, PendingIsNext, Zenon DEF PendingShape
  <2> QED BY <2>4
<1>5. CASE Oldest.excp
  <2>1. Arch!Trap
    BY <1>2, <1>3, <1>4, <1>5, Zenon DEF Arch!Trap
  <2> QED BY <2>1 DEF Arch!ArchNext
<1>6. CASE ~Oldest.excp
  <2>1. Arch!RetireAndFlush
    BY <1>2, <1>3, <1>4, <1>6, Zenon DEF Arch!RetireAndFlush
  <2> QED BY <2>1, Zenon DEF Arch!ArchNext
<1> QED BY <1>5, <1>6, Zenon

(***************************************************************************)
(* The execution part of the core implements the in-order machine, for     *)
(* every size of the reorder buffer, depth of the queues, number of        *)
(* registers and values and set of instructions: each instruction takes    *)
(* effect once, in program order and with the values program order gives   *)
(* it, and a trap, interrupt or fence.i drops exactly what is behind it.   *)
(***************************************************************************)
THEOREM BackendImplementsInOrder == Spec => ImplementsInOrder
<1>1. Init => Arch!ArchInit
  <2>1. SUFFICES ASSUME Init PROVE Arch!ArchInit
    OBVIOUS
  <2>2. PendingShape /\ RobCount = 0
    BY <2>1, PlacedInit, PendingIs, RobSizeAssumption DEF Init, RobInit, RobCount
  <2>3. Pending = <<>>
    BY <2>2 DEF PendingShape
  <2> QED BY <2>1, <2>3, Zenon DEF Init, Arch!ArchInit, Arch!Reg, Reg
<1>2. Executes /\ [Next]_vars => [Arch!ArchNext]_(Arch!arch_vars)
  <2>1. ASSUME Executes, Next PROVE Arch!ArchNext
    <3>1. PICK in \in Inputs : Tick(in)
      BY <2>1 DEF Next
    <3>2. CASE ~commit_ready
      BY <2>1, <3>1, <3>2, QuietRefines, Zenon
    <3>3. CASE commit_ready /\ ~flush(in)
      BY <2>1, <3>1, <3>3, RetireRefines, Zenon
    <3>4. CASE flush(in)
      BY <2>1, <3>1, <3>4, FlushRefines, Zenon
    <3> QED BY <3>2, <3>3, <3>4, Zenon
  <2>2. ASSUME UNCHANGED vars PROVE UNCHANGED Arch!arch_vars
    <3>1. UNCHANGED <<rob_head_ptr, rob_tail_ptr, rob_state, bus, rob_entry, regs, csr, mem>>
      BY <2>2, Zenon DEF vars, rob_vars, pipe_vars
    <3>2. StoreDone' <=> StoreDone
      BY <3>1, Zenon DEF StoreDone, Oldest, SlotOf, commit_ready
    <3>3. Pending' = Pending
      BY <3>1, <3>2, Zenon DEF Pending, RobCount, SlotAt, SlotOf
    <3> QED BY <3>1, <3>3, Zenon DEF Arch!arch_vars
  <2> QED BY <2>1, <2>2
<1> QED BY <1>1, <1>2, AlwaysExecutes, PTL DEF Spec, ImplementsInOrder, Arch!ArchSpec
==========================================================================

-------------------------- MODULE BackendExec ---------------------------
(***************************************************************************)
(* What every register of the execution part holds, on top of Placed: the  *)
(* operand of an instruction is the one program order gives it because no  *)
(* older instruction of the buffer writes it (NoDep, the scoreboard); a    *)
(* store leaves issue as the oldest instruction only (StoresOldest), so    *)
(* the one write under way is its own (WritesAreOldest) and no load that   *)
(* has its word is overtaken by one (AguFirst, CmdFirst).                  *)
(***************************************************************************)
EXTENDS BackendProofs

\* The oldest slot, the instruction of a slot and the value of its operand.
Hd         == SlotOf(rob_head_ptr)
InsAt(s)   == rob_entry[s].ins
Operand(s) == regs[InsAt(s).rs]

\* The instruction in de2issue is the youngest of the buffer.
Youngest == \A s \in Slot : LiveIn(de2issue, s) => RobAge(s) = RobCount - 1

\* No instruction of the buffer depends on an older one of the buffer.
NoDep ==
  \A s, t \in Slot :
    rob_state[s] # EMPTY_S /\ rob_state[t] # EMPTY_S /\ RobAge(t) < RobAge(s) =>
      /\ rs_need(InsAt(s)) /\ InsAt(s).rs # 0 => InsAt(t).rd # InsAt(s).rs
      /\ ~(InsAt(s).op = "csr" /\ InsAt(t).op = "csr")

\* Facts about the buffer used below.
LEMMA Geometry ==
  ASSUME Placed
  PROVE  /\ TypeOK /\ RobTypeOK /\ RobWindow /\ OnePlace
         /\ Hd \in Slot /\ SlotOf(rob_tail_ptr) \in Slot
         /\ RobCount \in 0 .. RobSize
         /\ \A i \in Slot : RobAge(i) \in 0 .. RobSize - 1
         /\ \A i \in Slot : RobAge(i) = 0 <=> i = Hd
         /\ ~rob_full => \A i \in Slot : RobAge(i) = RobCount <=> i = SlotOf(rob_tail_ptr)
         /\ ~rob_full => rob_state[SlotOf(rob_tail_ptr)] = EMPTY_S
         /\ commit_ready => RobCount > 0
         /\ \A i \in Slot : rob_state[i] # EMPTY_S <=> RobAge(i) < RobCount
<1>1. TypeOK /\ RobTypeOK /\ RobWindow /\ OnePlace
  BY DEF Placed, TypeOK
<1>2. \A i \in Slot : rob_state[i] # EMPTY_S <=> RobAge(i) < RobCount
  BY <1>1 DEF RobWindow
<1>3. /\ Hd \in Slot /\ SlotOf(rob_tail_ptr) \in Slot
      /\ RobCount \in 0 .. RobSize
      /\ \A i \in Slot : RobAge(i) \in 0 .. RobSize - 1
      /\ \A i \in Slot : RobAge(i) = 0 <=> i = Hd
      /\ ~rob_full => \A i \in Slot : RobAge(i) = RobCount <=> i = SlotOf(rob_tail_ptr)
      /\ commit_ready => RobCount > 0
  BY <1>1, RobGeometry DEF Hd
<1>4. ~rob_full => rob_state[SlotOf(rob_tail_ptr)] = EMPTY_S
  BY <1>2, <1>3
<1> QED BY <1>1, <1>2, <1>3, <1>4

\* The moves of the window in a cycle of the pipeline.
LEMMA Moves ==
  ASSUME Placed, NEW in \in Inputs, Tick(in), ~flush(in)
  PROVE  /\ rob_wen(in) \in BOOLEAN /\ (rob_wen(in) => ~rob_full /\ Accepted(in) /\ ~in.fetch[1].cancel)
         /\ RobCount' = RobCount + (IF rob_wen(in) THEN 1 ELSE 0) - (IF commit_ready THEN 1 ELSE 0)
         /\ \A i \in Slot : RobAge(i)' = IF commit_ready
                                         THEN IF RobAge(i) = 0 THEN RobSize - 1 ELSE RobAge(i) - 1
                                         ELSE RobAge(i)
         /\ \A i \in Slot : rob_state'[i] # EMPTY_S <=>
              \/ rob_wen(in) /\ i = SlotOf(rob_tail_ptr)
              \/ rob_state[i] # EMPTY_S /\ ~(commit_ready /\ i = Hd)
<1>1. TypeOK /\ RobTypeOK /\ RobWindow /\ OnePlace
  BY Geometry
<1>2. /\ RobRely(rob_wen(in), WbSlots(in), flush(in))
      /\ rob_wen(in) \in BOOLEAN /\ WbSlots(in) \in SUBSET Slot
      /\ RobStep(rob_wen(in), WbSlots(in), flush(in))
  BY <1>1, RelyKept, RobTakes
<1>3. flush(in) = FALSE
  BY <1>1, RobTakes
<1>4. RobRely(rob_wen(in), WbSlots(in), FALSE) /\ RobStep(rob_wen(in), WbSlots(in), FALSE)
  BY <1>2, <1>3, Zenon
<1>5. rob_wen(in) => ~rob_full /\ Accepted(in) /\ ~in.fetch[1].cancel
  BY <1>2 DEF RobRely, rob_wen
<1> QED BY <1>1, <1>2, <1>4, <1>5, RobMoves, Zenon DEF Hd

\* While the oldest instruction has no result, nothing retires or is flushed.
LEMMA Quiet ==
  ASSUME Placed, NEW in \in Inputs, Tick(in), ~commit_ready
  PROVE  ~flush(in) /\ rob_head_ptr' = rob_head_ptr /\ Hd' = Hd /\ regs' = regs /\ csr' = csr
<1>1. ~flush(in)
  BY DEF flush, excp_en, irq_en
<1>2. rob_head_ptr' = rob_head_ptr
  BY DEF Tick, RobUpdate, RobStep, HeadNext
<1>3. regs' = regs /\ csr' = csr
  BY DEF Tick, CommitStep, reg_wen, csr_wen
<1> QED BY <1>1, <1>2, <1>3 DEF Hd

\* What the entries of the buffer are after a cycle.
LEMMA EntryCycle ==
  ASSUME Placed, NEW in \in Inputs, Tick(in), ~flush(in), NEW s \in Slot
  PROVE  rob_entry'[s] = EntryNext(in, WriteBacks(in), s)
  BY DEF Tick, RobUpdate

\* An instruction that stays in the buffer keeps its operand.
LEMMA Kept ==
  ASSUME Placed, NoDep, NEW in \in Inputs, Tick(in), ~flush(in),
         NEW s \in Slot, rob_state[s] # EMPTY_S, ~(commit_ready /\ s = Hd)
  PROVE  /\ InsAt(s)' = InsAt(s)
         /\ rs_need(InsAt(s)) => Operand(s)' = Operand(s)
         /\ InsAt(s).op = "csr" => csr' = csr
<1>1. ~(rob_wen(in) /\ s = SlotOf(rob_tail_ptr))
  BY Geometry, Moves
<1>2. InsAt(s)' = InsAt(s)
  <2>1. rob_entry'[s] = EntryNext(in, WriteBacks(in), s)
    BY EntryCycle
  <2> QED BY <1>1, <2>1 DEF EntryNext, InsAt, Hd
<1>3. CASE ~commit_ready
  BY <1>2, <1>3, Quiet DEF Operand
<1>4. CASE commit_ready
  <2>1. s # Hd /\ Hd \in Slot /\ rob_state[Hd] # EMPTY_S /\ Oldest = rob_entry[Hd]
    BY <1>4, Geometry DEF commit_ready, Hd, WRITEBACK_S, EMPTY_S, Oldest
  <2>2. RobAge(Hd) < RobAge(s)
    BY <2>1, Geometry
  <2>3. /\ rs_need(InsAt(s)) /\ InsAt(s).rs # 0 => InsAt(Hd).rd # InsAt(s).rs
        /\ ~(InsAt(s).op = "csr" /\ InsAt(Hd).op = "csr")
    BY <2>1, <2>2 DEF NoDep
  <2>4. InsAt(s).op = "csr" => csr' = csr
    BY <2>1, <2>3 DEF Tick, CommitStep, csr_wen, InsAt
  <2>5. rob_entry \in [Slot -> RobEntry] /\ regs \in [Reg -> Val]
    BY Geometry, Zenon DEF TypeOK
  <2>6. InsAt(s).rs \in Reg
    BY <2>5, InstrAssumption DEF InsAt, RobEntry, NoEntry, Reg
  <2>7. rs_need(InsAt(s)) => regs'[InsAt(s).rs] = regs[InsAt(s).rs]
    BY <2>1, <2>3, <2>5, <2>6, Zenon DEF Tick, CommitStep, InsAt
  <2> QED BY <1>2, <2>4, <2>7 DEF Operand
<1> QED BY <1>3, <1>4

\* An instruction that enters the buffer reads its operand then.
LEMMA Fresh ==
  ASSUME Placed, NEW in \in Inputs, Tick(in), rob_wen(in), NEW s, s = SlotOf(rob_tail_ptr)
  PROVE  /\ ~flush(in) /\ s \in Slot /\ InsAt(s)' = in.fetch[1].ins /\ in.fetch[1].ins \in Ins
         /\ rob_state'[s] = MAPPED_S
         /\ \A t \in Slot : rob_state[t] # EMPTY_S =>
              /\ rs_need(in.fetch[1].ins) /\ in.fetch[1].ins.rs # 0 => InsAt(t).rd # in.fetch[1].ins.rs
              /\ ~(in.fetch[1].ins.op = "csr" /\ InsAt(t).op = "csr")
         /\ rs_need(in.fetch[1].ins) => Operand(s)' = regs[in.fetch[1].ins.rs]
<1>1. ~flush(in) /\ Accepted(in) /\ ~in.fetch[1].cancel /\ ~rob_full /\ s \in Slot
  BY Moves, Geometry DEF rob_wen
<1>2. /\ in.fetch # <<>> /\ in.fetch[1] \in [ins : Ins, cancel : BOOLEAN] /\ ~dep(in.fetch[1])
  BY <1>1, InputsAre DEF Accepted
<1>3. InsAt(s)' = in.fetch[1].ins
  <2>1. rob_entry'[s] = EntryNext(in, WriteBacks(in), s)
    BY <1>1, EntryCycle
  <2> QED BY <2>1 DEF EntryNext, InsAt, NoEntry
<1>4. rob_state'[s] = MAPPED_S
  BY <1>1, Zenon DEF Tick, RobUpdate, RobStep, SlotNext
<1>5. ASSUME NEW t \in Slot, rob_state[t] # EMPTY_S
      PROVE  /\ rs_need(in.fetch[1].ins) /\ in.fetch[1].ins.rs # 0 => InsAt(t).rd # in.fetch[1].ins.rs
             /\ ~(in.fetch[1].ins.op = "csr" /\ InsAt(t).op = "csr")
  BY <1>1, <1>2, <1>5, Zenon DEF dep, depend, InsAt
<1>6. rs_need(in.fetch[1].ins) => regs'[in.fetch[1].ins.rs] = regs[in.fetch[1].ins.rs]
  <2>1. CASE ~commit_ready
    BY <2>1, Quiet, Zenon
  <2>2. CASE commit_ready
    <3>1. Hd \in Slot /\ rob_state[Hd] # EMPTY_S /\ Oldest = rob_entry[Hd]
      BY <2>2, Geometry DEF commit_ready, Hd, WRITEBACK_S, EMPTY_S, Oldest
    <3>2. rs_need(in.fetch[1].ins) /\ in.fetch[1].ins.rs # 0 => InsAt(Hd).rd # in.fetch[1].ins.rs
      BY <1>5, <3>1
    <3>3. regs \in [Reg -> Val] /\ in.fetch[1].ins.rs \in Reg
      BY <1>2, Geometry, InstrAssumption, Zenon DEF TypeOK
    <3> QED BY <3>1, <3>2, <3>3 DEF Tick, CommitStep, InsAt
  <2> QED BY <2>1, <2>2
<1> QED BY <1>1, <1>2, <1>3, <1>4, <1>5, <1>6, Zenon DEF Operand

\* A clock cycle keeps Youngest: issue is emptied before decode fills it.
LEMMA YoungestStep ==
  ASSUME Placed, Youngest, NEW in \in Inputs, Tick(in)
  PROVE  Youngest'
<1> SUFFICES ASSUME NEW s \in Slot, LiveIn(de2issue', s) PROVE (RobAge(s) = RobCount - 1)'
  BY DEF Youngest, LiveIn
<1>1. TypeOK
  BY Geometry
<1>2. ~flush(in) /\ IF Accepted(in) THEN ~in.fetch[1].cancel /\ SlotOf(rob_tail_ptr) = s
                    ELSE ~issue_pop(in) /\ LiveIn(de2issue, s)
  BY <1>1, LiveCycle
<1>3. CASE Accepted(in)
  <2>1. rob_wen(in) /\ s = SlotOf(rob_tail_ptr)
    BY <1>2, <1>3 DEF rob_wen
  <2>2. RobAge(s) = RobCount /\ RobAge(s) \in 0 .. RobSize - 1
    BY <1>2, <2>1, Moves, Geometry, Zenon
  <2> QED BY <1>2, <2>1, <2>2, Moves, Geometry
<1>4. CASE ~Accepted(in)
  <2>1. ~rob_wen(in) /\ LiveIn(de2issue, s)
    BY <1>2, <1>4 DEF rob_wen
  <2>2. rob_state[s] = MAPPED_S /\ RobAge(s) = RobCount - 1
    BY <2>1, Geometry DEF Youngest, OnePlace, OneAt
  <2>3. commit_ready => RobAge(s) # 0
    BY <2>2, Geometry DEF commit_ready, Hd, MAPPED_S, WRITEBACK_S
  <2> QED BY <1>2, <2>1, <2>2, <2>3, Moves, Geometry
<1> QED BY <1>3, <1>4

\* A clock cycle keeps NoDep: the scoreboard refuses a dependent instruction.
LEMMA NoDepStep ==
  ASSUME Placed, NoDep, NEW in \in Inputs, Tick(in)
  PROVE  NoDep'
<1> SUFFICES ASSUME NEW s \in Slot, NEW t \in Slot,
                    rob_state'[s] # EMPTY_S, rob_state'[t] # EMPTY_S, RobAge(t)' < RobAge(s)'
             PROVE  (/\ rs_need(InsAt(s)) /\ InsAt(s).rs # 0 => InsAt(t).rd # InsAt(s).rs
                     /\ ~(InsAt(s).op = "csr" /\ InsAt(t).op = "csr"))'
  BY Zenon DEF NoDep
<1>1. ~flush(in)
  BY DEF Tick, RobUpdate, RobStep, SlotNext
<1>2. /\ (rob_wen(in) /\ s = SlotOf(rob_tail_ptr)) \/ (rob_state[s] # EMPTY_S /\ ~(commit_ready /\ s = Hd))
      /\ (rob_wen(in) /\ t = SlotOf(rob_tail_ptr)) \/ (rob_state[t] # EMPTY_S /\ ~(commit_ready /\ t = Hd))
  BY <1>1, Moves
<1>3. CASE rob_wen(in) /\ s = SlotOf(rob_tail_ptr)
  <2>1. t # s
    BY <1>1, Moves, Geometry
  <2>2. rob_state[t] # EMPTY_S /\ ~(commit_ready /\ t = Hd)
    BY <1>2, <1>3, <2>1
  <2>3. InsAt(t)' = InsAt(t)
    BY <1>1, <2>2, Kept, Zenon
  <2>4. /\ InsAt(s)' = in.fetch[1].ins
        /\ rs_need(in.fetch[1].ins) /\ in.fetch[1].ins.rs # 0 => InsAt(t).rd # in.fetch[1].ins.rs
        /\ ~(in.fetch[1].ins.op = "csr" /\ InsAt(t).op = "csr")
    BY <1>3, <2>2, Fresh
  <2> QED BY <2>3, <2>4 DEF rs_need
<1>4. CASE ~(rob_wen(in) /\ s = SlotOf(rob_tail_ptr))
  <2>1. rob_state[s] # EMPTY_S /\ ~(commit_ready /\ s = Hd)
    BY <1>2, <1>4
  <2>2. ~(rob_wen(in) /\ t = SlotOf(rob_tail_ptr))
    <3>1. SUFFICES ASSUME rob_wen(in), t = SlotOf(rob_tail_ptr) PROVE FALSE
      OBVIOUS
    <3>2. RobAge(t) = RobCount /\ RobAge(s) < RobCount /\ RobAge(t) \in Nat /\ RobAge(s) \in Nat
      BY <1>1, <2>1, <3>1, Moves, Geometry
    <3>3. commit_ready => RobAge(s) # 0 /\ RobAge(t) # 0
      BY <2>1, <3>2, Geometry
    <3> QED BY <1>1, <3>2, <3>3, Moves
  <2>3. rob_state[t] # EMPTY_S /\ ~(commit_ready /\ t = Hd)
    BY <1>2, <2>2
  <2>4. InsAt(t)' = InsAt(t) /\ InsAt(s)' = InsAt(s)
    BY <1>1, <2>1, <2>3, Kept, Zenon
  <2>5. RobAge(t) < RobAge(s)
    BY <1>1, <2>1, <2>3, Moves, Geometry
  <2>6. /\ rs_need(InsAt(s)) /\ InsAt(s).rs # 0 => InsAt(t).rd # InsAt(s).rs
        /\ ~(InsAt(s).op = "csr" /\ InsAt(t).op = "csr")
    BY <2>1, <2>3, <2>5, Zenon DEF NoDep
  <2> QED BY <2>4, <2>6 DEF rs_need
<1> QED BY <1>3, <1>4

\* What the pipes hold after a cycle, for a slot that has an operation there.
LEMMA PayloadCycle ==
  ASSUME TypeOK, NEW in \in Inputs, Tick(in), NEW s \in Slot
  PROVE  /\ LiveIn(de2issue', s) =>
              IF Accepted(in) THEN /\ de2issue'[1].ins = in.fetch[1].ins
                                   /\ de2issue'[1].src = regs[in.fetch[1].ins.rs]
              ELSE de2issue'[1].ins = Iss.ins /\ de2issue'[1].src = Iss.src
         /\ LiveIn(alu2wb', s) => alu2wb'[1].dat = AluOp(Iss.src)
         /\ LiveIn(csr2wb', s) => csr2wb'[1].dat = csr /\ csr2wb'[1].csrdat = Iss.src
         /\ LiveIn(agu2lsu', s) =>
              IF Issued(in, {"load", "store"})
              THEN /\ agu2lsu'[1].excp = Iss.ins.mis /\ (agu2lsu'[1].read <=> Iss.ins.op = "load")
                   /\ agu2lsu'[1].wdat = Iss.src
              ELSE /\ agu2lsu'[1].excp = LsuIn.excp /\ agu2lsu'[1].read = LsuIn.read
                   /\ agu2lsu'[1].wdat = LsuIn.wdat
<1>1. flush(in) \in BOOLEAN /\ Accepted(in) \in BOOLEAN /\ issue_pop(in) \in BOOLEAN /\ agu_pop(in) \in BOOLEAN
  BY Wires, Zenon
<1>m. LET c(e) == CancelIf(flush(in), e)
      IN  /\ \A e \in DeEntry : c(e).ins = e.ins /\ c(e).src = e.src
          /\ \A e \in AluEntry : c(e).dat = e.dat
          /\ \A e \in CsrEntry : c(e).dat = e.dat /\ c(e).csrdat = e.csrdat
          /\ \A e \in AguEntry : c(e).excp = e.excp /\ c(e).read = e.read /\ c(e).wdat = e.wdat
  BY <1>1, Marked
<1>2. LiveIn(de2issue', s) =>
        IF Accepted(in) THEN /\ de2issue'[1].ins = in.fetch[1].ins
                             /\ de2issue'[1].src = regs[in.fetch[1].ins.rs]
        ELSE de2issue'[1].ins = Iss.ins /\ de2issue'[1].src = Iss.src
  <2>1. de2issue' = After(de2issue, NewDe(in), Accepted(in), issue_pop(in), flush(in))
    BY PipesCycle, Zenon
  <2>2. CASE Accepted(in)
    <3>1. de2issue' = <<CancelIf(flush(in), NewDe(in))>> /\ NewDe(in) \in DeEntry
      BY <2>1, <2>2, NewShapes DEF After
    <3>2. de2issue'[1] = CancelIf(flush(in), NewDe(in))
      BY <3>1
    <3>3. NewDe(in).ins = in.fetch[1].ins /\ NewDe(in).src = regs[in.fetch[1].ins.rs]
      BY DEF NewDe
    <3> QED BY <1>m, <2>2, <3>1, <3>2, <3>3, Zenon
  <2>3. CASE ~Accepted(in) /\ LiveIn(de2issue', s)
    <3>1. de2issue # <<>> /\ de2issue' = <<CancelIf(flush(in), Iss)>> /\ Iss \in DeEntry
      BY <2>1, <2>3, Shapes DEF After, LiveIn, Iss
    <3>2. de2issue'[1] = CancelIf(flush(in), Iss)
      BY <3>1, Zenon
    <3> QED BY <1>m, <2>3, <3>1, <3>2, Zenon
  <2> QED BY <2>2, <2>3
<1>3. LiveIn(alu2wb', s) => alu2wb'[1].dat = AluOp(Iss.src)
  <2>1. SUFFICES ASSUME LiveIn(alu2wb', s) PROVE alu2wb'[1].dat = AluOp(Iss.src)
    OBVIOUS
  <2>2. Issued(in, {"alu"}) /\ de2issue # <<>>
    BY <2>1, LiveCycle, Zenon DEF LiveIn
  <2>3. alu2wb' = <<CancelIf(flush(in), NewAlu)>> /\ NewAlu \in AluEntry
    BY <2>2, PipesCycle, NewShapes DEF After
  <2>4. alu2wb'[1] = CancelIf(flush(in), NewAlu)
    BY <2>3, Zenon
  <2>5. NewAlu.dat = AluOp(Iss.src)
    BY DEF NewAlu
  <2> QED BY <1>m, <2>3, <2>4, <2>5, Zenon
<1>4. LiveIn(csr2wb', s) => csr2wb'[1].dat = csr /\ csr2wb'[1].csrdat = Iss.src
  <2>1. SUFFICES ASSUME LiveIn(csr2wb', s) PROVE csr2wb'[1].dat = csr /\ csr2wb'[1].csrdat = Iss.src
    OBVIOUS
  <2>2. Issued(in, {"csr"}) /\ de2issue # <<>>
    BY <2>1, LiveCycle DEF LiveIn
  <2>3. csr2wb' = <<CancelIf(flush(in), NewCsr)>> /\ NewCsr \in CsrEntry
    BY <2>2, PipesCycle, NewShapes, Zenon DEF After
  <2>4. csr2wb'[1] = CancelIf(flush(in), NewCsr)
    BY <2>3
  <2>5. NewCsr.dat = csr /\ NewCsr.csrdat = Iss.src
    BY DEF NewCsr
  <2> QED BY <1>m, <2>3, <2>4, <2>5, Zenon
<1>5. LiveIn(agu2lsu', s) =>
        IF Issued(in, {"load", "store"})
        THEN /\ agu2lsu'[1].excp = Iss.ins.mis /\ (agu2lsu'[1].read <=> Iss.ins.op = "load")
             /\ agu2lsu'[1].wdat = Iss.src
        ELSE /\ agu2lsu'[1].excp = LsuIn.excp /\ agu2lsu'[1].read = LsuIn.read
             /\ agu2lsu'[1].wdat = LsuIn.wdat
  <2>1. agu2lsu' = After(agu2lsu, NewAgu, Issued(in, {"load", "store"}), agu_pop(in), flush(in))
    BY PipesCycle
  <2>2. CASE Issued(in, {"load", "store"})
    <3>1. agu2lsu' = <<CancelIf(flush(in), NewAgu)>> /\ NewAgu \in AguEntry
      BY <2>1, <2>2, NewShapes, Zenon DEF After, Issued, issue_pop, Valid
    <3>2. agu2lsu'[1] = CancelIf(flush(in), NewAgu)
      BY <3>1
    <3>3. /\ agu2lsu'[1].excp = NewAgu.excp /\ agu2lsu'[1].read = NewAgu.read
          /\ agu2lsu'[1].wdat = NewAgu.wdat
      BY <1>m, <3>1, <3>2, Zenon
    <3>4. NewAgu.excp = Iss.ins.mis /\ NewAgu.wdat = Iss.src
      BY DEF NewAgu
    <3>5. NewAgu.read <=> Iss.ins.op = "load"
      BY Zenon DEF NewAgu
    <3> QED BY <2>2, <3>3, <3>4, <3>5, Zenon
  <2>3. CASE ~Issued(in, {"load", "store"}) /\ LiveIn(agu2lsu', s)
    <3>1. agu2lsu # <<>> /\ agu2lsu' = <<CancelIf(flush(in), LsuIn)>> /\ LsuIn \in AguEntry
      BY <2>1, <2>3, Shapes DEF After, LiveIn, LsuIn
    <3>2. agu2lsu'[1] = CancelIf(flush(in), LsuIn)
      BY <3>1
    <3> QED BY <1>m, <2>3, <3>1, <3>2, Zenon
  <2> QED BY <2>2, <2>3
<1> QED BY <1>2, <1>3, <1>4, <1>5

\* What a unit holds for a slot is what the instruction of the slot asks for.
DeData(s)   == LiveIn(de2issue, s) => /\ Iss.ins = InsAt(s)
                                      /\ rs_need(InsAt(s)) => Iss.src = Operand(s)
AluData(s)  == LiveIn(alu2wb, s) => InsAt(s).op = "alu" /\ alu2wb[1].dat = AluOp(Operand(s))
CsrData(s)  == LiveIn(csr2wb, s) => /\ InsAt(s).op = "csr" /\ csr2wb[1].dat = csr
                                    /\ csr2wb[1].csrdat = Operand(s)
AguData(s)  == LiveIn(agu2lsu, s) => /\ agu_sel(InsAt(s).op) /\ LsuIn.excp = InsAt(s).mis
                                     /\ LsuIn.read <=> InsAt(s).op = "load"
                                     /\ LsuIn.wdat = Operand(s)
ExcpData(s) == LiveIn(excp_queue, s) => agu_sel(InsAt(s).op) /\ InsAt(s).mis
UnitData    == \A s \in Slot : DeData(s) /\ AluData(s) /\ CsrData(s) /\ AguData(s) /\ ExcpData(s)

\* A slot with an operation under way waits for its result.
LEMMA LiveMapped ==
  ASSUME Placed, NEW s \in Slot,
         \/ LiveIn(de2issue, s) \/ LiveIn(alu2wb, s) \/ LiveIn(csr2wb, s)
         \/ LiveIn(agu2lsu, s) \/ LiveIn(excp_queue, s) \/ Waiting(s)
  PROVE  rob_state[s] = MAPPED_S /\ rob_state[s] # EMPTY_S /\ ~(commit_ready /\ s = Hd)
<1>1. OneAt(s)
  BY Geometry DEF OnePlace
<1>2. rob_state[s] = MAPPED_S
  BY <1>1, Zenon DEF OneAt
<1> QED BY <1>2 DEF commit_ready, Hd, MAPPED_S, WRITEBACK_S, EMPTY_S

\* A clock cycle keeps UnitData: no register that is read is written in between.
LEMMA UnitDataStep ==
  ASSUME Placed, NoDep, UnitData, NEW in \in Inputs, Tick(in)
  PROVE  UnitData'
<1> SUFFICES ASSUME NEW s \in Slot
             PROVE  DeData(s)' /\ AluData(s)' /\ CsrData(s)' /\ AguData(s)' /\ ExcpData(s)'
  BY DEF UnitData
<1>1. TypeOK
  BY Geometry
<1>2. DeData(s) /\ AluData(s) /\ CsrData(s) /\ AguData(s) /\ ExcpData(s)
  BY DEF UnitData
<1>3. DeData(s)'
  <2> SUFFICES ASSUME LiveIn(de2issue', s)
               PROVE  /\ de2issue'[1].ins = InsAt(s)'
                      /\ rs_need(InsAt(s)') => de2issue'[1].src = Operand(s)'
    BY Zenon DEF DeData, LiveIn, Iss, rs_need
  <2>1. ~flush(in) /\ IF Accepted(in) THEN ~in.fetch[1].cancel /\ SlotOf(rob_tail_ptr) = s
                      ELSE ~issue_pop(in) /\ LiveIn(de2issue, s)
    BY <1>1, LiveCycle, Zenon
  <2>2. IF Accepted(in) THEN /\ de2issue'[1].ins = in.fetch[1].ins
                             /\ de2issue'[1].src = regs[in.fetch[1].ins.rs]
        ELSE de2issue'[1].ins = Iss.ins /\ de2issue'[1].src = Iss.src
    BY <1>1, PayloadCycle, Zenon
  <2>3. CASE Accepted(in)
    <3>1. rob_wen(in) /\ s = SlotOf(rob_tail_ptr)
      BY <2>1, <2>3, Zenon DEF rob_wen
    <3>2. /\ InsAt(s)' = in.fetch[1].ins
          /\ rs_need(in.fetch[1].ins) => Operand(s)' = regs[in.fetch[1].ins.rs]
      BY <3>1, Fresh, Zenon
    <3> QED BY <2>2, <2>3, <3>2, Zenon
  <2>4. CASE ~Accepted(in)
    <3>1. LiveIn(de2issue, s) /\ rob_state[s] # EMPTY_S /\ ~(commit_ready /\ s = Hd)
      BY <2>1, <2>4, LiveMapped, Zenon
    <3>2. InsAt(s)' = InsAt(s) /\ (rs_need(InsAt(s)) => Operand(s)' = Operand(s))
      BY <2>1, <3>1, Kept, Zenon
    <3> QED BY <1>2, <2>2, <2>4, <3>1, <3>2, Zenon DEF DeData
  <2> QED BY <2>3, <2>4
<1>4. ASSUME NEW op, Issued(in, {op}), LiveIn(de2issue, s), ~flush(in), rs_need([op |-> op])
      PROVE  InsAt(s)'.op = op /\ Iss.src = Operand(s)' /\ (op = "csr" => csr' = csr)
  <2>1. Iss.ins.op = op /\ Iss.ins = InsAt(s)
    BY <1>2, <1>4, Zenon DEF Issued, DeData
  <2>2. rs_need(InsAt(s))
    BY <1>4, <2>1 DEF rs_need
  <2> QED BY <1>2, <1>4, <2>1, <2>2, LiveMapped, Kept, Zenon DEF DeData
<1>5. AluData(s)'
  <2> SUFFICES ASSUME LiveIn(alu2wb', s)
               PROVE  InsAt(s)'.op = "alu" /\ alu2wb'[1].dat = AluOp(Operand(s)')
    BY Zenon DEF AluData, LiveIn, AluOp
  <2>1. ~flush(in) /\ Issued(in, {"alu"}) /\ LiveIn(de2issue, s) /\ alu2wb'[1].dat = AluOp(Iss.src)
    BY <1>1, LiveCycle, PayloadCycle, Zenon
  <2> QED BY <1>4, <2>1 DEF rs_need
<1>6. CsrData(s)'
  <2> SUFFICES ASSUME LiveIn(csr2wb', s)
               PROVE  InsAt(s)'.op = "csr" /\ csr2wb'[1].dat = csr' /\ csr2wb'[1].csrdat = Operand(s)'
    BY Zenon DEF CsrData, LiveIn
  <2>1. /\ ~flush(in) /\ Issued(in, {"csr"}) /\ LiveIn(de2issue, s)
        /\ csr2wb'[1].dat = csr /\ csr2wb'[1].csrdat = Iss.src
    BY <1>1, LiveCycle, PayloadCycle, Zenon
  <2> QED BY <1>4, <2>1 DEF rs_need
<1>7. AguData(s)'
  <2> SUFFICES ASSUME LiveIn(agu2lsu', s)
               PROVE  /\ agu_sel(InsAt(s)'.op) /\ agu2lsu'[1].excp = InsAt(s)'.mis
                      /\ agu2lsu'[1].read <=> InsAt(s)'.op = "load"
                      /\ agu2lsu'[1].wdat = Operand(s)'
    BY Zenon DEF AguData, LiveIn, LsuIn, agu_sel
  <2>1. ~flush(in) /\ IF Issued(in, {"load", "store"}) THEN LiveIn(de2issue, s)
                      ELSE ~agu_pop(in) /\ LiveIn(agu2lsu, s)
    BY <1>1, LiveCycle, Zenon
  <2>2. IF Issued(in, {"load", "store"})
        THEN /\ agu2lsu'[1].excp = Iss.ins.mis /\ (agu2lsu'[1].read <=> Iss.ins.op = "load")
             /\ agu2lsu'[1].wdat = Iss.src
        ELSE /\ agu2lsu'[1].excp = LsuIn.excp /\ agu2lsu'[1].read = LsuIn.read
             /\ agu2lsu'[1].wdat = LsuIn.wdat
    BY <1>1, PayloadCycle
  <2>3. InsAt(s)' = InsAt(s) /\ (rs_need(InsAt(s)) => Operand(s)' = Operand(s))
    BY <2>1, LiveMapped, Kept, Zenon
  <2>4. CASE Issued(in, {"load", "store"})
    <3>1. Iss.ins = InsAt(s) /\ agu_sel(InsAt(s).op) /\ rs_need(InsAt(s)) /\ Iss.src = Operand(s)
      BY <1>2, <2>1, <2>4, Zenon DEF DeData, Issued, agu_sel, rs_need
    <3> QED BY <2>2, <2>3, <2>4, <3>1, Zenon
  <2>5. CASE ~Issued(in, {"load", "store"})
    <3>1. agu_sel(InsAt(s).op) /\ rs_need(InsAt(s))
      BY <1>2, <2>1, <2>5, Zenon DEF AguData, agu_sel, rs_need
    <3> QED BY <1>2, <2>1, <2>2, <2>3, <2>5, <3>1, Zenon DEF AguData
  <2> QED BY <2>4, <2>5
<1>8. ExcpData(s)'
  <2> SUFFICES ASSUME LiveIn(excp_queue', s) PROVE agu_sel(InsAt(s)'.op) /\ InsAt(s)'.mis
    BY Zenon DEF ExcpData, LiveIn, agu_sel
  <2>1. ~flush(in) /\ IF excp_push(in) THEN LiveIn(agu2lsu, s) ELSE LiveIn(excp_queue, s)
    BY <1>1, LiveCycle
  <2>2. InsAt(s)' = InsAt(s)
    BY <2>1, LiveMapped, Kept, Zenon
  <2> QED BY <1>2, <2>1, <2>2 DEF ExcpData, AguData, excp_push
<1> QED BY <1>3, <1>5, <1>6, <1>7, <1>8

\* The commands, and the bus in a cycle that takes a command or does not.
LEMMA CommandsAre ==
  ASSUME TypeOK, Len(Commands) = Len(mem_queue), NEW in \in Inputs
  PROVE  /\ (bus = <<>> /\ Len(bus) = 0) \/ (bus # <<>> /\ Len(bus) = 1)
         /\ Len(mem_fifo) \in Nat /\ Len(mem_queue) = Len(bus) + Len(mem_fifo)
         /\ \A k \in 1 .. Len(mem_queue) :
              Commands[k] = IF k <= Len(bus) THEN bus[k].read ELSE mem_fifo[k - Len(bus)].read
         /\ mem_pop(in) <=> in.rsp_valid
<1>1. /\ (bus = <<>> /\ Len(bus) = 0) \/ (bus # <<>> /\ Len(bus) = 1)
      /\ Len(mem_fifo) \in Nat /\ Len(Commands) = Len(bus) + Len(mem_fifo)
      /\ \A k \in 1 .. Len(bus) + Len(mem_fifo) :
           Commands[k] = IF k <= Len(bus) THEN bus[k].read ELSE mem_fifo[k - Len(bus)].read
  <2>1. Commands = CommandsOf(bus, mem_fifo)
    BY DEF Commands, CommandsOf
  <2>2. bus \in Seq(BusEntry) /\ Len(bus) <= 1 /\ mem_fifo \in Seq(CmdEntry)
    BY DEF TypeOK
  <2> QED BY <2>1, <2>2, CommandAt
<1>2. in.rsp_valid => mem_queue # <<>>
  BY <1>1, InputsAre, Shapes
<1>3. mem_pop(in) <=> in.rsp_valid
  BY <1>2, InputsAre, Zenon DEF mem_pop, Valid
<1> QED BY <1>1, <1>3

\* What a clock cycle does to the bus and to the memory.
LEMMA BusCycle ==
  ASSUME TypeOK, Len(Commands) = Len(mem_queue), NEW in \in Inputs, Tick(in)
  PROVE  /\ cmd_fire(in) =>
              /\ Len(bus) = 0 /\ ~mem_pop(in) /\ Len(bus') = 1
              /\ Cmds[1].read = IF Len(mem_queue) > 0 THEN Commands[1] ELSE LsuIn.read
              /\ Cmds[1].wdat = IF Len(mem_queue) > 0 THEN mem_fifo[1].wdat ELSE LsuIn.wdat
              /\ Len(mem_queue) = 0 => mem_push
              /\ bus'[1].read = Cmds[1].read
              /\ Cmds[1].read => bus'[1].dat = mem /\ mem' = mem
              /\ ~Cmds[1].read => mem' = Cmds[1].wdat
         /\ ~cmd_fire(in) => mem' = mem /\ bus' = IF mem_pop(in) THEN <<>> ELSE bus
<1>1. /\ (bus = <<>> /\ Len(bus) = 0) \/ (bus # <<>> /\ Len(bus) = 1)
      /\ Len(mem_fifo) \in Nat /\ Len(mem_queue) = Len(bus) + Len(mem_fifo)
      /\ mem_pop(in) <=> in.rsp_valid
  BY CommandsAre, Zenon
<1>2. /\ bus' = IF cmd_fire(in)
                THEN <<[read |-> Cmds[1].read, dat |-> IF Cmds[1].read THEN mem ELSE 0]>>
                ELSE IF in.rsp_valid THEN <<>> ELSE bus
      /\ mem' = IF cmd_fire(in) /\ ~Cmds[1].read THEN Cmds[1].wdat ELSE mem
  BY Zenon DEF Tick, BusStep
<1>3. CASE cmd_fire(in)
  <2>1. bus = <<>> /\ Len(Cmds) > 0 /\ Len(bus) = 0 /\ ~mem_pop(in)
    BY <1>1, <1>3, FifoCycle, InputsAre
  <2>2. /\ Len(Cmds) = Len(mem_fifo) + (IF mem_push THEN 1 ELSE 0)
        /\ Cmds[1] = IF 1 <= Len(mem_fifo) THEN mem_fifo[1] ELSE NewCommand
        /\ mem_push \in BOOLEAN
    <3>1. 1 \in 1 .. Len(Cmds)
      BY <2>1, CmdsAre
    <3> QED BY <3>1, CmdsAre, Wires
  <2>3. Len(mem_queue) = Len(mem_fifo) /\ (Len(mem_queue) = 0 => mem_push)
    BY <1>1, <2>1, <2>2
  <2>4. Len(mem_queue) > 0 => Commands[1] = mem_fifo[1].read
    <3>1. Len(mem_queue) > 0 => 1 \in 1 .. Len(mem_queue) /\ ~(1 <= Len(bus)) /\ 1 - Len(bus) = 1
      BY <1>1, <2>1
    <3> QED BY <2>1, <3>1, CommandsAre
  <2>5. /\ Cmds[1].read = IF Len(mem_queue) > 0 THEN Commands[1] ELSE LsuIn.read
        /\ Cmds[1].wdat = IF Len(mem_queue) > 0 THEN mem_fifo[1].wdat ELSE LsuIn.wdat
    BY <1>1, <2>2, <2>3, <2>4 DEF NewCommand
  <2>6. Len(bus') = 1 /\ bus'[1].read = Cmds[1].read /\ (Cmds[1].read => bus'[1].dat = mem)
    BY <1>2, <1>3, Zenon
  <2> QED BY <1>2, <1>3, <2>1, <2>3, <2>5, <2>6, Zenon
<1>4. CASE ~cmd_fire(in)
  BY <1>1, <1>2, <1>4, Zenon
<1> QED BY <1>3, <1>4

\* The data of a command that waits after a cycle: the data it waited with, or
\* the data of the access that entered in the cycle.
LEMMA WdatCycle ==
  ASSUME TypeOK, Len(Commands) = Len(mem_queue), NEW in \in Inputs, Tick(in),
         NEW k \in 1 .. Len(mem_queue'), k > Len(bus')
  PROVE  LET i == IF mem_pop(in) THEN k + 1 ELSE k
         IN  /\ i > Len(bus)
             /\ mem_fifo'[k - Len(bus')].wdat = IF i <= Len(mem_queue) THEN mem_fifo[i - Len(bus)].wdat
                                                ELSE LsuIn.wdat
<1> DEFINE i == IF mem_pop(in) THEN k + 1 ELSE k
           j == k - Len(bus')
<1>1. /\ (bus = <<>> /\ Len(bus) = 0) \/ (bus # <<>> /\ Len(bus) = 1)
      /\ Len(mem_fifo) \in Nat /\ Len(mem_queue) = Len(bus) + Len(mem_fifo)
      /\ mem_pop(in) <=> in.rsp_valid
      /\ mem_pop(in) \in BOOLEAN /\ mem_push \in BOOLEAN /\ cmd_fire(in) \in BOOLEAN
  BY CommandsAre, Wires, FifoCycle
<1>2. /\ Len(mem_queue') = Len(mem_queue) + (IF mem_push THEN 1 ELSE 0) - (IF mem_pop(in) THEN 1 ELSE 0)
  BY MemQueueCycle
<1>3. /\ Len(Cmds) = Len(mem_fifo) + (IF mem_push THEN 1 ELSE 0)
      /\ \A n \in 1 .. Len(Cmds) : Cmds[n] = IF n <= Len(mem_fifo) THEN mem_fifo[n] ELSE NewCommand
  BY CmdsAre
<1>4. /\ Len(mem_fifo') = Len(Cmds) - (IF cmd_fire(in) THEN 1 ELSE 0)
      /\ \A n \in 1 .. Len(mem_fifo') : mem_fifo'[n] = Cmds[IF cmd_fire(in) THEN n + 1 ELSE n]
  BY FifoCycle, Zenon
<1>5. /\ cmd_fire(in) => Len(bus) = 0 /\ ~mem_pop(in) /\ Len(bus') = 1
      /\ ~cmd_fire(in) => Len(bus') = IF mem_pop(in) THEN 0 ELSE Len(bus)
      /\ mem_pop(in) => Len(bus) = 1
  BY <1>1, BusCycle, InputsAre, Zenon
<1>6. /\ j \in 1 .. Len(mem_fifo') /\ i > Len(bus)
      /\ (IF cmd_fire(in) THEN j + 1 ELSE j) = i - Len(bus)
      /\ i - Len(bus) \in 1 .. Len(Cmds)
      /\ i - Len(bus) <= Len(mem_fifo) <=> i <= Len(mem_queue)
  <2>1. /\ Len(bus) \in {0, 1} /\ Len(mem_fifo) \in Nat /\ Len(mem_queue) = Len(bus) + Len(mem_fifo)
        /\ mem_pop(in) \in BOOLEAN /\ mem_push \in BOOLEAN /\ cmd_fire(in) \in BOOLEAN
    BY <1>1
  <2>2. Len(Cmds) = Len(mem_fifo) + (IF mem_push THEN 1 ELSE 0)
    BY <1>3
  <2>3. Len(mem_fifo') = Len(Cmds) - (IF cmd_fire(in) THEN 1 ELSE 0)
    BY <1>4
  <2>4. Len(bus') = IF cmd_fire(in) THEN 1 ELSE IF mem_pop(in) THEN 0 ELSE Len(bus)
    BY <1>5
  <2>5. CASE cmd_fire(in)
    BY <1>2, <1>5, <2>1, <2>2, <2>3, <2>4, <2>5
  <2>6. CASE ~cmd_fire(in) /\ mem_pop(in)
    <3>1. /\ i = k + 1 /\ Len(bus') = 0 /\ Len(bus) = 1 /\ Len(mem_fifo') = Len(Cmds)
          /\ Len(mem_queue') = Len(Cmds) /\ Len(mem_queue) = 1 + Len(mem_fifo)
      <4>1. i = k + 1 /\ Len(bus) = 1
        BY <1>5, <2>6
      <4>2. Len(bus') = 0
        BY <2>4, <2>6
      <4>3. Len(mem_fifo') = Len(Cmds)
        BY <2>1, <2>2, <2>3, <2>6
      <4>4. Len(mem_queue) = 1 + Len(mem_fifo)
        BY <2>1, <4>1
      <4>5. Len(mem_queue') = 1 + Len(mem_fifo) + (IF mem_push THEN 1 ELSE 0) - 1
        BY <1>2, <2>6, <4>4
      <4> QED BY <2>1, <2>2, <4>1, <4>2, <4>3, <4>4, <4>5
    <3>2. k >= 1 /\ k <= Len(Cmds) /\ k \in Nat /\ j = k /\ i - Len(bus) = k
      BY <3>1
    <3> HIDE DEF i, j
    <3> QED BY <2>1, <2>2, <2>6, <3>1, <3>2
  <2>7. CASE ~cmd_fire(in) /\ ~mem_pop(in)
    <3>1. /\ i = k /\ Len(bus') = Len(bus) /\ Len(mem_fifo') = Len(Cmds)
          /\ Len(mem_queue') = Len(bus) + Len(Cmds)
      BY <1>2, <2>1, <2>2, <2>3, <2>4, <2>7
    <3>2. k > Len(bus) /\ k <= Len(bus) + Len(Cmds) /\ k \in Nat
      BY <3>1
    <3> HIDE DEF i
    <3> QED BY <2>1, <2>2, <2>7, <3>1, <3>2
  <2> QED BY <2>1, <2>5, <2>6, <2>7
<1>7. mem_fifo'[j] = Cmds[i - Len(bus)]
  BY <1>4, <1>6, Zenon
<1>8. Cmds[i - Len(bus)] = IF i <= Len(mem_queue) THEN mem_fifo[i - Len(bus)] ELSE NewCommand
  BY <1>3, <1>6, Zenon
<1> QED BY <1>6, <1>7, <1>8 DEF NewCommand

\* A store goes past issue only as the oldest instruction.
Ahead(s) == LiveIn(agu2lsu, s) \/ LiveIn(excp_queue, s) \/ Waiting(s) \/ rob_state[s] = WRITEBACK_S
StoresOldest == \A s \in Slot : InsAt(s).op = "store" /\ Ahead(s) => s = Hd

\* A slot that has its result at the end of a cycle got it in the cycle or
\* had it and did not retire.
LEMMA Written ==
  ASSUME Placed, NEW in \in Inputs, Tick(in), NEW s \in Slot, rob_state'[s] = WRITEBACK_S
  PROVE  /\ ~flush(in) /\ rob_state[s] # EMPTY_S /\ ~(commit_ready /\ s = Hd)
         /\ ~(rob_wen(in) /\ s = SlotOf(rob_tail_ptr))
         /\ s \in WbSlots(in) \/ (s \notin WbSlots(in) /\ rob_state[s] = WRITEBACK_S)
<1>1. RobRely(rob_wen(in), WbSlots(in), flush(in)) /\ RobStep(rob_wen(in), WbSlots(in), flush(in))
  BY Geometry, RelyKept, RobTakes, Zenon
<1>2. rob_state'[s] = SlotNext(rob_wen(in), WbSlots(in), flush(in), s)
  BY <1>1, Zenon DEF RobStep
<1>3. s \in WbSlots(in) => rob_state[s] = MAPPED_S
  BY <1>1 DEF RobRely
<1> QED BY <1>2, <1>3, Zenon DEF SlotNext, EMPTY_S, MAPPED_S, WRITEBACK_S, commit_ready, Hd

\* A clock cycle keeps StoresOldest: issue holds a store back until it is the oldest.
LEMMA StoresOldestStep ==
  ASSUME Placed, NoDep, UnitData, StoresOldest, NEW in \in Inputs, Tick(in)
  PROVE  StoresOldest'
<1> SUFFICES ASSUME NEW s \in Slot, InsAt(s)'.op = "store", Ahead(s)' PROVE s = Hd'
  BY DEF StoresOldest
<1>1. TypeOK
  BY Geometry
<1>2. DeData(s) /\ AluData(s) /\ CsrData(s) /\ AguData(s) /\ ExcpData(s)
  BY DEF UnitData
<1>3. ASSUME rob_state[s] = MAPPED_S, s = Hd PROVE s = Hd'
  BY <1>3, Quiet DEF commit_ready, Hd, MAPPED_S, WRITEBACK_S
<1>4. ASSUME ~flush(in), LiveIn(agu2lsu, s) \/ LiveIn(excp_queue, s) \/ Waiting(s) PROVE s = Hd'
  <2>1. rob_state[s] = MAPPED_S /\ InsAt(s)' = InsAt(s)
    BY <1>4, LiveMapped, Kept, Zenon
  <2>2. s = Hd
    BY <1>4, <2>1, Zenon DEF StoresOldest, Ahead
  <2> QED BY <1>3, <2>1, <2>2, Zenon
<1>5. CASE LiveIn(agu2lsu', s)
  <2>1. ~flush(in) /\ IF Issued(in, {"load", "store"}) THEN LiveIn(de2issue, s) ELSE LiveIn(agu2lsu, s)
    BY <1>1, <1>5, LiveCycle, Zenon
  <2>2. CASE Issued(in, {"load", "store"})
    <3>1. LiveIn(de2issue, s) /\ rob_state[s] = MAPPED_S /\ InsAt(s)' = InsAt(s) /\ Iss.ins = InsAt(s)
      BY <1>2, <2>1, <2>2, LiveMapped, Kept, Zenon DEF DeData
    <3>2. Iss.ptr = s /\ Hd = Iss.ptr
      BY <2>2, <3>1 DEF LiveIn, Issued, issue_pop, agu_sel, agu_valid, Hd, Iss
    <3> QED BY <1>3, <3>1, <3>2, Zenon
  <2> QED BY <1>4, <2>1, <2>2, Zenon
<1>6. CASE LiveIn(excp_queue', s)
  <2>1. ~flush(in) /\ IF excp_push(in) THEN LiveIn(agu2lsu, s) ELSE LiveIn(excp_queue, s)
    BY <1>1, <1>6, LiveCycle, Zenon
  <2> QED BY <1>4, <2>1, Zenon
<1>7. CASE Waiting(s)'
  <2>1. ~flush(in) /\ \/ mem_push /\ LiveIn(agu2lsu, s)
                      \/ \E i \in 1 .. Len(mem_queue) : Waits(i, s) /\ ~(mem_pop(in) /\ i = 1)
    BY <1>1, <1>7, WaitingCycle
  <2>2. LiveIn(agu2lsu, s) \/ Waiting(s)
    BY <2>1 DEF Waiting
  <2> QED BY <1>4, <2>1, <2>2, Zenon
<1>8. CASE rob_state'[s] = WRITEBACK_S
  <2>1. /\ ~flush(in) /\ rob_state[s] # EMPTY_S /\ ~(commit_ready /\ s = Hd)
        /\ s \in WbSlots(in) \/ (s \notin WbSlots(in) /\ rob_state[s] = WRITEBACK_S)
    BY <1>8, Written
  <2>2. InsAt(s).op = "store"
    BY <2>1, Kept, Zenon
  <2>3. CASE s \in WbSlots(in)
    <3>1. \/ LiveIn(de2issue, s) /\ Iss.ins.op \notin Elsewhere
          \/ LiveIn(alu2wb, s) \/ LiveIn(csr2wb, s) \/ Waits(1, s) \/ LiveIn(excp_queue, s)
      BY <1>1, <2>3, WbSlotsAre
    <3>2. Waits(1, s) => Waiting(s)
      BY DEF Waiting, Waits
    <3> QED BY <1>2, <1>4, <2>1, <2>2, <3>1, <3>2, Zenon DEF DeData, AluData, CsrData, Elsewhere
  <2>4. CASE rob_state[s] = WRITEBACK_S
    <3>1. s = Hd /\ commit_ready
      BY <2>2, <2>4, Zenon DEF StoresOldest, Ahead, commit_ready, Hd
    <3> QED BY <2>1, <3>1, Zenon
  <2> QED BY <2>1, <2>3, <2>4, Zenon
<1> QED
  <2>1. Ahead(s)' <=> \/ LiveIn(agu2lsu', s) \/ LiveIn(excp_queue', s)
                      \/ Waiting(s)' \/ rob_state'[s] = WRITEBACK_S
    BY DEF Ahead, LiveIn
  <2> QED BY <1>5, <1>6, <1>7, <1>8, <2>1, Zenon

\* The store of the address pipe belongs to the oldest instruction.
LEMMA AguOldest ==
  ASSUME Placed, UnitData, StoresOldest, agu2lsu # <<>>, ~LsuIn.cancel, ~LsuIn.read
  PROVE  /\ LsuIn.ptr \in Slot /\ LsuIn.ptr = Hd /\ LiveIn(agu2lsu, Hd)
         /\ rob_state[Hd] = MAPPED_S /\ InsAt(Hd).op = "store"
         /\ LsuIn.wdat = Operand(Hd) /\ LsuIn.excp = InsAt(Hd).mis
<1>1. LsuIn.ptr \in Slot
  BY Geometry, Shapes DEF AguEntry
<1>2. LiveIn(agu2lsu, LsuIn.ptr)
  BY Zenon DEF LiveIn, LsuIn
<1>3. /\ agu_sel(InsAt(LsuIn.ptr).op) /\ LsuIn.excp = InsAt(LsuIn.ptr).mis
      /\ LsuIn.read <=> InsAt(LsuIn.ptr).op = "load"
      /\ LsuIn.wdat = Operand(LsuIn.ptr)
  BY <1>1, <1>2, Zenon DEF UnitData, AguData
<1>4. InsAt(LsuIn.ptr).op = "store"
  BY <1>3 DEF agu_sel
<1>5. LsuIn.ptr = Hd
  BY <1>1, <1>2, <1>4, Zenon DEF StoresOldest, Ahead
<1>6. rob_state[LsuIn.ptr] = MAPPED_S
  BY <1>1, <1>2, LiveMapped, Zenon
<1> QED BY <1>1, <1>2, <1>3, <1>4, <1>5, <1>6, Zenon

\* A clock cycle keeps WritesAreOldest.
LEMMA WritesStep ==
  ASSUME Placed, UnitData, StoresOldest, WritesAreOldest, NEW in \in Inputs, Tick(in)
  PROVE  WritesAreOldest'
<1>1. TypeOK /\ Len(Commands) = Len(mem_queue)
  BY Geometry, Zenon DEF WritesAreOldest
<1>2. Len(Commands') = Len(mem_queue')
  BY <1>1, CommandsCycle
<1>3. ASSUME NEW k \in 1 .. Len(mem_queue'), ~Commands'[k]
      PROVE  mem_queue'[k].cancel = FALSE /\ mem_queue'[k].ptr = Hd' /\ rob_state'[Hd'] = MAPPED_S
  <2> DEFINE i == IF mem_pop(in) THEN k + 1 ELSE k
  <2>1. Commands'[k] = IF i <= Len(mem_queue) THEN Commands[i] ELSE LsuIn.read
    BY <1>1, CommandsCycle, Zenon
  <2>2. Len(mem_queue) \in Nat /\ i \in Nat \ {0} /\ (i > Len(mem_queue) => mem_push)
    BY <1>1, MemQueueCycle, Shapes, Wires
  <2>3. rob_state[Hd] = MAPPED_S /\ Hd \in Slot /\ IF i <= Len(mem_queue) THEN Waits(i, Hd) ELSE LiveIn(agu2lsu, Hd)
    <3>1. CASE i <= Len(mem_queue)
      <4>1. i \in 1 .. Len(mem_queue) /\ ~Commands[i]
        BY <1>3, <2>1, <2>2, <3>1
      <4> QED BY <3>1, <4>1, Geometry, Zenon DEF WritesAreOldest, Waits, Hd
    <3>2. CASE ~(i <= Len(mem_queue))
      <4>1. agu2lsu # <<>> /\ ~LsuIn.cancel /\ ~LsuIn.read
        BY <1>3, <2>1, <2>2, <3>2 DEF mem_push, Valid
      <4> QED BY <3>2, <4>1, AguOldest, Geometry, Zenon
    <3> QED BY <3>1, <3>2, Zenon
  <2>4. ~flush(in) /\ Hd' = Hd
    BY <2>3, Quiet, Zenon DEF commit_ready, Hd, MAPPED_S, WRITEBACK_S
  <2>5. Waits(k, Hd)' <=> ~flush(in) /\ IF i <= Len(mem_queue) THEN Waits(i, Hd) ELSE LiveIn(agu2lsu, Hd)
    <3>1. PICK s \in Slot : s = Hd
      BY <2>3
    <3>2. Waits(k, s)' <=> ~flush(in) /\ IF i <= Len(mem_queue) THEN Waits(i, s) ELSE LiveIn(agu2lsu, s)
      BY <1>1, WaitsCycle
    <3>3. Waits(k, s)' <=> Waits(k, Hd)'
      BY <2>4, <3>1 DEF Waits
    <3> QED BY <3>1, <3>2, <3>3, Zenon
  <2> HIDE DEF i
  <2>6. ~mem_queue'[k].cancel /\ mem_queue'[k].ptr = Hd' /\ mem_queue'[k] \in LsuEntry
    <3>1. Waits(k, Hd)'
      BY <2>3, <2>4, <2>5
    <3>2. mem_queue' \in Seq(LsuEntry)
      BY <1>1, MemQueueCycle, Zenon
    <3> QED BY <2>4, <3>1, <3>2 DEF Waits
  <2>7. rob_state'[Hd] = MAPPED_S
    <3>1. PICK s \in Slot : s = Hd
      BY <2>3
    <3>2. Placed'
      BY PlacedStep
    <3>3. OneAt(s)'
      BY <3>2 DEF Placed, OnePlace
    <3>4. Waiting(s)'
      BY <2>4, <2>6, <3>1, Zenon DEF Waiting, Waits
    <3> QED BY <3>1, <3>3, <3>4 DEF OneAt
  <2> QED BY <2>4, <2>6, <2>7, Zenon DEF LsuEntry
<1> QED BY <1>2, <1>3, Zenon DEF WritesAreOldest, Hd

\* An access that waits for its answer is the one its instruction asks for.
MemAt(k, s) ==
  Waits(k, s) =>
    /\ agu_sel(InsAt(s).op) /\ ~InsAt(s).mis
    /\ Commands[k] <=> InsAt(s).op = "load"
    /\ k <= Len(bus) /\ Commands[k] => bus[k].dat = mem
    /\ k > Len(bus) /\ ~Commands[k] => mem_fifo[k - Len(bus)].wdat = Operand(s)
MemData == \A s \in Slot : \A k \in 1 .. Len(mem_queue) : MemAt(k, s)

\* A clock cycle keeps MemData.
LEMMA MemDataStep ==
  ASSUME Placed, NoDep, UnitData, Len(Commands) = Len(mem_queue), MemData, NEW in \in Inputs, Tick(in)
  PROVE  MemData'
<1> SUFFICES ASSUME NEW s \in Slot, NEW k \in 1 .. Len(mem_queue'), Waits(k, s)'
             PROVE  /\ agu_sel(InsAt(s)'.op) /\ ~InsAt(s)'.mis
                    /\ Commands'[k] <=> InsAt(s)'.op = "load"
                    /\ k <= Len(bus') /\ Commands'[k] => bus'[k].dat = mem'
                    /\ k > Len(bus') /\ ~Commands'[k] => mem_fifo'[k - Len(bus')].wdat = Operand(s)'
  BY DEF MemData, MemAt, agu_sel
<1> DEFINE i == IF mem_pop(in) THEN k + 1 ELSE k
<1>1. TypeOK
  BY Geometry
<1>2. ~flush(in) /\ IF i <= Len(mem_queue) THEN Waits(i, s) ELSE LiveIn(agu2lsu, s)
  BY <1>1, WaitsCycle
<1>3. Commands'[k] = IF i <= Len(mem_queue) THEN Commands[i] ELSE LsuIn.read
  BY <1>1, CommandsCycle, Zenon
<1>4. Len(mem_queue) \in Nat /\ i \in Nat \ {0} /\ (i > Len(mem_queue) => mem_push)
  BY <1>1, MemQueueCycle, Shapes, Wires
<1>i. (mem_pop(in) => i = k + 1) /\ (~mem_pop(in) => i = k)
  OBVIOUS
<1> HIDE DEF i
<1>5. InsAt(s)' = InsAt(s) /\ (rs_need(InsAt(s)) => Operand(s)' = Operand(s))
  BY <1>2, <1>4, LiveMapped, Kept DEF Waiting
<1>6. /\ agu_sel(InsAt(s).op) /\ ~InsAt(s).mis
      /\ Commands'[k] <=> InsAt(s).op = "load"
  <2>1. CASE i <= Len(mem_queue)
    <3>1. i \in 1 .. Len(mem_queue)
      BY <1>4, <2>1
    <3> QED BY <1>2, <1>3, <2>1, <3>1, Zenon DEF MemData, MemAt
  <2>2. CASE ~(i <= Len(mem_queue))
    <3>1. mem_push
      BY <1>4, <2>2
    <3> QED BY <1>2, <1>3, <2>2, <3>1, Zenon DEF UnitData, AguData, mem_push
  <2> QED BY <2>1, <2>2, Zenon
<1>7. ASSUME k <= Len(bus'), Commands'[k] PROVE bus'[k].dat = mem'
  <2>1. Len(bus') <= 1
    BY <1>1, BusType
  <2>2. k = 1
    BY <1>7, <2>1, <1>1, BusType
  <2>3. CASE cmd_fire(in)
    <3>1. ~mem_pop(in) /\ bus'[1].read = Cmds[1].read
          /\ Cmds[1].read = (IF Len(mem_queue) > 0 THEN Commands[1] ELSE LsuIn.read)
          /\ (Cmds[1].read => bus'[1].dat = mem /\ mem' = mem)
      BY <1>1, <2>3, BusCycle, Zenon
    <3>2. Cmds[1].read = Commands'[k]
      BY <1>3, <1>4, <1>i, <2>2, <3>1
    <3> QED BY <1>7, <2>2, <3>1, <3>2, Zenon
  <2>4. CASE ~cmd_fire(in)
    <3>1. mem' = mem /\ bus' = IF mem_pop(in) THEN <<>> ELSE bus
      BY <1>1, <2>4, BusCycle, Zenon
    <3>2. ~mem_pop(in) /\ bus' = bus
      BY <1>7, <2>2, <3>1
    <3>3. i = 1 /\ 1 <= Len(bus) /\ Len(mem_queue) >= 1
      <4>1. Len(bus) \in Nat /\ Len(bus) <= Len(mem_queue)
        BY <1>1, CommandsAre
      <4> QED BY <1>4, <1>7, <1>i, <2>2, <3>2, <4>1
    <3>4. MemAt(1, s) /\ Waits(1, s) /\ Commands[1]
      <4>1. i <= Len(mem_queue) /\ 1 \in 1 .. Len(mem_queue)
        BY <1>4, <3>3
      <4> QED BY <1>2, <1>3, <1>7, <3>3, <4>1, Zenon DEF MemData
    <3> QED BY <2>2, <3>1, <3>2, <3>3, <3>4, Zenon DEF MemAt
  <2> QED BY <2>3, <2>4
<1>8. ASSUME k > Len(bus'), ~Commands'[k] PROVE mem_fifo'[k - Len(bus')].wdat = Operand(s)'
  <2>1. /\ i > Len(bus)
        /\ mem_fifo'[k - Len(bus')].wdat = IF i <= Len(mem_queue) THEN mem_fifo[i - Len(bus)].wdat
                                           ELSE LsuIn.wdat
    BY <1>1, <1>8, WdatCycle DEF i
  <2>2. Operand(s)' = Operand(s)
    BY <1>5, <1>6, Zenon DEF agu_sel, rs_need
  <2>3. CASE i <= Len(mem_queue)
    <3>1. i \in 1 .. Len(mem_queue) /\ Waits(i, s) /\ ~Commands[i]
      BY <1>2, <1>3, <1>4, <1>8, <2>3
    <3>2. MemAt(i, s)
      BY <3>1, Zenon DEF MemData
    <3>3. mem_fifo[i - Len(bus)].wdat = Operand(s)
      BY <2>1, <3>1, <3>2, Zenon DEF MemAt
    <3> QED BY <2>1, <2>2, <2>3, <3>3, Zenon
  <2>4. CASE ~(i <= Len(mem_queue))
    BY <1>2, <2>1, <2>2, <2>4, Zenon DEF UnitData, AguData
  <2> QED BY <2>3, <2>4, Zenon
<1> QED BY <1>5, <1>6, <1>7, <1>8, Zenon

\* A load that has its word; no write may then be under way in front of it.
Loaded(s) == rob_state[s] = WRITEBACK_S /\ InsAt(s).op = "load" /\ ~InsAt(s).mis
AguFirst == agu2lsu # <<>> /\ ~LsuIn.cancel /\ ~LsuIn.read /\ ~LsuIn.excp =>
              \A s \in Slot : ~Waiting(s) /\ ~Loaded(s)
CmdFirst == \A k \in 1 .. Len(mem_queue) :
              k > Len(bus) /\ ~Commands[k] =>
                \A s \in Slot : ~Loaded(s) /\ \A j \in 1 .. k - 1 : ~Waits(j, s)

\* A load that has its word had it before, or gets it from the oldest access.
LEMMA LoadedFrom ==
  ASSUME Placed, NoDep, UnitData, NEW in \in Inputs, Tick(in), NEW s \in Slot, Loaded(s)'
  PROVE  Loaded(s) \/ (mem_pop(in) /\ Waits(1, s) /\ s \in WbSlots(in))
<1>1. /\ ~flush(in) /\ rob_state[s] # EMPTY_S /\ ~(commit_ready /\ s = Hd)
      /\ s \in WbSlots(in) \/ (s \notin WbSlots(in) /\ rob_state[s] = WRITEBACK_S)
  BY Written, Zenon DEF Loaded
<1>2. InsAt(s)' = InsAt(s)
  BY <1>1, Kept
<1>3. InsAt(s).op = "load" /\ ~InsAt(s).mis
  BY <1>2, Zenon DEF Loaded
<1>4. CASE s \in WbSlots(in)
  <2>1. \/ LiveIn(de2issue, s) /\ Iss.ins.op \notin Elsewhere
        \/ LiveIn(alu2wb, s) \/ LiveIn(csr2wb, s)
        \/ (mem_pop(in) /\ Waits(1, s)) \/ LiveIn(excp_queue, s)
    BY <1>4, Geometry, WbSlotsAre, Zenon
  <2> QED BY <1>3, <1>4, <2>1, Zenon DEF UnitData, DeData, AluData, CsrData, ExcpData, Elsewhere
<1> QED BY <1>1, <1>3, <1>4, Zenon DEF Loaded

\* A clock cycle keeps AguFirst.
LEMMA AguFirstStep ==
  ASSUME Placed, Youngest, NoDep, UnitData, AguFirst, NEW in \in Inputs, Tick(in)
  PROVE  AguFirst'
<1> SUFFICES ASSUME agu2lsu' # <<>>, ~agu2lsu'[1].cancel, ~agu2lsu'[1].read, ~agu2lsu'[1].excp,
                    NEW t \in Slot
             PROVE  ~Waiting(t)' /\ ~Loaded(t)'
  BY DEF AguFirst, LsuIn
<1>1. TypeOK
  BY Geometry
<1>2. PICK s \in Slot : s = agu2lsu'[1].ptr
  <2>1. agu2lsu' \in Seq(AguEntry) /\ Len(agu2lsu') <= 1
    BY <1>1, PipesType
  <2>2. agu2lsu'[1] \in AguEntry
    BY <2>1, ShortSeq
  <2> QED BY <2>2 DEF AguEntry
<1>3. LiveIn(agu2lsu', s)
  BY <1>2, Zenon DEF LiveIn
<1>4. ~flush(in) /\ IF Issued(in, {"load", "store"}) THEN LiveIn(de2issue, s)
                    ELSE ~agu_pop(in) /\ LiveIn(agu2lsu, s)
  BY <1>1, <1>3, LiveCycle, Zenon
<1>5. SUFFICES ~(mem_push /\ LiveIn(agu2lsu, t)) /\ ~Waiting(t) /\ ~Loaded(t)
  <2>1. Waiting(t)' => (mem_push /\ LiveIn(agu2lsu, t)) \/ Waiting(t)
    BY <1>1, WaitingCycle, Zenon DEF Waiting
  <2>2. Waits(1, t) => Waiting(t)
    BY DEF Waiting, Waits
  <2>3. Loaded(t)' => Loaded(t) \/ Waits(1, t)
    BY LoadedFrom
  <2> QED BY <1>5, <2>1, <2>2, <2>3, Zenon
<1>6. CASE Issued(in, {"load", "store"})
  <2>1. LiveIn(de2issue, s) /\ rob_state[s] = MAPPED_S
    BY <1>4, <1>6, LiveMapped
  <2>2. Iss.ptr = s /\ Hd = Iss.ptr
    <3>1. agu2lsu'[1].read <=> Iss.ins.op = "load"
      BY <1>1, <1>3, <1>6, PayloadCycle, Zenon
    <3>2. Iss.ins.op # "load" /\ agu_sel(Iss.ins.op) /\ agu_valid
      BY <1>6, <3>1, Zenon DEF Issued, issue_pop, agu_sel
    <3>3. Hd = Iss.ptr
      BY <3>2 DEF agu_valid, Hd
    <3>4. Iss.ptr = s
      BY <2>1, Zenon DEF LiveIn, Iss
    <3> QED BY <3>3, <3>4, Zenon
  <2>3. RobCount = 1
    BY <2>1, <2>2, Geometry DEF Youngest
  <2>4. rob_state[t] # EMPTY_S => t = s
    BY <2>2, <2>3, Geometry
  <2>5. OneAt(s)
    BY Geometry, Zenon DEF OnePlace
  <2>6. ~LiveIn(agu2lsu, t) /\ ~Waiting(t)
    BY <2>1, <2>4, <2>5, LiveMapped, Zenon DEF OneAt
  <2>7. ~Loaded(t)
    BY <2>1, <2>4, Zenon DEF Loaded, MAPPED_S, WRITEBACK_S, EMPTY_S
  <2> QED BY <2>6, <2>7, Zenon
<1>7. CASE ~Issued(in, {"load", "store"})
  <2>1. ~agu_pop(in) /\ LiveIn(agu2lsu, s)
    BY <1>4, <1>7, Zenon
  <2>2. agu2lsu'[1].excp = LsuIn.excp /\ agu2lsu'[1].read = LsuIn.read
    BY <1>1, <1>3, <1>7, PayloadCycle, Zenon
  <2>3. agu2lsu # <<>> /\ ~LsuIn.cancel /\ ~LsuIn.read /\ ~LsuIn.excp
    BY <2>1, <2>2, Zenon DEF LiveIn, LsuIn
  <2>4. ~mem_push
    BY <2>1, <2>3 DEF agu_pop, Valid
  <2> QED BY <2>3, <2>4 DEF AguFirst
<1> QED BY <1>6, <1>7, Zenon

\* A clock cycle keeps CmdFirst.
LEMMA CmdFirstStep ==
  ASSUME Placed, NoDep, UnitData, Len(Commands) = Len(mem_queue), AguFirst, CmdFirst,
         NEW in \in Inputs, Tick(in)
  PROVE  CmdFirst'
<1> SUFFICES ASSUME NEW k \in 1 .. Len(mem_queue'), k > Len(bus'), ~Commands'[k], NEW t \in Slot
             PROVE  ~Loaded(t)' /\ \A j \in 1 .. k - 1 : ~Waits(j, t)'
  BY DEF CmdFirst
<1> DEFINE i == IF mem_pop(in) THEN k + 1 ELSE k
<1>1. TypeOK
  BY Geometry, Zenon
<1>2. Commands'[k] = IF i <= Len(mem_queue) THEN Commands[i] ELSE LsuIn.read
  BY <1>1, CommandsCycle, Zenon
<1>3. /\ Len(mem_queue) \in Nat /\ i \in Nat \ {0} /\ (i > Len(mem_queue) => mem_push)
      /\ i <= Len(mem_queue) + 1 /\ (mem_pop(in) => i > 1)
  BY <1>1, MemQueueCycle, Shapes, Wires
<1>4. i > Len(bus)
  BY <1>1, WdatCycle, Zenon
<1> HIDE DEF i
<1>5. ~Loaded(t) /\ \A j \in 1 .. i - 1 : ~Waits(j, t)
  <2>1. CASE i <= Len(mem_queue)
    <3>1. i \in 1 .. Len(mem_queue) /\ ~Commands[i]
      BY <1>2, <1>3, <2>1
    <3> QED BY <1>4, <3>1, Zenon DEF CmdFirst
  <2>2. CASE ~(i <= Len(mem_queue))
    <3>1. agu2lsu # <<>> /\ ~LsuIn.cancel /\ ~LsuIn.read /\ ~LsuIn.excp
      BY <1>2, <1>3, <2>2 DEF mem_push, Valid
    <3>2. ~Loaded(t) /\ ~Waiting(t)
      BY <3>1 DEF AguFirst
    <3> QED BY <3>2, Zenon DEF Waiting, Waits
  <2> QED BY <2>1, <2>2
<1>6. ~Loaded(t)'
  <2>1. mem_pop(in) => 1 \in 1 .. i - 1
    BY <1>3
  <2> QED BY <1>5, <2>1, LoadedFrom
<1>7. ASSUME NEW j \in 1 .. k - 1 PROVE ~Waits(j, t)'
  <2> DEFINE n == IF mem_pop(in) THEN j + 1 ELSE j
  <2>1. j \in 1 .. Len(mem_queue') /\ n \in 1 .. i - 1 /\ n <= Len(mem_queue)
    <3>1. Len(mem_queue') \in Nat /\ mem_pop(in) \in BOOLEAN
      BY <1>1, MemQueueCycle, Wires
    <3> QED BY <1>3, <3>1 DEF i
  <2>2. Waits(j, t)' <=> ~flush(in) /\ IF n <= Len(mem_queue) THEN Waits(n, t) ELSE LiveIn(agu2lsu, t)
    BY <1>1, <2>1, WaitsCycle
  <2> HIDE DEF n
  <2> QED BY <1>5, <2>1, <2>2, Zenon
<1> QED BY <1>6, <1>7, Zenon
==========================================================================

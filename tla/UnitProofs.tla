---------------------------- MODULE UnitProofs ---------------------------
(***************************************************************************)
(* Three units that stand alone, for every value of their constants.       *)
(*   - The reorder buffer: its pointers and states keep their ranges and   *)
(*     the live slots are the window between the pointers.                 *)
(*   - Precise traps for every program, buffer size, set of lines and      *)
(*     counter width, as far as they hold: for programs without mret and   *)
(*     as long as no interrupt is taken with the write that disables it.   *)
(*     The inductive invariant is that of the reorder buffer, the          *)
(*     types, and ProgramOrder; without ProgramOrder nothing ties the PC   *)
(*     that retires next to the one that retired before it.                *)
(*   - The queues HiCore_queue and sirv_bypbuf (the arbiters of the bus,   *)
(*     fetch and the load/store unit have them) implement the cancellable  *)
(*     FIFO.  The inductive invariant is the width of the registers and    *)
(*     NoOverrun; it is needed because the ring keeps the entries apart    *)
(*     only while at most DP are inside.                                   *)
(***************************************************************************)
EXTENDS Trap, Bypbuf, Lemmas

\* The type invariant of the buffer: pointers and slot states keep their ranges.
THEOREM RobTypeCorrect == RobSpec => []RobTypeOK
  <1>1. RobInit => RobTypeOK
    BY RobSizeAssumption DEF RobInit, RobTypeOK, Ptr, SlotState
  <1>2. RobTypeOK /\ [RobNext]_rob_vars => RobTypeOK'
    <2>1. RobTypeOK /\ RobNext => RobTypeOK'
      BY RobStepType DEF RobNext
    <2>2. RobTypeOK /\ UNCHANGED rob_vars => RobTypeOK'
      BY DEF RobTypeOK, rob_vars
    <2> QED BY <2>1, <2>2
  <1> QED BY <1>1, <1>2, PTL DEF RobSpec

\* The allocated slots are always the RobCount slots from the head on, for
\* every buffer size and every sequence of inputs the buffer relies on.
THEOREM RobWindowCorrect == RobSpec => []RobWindow
  <1>1. RobInit => RobWindow
    BY RobSizeAssumption DEF RobInit, RobWindow, RobCount, RobAge, SlotOf, Slot
  <1>2. RobTypeOK /\ RobWindow /\ [RobNext]_rob_vars => RobWindow'
    <2>1. RobTypeOK /\ RobWindow /\ RobNext => RobWindow'
      BY RobStepWindow DEF RobNext
    <2>2. RobWindow /\ UNCHANGED rob_vars => RobWindow'
      BY DEF RobWindow, rob_vars, RobCount, RobAge, SlotOf
    <2> QED BY <2>1, <2>2
  <1> QED BY <1>1, <1>2, RobTypeCorrect, PTL DEF RobSpec
--------------------------------------------------------------------------
\* Counting on: the low half goes up by one, the high half with its carry,
\* and both wrap.
LEMMA CountOn ==
  ASSUME NEW w \in Nat \ {0}, NEW h \in 0 .. w - 1, NEW l \in 0 .. w - 1
  PROVE  (h * w + l + 1) % (w * w) = (IF l = w - 1 THEN (h + 1) % w ELSE h) * w + ((l + 1) % w)
<1>s. ASSUME NEW m \in Nat \ {0}, NEW x \in 0 .. m - 1
      PROVE  x % m = x
  <2>1. 0 * m + x = x
    OBVIOUS
  <2>2. (0 * m + x) % m = x
    BY Halves
  <2> QED BY <2>1, <2>2
<1>1. h * w \in Nat /\ w * w \in Nat \ {0}
  BY Product
<1>2. (w - h) * w = w * w - h * w /\ (h + 1) * w = h * w + w
  BY SMT
<1>3. (w - h) * w >= w
  BY Product
<1> DEFINE n == w * w
           k == h * w
<1>4. n \in Nat \ {0} /\ k \in Nat /\ n - k >= w /\ (h + 1) * w = k + w
  BY <1>1, <1>2, <1>3
<1>5. CASE l < w - 1
  <2>1. (l + 1) % w = l + 1
    BY <1>5, <1>s
  <2>2. k + l + 1 \in 0 .. n - 1
    BY <1>4, <1>5
  <2> HIDE DEF n, k
  <2>3. (k + l + 1) % n = k + l + 1
    BY <1>4, <2>2, <1>s
  <2> QED BY <1>4, <1>5, <2>1, <2>3 DEF n, k
<1>6. CASE l = w - 1
  <2>1. (l + 1) % w = 0
    <3>1. (1 * w + 0) % w = 0
      BY Halves
    <3> QED BY <1>6, <3>1
  <2>2. CASE h < w - 1
    <3>1. (h + 1) % w = h + 1
      BY <2>2, <1>s
    <3>2. (w - (h + 1)) * w >= w
      BY <2>2, Product
    <3>3. (w - (h + 1)) * w = w * w - (h + 1) * w
      BY SMT
    <3>4. k + l + 1 = k + w /\ k + w \in 0 .. n - 1
      BY <1>4, <1>6, <3>2, <3>3
    <3> HIDE DEF n, k
    <3>5. (k + l + 1) % n = k + w
      BY <1>4, <3>4, <1>s
    <3>6. (h + 1) * w + 0 = k + w
      BY <1>4
    <3> QED BY <1>6, <2>1, <3>1, <3>5, <3>6 DEF n, k
  <2>3. CASE h = w - 1
    <3>1. (h + 1) % w = 0
      BY <2>3, <1>6, <2>1
    <3>2. k + l + 1 = 1 * n + 0
      BY <1>2, <1>6, <2>3
    <3> HIDE DEF n, k
    <3>3. (k + l + 1) % n = 0
      BY <1>4, <3>2, Halves
    <3>4. 0 * w + 0 = 0
      OBVIOUS
    <3> QED BY <1>6, <2>1, <3>1, <3>3, <3>4 DEF n, k
  <2> QED BY <2>2, <2>3
<1> QED BY <1>5, <1>6

TrapInv == TrapTypeOK /\ RobWindow /\ ProgramOrder

\* A cycle keeps the rules the reorder buffer relies on.
LEMMA TrapRely ==
  ASSUME NEW issue_wen \in BOOLEAN, NEW irq, NEW wb \in SUBSET Slot, TrapTick(issue_wen, irq, wb)
  PROVE  /\ flush \in BOOLEAN
         /\ RobRely(issue_wen, wb, flush) /\ RobStep(issue_wen, wb, flush)
<1>1. flush \in BOOLEAN /\ (flush => commit_ready)
  BY DEF flush
<1> QED BY <1>1 DEF TrapTick, RobRely

\* The PC of the head slot is one of the program where its class is asked for.
LEMMA HeadInProgram ==
  ASSUME TrapTypeOK
  PROVE  /\ HeadSlot \in Slot /\ commit_pc \in PC \cup {NoPC}
         /\ commit_op # "none" => commit_pc \in PC /\ commit_op = Prog[commit_pc].op
<1>1. HeadSlot \in Slot
  BY PtrArith DEF HeadSlot, TrapTypeOK, RobTypeOK
<1>2. commit_pc \in PC \cup {NoPC}
  BY <1>1 DEF commit_pc, TrapTypeOK
<1> QED BY <1>1, <1>2 DEF commit_op, Op

\* The interrupt reported is one of those pending.
LEMMA LowestOf ==
  ASSUME NEW S \in SUBSET {3, 7, 11}, S # {}
  PROVE  Lowest(S) \in S
<1>1. \E i \in S : \A j \in S : i <= j
  <2>1. CASE 3 \in S
    BY <2>1
  <2>2. CASE 3 \notin S /\ 7 \in S
    BY <2>2
  <2>3. CASE 3 \notin S /\ 7 \notin S
    <3>1. S = {11}
      BY <2>3, Zenon
    <3> QED BY <3>1
  <2> QED BY <2>1, <2>2, <2>3
<1> QED BY <1>1, Zenon DEF Lowest

\* One cycle keeps the registers within their types.
LEMMA TrapStepType ==
  ASSUME TrapInv, NEW issue_wen \in BOOLEAN, NEW irq \in SUBSET Lines,
         NEW wb \in SUBSET Slot, TrapTick(issue_wen, irq, wb)
  PROVE  TrapTypeOK'
<1> USE DEF TrapInv
<1>1. RobTypeOK'
  BY TrapRely, RobStepType DEF TrapTypeOK
<1>2. rob_pc' \in [Slot -> PC \cup {NoPC}]
  BY PtrArith DEF TrapTick, TrapTypeOK, RobTypeOK
<1>3. rob_irq' \in [Slot -> SUBSET Lines]
  BY DEF TrapTick, TrapTypeOK
<1>4. /\ commit_op \in CsrOp \cup {"fence_i"} => commit_pc \in PC
      /\ commit_op = "fence_i" => Prog[commit_pc].next \in PC
      /\ \A op \in CsrOp : csr_wr(op) =>
           /\ commit_pc \in PC /\ Prog[commit_pc].epc \in PC
           /\ Prog[commit_pc].mie \in BOOLEAN /\ Prog[commit_pc].mpie \in BOOLEAN
           /\ Prog[commit_pc].en \subseteq Lines /\ Prog[commit_pc].cnt \in 0 .. W - 1
  BY HeadInProgram, TrapAssumption DEF CsrOp, csr_wr
<1>5. flush => flush_pc \in PC
  BY <1>4, TrapAssumption DEF flush, flush_pc, TrapTypeOK
<1>6. fetch_pc' \in PC
  BY <1>5, TrapAssumption DEF TrapTick, TrapTypeOK
<1>7. mepc' \in PC
  <2>1. excp_en => commit_pc \in PC
    BY HeadInProgram DEF excp_en
  <2>2. irq_en /\ ~excp_en => Prog[commit_pc].next \in PC
    BY RobGeometry, HeadInProgram, TrapAssumption DEF irq_en, TrapTypeOK, ProgramOrder, commit_pc, HeadSlot
  <2> QED BY <1>4, <2>1, <2>2 DEF TrapTick, CsrStep, MepcNext, wr_mepc, CsrOp, TrapTypeOK
<1>8. status_mie' \in BOOLEAN /\ status_mpie' \in BOOLEAN
  BY <1>4, Zenon DEF TrapTick, CsrStep, MieNext, MpieNext, wr_mstatus, CsrOp, TrapTypeOK
<1>9. mie_r' \subseteq Lines
  BY <1>4 DEF TrapTick, CsrStep, wr_mie, CsrOp, TrapTypeOK
<1>10. mcause_r' \in {<<FALSE, 0>>, <<FALSE, 11>>} \cup {<<TRUE, i>> : i \in Lines}
  <2>1. irq_en => Lowest(csr_irq) \in Lines
    <3>1. csr_irq \subseteq Lines
      BY HeadInProgram DEF csr_irq, TrapTypeOK
    <3>2. csr_irq \subseteq {3, 7, 11}
      BY <3>1, TrapAssumption
    <3> QED BY <3>1, <3>2, LowestOf, Zenon DEF irq_en
  <2>2. mcause_r' = McauseNext
    BY DEF TrapTick, CsrStep
  <2> QED BY <2>1, <2>2, Zenon DEF McauseNext, TrapTypeOK
<1>11. minstret_r' \in 0 .. W - 1 /\ minstreth_r' \in 0 .. W - 1
  <2>1. /\ (minstret_r + 1) % W \in 0 .. W - 1 /\ (minstreth_r + 1) % W \in 0 .. W - 1
    <3>1. /\ W \in Nat \ {0} /\ minstret_r + 1 \in Nat /\ minstreth_r + 1 \in Nat
      BY TrapAssumption DEF TrapTypeOK
    <3> QED BY <3>1, DivMod, Zenon
  <2>2. /\ wr_minstret => Prog[commit_pc].cnt \in 0 .. W - 1
        /\ wr_minstreth => Prog[commit_pc].cnt \in 0 .. W - 1
    BY <1>4 DEF wr_minstret, wr_minstreth, CsrOp
  <2> QED BY <2>1, <2>2 DEF TrapTick, CsrStep, minstret_nxt, minstreth_nxt, TrapTypeOK
<1> QED BY <1>1, <1>2, <1>3, <1>6, <1>7, <1>8, <1>9, <1>10, <1>11, Zenon DEF TrapTypeOK

\* The slot after a slot is one younger, up to the end of the ring.
LEMMA NextSlotAge ==
  ASSUME RobTypeOK, NEW s \in Slot
  PROVE  /\ NextSlot(s) \in Slot
         /\ RobAge(s) \in 0 .. RobSize - 1
         /\ RobAge(NextSlot(s)) = IF RobAge(s) = RobSize - 1 THEN 0 ELSE RobAge(s) + 1
<1>1. SlotOf(rob_head_ptr) \in Slot
  BY PtrArith DEF RobTypeOK
<1> QED BY <1>1, RobSizeAssumption DEF NextSlot, RobAge, Slot

\* One cycle keeps the buffer a stretch of the program.
LEMMA ProgramOrderStep ==
  ASSUME TrapInv, NEW issue_wen \in BOOLEAN, NEW irq \in SUBSET Lines,
         NEW wb \in SUBSET Slot, TrapTick(issue_wen, irq, wb)
  PROVE  ProgramOrder'
<1> USE DEF TrapInv
<1>1. RobTypeOK
  BY DEF TrapTypeOK
<1>2. CASE flush = TRUE
  <2>1. RobCount' = 0
    BY <1>1, <1>2, TrapRely, RobFlushed, Zenon
  <2>2. \A s \in Slot : RobAge(s)' \in Nat
    <3>1. SlotOf(rob_head_ptr') \in Slot
      BY TrapStepType, PtrArith, Zenon DEF TrapTypeOK, RobTypeOK
    <3> QED BY <3>1, RobSizeAssumption DEF RobAge, Slot
  <2> QED BY <2>1, <2>2 DEF ProgramOrder
<1>3. CASE flush = FALSE
  <2>1. RobRely(issue_wen, wb, FALSE) /\ RobStep(issue_wen, wb, FALSE)
    BY <1>3, TrapRely, Zenon
  <2>2. /\ RobCount' = RobCount + (IF issue_wen THEN 1 ELSE 0) - (IF commit_ready THEN 1 ELSE 0)
        /\ RobCount \in 0 .. RobSize
        /\ issue_wen => RobCount # RobSize /\ ~rob_full
        /\ commit_ready => RobCount > 0
    BY <1>1, <2>1, RobMoves, RobGeometry, Zenon DEF RobRely
  <2>3. fetch_pc' = IF issue_wen THEN Prog[fetch_pc].next ELSE fetch_pc
    BY <1>3 DEF TrapTick
  <2>4. ASSUME NEW s \in Slot
        PROVE  rob_pc'[s] = IF issue_wen /\ RobAge(s) = RobCount THEN fetch_pc ELSE rob_pc[s]
    <3>1. issue_wen => (RobAge(s) = RobCount <=> s = SlotOf(rob_tail_ptr))
      BY <1>1, <2>2, RobGeometry
    <3> QED BY <3>1 DEF TrapTick, TrapTypeOK
  <2>5. ASSUME NEW s \in Slot
        PROVE  /\ (RobAge(s) < RobCount => rob_pc[s] \in PC)'
               /\ (RobAge(s) + 1 < RobCount => rob_pc[NextSlot(s)] = Prog[rob_pc[s]].next)'
               /\ (RobAge(s) + 1 = RobCount => fetch_pc = Prog[rob_pc[s]].next)'
    <3> DEFINE a == RobAge(s)
               c == RobCount
               n == NextSlot(s)
               in == IF issue_wen THEN 1 ELSE 0
    <3>1. /\ n \in Slot /\ a \in 0 .. RobSize - 1
          /\ RobAge(n) = IF a = RobSize - 1 THEN 0 ELSE a + 1
      BY <1>1, NextSlotAge
    <3>2. RobAge(s)' = IF commit_ready THEN (IF a = 0 THEN RobSize - 1 ELSE a - 1) ELSE a
      BY <1>1, <2>1, RobMoves, Zenon
    <3>3. /\ a < c => rob_pc[s] \in PC
          /\ a + 1 < c => rob_pc[n] = Prog[rob_pc[s]].next
          /\ a + 1 = c => fetch_pc = Prog[rob_pc[s]].next
      BY DEF ProgramOrder
    <3>4. /\ RobAge(s)' < RobCount' => a < c + in
          /\ RobAge(s)' + 1 < RobCount' => a + 1 < c + in
          /\ RobAge(s)' + 1 = RobCount' => a + 1 = c + in
      <4>1. CASE commit_ready
        <5>1. RobAge(s)' = (IF a = 0 THEN RobSize - 1 ELSE a - 1) /\ RobCount' = c + in - 1
          BY <2>2, <3>2, <4>1
        <5> QED BY <2>2, <3>1, <5>1, RobSizeAssumption
      <4>2. CASE ~commit_ready
        <5>1. RobAge(s)' = a /\ RobCount' = c + in
          BY <2>2, <3>2, <4>2
        <5> QED BY <3>1, <5>1
      <4> QED BY <4>1, <4>2
    <3>5. /\ rob_pc'[s] = IF issue_wen /\ a = c THEN fetch_pc ELSE rob_pc[s]
          /\ rob_pc'[n] = IF issue_wen /\ RobAge(n) = c THEN fetch_pc ELSE rob_pc[n]
      BY <2>4, <3>1
    <3>6. fetch_pc \in PC /\ c \in 0 .. RobSize /\ (issue_wen => c < RobSize)
      BY <2>2, RobSizeAssumption DEF TrapTypeOK
    <3> HIDE DEF a, c, n
    <3>7. RobAge(s)' < RobCount' => rob_pc'[s] \in PC
      BY <3>1, <3>3, <3>4, <3>5, <3>6
    <3>8. RobAge(s)' + 1 < RobCount' => rob_pc'[n] = Prog[rob_pc'[s]].next
      BY <3>1, <3>3, <3>4, <3>5, <3>6, RobSizeAssumption
    <3>9. RobAge(s)' + 1 = RobCount' => fetch_pc' = Prog[rob_pc'[s]].next
      BY <2>3, <3>1, <3>3, <3>4, <3>5, <3>6, RobSizeAssumption
    <3> QED BY <3>7, <3>8, <3>9 DEF n
  <2> QED BY <2>5 DEF ProgramOrder
<1> QED BY <1>2, <1>3, TrapRely, Zenon

\* TrapInv is inductive.
LEMMA TrapInvariant == TrapSpec => []TrapInv
<1>1. TrapInit => TrapInv
  <2> SUFFICES ASSUME TrapInit PROVE TrapInv
    OBVIOUS
  <2>1. RobTypeOK /\ RobWindow /\ RobCount = 0
    BY RobSizeAssumption DEF TrapInit, RobInit, RobTypeOK, RobWindow, RobCount, RobAge, SlotOf,
                             Slot, Ptr, SlotState
  <2>2. TrapTypeOK
    <3>1. /\ mcause_r \in {<<FALSE, 0>>, <<FALSE, 11>>} \cup {<<TRUE, i>> : i \in Lines}
          /\ status_mie \in BOOLEAN /\ status_mpie \in BOOLEAN
      BY Zenon DEF TrapInit
    <3>2. /\ rob_pc \in [Slot -> PC \cup {NoPC}] /\ rob_irq \in [Slot -> SUBSET Lines]
          /\ fetch_pc \in PC /\ mepc \in PC /\ mie_r \subseteq Lines
          /\ minstret_r \in 0 .. W - 1 /\ minstreth_r \in 0 .. W - 1
      BY TrapAssumption DEF TrapInit
    <3> QED BY <2>1, <3>1, <3>2, Zenon DEF TrapTypeOK
  <2>3. \A s \in Slot : RobAge(s) \in Nat
    BY <2>1, NextSlotAge
  <2>4. ProgramOrder
    BY <2>1, <2>3 DEF ProgramOrder
  <2> QED BY <2>1, <2>2, <2>4 DEF TrapInv
<1>2. TrapInv /\ [TrapNext]_trap_vars => TrapInv'
  <2>1. ASSUME TrapInv, NEW issue_wen \in BOOLEAN, NEW irq \in SUBSET Lines,
               NEW wb \in SUBSET Slot, TrapTick(issue_wen, irq, wb)
        PROVE  TrapInv'
    <3>1. RobWindow'
      BY <2>1, TrapRely, RobStepWindow DEF TrapInv, TrapTypeOK
    <3> QED BY <2>1, <3>1, TrapStepType, ProgramOrderStep DEF TrapInv
  <2>2. TrapInv /\ TrapNext => TrapInv'
    BY <2>1, Zenon DEF TrapNext
  <2>3. TrapInv /\ UNCHANGED trap_vars => TrapInv'
    <3> SUFFICES ASSUME TrapInv, UNCHANGED trap_vars
                 PROVE  TrapInv'
      OBVIOUS
    <3>1. TrapTypeOK'
      BY Zenon DEF TrapInv, trap_vars, csr_vars, rob_vars, TrapTypeOK, RobTypeOK
    <3>2. RobWindow'
      BY DEF TrapInv, trap_vars, rob_vars, RobWindow, RobCount, RobAge, SlotOf
    <3>3. ProgramOrder'
      BY DEF TrapInv, trap_vars, rob_vars, ProgramOrder, RobCount, RobAge, SlotOf
    <3> QED BY <3>1, <3>2, <3>3 DEF TrapInv
  <2> QED BY <2>2, <2>3
<1> QED BY <1>1, <1>2, PTL DEF TrapSpec

(***************************************************************************)
(* For every program, also with mret and with interrupts switched off: the *)
(* buffer always holds a stretch of the program that ends at fetch_pc      *)
(* (HiCore_ROB.v:106-171, HiCore_commit.v:68-71).                          *)
(***************************************************************************)
THEOREM TrapSafe == TrapSpec => [](TrapTypeOK /\ ProgramOrder)
<1>1. TrapInv => TrapTypeOK /\ ProgramOrder
  BY DEF TrapInv
<1> QED BY <1>1, TrapInvariant, PTL

\* The registers of HiCore_csr, HiCore_commit and the reorder buffer keep their
\* widths: no write, trap, interrupt or return takes one out of its range.
THEOREM TrapTypeCorrect == TrapSpec => []TrapTypeOK
<1>1. TrapInv => TrapTypeOK
  BY DEF TrapInv
<1> QED BY <1>1, TrapInvariant, PTL

(***************************************************************************)
(* Where the core departs from the one-at-a-time machine: programs with    *)
(* mret (MstatusChangesAtCommit and InterruptSavesReturnPoint are violated *)
(* there), and an interrupt taken with the very write that disables it     *)
(* (InterruptKeepsMstatusWrite is).                                        *)
(***************************************************************************)
NoMret == \A p \in PC : Prog[p].op # "mret"
StillEnabled == irq_en => /\ wr_mstatus => Prog[commit_pc].mie
                          /\ wr_mie => Lowest(csr_irq) \in Prog[commit_pc].en

\* A cycle in which nothing retires changes nothing the program sees.
LEMMA NoCommit ==
  ASSUME NoMret, TrapInv, NEW issue_wen \in BOOLEAN, NEW irq \in SUBSET Lines,
         NEW wb \in SUBSET Slot, TrapTick(issue_wen, irq, wb), ~commit_ready
  PROVE  UNCHANGED <<ArchPc, csr_vars>>
<1> USE DEF TrapInv
<1>1. RobTypeOK /\ flush = FALSE
  BY DEF TrapTypeOK, flush
<1>2. UNCHANGED csr_vars
  <2>1. commit_op # "mret"
    BY HeadInProgram DEF NoMret
  <2> QED BY <2>1, Zenon DEF TrapTick, CsrStep, csr_vars, MieNext, MpieNext, MepcNext, McauseNext,
                      commit_mret_op, excp_en, irq_en, wr_mstatus, wr_mepc, wr_mie, wr_minstret,
                      wr_minstreth, csr_wr, minstreth_ena
<1>3. ArchPc' = ArchPc
  <2>1. RobRely(issue_wen, wb, FALSE) /\ RobStep(issue_wen, wb, FALSE)
    BY <1>1, TrapRely, Zenon
  <2>2. /\ rob_head_ptr' = rob_head_ptr
        /\ rob_tail_ptr' = IF issue_wen THEN PtrInc(rob_tail_ptr) ELSE rob_tail_ptr
        /\ issue_wen => ~rob_full
    BY <2>1 DEF RobStep, RobRely, HeadNext, TailNext
  <2>3. /\ rob_pc' = IF issue_wen THEN [rob_pc EXCEPT ![SlotOf(rob_tail_ptr)] = fetch_pc] ELSE rob_pc
        /\ fetch_pc' = IF issue_wen THEN Prog[fetch_pc].next ELSE fetch_pc
    BY <1>1 DEF TrapTick
  <2>4. CASE ~issue_wen
    BY <2>2, <2>3, <2>4 DEF ArchPc, rob_empty, commit_pc, HeadSlot, SlotOf
  <2>5. CASE issue_wen
    <3>1. rob_tail_ptr' = PtrInc(rob_tail_ptr) /\ SlotOf(rob_tail_ptr) \in Slot
      BY <1>1, <2>2, <2>5, PtrArith DEF RobTypeOK
    <3>2. ~rob_empty'
      <4>1. rob_empty \/ SlotOf(rob_tail_ptr) # SlotOf(rob_head_ptr)
        BY <2>2, <2>5 DEF rob_full, rob_empty
      <4> QED
        BY <1>1, <2>2, <3>1, <4>1, RobSizeAssumption
           DEF rob_empty, RobTypeOK, Ptr, PtrInc, SlotOf, rob_full, RobWindow, RobCount
    <3>3. commit_pc' = IF rob_empty THEN fetch_pc ELSE commit_pc
      <4>1. HeadSlot \in Slot /\ HeadSlot' = HeadSlot
        BY <2>2, HeadInProgram DEF HeadSlot, SlotOf
      <4>2. rob_empty <=> HeadSlot = SlotOf(rob_tail_ptr)
        BY <2>2, <2>5 DEF rob_empty, rob_full, HeadSlot
      <4> QED BY <2>3, <2>5, <3>1, <4>1, <4>2 DEF commit_pc, TrapTypeOK
    <3> QED BY <3>2, <3>3 DEF ArchPc
  <2> QED BY <2>4, <2>5
<1> QED BY <1>2, <1>3

\* A cycle in which an instruction retires goes on at its successor, or where
\* the flush says.
LEMMA CommitPc ==
  ASSUME TrapInv, NEW issue_wen \in BOOLEAN, NEW irq \in SUBSET Lines,
         NEW wb \in SUBSET Slot, TrapTick(issue_wen, irq, wb), commit_ready
  PROVE  /\ ArchPc = commit_pc /\ commit_pc \in PC /\ commit_op = Prog[commit_pc].op
         /\ ArchPc' = IF flush THEN flush_pc ELSE Prog[commit_pc].next
<1> USE DEF TrapInv
<1>1. RobTypeOK
  BY DEF TrapTypeOK
<1>2. /\ RobCount \in 1 .. RobSize /\ ~rob_empty
      /\ HeadSlot \in Slot /\ RobAge(HeadSlot) = 0
  BY <1>1, RobGeometry DEF HeadSlot
<1>3. ArchPc = commit_pc /\ commit_pc \in PC
  BY <1>2 DEF ArchPc, ProgramOrder, commit_pc
<1>4. commit_op = Prog[commit_pc].op
  BY <1>3, TrapAssumption DEF commit_op, Op
<1>5. CASE flush = TRUE
  <2>1. rob_head_ptr' = PtrInc(rob_head_ptr) /\ rob_tail_ptr' = PtrInc(rob_head_ptr)
    BY <1>5, TrapRely, Zenon DEF RobStep, HeadNext, TailNext
  <2>2. fetch_pc' = flush_pc
    BY <1>5 DEF TrapTick
  <2> QED BY <1>3, <1>4, <1>5, <2>1, <2>2 DEF ArchPc, rob_empty
<1>6. CASE flush = FALSE
  <2> DEFINE n == NextSlot(HeadSlot)
  <2>1. RobRely(issue_wen, wb, FALSE) /\ RobStep(issue_wen, wb, FALSE)
    BY <1>6, TrapRely, Zenon
  <2>2. /\ RobCount' = RobCount + (IF issue_wen THEN 1 ELSE 0) - 1
        /\ issue_wen => ~rob_full
    BY <1>1, <2>1, RobMoves, Zenon DEF RobRely
  <2>3. /\ n \in Slot /\ RobAge(n) = 1 /\ HeadSlot' = n
    <3>1. n \in Slot /\ RobAge(n) = 1
      BY <1>1, <1>2, NextSlotAge, RobSizeAssumption
    <3>2. rob_head_ptr' = PtrInc(rob_head_ptr)
      BY <2>1 DEF RobStep, HeadNext
    <3>3. SlotOf(PtrInc(rob_head_ptr)) = n
      BY <1>1, PtrArith DEF RobTypeOK, NextSlot, HeadSlot
    <3> QED BY <3>1, <3>2, <3>3 DEF HeadSlot, SlotOf
  <2>4. rob_empty' <=> RobCount' = 0
    <3>1. rob_head_ptr' \in Ptr /\ rob_tail_ptr' \in Ptr
      BY TrapStepType, Zenon DEF TrapTypeOK, RobTypeOK
    <3>2. RobCount' = IF rob_tail_ptr' >= rob_head_ptr' THEN rob_tail_ptr' - rob_head_ptr'
                      ELSE rob_tail_ptr' - rob_head_ptr' + 2 * RobSize
      BY DEF RobCount
    <3>3. RobCount' = 0 <=> rob_tail_ptr' = rob_head_ptr'
      <4>1. ASSUME NEW h \in Ptr, NEW t \in Ptr
            PROVE  (IF t >= h THEN t - h ELSE t - h + 2 * RobSize) = 0 <=> t = h
        BY RobSizeAssumption DEF Ptr
      <4> QED BY <3>1, <3>2, <4>1
    <3> QED BY <3>3 DEF rob_empty
  <2>5. rob_pc'[n] = IF issue_wen /\ RobCount = 1 THEN fetch_pc ELSE rob_pc[n]
    <3>1. issue_wen => (RobCount = 1 <=> n = SlotOf(rob_tail_ptr))
      BY <1>1, <2>2, <2>3, RobGeometry
    <3> QED BY <2>3, <3>1 DEF TrapTick, TrapTypeOK
  <2>6. /\ RobCount > 1 => rob_pc[n] = Prog[commit_pc].next
        /\ RobCount = 1 => fetch_pc = Prog[commit_pc].next
    <3>1. ProgramOrder /\ 1 = RobAge(HeadSlot) + 1
      BY <1>2
    <3>2. /\ 1 < RobCount => rob_pc[NextSlot(HeadSlot)] = Prog[rob_pc[HeadSlot]].next
          /\ 1 = RobCount => fetch_pc = Prog[rob_pc[HeadSlot]].next
      BY <1>2, <3>1, Zenon DEF ProgramOrder
    <3> QED BY <1>2, <3>2 DEF commit_pc
  <2>7. commit_pc' = rob_pc'[n]
    BY <2>3 DEF commit_pc
  <2>8. ~issue_wen => fetch_pc' = fetch_pc
    BY <1>6 DEF TrapTick
  <2> HIDE DEF n
  <2>9. ArchPc' = Prog[commit_pc].next
    <3>1. CASE rob_empty'
      BY <1>2, <2>2, <2>4, <2>6, <2>8, <3>1 DEF ArchPc
    <3>2. CASE ~rob_empty'
      BY <1>2, <2>2, <2>4, <2>5, <2>6, <2>7, <3>2 DEF ArchPc
    <3> QED BY <3>1, <3>2
  <2> QED BY <1>3, <1>4, <1>6, <2>9
<1> QED BY <1>5, <1>6, TrapRely, Zenon

\* The halves of minstret after a commit are the halves of the count.
LEMMA CommitCount ==
  ASSUME TrapTypeOK, CsrStep, commit_ready
  PROVE  LET hi == IF minstret_r = W - 1 THEN (minstreth_r + 1) % W ELSE minstreth_r
             lo == (minstret_r + 1) % W
         IN  /\ Arch!Count = hi * W + lo /\ Arch!Count \div W = hi /\ Arch!Count % W = lo
             /\ minstret_r' = IF wr_minstret THEN Prog[commit_pc].cnt ELSE lo
             /\ minstreth_r' = IF wr_minstreth THEN Prog[commit_pc].cnt ELSE hi
<1> DEFINE hi == IF minstret_r = W - 1 THEN (minstreth_r + 1) % W ELSE minstreth_r
           lo == (minstret_r + 1) % W
<1>1. W \in Nat \ {0} /\ minstret_r \in 0 .. W - 1 /\ minstreth_r \in 0 .. W - 1
  BY TrapAssumption DEF TrapTypeOK
<1>2. Arch!Count = hi * W + lo
  BY <1>1, CountOn, Zenon DEF Arch!Count
<1>3. lo \in 0 .. W - 1 /\ (minstreth_r + 1) % W \in 0 .. W - 1
  BY <1>1, DivMod
<1>4. hi \in Nat
  BY <1>1, <1>3
<1>5. /\ minstret_r' = IF wr_minstret THEN Prog[commit_pc].cnt ELSE lo
      /\ minstreth_r' = IF wr_minstreth THEN Prog[commit_pc].cnt ELSE hi
  BY DEF CsrStep, minstret_nxt, minstreth_nxt, minstreth_ena
<1> HIDE DEF hi, lo
<1>6. (hi * W + lo) \div W = hi /\ (hi * W + lo) % W = lo
  BY <1>1, <1>3, <1>4, Halves, Zenon
<1> QED BY <1>2, <1>5, <1>6 DEF hi, lo

\* A cycle in which an instruction retires is a step of the machine.
LEMMA CommitIsHartStep ==
  ASSUME NoMret, StillEnabled, TrapInv, NEW issue_wen \in BOOLEAN, NEW irq \in SUBSET Lines,
         NEW wb \in SUBSET Slot, TrapTick(issue_wen, irq, wb), commit_ready
  PROVE  Arch!HartNext
<1> DEFINE p == commit_pc
           op == Prog[p].op
<1>1. /\ ArchPc = p /\ p \in PC /\ commit_op = op
      /\ ArchPc' = IF flush THEN flush_pc ELSE Prog[p].next
  BY CommitPc
<1>2. op # "mret"
  BY <1>1 DEF NoMret
<1>3. CsrStep /\ TrapTypeOK
  BY DEF TrapTick, TrapInv
<1>4. /\ excp_en <=> op = "ecall"
      /\ \A o \in CsrOp : csr_wr(o) <=> op = o
      /\ commit_mret_op = FALSE
  BY <1>1, <1>2 DEF excp_en, csr_wr, commit_mret_op, CsrOp
<1>5. /\ wr_mstatus <=> op = "csrw"
      /\ wr_mepc <=> op = "csrw_mepc"
      /\ wr_mie <=> op = "csrw_mie"
      /\ wr_minstret <=> op = "csrw_minstret"
      /\ wr_minstreth <=> op = "csrw_minstreth"
  BY <1>4 DEF wr_mstatus, wr_mepc, wr_mie, wr_minstret, wr_minstreth, CsrOp
<1>6. (minstreth_r * W + minstret_r)' = Arch!Instret1
  BY <1>1, <1>3, <1>5, CommitCount DEF Arch!Instret1
<1>7. /\ status_mie' = MieNext /\ status_mpie' = MpieNext /\ mepc' = MepcNext
      /\ mcause_r' = McauseNext /\ mie_r' = IF op = "csrw_mie" THEN Prog[p].en ELSE mie_r
  BY <1>3, <1>5 DEF CsrStep
<1>8. flush <=> op = "ecall" \/ irq_en \/ op = "fence_i"
  BY <1>1, <1>2, <1>4 DEF flush
<1>9. CASE op = "ecall"
  <2>1. ArchPc' = Mtvec
    BY <1>1, <1>4, <1>8, <1>9 DEF flush_pc
  <2>2. /\ status_mie' = FALSE /\ status_mpie' = status_mie /\ mepc' = p
        /\ mcause_r' = <<FALSE, 11>> /\ mie_r' = mie_r
    BY <1>4, <1>7, <1>9, Zenon DEF MieNext, MpieNext, MepcNext, McauseNext
  <2>3. (minstreth_r * W + minstret_r)' = Arch!Count
    BY <1>1, <1>6, <1>9 DEF Arch!Instret1
  <2>4. Arch!Exception
    BY <1>1, <1>9, <2>1, <2>2, <2>3 DEF Arch!Exception
  <2> QED BY <2>4 DEF Arch!HartNext
<1>10. CASE op # "ecall" /\ irq_en
  <2>1. status_mie = TRUE /\ Lowest(csr_irq) \in mie_r
    <3>1. status_mie = TRUE /\ csr_irq \subseteq mie_r /\ csr_irq # {}
      BY <1>3, <1>10 DEF irq_en, csr_irq, TrapTypeOK
    <3>2. csr_irq \subseteq {3, 7, 11}
      BY <1>3, <3>1, TrapAssumption DEF TrapTypeOK
    <3> QED BY <3>1, <3>2, LowestOf, Zenon
  <2>2. /\ status_mie' = FALSE /\ status_mpie' = TRUE /\ mepc' = Prog[p].next
        /\ mcause_r' = <<TRUE, Lowest(csr_irq)>>
    BY <1>4, <1>7, <1>10, <2>1, Zenon DEF MieNext, MpieNext, MepcNext, McauseNext
  <2>3. ArchPc' = Mtvec
    BY <1>1, <1>8, <1>10 DEF flush_pc
  <2>4. /\ Arch!Pc1 = Prog[p].next /\ mie_r' = Arch!Enab1
    BY <1>1, <1>2, <1>7 DEF Arch!Pc1, Arch!Enab1
  <2>5. Arch!Mie1 = TRUE /\ Lowest(csr_irq) \in Arch!Enab1
    <3>1. /\ op = "csrw" => Prog[p].mie = TRUE
          /\ op = "csrw_mie" => Lowest(csr_irq) \in Prog[p].en
      BY <1>1, <1>5, <1>10, TrapAssumption DEF StillEnabled
    <3> QED BY <1>1, <1>2, <2>1, <3>1 DEF Arch!Mie1, Arch!Enab1
  <2>6. Arch!ExecuteThenInterrupt
    BY <1>1, <1>6, <1>10, <2>1, <2>2, <2>3, <2>4, <2>5 DEF Arch!ExecuteThenInterrupt
  <2> QED BY <2>6 DEF Arch!HartNext
<1>11. CASE op # "ecall" /\ ~irq_en
  <2>1. ArchPc' = Prog[p].next
    BY <1>1, <1>4, <1>8, <1>11 DEF flush_pc
  <2>2. /\ status_mie' = (IF op = "csrw" THEN Prog[p].mie ELSE status_mie)
        /\ status_mpie' = (IF op = "csrw" THEN Prog[p].mpie ELSE status_mpie)
        /\ mepc' = (IF op = "csrw_mepc" THEN Prog[p].epc ELSE mepc)
        /\ mcause_r' = mcause_r
    BY <1>4, <1>5, <1>7, <1>11, Zenon DEF MieNext, MpieNext, MepcNext, McauseNext
  <2>3. /\ status_mie' = Arch!Mie1 /\ status_mpie' = Arch!Mpie1
        /\ ArchPc' = Arch!Pc1 /\ mie_r' = Arch!Enab1
    BY <1>1, <1>2, <1>7, <2>1, <2>2, Zenon DEF Arch!Mie1, Arch!Mpie1, Arch!Pc1, Arch!Enab1
  <2>4. Arch!Execute
    BY <1>1, <1>6, <1>11, <2>2, <2>3 DEF Arch!Execute
  <2> QED BY <2>4 DEF Arch!HartNext
<1> QED BY <1>9, <1>10, <1>11

(***************************************************************************)
(* Precise traps for every program without mret, as long as no interrupt   *)
(* is taken with the write that disables it: the pipelined core, whatever  *)
(* is in its buffer when a trap or an interrupt comes, is the one-at-a-    *)
(* time machine (HiCore_commit.v:40-71, HiCore_csr.v:149-326).             *)
(***************************************************************************)
THEOREM TrapsArePrecise == ASSUME NoMret PROVE TrapSpec /\ []StillEnabled => ImplementsHart
<1>1. TrapInit => Arch!HartInit
  <2> SUFFICES ASSUME TrapInit PROVE Arch!HartInit
    OBVIOUS
  <2>1. ArchPc = 0 /\ minstreth_r * W + minstret_r = 0
    BY TrapAssumption DEF TrapInit, RobInit, ArchPc, rob_empty
  <2> QED BY <2>1 DEF TrapInit, Arch!HartInit
<1>2. TrapInv /\ StillEnabled /\ [TrapNext]_trap_vars => [Arch!HartNext]_(Arch!hart_vars)
  <2>1. ASSUME TrapInv, StillEnabled, NEW issue_wen \in BOOLEAN, NEW irq \in SUBSET Lines,
               NEW wb \in SUBSET Slot, TrapTick(issue_wen, irq, wb)
        PROVE  [Arch!HartNext]_(Arch!hart_vars)
    <3>1. CASE commit_ready
      BY <2>1, <3>1, CommitIsHartStep
    <3>2. CASE ~commit_ready
      <4>1. UNCHANGED <<ArchPc, csr_vars>>
        BY <2>1, <3>2, NoCommit
      <4> QED BY <4>1 DEF csr_vars, Arch!hart_vars
    <3> QED BY <3>1, <3>2
  <2>2. TrapInv /\ StillEnabled /\ TrapNext => [Arch!HartNext]_(Arch!hart_vars)
    BY <2>1, Zenon DEF TrapNext
  <2>3. UNCHANGED trap_vars => UNCHANGED Arch!hart_vars
    BY DEF trap_vars, csr_vars, rob_vars, Arch!hart_vars, ArchPc, rob_empty, commit_pc, HeadSlot,
           SlotOf
  <2> QED BY <2>2, <2>3
<1> QED BY <1>1, <1>2, TrapInvariant, PTL DEF TrapSpec, ImplementsHart, Arch!HartSpec

--------------------------------------------------------------------------
\* A buffer input is the sequence of no or one entry.
LEMMA WhenSeq ==
  ASSUME NEW R, NEW e \in R, NEW c \in BOOLEAN
  PROVE  /\ When(c, e) \in Seq(R)
         /\ Len(When(c, e)) = IF c THEN 1 ELSE 0
         /\ c => When(c, e)[1] = e
  BY DEF When

\* The queues.

QueueInv == QueueTypeOK /\ NoOverrun

\* Where the ring keeps its entries, and where the next one goes.
LEMMA RingPlaces ==
  ASSUME QueueInv
  PROVE  /\ Count \in 0 .. DP
         /\ empty <=> Count = 0
         /\ full <=> Count = DP
         /\ IdxOf(wr_ptr) \in Idx /\ IdxOf(rd_ptr) \in Idx
         /\ \A i \in 1 .. DP : At(i) \in Idx
         /\ Count < DP => At(Count + 1) = IdxOf(wr_ptr)
         /\ Count < DP => \A i \in 1 .. Count : At(i) # IdxOf(wr_ptr)
<1> USE QueueAssumption DEF QueueInv, QueueTypeOK, NoOverrun, QPtr, Idx
<1>1. Count \in 0 .. DP
  BY DEF Count
<1>2. (empty <=> Count = 0) /\ (full <=> Count = DP)
  BY DEF Count, empty, full, IdxOf
<1>3. IdxOf(wr_ptr) \in Idx /\ IdxOf(rd_ptr) \in Idx
  BY DEF IdxOf
<1>4. \A i \in 1 .. DP : At(i) \in Idx
  BY <1>3 DEF At
<1>5. Count < DP => At(Count + 1) = IdxOf(wr_ptr)
  BY DEF At, IdxOf, Count
<1>6. Count < DP => \A i \in 1 .. Count : At(i) # IdxOf(wr_ptr)
  BY DEF At, IdxOf, Count
<1> QED BY <1>1, <1>2, <1>3, <1>4, <1>5, <1>6

(***************************************************************************)
(* The entries of the ring after a clock edge are those of the FIFO, and   *)
(* the invariant is kept (HiCore_mem_queue.v:27-66).                       *)
(***************************************************************************)
LEMMA RingStepRefines ==
  ASSUME QueueInv,
         NEW i_valid \in BOOLEAN, NEW i_info \in Item, NEW i_cancel \in BOOLEAN,
         NEW o_ready \in BOOLEAN, NEW kill \in BOOLEAN,
         NEW wen \in BOOLEAN, wen <=> (i_valid /\ ~full),
         NEW ren \in BOOLEAN, ren <=> (~empty /\ o_ready),
         RingStep(i_valid, i_info, i_cancel, o_ready, kill)
  PROVE  /\ QueueInv'
         /\ Count' = (IF wen THEN Count + 1 ELSE Count) - (IF ren THEN 1 ELSE 0)
         /\ Contents' = BufNext(Contents, When(wen, [dat |-> i_info, cancel |-> i_cancel]),
                                ren, kill)
<1> DEFINE new  == [dat |-> i_info, cancel |-> i_cancel]
           push == When(wen, new)
           R    == [dat : Item, cancel : BOOLEAN]
           src(k) == IF ren THEN k + 1 ELSE k
<1>1. /\ wr_ptr' = IF wen THEN QInc(wr_ptr) ELSE wr_ptr
      /\ rd_ptr' = IF ren THEN QInc(rd_ptr) ELSE rd_ptr
      /\ queue_ram' = IF wen THEN [queue_ram EXCEPT ![IdxOf(wr_ptr)] = i_info] ELSE queue_ram
      /\ queue_cancel' = [i \in Idx |-> CancelNext(wen, i_cancel, kill, i)]
  BY DEF RingStep
<1>2. wr_ptr \in QPtr /\ rd_ptr \in QPtr /\ queue_ram \in [Idx -> Item]
      /\ queue_cancel \in [Idx -> BOOLEAN] /\ DP \in Nat \ {0}
  BY QueueAssumption DEF QueueInv, QueueTypeOK
<1>3. /\ Count \in 0 .. DP
      /\ wen => Count < DP
      /\ ren => Count > 0
  <2>1. Count \in 0 .. DP /\ (empty <=> Count = 0) /\ (full <=> Count = DP)
    BY RingPlaces
  <2>2. wen => ~full
    BY Zenon
  <2>3. ren => ~empty
    BY Zenon
  <2> QED BY <1>2, <2>1, <2>2, <2>3
<1>4. Count' = (IF wen THEN Count + 1 ELSE Count) - (IF ren THEN 1 ELSE 0)
  BY <1>1, <1>2, <1>3 DEF Count, QInc, QPtr
<1>5. wr_ptr' \in QPtr /\ rd_ptr' \in QPtr
  BY <1>1, <1>2 DEF QInc, QPtr
<1>6. queue_ram' \in [Idx -> Item] /\ queue_cancel' \in [Idx -> BOOLEAN]
  BY <1>1, <1>2, Zenon DEF CancelNext
<1>7. QueueInv'
  BY <1>2, <1>3, <1>4, <1>5, <1>6 DEF QueueInv, QueueTypeOK, NoOverrun
<1>8. \A k \in 1 .. Count' : At(k)' = At(src(k)) /\ src(k) \in 1 .. DP
  BY <1>1, <1>2, <1>3, <1>4 DEF At, IdxOf, QInc, QPtr
<1>9. new \in R
  OBVIOUS
<1> HIDE DEF new, R
<1>9a. push \in Seq(R) /\ Len(push) = (IF wen THEN 1 ELSE 0) /\ (wen => push[1] = new)
  BY <1>9, WhenSeq
<1>10. Contents \in Seq(R) /\ Len(Contents) = Count
  <2>1. \A k \in 1 .. Count : [dat |-> queue_ram[At(k)], cancel |-> queue_cancel[At(k)]] \in R
    BY <1>2, <1>3, RingPlaces DEF R
  <2> QED BY <1>3, <2>1 DEF Contents
<1>11. \A i \in 1 .. Count : Contents[i] = [dat |-> queue_ram[At(i)], cancel |-> queue_cancel[At(i)]]
  BY DEF Contents
<1>11a. ren => Len(Contents) + Len(push) > 0
  BY <1>3, <1>9a, <1>10
<1>11b. Contents \in Seq(R) /\ push \in Seq(R)
  BY <1>9a, <1>10
<1> HIDE DEF push
<1>12. BufNext(Contents, push, ren, kill) =
         [k \in 1 .. KeptLen(Contents, push, ren) |-> CancelIf(kill, KeptAt(Contents, push, ren, k))]
  BY <1>11a, <1>11b, BufNextEntries
<1>13. KeptLen(Contents, push, ren) = Count'
  BY <1>3, <1>4, <1>9a, <1>10 DEF KeptLen
<1>14. \A k \in 1 .. Count' :
         CancelIf(kill, KeptAt(Contents, push, ren, k)) =
           [dat |-> queue_ram'[At(k)'], cancel |-> queue_cancel'[At(k)']]
  <2> SUFFICES ASSUME NEW k \in 1 .. Count'
               PROVE  CancelIf(kill, KeptAt(Contents, push, ren, k)) =
                        [dat |-> queue_ram'[At(k)'], cancel |-> queue_cancel'[At(k)']]
    OBVIOUS
  <2> DEFINE i == src(k)
  <2>1. i \in 1 .. DP /\ At(k)' = At(i) /\ At(i) \in Idx
        /\ i <= (IF wen THEN Count + 1 ELSE Count)
    BY <1>3, <1>4, <1>8, RingPlaces
  <2>2. CASE i <= Count
    <3>1. KeptAt(Contents, push, ren, k) = [dat |-> queue_ram[At(i)], cancel |-> queue_cancel[At(i)]]
      BY <1>10, <1>11, <2>1, <2>2 DEF KeptAt
    <3>2. wen => At(i) # IdxOf(wr_ptr)
      BY <1>3, <2>1, <2>2, RingPlaces
    <3>3. queue_ram'[At(i)] = queue_ram[At(i)]
      BY <1>1, <1>2, <2>1, <3>2
    <3>4. queue_cancel'[At(i)] = (kill \/ queue_cancel[At(i)])
      BY <1>1, <1>2, <2>1, <3>2, Zenon DEF CancelNext
    <3> QED BY <2>1, <3>1, <3>3, <3>4 DEF CancelIf
  <2>3. CASE i > Count
    <3>1. wen /\ i = Count + 1
      BY <1>3, <2>1, <2>3
    <3>2. KeptAt(Contents, push, ren, k) = new
      BY <1>3, <1>9a, <1>10, <2>1, <3>1 DEF KeptAt
    <3>3. At(i) = IdxOf(wr_ptr)
      BY <1>3, <3>1, RingPlaces
    <3>4. queue_ram'[At(i)] = i_info
      BY <1>1, <1>2, <2>1, <3>1, <3>3
    <3>5. queue_cancel'[At(i)] = (kill \/ i_cancel)
      BY <1>1, <1>2, <2>1, <3>1, <3>3, Zenon DEF CancelNext
    <3> QED BY <2>1, <3>2, <3>4, <3>5 DEF CancelIf, new
  <2> QED BY <1>3, <2>1, <2>2, <2>3
<1>15. Contents' = [k \in 1 .. Count' |-> [dat |-> queue_ram'[At(k)'], cancel |-> queue_cancel'[At(k)']]]
  BY DEF Contents
<1>16. Contents' = BufNext(Contents, push, ren, kill)
  BY <1>12, <1>13, <1>14, <1>15
<1> QED BY <1>4, <1>7, <1>16 DEF push, new

\* The queue starts empty and within its invariant.
LEMMA QueueInitInv == QueueInit => QueueInv /\ Fifo!FifoInit
<1> SUFFICES ASSUME QueueInit PROVE QueueInv /\ Fifo!FifoInit
  OBVIOUS
<1> USE QueueAssumption DEF QueueInit
<1>1. Count = 0
  BY DEF Count
<1>2. QueueInv
  BY <1>1 DEF QueueInv, QueueTypeOK, NoOverrun, QPtr
<1>3. Contents = <<>>
  BY <1>1 DEF Contents
<1> QED BY <1>2, <1>3 DEF Fifo!FifoInit

\* The FIFO step a storage block makes, from the facts about its contents.
LEMMA FifoStepFrom ==
  ASSUME NEW d \in Item, NEW c \in BOOLEAN, NEW wen \in BOOLEAN, NEW pop \in BOOLEAN,
         NEW kill \in BOOLEAN,
         LET push == When(wen, [dat |-> d, cancel |-> c])
         IN  /\ Contents' = BufNext(Contents, push, pop, kill)
             /\ pop => Contents \o push # <<>>
             /\ put' = push
             /\ got' = IF pop THEN <<(Contents \o push)[1]>> ELSE <<>>,
         flushed' = kill, Len(Contents') <= DP
  PROVE  Fifo!FifoNext
<1> DEFINE push == When(wen, [dat |-> d, cancel |-> c])
<1>1. push \in Fifo!OrNone(Fifo!Entry)
  BY DEF When, Fifo!OrNone, Fifo!Entry
<1>2. Fifo!BufNext(Contents, push, pop, kill) = BufNext(Contents, push, pop, kill)
  BY DEF Fifo!BufNext, Fifo!CancelIf, BufNext, CancelIf
<1>3. (got' # <<>>) = pop
  OBVIOUS
<1> HIDE DEF push
<1> QED BY <1>1, <1>2, <1>3 DEF Fifo!FifoNext, push

\* Contents is a sequence of Count entries, its first what the ring shows.
LEMMA ContentsSeq ==
  ASSUME QueueInv
  PROVE  /\ Contents \in Seq([dat : Item, cancel : BOOLEAN])
         /\ Len(Contents) = Count
         /\ ~empty => Contents[1] = [dat |-> o_info, cancel |-> o_cancel]
<1>1. Count \in 0 .. DP /\ (empty <=> Count = 0) /\ IdxOf(rd_ptr) \in Idx
  BY RingPlaces
<1>2. \A k \in 1 .. Count : At(k) \in Idx
  BY <1>1, RingPlaces, QueueAssumption
<1>3. \A k \in 1 .. Count : [dat |-> queue_ram[At(k)], cancel |-> queue_cancel[At(k)]]
                               \in [dat : Item, cancel : BOOLEAN]
  BY <1>2 DEF QueueInv, QueueTypeOK
<1>4. At(1) = IdxOf(rd_ptr)
  BY <1>1, QueueAssumption DEF At, Idx
<1>5. ~empty => Contents[1] = [dat |-> queue_ram[At(1)], cancel |-> queue_cancel[At(1)]]
  BY <1>1 DEF Contents
<1> QED BY <1>1, <1>3, <1>4, <1>5 DEF Contents, o_info, o_cancel

\* A clock edge of HiCore_queue is a step of the FIFO.
LEMMA QueueStepRefines ==
  ASSUME QueueInv,
         NEW i_valid \in BOOLEAN, NEW i_info \in Item, NEW i_cancel \in BOOLEAN,
         NEW o_ready \in BOOLEAN, NEW kill \in BOOLEAN,
         QueueStep(i_valid, i_info, i_cancel, o_ready, kill)
  PROVE  QueueInv' /\ Fifo!FifoNext
<1>1. PICK wen \in BOOLEAN : wen <=> (i_valid /\ ~full)
  BY Zenon
<1>2. PICK ren \in BOOLEAN : ren <=> (~empty /\ o_ready)
  BY Zenon
<1> DEFINE new  == [dat |-> i_info, cancel |-> i_cancel]
           push == When(wen, new)
           R == [dat : Item, cancel : BOOLEAN]
<1>3. QueueInv' /\ Contents' = BufNext(Contents, push, ren, kill)
  BY <1>1, <1>2, RingStepRefines DEF QueueStep
<1>4. Len(Contents') <= DP
  <2>1. (Len(Contents) = Count)'
    BY <1>3, ContentsSeq, PTL
  <2> QED BY <1>3, <2>1 DEF QueueInv, NoOverrun
<1>5. new \in R
  OBVIOUS
<1>6. push \in Seq(R)
  BY <1>5, WhenSeq, Zenon
<1>7. ren => Contents \o push # <<>> /\ (Contents \o push)[1] = [dat |-> o_info, cancel |-> o_cancel]
  <2> SUFFICES ASSUME ren
               PROVE  Contents \o push # <<>> /\ (Contents \o push)[1] = [dat |-> o_info, cancel |-> o_cancel]
    OBVIOUS
  <2> HIDE DEF push, new
  <2>1. Len(Contents) \in Nat /\ Len(Contents) > 0 /\ Contents \in Seq(R)
        /\ Contents[1] = [dat |-> o_info, cancel |-> o_cancel]
    BY <1>2, ContentsSeq, RingPlaces
  <2>2. Len(Contents \o push) > 0 /\ (Contents \o push)[1] = Contents[1]
    BY <1>6, <2>1
  <2> QED BY <2>1, <2>2
<1>8. got' = IF ren THEN <<(Contents \o push)[1]>> ELSE <<>>
  BY <1>2, <1>7 DEF QueueStep, When
<1>9. put' = push /\ flushed' = kill
  BY <1>1 DEF QueueStep, When
<1> QED BY <1>3, <1>4, <1>7, <1>8, <1>9, FifoStepFrom, Zenon

(***************************************************************************)
(* HiCore_queue is a bounded cancellable FIFO: no entry is lost, doubled   *)
(* or reordered, and none that was inside or entering at a flush comes out *)
(* unmarked, for every depth.                                              *)
(***************************************************************************)
THEOREM QueueImplementsFifo == QueueSpec => ImplementsFifo
<1>1. QueueInit => QueueInv /\ Fifo!FifoInit
  BY QueueInitInv
<1>2. QueueInv /\ [QueueNext]_queue_vars => QueueInv' /\ [Fifo!FifoNext]_(Fifo!fifo_vars)
  <2>1. ASSUME QueueInv, QueueNext PROVE QueueInv' /\ Fifo!FifoNext
    BY <2>1, QueueStepRefines DEF QueueNext
  <2>2. QueueInv /\ UNCHANGED queue_vars => QueueInv' /\ UNCHANGED Fifo!fifo_vars
    BY DEF queue_vars, QueueInv, QueueTypeOK, NoOverrun, Contents, Count, At, Fifo!fifo_vars
  <2> QED BY <2>1, <2>2
<1> QED BY <1>1, <1>2, PTL DEF QueueSpec, ImplementsFifo, Fifo!FifoSpec

\* The pointers of HiCore_queue keep their widths and never run past one another,
\* for every depth.
THEOREM QueueTypeCorrect == QueueSpec => [](QueueTypeOK /\ NoOverrun)
<1>1. QueueInit => QueueInv
  BY QueueInitInv
<1>2. QueueInv /\ [QueueNext]_queue_vars => QueueInv'
  <2>1. ASSUME QueueInv, QueueNext PROVE QueueInv'
    BY <2>1, QueueStepRefines DEF QueueNext
  <2>2. QueueInv /\ UNCHANGED queue_vars => QueueInv'
    BY DEF queue_vars, QueueInv, QueueTypeOK, NoOverrun, Count
  <2> QED BY <2>1, <2>2
<1>3. QueueInv => QueueTypeOK /\ NoOverrun
  BY DEF QueueInv
<1> QED BY <1>1, <1>2, <1>3, PTL DEF QueueSpec

BypInv == QueueInv /\ CounterTracksContents

\* A clock edge of sirv_bypbuf is a step of the FIFO, also when an entry
\* passes the empty ring by.
LEMMA BypStepRefines ==
  ASSUME BypInv,
         NEW i_vld \in BOOLEAN, NEW i_dat \in Item, NEW i_cancel \in BOOLEAN,
         NEW o_rdy \in BOOLEAN, NEW kill \in BOOLEAN,
         BypStep(i_vld, i_dat, i_cancel, o_rdy, kill)
  PROVE  BypInv' /\ Fifo!FifoNext
<1> DEFINE new  == [dat |-> i_dat, cancel |-> i_cancel]
           R    == [dat : Item, cancel : BOOLEAN]
<1>0. QueueInv /\ CounterTracksContents
  BY DEF BypInv
<1>1. PICK ivalid \in BOOLEAN : ivalid <=> fifo_i_vld(i_vld, o_rdy)
  BY Zenon DEF fifo_i_vld
<1>2. PICK wen \in BOOLEAN : wen <=> (ivalid /\ ~full)
  BY Zenon
<1>3. PICK ren \in BOOLEAN : ren <=> (~empty /\ o_rdy)
  BY Zenon
<1>4. fifo_i_vld(i_vld, o_rdy) = ivalid
  BY <1>1 DEF fifo_i_vld
<1>5. RingStep(ivalid, i_dat, i_cancel, o_rdy, kill)
  BY <1>4 DEF BypStep
<1>6. /\ QueueInv'
      /\ Count' = (IF wen THEN Count + 1 ELSE Count) - (IF ren THEN 1 ELSE 0)
      /\ Contents' = BufNext(Contents, When(wen, new), ren, kill)
  BY <1>0, <1>2, <1>3, <1>5, RingStepRefines
<1>7. /\ Count \in 0 .. DP /\ (empty <=> Count = 0) /\ (full <=> Count = DP)
      /\ DP \in Nat \ {0}
  BY <1>0, RingPlaces, QueueAssumption
<1>8. CounterTracksContents'
  <2>1. fifo_cnt_r = IF Count = DP THEN 0 ELSE Count
    BY <1>0 DEF CounterTracksContents
  <2>2. fifo_cnt_r' = CntNext(wen, ren)
    <3>1. (ivalid /\ ~full) = wen /\ (~empty /\ o_rdy) = ren
      BY <1>2, <1>3
    <3> QED BY <1>4, <3>1 DEF BypStep
  <2>3. (wen => Count < DP) /\ (ren => Count > 0)
    BY <1>2, <1>3, <1>7
  <2> QED BY <1>6, <1>7, <2>1, <2>2, <2>3 DEF CounterTracksContents, CntNext, CntUp, CntDown
<1>9. new \in R
  OBVIOUS
<1>10. Contents \in Seq(R) /\ Len(Contents) = Count
       /\ (~empty => Contents[1] = [dat |-> o_info, cancel |-> o_cancel])
  BY <1>0, ContentsSeq
<1>11. Len(Contents') <= DP
  <2>1. (Len(Contents) = Count)'
    BY <1>6, ContentsSeq, PTL
  <2> QED BY <1>6, <2>1 DEF QueueInv, NoOverrun
<1>12. got' = When(o_rdy /\ (~empty \/ i_vld),
                   IF empty THEN new ELSE [dat |-> o_info, cancel |-> o_cancel])
       /\ put' = When(i_vld /\ ~full, new) /\ flushed' = kill
  BY DEF BypStep
<1> HIDE DEF new, R
<1>13. CASE empty /\ i_vld /\ o_rdy
  <2>1. ~wen /\ ~ren /\ Count = 0
    BY <1>1, <1>2, <1>3, <1>7, <1>13 DEF fifo_i_vld
  <2>2. Contents = <<>> /\ Contents' = <<>>
    <3>1. Count' = 0
      BY <1>6, <2>1
    <3> QED BY <2>1, <3>1 DEF Contents
  <2>3. PICK yes \in BOOLEAN : yes
    BY Zenon
  <2> DEFINE push == When(yes, new)
  <2>4. push \in Seq(R) /\ Len(push) = 1 /\ push[1] = new
    BY <1>9, <2>3, WhenSeq, Zenon
  <2> HIDE DEF push
  <2>5. BufNext(Contents, push, yes, kill) = <<>>
    <3>1. yes => Len(Contents) + Len(push) > 0
      BY <1>10, <2>1, <2>4
    <3>2. BufNext(Contents, push, yes, kill) =
            [k \in 1 .. KeptLen(Contents, push, yes)
               |-> CancelIf(kill, KeptAt(Contents, push, yes, k))]
      BY <1>10, <2>4, <3>1, BufNextEntries
    <3>3. KeptLen(Contents, push, yes) = 0
      BY <1>10, <2>1, <2>3, <2>4 DEF KeptLen
    <3> QED BY <3>2, <3>3
  <2>6. Contents \o push # <<>> /\ (Contents \o push)[1] = new
    <3>1. Len(Contents \o push) = 1 /\ (Contents \o push)[1] = push[1]
      BY <1>10, <2>1, <2>4
    <3> QED BY <2>4, <3>1
  <2>7. got' = IF yes THEN <<(Contents \o push)[1]>> ELSE <<>>
    BY <1>12, <1>13, <2>3, <2>6 DEF When
  <2>8. put' = push
    BY <1>7, <1>12, <1>13, <2>1, <2>3 DEF When, push
  <2>9. Fifo!FifoNext
    BY <1>11, <1>12, <2>2, <2>5, <2>6, <2>7, <2>8, FifoStepFrom DEF push, new
  <2> QED BY <1>6, <1>8, <2>9 DEF BypInv
<1>14. CASE ~(empty /\ i_vld /\ o_rdy)
  <2> DEFINE push == When(wen, new)
  <2>1. push \in Seq(R)
    BY <1>9, WhenSeq
  <2>2. ren => Contents \o push # <<>> /\ (Contents \o push)[1] = [dat |-> o_info, cancel |-> o_cancel]
    <3> SUFFICES ASSUME ren
                 PROVE  Contents \o push # <<>> /\ (Contents \o push)[1] = [dat |-> o_info, cancel |-> o_cancel]
      OBVIOUS
    <3> HIDE DEF push
    <3>1. Len(Contents) > 0 /\ Contents[1] = [dat |-> o_info, cancel |-> o_cancel]
      BY <1>3, <1>7, <1>10
    <3>2. Len(Contents \o push) > 0 /\ (Contents \o push)[1] = Contents[1]
      BY <1>10, <2>1, <3>1
    <3> QED BY <3>1, <3>2
  <2>3. got' = IF ren THEN <<(Contents \o push)[1]>> ELSE <<>>
    BY <1>3, <1>12, <1>14, <2>2 DEF When
  <2>4. put' = push
    BY <1>1, <1>2, <1>12, <1>14 DEF When, fifo_i_vld
  <2>5. Fifo!FifoNext
    BY <1>6, <1>11, <1>12, <2>2, <2>3, <2>4, FifoStepFrom, Zenon DEF new
  <2> QED BY <1>6, <1>8, <2>5 DEF BypInv
<1> QED BY <1>13, <1>14

\* So is every cycle of it, with an entry offered or not.
LEMMA BypNextRefines ==
  ASSUME BypInv, BypNext
  PROVE  BypInv' /\ Fifo!FifoNext
<1>1. PICK o_rdy \in BOOLEAN, kill \in BOOLEAN :
        \/ \E i_dat \in Item, i_cancel \in BOOLEAN : BypStep(TRUE, i_dat, i_cancel, o_rdy, kill)
        \/ BypStep(FALSE, o_info, FALSE, o_rdy, kill)
  BY DEF BypNext
<1>2. o_info \in Item
  BY RingPlaces DEF BypInv, QueueInv, QueueTypeOK, o_info
<1>3. CASE BypStep(FALSE, o_info, FALSE, o_rdy, kill)
  BY <1>2, <1>3, BypStepRefines
<1>4. ASSUME NEW i_dat \in Item, NEW i_cancel \in BOOLEAN, BypStep(TRUE, i_dat, i_cancel, o_rdy, kill)
      PROVE  BypInv' /\ Fifo!FifoNext
  BY <1>4, BypStepRefines
<1> QED BY <1>1, <1>3, <1>4

(***************************************************************************)
(* sirv_bypbuf with its bypass is the same FIFO as HiCore_queue, for every *)
(* depth, and its counter agrees with its pointers.                        *)
(***************************************************************************)
THEOREM BypImplementsFifo == BypSpec => ImplementsFifo /\ []CounterTracksContents
<1>1. BypInit => BypInv /\ Fifo!FifoInit
  BY QueueInitInv, QueueAssumption DEF BypInit, BypInv, CounterTracksContents, Count, QueueInit
<1>2. BypInv /\ [BypNext]_byp_vars => BypInv' /\ [Fifo!FifoNext]_(Fifo!fifo_vars)
  <2>1. ASSUME BypInv, BypNext PROVE BypInv' /\ Fifo!FifoNext
    BY <2>1, BypNextRefines
  <2>2. BypInv /\ UNCHANGED byp_vars => BypInv' /\ UNCHANGED Fifo!fifo_vars
    BY DEF byp_vars, queue_vars, BypInv, CounterTracksContents, QueueInv, QueueTypeOK, NoOverrun,
           Contents, Count, At, Fifo!fifo_vars
  <2> QED BY <2>1, <2>2
<1>3. BypInv => CounterTracksContents
  BY DEF BypInv
<1> QED BY <1>1, <1>2, <1>3, PTL DEF BypSpec, ImplementsFifo, Fifo!FifoSpec

\* The pointers of sirv_bypbuf keep their widths and never run past one another,
\* whether a word goes through the buffer or around it.
THEOREM BypTypeCorrect == BypSpec => [](QueueTypeOK /\ NoOverrun)
<1>1. BypInit => BypInv
  BY QueueInitInv, QueueAssumption DEF BypInit, BypInv, CounterTracksContents, Count, QueueInit
<1>2. BypInv /\ [BypNext]_byp_vars => BypInv'
  <2>1. ASSUME BypInv, BypNext PROVE BypInv'
    BY <2>1, BypNextRefines
  <2>2. BypInv /\ UNCHANGED byp_vars => BypInv'
    BY DEF byp_vars, queue_vars, BypInv, CounterTracksContents, QueueInv, QueueTypeOK, NoOverrun, Count
  <2> QED BY <2>1, <2>2
<1>3. BypInv => QueueTypeOK /\ NoOverrun
  BY DEF BypInv, QueueInv
<1> QED BY <1>1, <1>2, <1>3, PTL DEF BypSpec

=============================================================================

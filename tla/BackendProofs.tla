-------------------------- MODULE BackendProofs --------------------------
(***************************************************************************)
(* The execution part of the core, for every size of the reorder buffer,   *)
(* depth of the load/store queues, number of registers and values and set  *)
(* of instructions: the registers keep their types, the reorder buffer     *)
(* keeps its window, and a slot waits for a result exactly while one       *)
(* operation for it is under way in one place.                             *)
(*                                                                         *)
(* What a clock cycle does is taken apart first, one lemma for each        *)
(* register and queue; Placed, at the end, puts the parts together.        *)
(***************************************************************************)
EXTENDS Backend, Lemmas

\* The inputs of a cycle.
LEMMA InputsAre ==
  ASSUME NEW in \in Inputs
  PROVE  /\ \/ in.fetch = <<>>
            \/ /\ in.fetch = <<in.fetch[1]>> /\ Valid(in.fetch)
               /\ in.fetch[1] \in [ins : Ins, cancel : BOOLEAN]
               /\ ~dep(in.fetch[1])
         /\ in.irq \in BOOLEAN /\ in.cmd_ready \in BOOLEAN /\ in.rsp_valid \in BOOLEAN
         /\ in.cmd_ready => bus = <<>>
         /\ in.rsp_valid => bus # <<>>
<1>1. in.fetch \in Offers /\ in.irq \in IrqsNow /\ in.cmd_ready \in CmdReadies /\ in.rsp_valid \in RspValids
  BY DEF Inputs
<1>2. \/ in.fetch = <<>>
      \/ \E f \in [ins : Ins, cancel : BOOLEAN] : in.fetch = <<f>> /\ ~dep(f)
  BY <1>1 DEF Offers
<1>3. /\ in.irq \in BOOLEAN /\ in.cmd_ready \in BOOLEAN /\ in.rsp_valid \in BOOLEAN
      /\ in.cmd_ready => bus = <<>>
      /\ in.rsp_valid => bus # <<>>
  BY <1>1, BackendAssumption, Zenon DEF IrqsNow, CmdReadies, RspValids
<1>4. ASSUME NEW f \in [ins : Ins, cancel : BOOLEAN], in.fetch = <<f>>, ~dep(f)
      PROVE  /\ in.fetch = <<in.fetch[1]>> /\ Valid(in.fetch)
             /\ in.fetch[1] \in [ins : Ins, cancel : BOOLEAN] /\ ~dep(in.fetch[1])
  <2>1. in.fetch[1] = f /\ in.fetch # <<>>
    BY <1>4
  <2> QED BY <1>4, <2>1 DEF Valid
<1> QED BY <1>2, <1>3, <1>4

\* What the pipes take in.
NewDe(in) == [ptr |-> SlotOf(rob_tail_ptr), ins |-> in.fetch[1].ins,
              src |-> regs[in.fetch[1].ins.rs], cancel |-> in.fetch[1].cancel]
NewAlu    == [ptr |-> Iss.ptr, dat |-> AluOp(Iss.src), cancel |-> Iss.cancel]
NewCsr    == [ptr |-> Iss.ptr, dat |-> csr, csrdat |-> Iss.src, cancel |-> Iss.cancel]
NewAgu    == [ptr |-> Iss.ptr, excp |-> Iss.ins.mis, read |-> Iss.ins.op = "load",
              wdat |-> Iss.src, cancel |-> Iss.cancel]
NewLsu    == [ptr |-> LsuIn.ptr, cancel |-> FALSE]

\* The pipes hold no entry or one.
LEMMA Shapes ==
  ASSUME TypeOK
  PROVE  /\ de2issue # <<>> => Iss \in DeEntry
         /\ alu2wb # <<>> => alu2wb[1] \in AluEntry
         /\ csr2wb # <<>> => csr2wb[1] \in CsrEntry
         /\ agu2lsu # <<>> => LsuIn \in AguEntry
         /\ excp_queue # <<>> => excp_queue[1] \in LsuEntry
         /\ \A k \in 1 .. Len(mem_queue) : mem_queue[k] \in LsuEntry
         /\ Len(mem_queue) \in 0 .. LsuDepth
         /\ mem_queue # <<>> <=> Len(mem_queue) > 0
<1>1. de2issue # <<>> => Iss \in DeEntry
  BY ShortSeq DEF TypeOK, Iss
<1>2. alu2wb # <<>> => alu2wb[1] \in AluEntry
  BY ShortSeq DEF TypeOK
<1>3. csr2wb # <<>> => csr2wb[1] \in CsrEntry
  BY ShortSeq DEF TypeOK
<1>4. agu2lsu # <<>> => LsuIn \in AguEntry
  BY ShortSeq DEF TypeOK, LsuIn
<1>5. excp_queue # <<>> => excp_queue[1] \in LsuEntry
  BY ShortSeq DEF TypeOK
<1>6. mem_queue \in Seq(LsuEntry) /\ Len(mem_queue) <= LsuDepth
  BY DEF TypeOK
<1>7. /\ \A k \in 1 .. Len(mem_queue) : mem_queue[k] \in LsuEntry
      /\ Len(mem_queue) \in Nat
      /\ mem_queue # <<>> <=> Len(mem_queue) > 0
  BY <1>6
<1> QED BY <1>1, <1>2, <1>3, <1>4, <1>5, <1>6, <1>7, BackendAssumption

\* What the pipes take in has the type of their entries.
LEMMA NewShapes ==
  ASSUME TypeOK, NEW in \in Inputs
  PROVE  /\ Accepted(in) => NewDe(in) \in DeEntry
         /\ de2issue # <<>> => NewAlu \in AluEntry /\ NewCsr \in CsrEntry /\ NewAgu \in AguEntry
         /\ agu2lsu # <<>> => NewLsu \in LsuEntry
<1>1. ASSUME Accepted(in) PROVE NewDe(in) \in DeEntry
  <2>1. in.fetch[1] \in [ins : Ins, cancel : BOOLEAN]
    BY <1>1, InputsAre DEF Accepted
  <2>2. in.fetch[1].ins.rs \in Reg
    BY <2>1, InstrAssumption
  <2>3. SlotOf(rob_tail_ptr) \in Slot /\ regs \in [Reg -> Val]
    BY PtrArith DEF TypeOK, RobTypeOK
  <2> QED BY <2>1, <2>2, <2>3 DEF NewDe, DeEntry
<1>2. ASSUME de2issue # <<>> PROVE NewAlu \in AluEntry /\ NewCsr \in CsrEntry /\ NewAgu \in AguEntry
  <2>1. Iss \in DeEntry /\ csr \in Val
    BY <1>2, Shapes DEF TypeOK
  <2>2. Iss.ins.mis \in BOOLEAN /\ AluOp(Iss.src) \in Val
    <3>1. Iss.ins \in Ins /\ Iss.src \in 0 .. NVal - 1
      BY <2>1 DEF DeEntry, Val
    <3>2. Iss.src + 1 \in Nat
      BY <3>1, InstrAssumption
    <3> QED BY <3>1, <3>2, InstrAssumption DEF AluOp, Val
  <2> QED BY <2>1, <2>2 DEF NewAlu, NewCsr, NewAgu, AluEntry, CsrEntry, AguEntry, DeEntry
<1>3. ASSUME agu2lsu # <<>> PROVE NewLsu \in LsuEntry
  BY <1>3, Shapes DEF NewLsu, LsuEntry, AguEntry
<1> QED BY <1>1, <1>2, <1>3

\* The wires of a cycle are Boolean, and no pipe is overrun or read when empty.
LEMMA Wires ==
  ASSUME TypeOK, NEW in \in Inputs
  PROVE  /\ flush(in) \in BOOLEAN /\ Accepted(in) \in BOOLEAN /\ issue_pop(in) \in BOOLEAN
         /\ agu_pop(in) \in BOOLEAN /\ excp_pop(in) \in BOOLEAN /\ mem_pop(in) \in BOOLEAN
         /\ mem_push \in BOOLEAN /\ excp_push(in) \in BOOLEAN
         /\ \A ops : Issued(in, ops) \in BOOLEAN
         /\ Accepted(in) => de2issue = <<>> \/ issue_pop(in)
         /\ issue_pop(in) => de2issue # <<>>
         /\ agu_pop(in) => agu2lsu # <<>>
         /\ excp_pop(in) => excp_queue # <<>>
         /\ mem_pop(in) => mem_queue # <<>>
         /\ Issued(in, {"load", "store"}) => agu2lsu = <<>> \/ agu_pop(in)
         /\ excp_push(in) => excp_queue = <<>> \/ excp_pop(in)
         /\ mem_push => Len(mem_queue) < LsuDepth
<1>1. /\ flush(in) \in BOOLEAN /\ Accepted(in) \in BOOLEAN /\ issue_pop(in) \in BOOLEAN
      /\ agu_pop(in) \in BOOLEAN /\ excp_pop(in) \in BOOLEAN /\ mem_pop(in) \in BOOLEAN
      /\ mem_push \in BOOLEAN /\ excp_push(in) \in BOOLEAN
      /\ \A ops : Issued(in, ops) \in BOOLEAN
  BY Zenon DEF flush, Accepted, issue_pop, agu_pop, excp_pop, mem_pop, mem_push, excp_push, Issued
<1>2. /\ Accepted(in) => de2issue = <<>> \/ issue_pop(in)
      /\ issue_pop(in) => de2issue # <<>>
  BY DEF Accepted, PipeReady, Valid, issue_pop
<1>3. /\ agu_pop(in) => agu2lsu # <<>>
      /\ excp_pop(in) => excp_queue # <<>>
      /\ mem_pop(in) => mem_queue # <<>>
      /\ excp_push(in) => excp_queue = <<>> \/ excp_pop(in)
      /\ mem_push => Len(mem_queue) < LsuDepth
  BY DEF agu_pop, excp_pop, mem_pop, excp_push, mem_push, PipeReady, QueueReady, Valid
<1>4. Issued(in, {"load", "store"}) => agu2lsu = <<>> \/ agu_pop(in)
  BY DEF Issued, issue_pop, agu_sel, PipeReady, Valid
<1> QED BY <1>1, <1>2, <1>3, <1>4

\* The pipes after a cycle.
LEMMA PipesCycle ==
  ASSUME TypeOK, NEW in \in Inputs, Tick(in)
  PROVE  /\ de2issue' = After(de2issue, NewDe(in), Accepted(in), issue_pop(in), flush(in))
         /\ alu2wb' = After(alu2wb, NewAlu, Issued(in, {"alu"}), alu2wb # <<>>, flush(in))
         /\ csr2wb' = After(csr2wb, NewCsr, Issued(in, {"csr"}), csr2wb # <<>>, flush(in))
         /\ agu2lsu' = After(agu2lsu, NewAgu, Issued(in, {"load", "store"}), agu_pop(in), flush(in))
         /\ excp_queue' = After(excp_queue, NewLsu, excp_push(in), excp_pop(in), flush(in))
<1>1. de2issue' = After(de2issue, NewDe(in), Accepted(in), issue_pop(in), flush(in))
  <2>1. de2issue' = BufNext(de2issue, When(Accepted(in), NewDe(in)), issue_pop(in), flush(in))
    BY Zenon DEF Tick, DecodeStep, NewDe
  <2>2. de2issue \in Seq(DeEntry) /\ Len(de2issue) <= 1
    BY DEF TypeOK
  <2> QED BY <2>1, <2>2, Wires, PipeCycle
<1>2. alu2wb' = After(alu2wb, NewAlu, Issued(in, {"alu"}), alu2wb # <<>>, flush(in))
  <2>1. alu2wb' = BufNext(alu2wb, When(Issued(in, {"alu"}), NewAlu), alu2wb # <<>>, flush(in))
    BY Zenon DEF Tick, ExecStep, NewAlu, Valid
  <2>2. alu2wb \in Seq(AluEntry) /\ Len(alu2wb) <= 1
    BY DEF TypeOK
  <2>3. PICK p \in BOOLEAN : p = (alu2wb # <<>>)
    BY Zenon
  <2>a. Issued(in, {"alu"}) \in BOOLEAN
    BY Zenon DEF Issued
  <2>b. (p => alu2wb # <<>>) /\ (Issued(in, {"alu"}) => alu2wb = <<>> \/ p)
    BY <2>3, Zenon
  <2>4. BufNext(alu2wb, When(Issued(in, {"alu"}), NewAlu), p, flush(in)) =
          After(alu2wb, NewAlu, Issued(in, {"alu"}), p, flush(in))
    BY <2>2, <2>a, <2>b, PipeCycle
  <2> QED BY <2>1, <2>3, <2>4, Zenon
<1>3. csr2wb' = After(csr2wb, NewCsr, Issued(in, {"csr"}), csr2wb # <<>>, flush(in))
  <2>1. csr2wb' = BufNext(csr2wb, When(Issued(in, {"csr"}), NewCsr), csr2wb # <<>>, flush(in))
    BY Zenon DEF Tick, ExecStep, NewCsr, Valid
  <2>2. csr2wb \in Seq(CsrEntry) /\ Len(csr2wb) <= 1
    BY DEF TypeOK
  <2>3. PICK p \in BOOLEAN : p = (csr2wb # <<>>)
    OBVIOUS
  <2>a. Issued(in, {"csr"}) \in BOOLEAN
    BY Zenon DEF Issued
  <2>b. (p => csr2wb # <<>>) /\ (Issued(in, {"csr"}) => csr2wb = <<>> \/ p)
    BY <2>3, Zenon
  <2>4. BufNext(csr2wb, When(Issued(in, {"csr"}), NewCsr), p, flush(in)) =
          After(csr2wb, NewCsr, Issued(in, {"csr"}), p, flush(in))
    BY <2>2, <2>a, <2>b, PipeCycle
  <2> QED BY <2>1, <2>3, <2>4, Zenon
<1>4. agu2lsu' = After(agu2lsu, NewAgu, Issued(in, {"load", "store"}), agu_pop(in), flush(in))
  <2>1. agu2lsu' = BufNext(agu2lsu, When(Issued(in, {"load", "store"}), NewAgu), agu_pop(in), flush(in))
    BY Zenon DEF Tick, ExecStep, NewAgu
  <2>2. agu2lsu \in Seq(AguEntry) /\ Len(agu2lsu) <= 1
    BY DEF TypeOK
  <2> QED BY <2>1, <2>2, Wires, PipeCycle
<1>5. excp_queue' = After(excp_queue, NewLsu, excp_push(in), excp_pop(in), flush(in))
  <2>1. excp_queue' = BufNext(excp_queue, When(excp_push(in), NewLsu), excp_pop(in), flush(in))
    BY Zenon DEF Tick, LsuStep, NewLsu
  <2>2. excp_queue \in Seq(LsuEntry) /\ Len(excp_queue) <= 1
    BY DEF TypeOK
  <2> QED BY <2>1, <2>2, Wires, PipeCycle
<1> QED BY <1>1, <1>2, <1>3, <1>4, <1>5

\* mem_queue after a cycle.
LEMMA MemQueueCycle ==
  ASSUME TypeOK, NEW in \in Inputs, Tick(in)
  PROVE  /\ mem_queue' \in Seq(LsuEntry)
         /\ Len(mem_queue') = Len(mem_queue) + (IF mem_push THEN 1 ELSE 0) - (IF mem_pop(in) THEN 1 ELSE 0)
         /\ \A k \in 1 .. Len(mem_queue') :
              LET i == IF mem_pop(in) THEN k + 1 ELSE k
              IN  mem_queue'[k] = CancelIf(flush(in), IF i <= Len(mem_queue) THEN mem_queue[i] ELSE NewLsu)
<1> DEFINE push == When(mem_push, NewLsu)
<1>1. mem_queue' = BufNext(mem_queue, push, mem_pop(in), flush(in))
  BY Zenon DEF Tick, LsuStep, NewLsu
<1>2. mem_queue \in Seq(LsuEntry) /\ Len(mem_queue) \in Nat
  BY DEF TypeOK
<1>3. /\ push \in Seq(LsuEntry) /\ Len(push) = (IF mem_push THEN 1 ELSE 0)
      /\ mem_push => push[1] = NewLsu
  <2>1. mem_push => NewLsu \in LsuEntry
    BY NewShapes DEF mem_push, Valid
  <2> QED BY <2>1, Wires DEF When
<1>4. mem_pop(in) \in BOOLEAN /\ flush(in) \in BOOLEAN /\ mem_push \in BOOLEAN
      /\ (mem_pop(in) => Len(mem_queue) > 0)
  BY Wires, Shapes
<1> HIDE DEF push
<1>5. mem_queue' = [k \in 1 .. KeptLen(mem_queue, push, mem_pop(in)) |->
                      CancelIf(flush(in), KeptAt(mem_queue, push, mem_pop(in), k))]
  <2>1. mem_pop(in) => Len(mem_queue) + Len(push) > 0
    BY <1>2, <1>3, <1>4
  <2> QED BY <1>1, <1>2, <1>3, <1>4, <2>1, BufNextEntries
<1>6. /\ KeptLen(mem_queue, push, mem_pop(in)) =
           Len(mem_queue) + (IF mem_push THEN 1 ELSE 0) - (IF mem_pop(in) THEN 1 ELSE 0)
      /\ KeptLen(mem_queue, push, mem_pop(in)) \in Nat
  BY <1>2, <1>3, <1>4 DEF KeptLen
<1>7. ASSUME NEW k \in 1 .. KeptLen(mem_queue, push, mem_pop(in))
      PROVE  /\ KeptAt(mem_queue, push, mem_pop(in), k) =
                  LET i == IF mem_pop(in) THEN k + 1 ELSE k
                  IN  IF i <= Len(mem_queue) THEN mem_queue[i] ELSE NewLsu
             /\ KeptAt(mem_queue, push, mem_pop(in), k) \in LsuEntry
  <2> DEFINE i == IF mem_pop(in) THEN k + 1 ELSE k
  <2>1. i \in Nat /\ i > 0 /\ (i > Len(mem_queue) => mem_push /\ i - Len(mem_queue) = 1)
    BY <1>2, <1>4, <1>6
  <2>2. CASE i <= Len(mem_queue)
    BY <1>2, <2>1, <2>2 DEF KeptAt
  <2>3. CASE i > Len(mem_queue)
    <3>1. KeptAt(mem_queue, push, mem_pop(in), k) = push[1] /\ push[1] = NewLsu
      BY <1>2, <1>3, <2>1, <2>3 DEF KeptAt
    <3>2. push[1] \in LsuEntry
      BY <1>3, <2>1, <2>3
    <3> QED BY <1>2, <2>1, <2>3, <3>1, <3>2
  <2> QED BY <1>2, <2>1, <2>2, <2>3
<1>8. \A e \in LsuEntry : CancelIf(flush(in), e) \in LsuEntry
  BY <1>4 DEF CancelIf, LsuEntry
<1>9. mem_queue' \in Seq(LsuEntry) /\ Len(mem_queue') = KeptLen(mem_queue, push, mem_pop(in))
  BY <1>5, <1>6, <1>7, <1>8
<1> QED BY <1>5, <1>6, <1>7, <1>9

\* Marking changes the cancel mark only.
LEMMA Marked ==
  ASSUME NEW f \in BOOLEAN
  PROVE  /\ \A e \in DeEntry : /\ CancelIf(f, e) \in DeEntry /\ CancelIf(f, e).cancel = (f \/ e.cancel)
                               /\ CancelIf(f, e).ptr = e.ptr /\ CancelIf(f, e).ins = e.ins
                               /\ CancelIf(f, e).src = e.src
         /\ \A e \in AluEntry : /\ CancelIf(f, e) \in AluEntry /\ CancelIf(f, e).cancel = (f \/ e.cancel)
                                /\ CancelIf(f, e).ptr = e.ptr /\ CancelIf(f, e).dat = e.dat
         /\ \A e \in CsrEntry : /\ CancelIf(f, e) \in CsrEntry /\ CancelIf(f, e).cancel = (f \/ e.cancel)
                                /\ CancelIf(f, e).ptr = e.ptr /\ CancelIf(f, e).dat = e.dat
                                /\ CancelIf(f, e).csrdat = e.csrdat
         /\ \A e \in AguEntry : /\ CancelIf(f, e) \in AguEntry /\ CancelIf(f, e).cancel = (f \/ e.cancel)
                                /\ CancelIf(f, e).ptr = e.ptr /\ CancelIf(f, e).excp = e.excp
                                /\ CancelIf(f, e).read = e.read /\ CancelIf(f, e).wdat = e.wdat
         /\ \A e \in LsuEntry : /\ CancelIf(f, e) \in LsuEntry /\ CancelIf(f, e).cancel = (f \/ e.cancel)
                                /\ CancelIf(f, e).ptr = e.ptr
  BY DEF CancelIf, DeEntry, AluEntry, CsrEntry, AguEntry, LsuEntry

\* The pipes keep their types.
LEMMA PipesType ==
  ASSUME TypeOK, NEW in \in Inputs, Tick(in)
  PROVE  /\ de2issue' \in Seq(DeEntry) /\ Len(de2issue') <= 1
         /\ alu2wb' \in Seq(AluEntry) /\ Len(alu2wb') <= 1
         /\ csr2wb' \in Seq(CsrEntry) /\ Len(csr2wb') <= 1
         /\ agu2lsu' \in Seq(AguEntry) /\ Len(agu2lsu') <= 1
         /\ excp_queue' \in Seq(LsuEntry) /\ Len(excp_queue') <= 1
         /\ mem_queue' \in Seq(LsuEntry) /\ Len(mem_queue') <= LsuDepth
<1>1. PICK f \in BOOLEAN : f = flush(in)
  BY Wires
<1>2. de2issue' \in Seq(DeEntry) /\ Len(de2issue') <= 1
  <2>1. de2issue \in Seq(DeEntry) /\ Len(de2issue) <= 1
    BY DEF TypeOK
  <2>2. Accepted(in) \in BOOLEAN /\ issue_pop(in) \in BOOLEAN /\ (Accepted(in) => NewDe(in) \in DeEntry)
    BY Wires, NewShapes
  <2>3. \A e \in DeEntry : CancelIf(f, e) \in DeEntry
    BY Marked
  <2>4. de2issue' = After(de2issue, NewDe(in), Accepted(in), issue_pop(in), f)
    BY <1>1, PipesCycle
  <2> QED BY <2>1, <2>2, <2>3, <2>4, AfterType, Zenon
<1>3. alu2wb' \in Seq(AluEntry) /\ Len(alu2wb') <= 1
  <2>1. alu2wb \in Seq(AluEntry) /\ Len(alu2wb) <= 1
    BY DEF TypeOK
  <2>2. Issued(in, {"alu"}) \in BOOLEAN /\ (Issued(in, {"alu"}) => NewAlu \in AluEntry)
    BY Wires, NewShapes DEF Issued
  <2>3. \A e \in AluEntry : CancelIf(f, e) \in AluEntry
    BY Marked
  <2>4. PICK p \in BOOLEAN : p = (alu2wb # <<>>)
    BY Zenon
  <2>5. alu2wb' = After(alu2wb, NewAlu, Issued(in, {"alu"}), p, f)
    BY <1>1, <2>4, PipesCycle, Zenon
  <2> QED BY <2>1, <2>2, <2>3, <2>5, AfterType, Zenon
<1>4. csr2wb' \in Seq(CsrEntry) /\ Len(csr2wb') <= 1
  <2>1. csr2wb \in Seq(CsrEntry) /\ Len(csr2wb) <= 1
    BY DEF TypeOK
  <2>2. Issued(in, {"csr"}) \in BOOLEAN /\ (Issued(in, {"csr"}) => NewCsr \in CsrEntry)
    BY Wires, NewShapes DEF Issued
  <2>3. \A e \in CsrEntry : CancelIf(f, e) \in CsrEntry
    BY Marked
  <2>4. PICK p \in BOOLEAN : p = (csr2wb # <<>>)
    OBVIOUS
  <2>5. csr2wb' = After(csr2wb, NewCsr, Issued(in, {"csr"}), p, f)
    BY <1>1, <2>4, PipesCycle, Zenon
  <2> QED BY <2>1, <2>2, <2>3, <2>5, AfterType, Zenon
<1>5. agu2lsu' \in Seq(AguEntry) /\ Len(agu2lsu') <= 1
  <2>1. agu2lsu \in Seq(AguEntry) /\ Len(agu2lsu) <= 1
    BY DEF TypeOK
  <2>2. /\ Issued(in, {"load", "store"}) \in BOOLEAN /\ agu_pop(in) \in BOOLEAN
        /\ Issued(in, {"load", "store"}) => NewAgu \in AguEntry
    BY Wires, NewShapes DEF Issued
  <2>3. \A e \in AguEntry : CancelIf(f, e) \in AguEntry
    BY Marked
  <2>4. agu2lsu' = After(agu2lsu, NewAgu, Issued(in, {"load", "store"}), agu_pop(in), f)
    BY <1>1, PipesCycle
  <2> QED BY <2>1, <2>2, <2>3, <2>4, AfterType, Zenon
<1>6. excp_queue' \in Seq(LsuEntry) /\ Len(excp_queue') <= 1
  <2>1. excp_queue \in Seq(LsuEntry) /\ Len(excp_queue) <= 1
    BY DEF TypeOK
  <2>2. /\ excp_push(in) \in BOOLEAN /\ excp_pop(in) \in BOOLEAN
        /\ excp_push(in) => NewLsu \in LsuEntry
    BY Wires, NewShapes DEF excp_push, Valid
  <2>3. \A e \in LsuEntry : CancelIf(f, e) \in LsuEntry
    BY Marked
  <2>4. excp_queue' = After(excp_queue, NewLsu, excp_push(in), excp_pop(in), f)
    BY <1>1, PipesCycle
  <2> QED BY <2>1, <2>2, <2>3, <2>4, AfterType, Zenon
<1>7. mem_queue' \in Seq(LsuEntry) /\ Len(mem_queue') <= LsuDepth
  <2>1. Len(mem_queue) \in 0 .. LsuDepth /\ LsuDepth \in Nat
    BY Shapes, BackendAssumption
  <2>2. mem_push => Len(mem_queue) < LsuDepth
    BY Wires
  <2>3. mem_push \in BOOLEAN /\ mem_pop(in) \in BOOLEAN
    BY Wires
  <2> QED BY <2>1, <2>2, <2>3, MemQueueCycle
<1> QED BY <1>2, <1>3, <1>4, <1>5, <1>6, <1>7

\* The command of the access in agu2lsu.
NewCommand == [read |-> LsuIn.read, wdat |-> LsuIn.wdat]

\* The commands offered to the bus, entry by entry.
LEMMA CmdsAre ==
  ASSUME TypeOK
  PROVE  /\ Cmds \in Seq(CmdEntry)
         /\ Len(mem_fifo) \in 0 .. LsuDepth
         /\ Len(Cmds) = Len(mem_fifo) + (IF mem_push THEN 1 ELSE 0)
         /\ \A k \in 1 .. Len(Cmds) : /\ Cmds[k] \in CmdEntry
                                      /\ Cmds[k] = IF k <= Len(mem_fifo) THEN mem_fifo[k] ELSE NewCommand
         /\ Cmds = <<>> <=> Len(Cmds) = 0
<1>1. mem_fifo \in Seq(CmdEntry) /\ Len(mem_fifo) <= LsuDepth
  BY DEF TypeOK
<1>2. Len(mem_fifo) \in 0 .. LsuDepth
  BY <1>1, BackendAssumption
<1>3. NewCmd = When(mem_push, NewCommand) /\ mem_push \in BOOLEAN
  BY Zenon DEF NewCmd, NewCommand, mem_push
<1>4. mem_push => NewCommand \in CmdEntry
  BY Shapes DEF mem_push, Valid, AguEntry, NewCommand, CmdEntry
<1>5. /\ NewCmd \in Seq(CmdEntry) /\ Len(NewCmd) = (IF mem_push THEN 1 ELSE 0)
      /\ mem_push => NewCmd[1] = NewCommand
  BY <1>3, <1>4 DEF When
<1>6. Cmds \in Seq(CmdEntry) /\ Len(Cmds) = Len(mem_fifo) + Len(NewCmd)
  BY <1>1, <1>5, Joined, Zenon DEF Cmds
<1>7. \A k \in 1 .. Len(Cmds) : Cmds[k] = IF k <= Len(mem_fifo) THEN mem_fifo[k] ELSE NewCmd[k - Len(mem_fifo)]
  BY <1>1, <1>5, <1>6, Joined DEF Cmds
<1>8. \A k \in 1 .. Len(Cmds) : k > Len(mem_fifo) => mem_push /\ k - Len(mem_fifo) = 1
  BY <1>2, <1>3, <1>5, <1>6
<1>9. \A k \in 1 .. Len(Cmds) : Cmds[k] = IF k <= Len(mem_fifo) THEN mem_fifo[k] ELSE NewCommand
  BY <1>2, <1>5, <1>6, <1>7, <1>8
<1>10. \A k \in 1 .. Len(Cmds) : Cmds[k] \in CmdEntry
  BY <1>6
<1>11. Cmds = <<>> <=> Len(Cmds) = 0
  BY <1>6
<1> QED BY <1>2, <1>5, <1>6, <1>9, <1>10, <1>11

\* The commands after a cycle.
LEMMA FifoCycle ==
  ASSUME TypeOK, NEW in \in Inputs, Tick(in)
  PROVE  /\ mem_fifo' \in Seq(CmdEntry)
         /\ cmd_fire(in) \in BOOLEAN /\ (cmd_fire(in) => Len(Cmds) > 0 /\ bus = <<>>)
         /\ Len(mem_fifo') = Len(Cmds) - (IF cmd_fire(in) THEN 1 ELSE 0)
         /\ \A k \in 1 .. Len(mem_fifo') : mem_fifo'[k] = Cmds[IF cmd_fire(in) THEN k + 1 ELSE k]
<1>1. mem_fifo' = IF cmd_fire(in) THEN Tail(Cmds) ELSE Cmds
  BY Zenon DEF Tick, LsuStep
<1>2. /\ Cmds \in Seq(CmdEntry)
      /\ cmd_fire(in) \in BOOLEAN /\ (cmd_fire(in) => Cmds # <<>>)
      /\ cmd_fire(in) => bus = <<>>
  BY CmdsAre, InputsAre DEF cmd_fire
<1>3. CASE cmd_fire(in)
  <2>1. mem_fifo' = Tail(Cmds) /\ Cmds # <<>>
    BY <1>1, <1>2, <1>3
  <2>2. mem_fifo' \in Seq(CmdEntry) /\ Len(mem_fifo') = Len(Cmds) - 1 /\ Len(Cmds) > 0
    BY <1>2, <2>1
  <2>3. \A k \in 1 .. Len(mem_fifo') : mem_fifo'[k] = Cmds[k + 1]
    BY <1>2, <2>1, <2>2
  <2> QED BY <1>2, <1>3, <2>2, <2>3
<1>4. CASE ~cmd_fire(in)
  <2>1. mem_fifo' = Cmds /\ Len(Cmds) \in Nat
    BY <1>1, <1>2, <1>4
  <2> QED BY <1>2, <1>4, <2>1
<1> QED BY <1>2, <1>3, <1>4

\* The load/store unit and the bus keep their types.
LEMMA BusType ==
  ASSUME TypeOK, NEW in \in Inputs, Tick(in)
  PROVE  /\ mem_fifo' \in Seq(CmdEntry) /\ Len(mem_fifo') <= LsuDepth
         /\ bus' \in Seq(BusEntry) /\ Len(bus') <= 1
         /\ mem' \in Val
<1>1. mem_fifo' \in Seq(CmdEntry) /\ Len(mem_fifo') <= LsuDepth
  <2>1. mem_push => Len(mem_fifo) < LsuDepth
    BY DEF mem_push, QueueReady
  <2>2. Len(Cmds) \in 0 .. LsuDepth
    BY <2>1, CmdsAre, BackendAssumption
  <2> QED BY <2>2, FifoCycle, BackendAssumption
<1>2. /\ bus \in Seq(BusEntry) /\ Len(bus) <= 1 /\ mem \in Val /\ 0 \in Val
  BY InstrAssumption DEF TypeOK, Val
<1>3. cmd_fire(in) => Cmds[1] \in CmdEntry
  BY FifoCycle, CmdsAre
<1>4. bus' = IF cmd_fire(in)
             THEN <<[read |-> Cmds[1].read, dat |-> IF Cmds[1].read THEN mem ELSE 0]>>
             ELSE IF in.rsp_valid THEN <<>> ELSE bus
  BY Zenon DEF Tick, BusStep
<1>5. mem' = IF cmd_fire(in) /\ ~Cmds[1].read THEN Cmds[1].wdat ELSE mem
  BY Zenon DEF Tick, BusStep
<1>6. mem' \in Val
  BY <1>2, <1>3, <1>5 DEF CmdEntry
<1>7. bus' \in Seq(BusEntry) /\ Len(bus') <= 1
  <2>1. CASE cmd_fire(in)
    <3> DEFINE b == [read |-> Cmds[1].read, dat |-> IF Cmds[1].read THEN mem ELSE 0]
    <3>1. b \in BusEntry
      BY <1>2, <1>3, <2>1 DEF BusEntry, CmdEntry
    <3>2. bus' = <<b>>
      BY <1>4, <2>1
    <3> HIDE DEF b
    <3> QED BY <3>1, <3>2
  <2>2. CASE ~cmd_fire(in)
    BY <1>2, <1>4, <2>2
  <2> QED BY <2>1, <2>2
<1> QED BY <1>1, <1>6, <1>7

\* A result as the reorder buffer takes it.
WbEntry == [ptr : Slot, excp : BOOLEAN, dat : Val, csrdat : Val]

\* The units deliver results of their types.
LEMMA WbType ==
  ASSUME TypeOK, NEW in \in Inputs
  PROVE  WriteBacks(in) \subseteq WbEntry
<1>0. 0 \in Val /\ LinkVal \in Val
  BY InstrAssumption DEF Val, LinkVal
<1>1. bjp_nop_wb(in) \subseteq WbEntry
  <2>1. CASE de2issue = <<>>
    BY <2>1 DEF bjp_nop_wb, Valid
  <2>2. CASE de2issue # <<>>
    <3>1. Wb(Iss, Iss.ins.op = "ecall", LinkVal, 0) \in WbEntry
      BY <1>0, <2>2, Shapes DEF Wb, WbEntry, DeEntry
    <3> QED BY <3>1 DEF bjp_nop_wb
  <2> QED BY <2>1, <2>2
<1>2. alu_wb(in) \subseteq WbEntry
  <2>1. ASSUME alu2wb # <<>> PROVE Wb(alu2wb[1], FALSE, alu2wb[1].dat, 0) \in WbEntry
    BY <1>0, <2>1, Shapes DEF Wb, WbEntry, AluEntry
  <2> QED BY <2>1, Zenon DEF alu_wb, Valid
<1>3. csr_wb(in) \subseteq WbEntry
  <2>1. ASSUME csr2wb # <<>> PROVE Wb(csr2wb[1], FALSE, csr2wb[1].dat, csr2wb[1].csrdat) \in WbEntry
    BY <2>1, Shapes DEF Wb, WbEntry, CsrEntry
  <2> QED BY <2>1, Zenon DEF csr_wb, Valid
<1>4. lsu_wb(in) \subseteq WbEntry
  <2>1. ASSUME mem_pop(in) PROVE Wb(mem_queue[1], FALSE, bus[1].dat, 0) \in WbEntry
    <3>1. bus # <<>> /\ mem_queue # <<>>
      BY <2>1, InputsAre DEF mem_pop, Valid
    <3>2. bus[1] \in BusEntry
      BY <3>1, ShortSeq, Zenon DEF TypeOK
    <3>3. mem_queue[1] \in LsuEntry
      BY <3>1, Shapes
    <3> QED BY <1>0, <3>2, <3>3 DEF Wb, WbEntry, BusEntry, LsuEntry
  <2>2. ASSUME excp_pop(in) PROVE Wb(excp_queue[1], TRUE, 0, 0) \in WbEntry
    BY <1>0, <2>2, Shapes, Wires DEF Wb, WbEntry, LsuEntry
  <2> QED BY <2>1, <2>2, Zenon DEF lsu_wb
<1> QED BY <1>1, <1>2, <1>3, <1>4 DEF WriteBacks

\* The slots that are written back in a cycle.
WbSlots(in) == {w.ptr : w \in WriteBacks(in)}

\* The reorder buffer takes a step.
LEMMA RobTakes ==
  ASSUME TypeOK, NEW in \in Inputs, Tick(in)
  PROVE  /\ rob_wen(in) \in BOOLEAN /\ flush(in) \in BOOLEAN /\ WbSlots(in) \in SUBSET Slot
         /\ RobStep(rob_wen(in), WbSlots(in), flush(in))
<1>1. rob_wen(in) \in BOOLEAN /\ flush(in) \in BOOLEAN
  BY Zenon DEF rob_wen, flush
<1>2. WbSlots(in) \in SUBSET Slot
  BY WbType DEF WbSlots, WbEntry
<1>3. RobStep(rob_wen(in), WbSlots(in), flush(in))
  BY Zenon DEF Tick, RobUpdate, WbSlots
<1> QED BY <1>1, <1>2, <1>3

\* A cycle keeps every register within its type and every buffer within its depth.
LEMMA TypeStep ==
  ASSUME TypeOK, NEW in \in Inputs, Tick(in)
  PROVE  TypeOK'
<1>1. RobTypeOK'
  BY RobTakes, RobStepType DEF TypeOK
<1>2. regs' \in [Reg -> Val] /\ csr' \in Val
  <2>1. SlotOf(rob_head_ptr) \in Slot
    BY PtrArith DEF TypeOK, RobTypeOK
  <2>2. Oldest \in RobEntry /\ regs \in [Reg -> Val] /\ csr \in Val
    BY <2>1 DEF TypeOK, Oldest
  <2> QED BY <2>2, Zenon DEF Tick, CommitStep, RobEntry
<1>3. redirect' \in BOOLEAN
  BY Zenon DEF Tick, DecodeStep
<1>4. rob_entry' \in [Slot -> RobEntry]
  <2>1. NoEntry \in RobEntry
    BY InstrAssumption DEF NoEntry, RobEntry, Val
  <2>2. rob_entry \in [Slot -> RobEntry]
    BY DEF TypeOK
  <2>3. ASSUME NEW s \in Slot PROVE EntryNext(in, WriteBacks(in), s) \in RobEntry
    <3>1. CASE rob_wen(in) /\ s = SlotOf(rob_tail_ptr)
      <4>1. in.fetch[1].ins \in Ins
        BY <3>1, InputsAre DEF rob_wen, Accepted
      <4>2. [NoEntry EXCEPT !.ins = in.fetch[1].ins] \in RobEntry
        BY <2>1, <4>1 DEF RobEntry
      <4> QED BY <3>1, <4>2 DEF EntryNext
    <3>2. CASE ~(rob_wen(in) /\ s = SlotOf(rob_tail_ptr)) /\ \E w \in WriteBacks(in) : w.ptr = s
      <4> DEFINE w == CHOOSE w \in WriteBacks(in) : w.ptr = s
      <4>1. w \in WbEntry
        BY <3>2, WbType
      <4>2. EntryNext(in, WriteBacks(in), s) =
              [ins |-> rob_entry[s].ins, excp |-> w.excp, dat |-> w.dat, csrdat |-> w.csrdat]
        BY <3>2 DEF EntryNext
      <4> HIDE DEF w
      <4> QED BY <2>2, <4>1, <4>2 DEF WbEntry, RobEntry
    <3>3. CASE ~(rob_wen(in) /\ s = SlotOf(rob_tail_ptr)) /\ ~\E w \in WriteBacks(in) : w.ptr = s
      BY <2>1, <2>2, <3>3, Zenon DEF EntryNext
    <3> QED BY <3>1, <3>2, <3>3
  <2>4. rob_entry' = IF flush(in) THEN [s \in Slot |-> NoEntry]
                     ELSE [s \in Slot |-> EntryNext(in, WriteBacks(in), s)]
    BY Zenon DEF Tick, RobUpdate
  <2> QED BY <2>1, <2>3, <2>4, Zenon
<1>5. /\ mem_fifo' \in Seq(CmdEntry) /\ Len(mem_fifo') <= LsuDepth
      /\ bus' \in Seq(BusEntry) /\ Len(bus') <= 1 /\ mem' \in Val
  BY BusType
<1>6. /\ de2issue' \in Seq(DeEntry) /\ Len(de2issue') <= 1
      /\ alu2wb' \in Seq(AluEntry) /\ Len(alu2wb') <= 1
      /\ csr2wb' \in Seq(CsrEntry) /\ Len(csr2wb') <= 1
      /\ agu2lsu' \in Seq(AguEntry) /\ Len(agu2lsu') <= 1
      /\ excp_queue' \in Seq(LsuEntry) /\ Len(excp_queue') <= 1
      /\ mem_queue' \in Seq(LsuEntry) /\ Len(mem_queue') <= LsuDepth
  BY PipesType
<1> QED BY <1>1, <1>2, <1>3, <1>4, <1>5, <1>6, Zenon DEF TypeOK

\* The pipe holds an operation for slot s that is not cancelled; so does
\* position k of mem_queue.
LiveIn(b, s)  == b # <<>> /\ ~b[1].cancel /\ b[1].ptr = s
Waits(k, s)   == k \in 1 .. Len(mem_queue) /\ ~mem_queue[k].cancel /\ mem_queue[k].ptr = s
Waiting(s)    == \E k \in 1 .. Len(mem_queue) : Waits(k, s)

\* Marking e sets its mark if f, and keeps the rest.
MarksOnly(f, e) == CancelIf(f, e).cancel = (f \/ e.cancel) /\ CancelIf(f, e).ptr = e.ptr

\* Where the live operations are after a cycle.
LEMMA LiveCycle ==
  ASSUME TypeOK, NEW in \in Inputs, Tick(in), NEW s \in Slot
  PROVE  /\ LiveIn(de2issue', s) <=>
              ~flush(in) /\ IF Accepted(in) THEN ~in.fetch[1].cancel /\ SlotOf(rob_tail_ptr) = s
                            ELSE ~issue_pop(in) /\ LiveIn(de2issue, s)
         /\ LiveIn(alu2wb', s) <=> ~flush(in) /\ Issued(in, {"alu"}) /\ LiveIn(de2issue, s)
         /\ LiveIn(csr2wb', s) <=> ~flush(in) /\ Issued(in, {"csr"}) /\ LiveIn(de2issue, s)
         /\ LiveIn(agu2lsu', s) <=>
              ~flush(in) /\ IF Issued(in, {"load", "store"}) THEN LiveIn(de2issue, s)
                            ELSE ~agu_pop(in) /\ LiveIn(agu2lsu, s)
         /\ LiveIn(excp_queue', s) <=>
              ~flush(in) /\ IF excp_push(in) THEN LiveIn(agu2lsu, s)
                            ELSE ~excp_pop(in) /\ LiveIn(excp_queue, s)
<1>1. PICK f \in BOOLEAN : f = flush(in)
  BY Wires
<1>y. \A y : LiveIn(<<y>>, s) <=> ~y.cancel /\ y.ptr = s
  BY DEF LiveIn
<1>l. ASSUME NEW b, NEW e, NEW c \in BOOLEAN, NEW pop \in BOOLEAN,
             c => MarksOnly(f, e), b # <<>> => MarksOnly(f, b[1])
      PROVE  LiveIn(After(b, e, c, pop, f), s) <=>
               ~f /\ IF c THEN ~e.cancel /\ e.ptr = s ELSE ~pop /\ LiveIn(b, s)
  <2>1. CASE c
    <3>1. After(b, e, c, pop, f) = <<CancelIf(f, e)>>
      BY <2>1 DEF After
    <3>3. LiveIn(After(b, e, c, pop, f), s) <=> ~CancelIf(f, e).cancel /\ CancelIf(f, e).ptr = s
      BY <3>1, <1>y
    <3> QED BY <1>l, <2>1, <3>3, Zenon DEF MarksOnly
  <2>2. CASE ~c /\ b # <<>> /\ ~pop
    <3>1. After(b, e, c, pop, f) = <<CancelIf(f, b[1])>>
      BY <2>2 DEF After
    <3>3. LiveIn(After(b, e, c, pop, f), s) <=> ~CancelIf(f, b[1]).cancel /\ CancelIf(f, b[1]).ptr = s
      BY <3>1, <1>y
    <3> QED BY <1>l, <2>2, <3>3, Zenon DEF LiveIn, MarksOnly
  <2>3. CASE ~c /\ ~(b # <<>> /\ ~pop)
    <3>1. After(b, e, c, pop, f) = <<>>
      BY <2>3 DEF After
    <3> QED BY <2>3, <3>1 DEF LiveIn
  <2> QED BY <2>1, <2>2, <2>3
<1>2. LiveIn(de2issue', s) <=>
        ~f /\ IF Accepted(in) THEN ~NewDe(in).cancel /\ NewDe(in).ptr = s
              ELSE ~issue_pop(in) /\ LiveIn(de2issue, s)
  <2>1. de2issue' = After(de2issue, NewDe(in), Accepted(in), issue_pop(in), f)
    BY <1>1, PipesCycle
  <2>3. /\ de2issue # <<>> => de2issue[1] \in DeEntry
        /\ Accepted(in) \in BOOLEAN /\ issue_pop(in) \in BOOLEAN /\ (Accepted(in) => NewDe(in) \in DeEntry)
    BY Shapes, Wires, NewShapes, Zenon DEF Iss
  <2>2. (Accepted(in) => MarksOnly(f, NewDe(in))) /\ (de2issue # <<>> => MarksOnly(f, de2issue[1]))
    BY <2>3, Marked DEF MarksOnly
  <2>4. LiveIn(After(de2issue, NewDe(in), Accepted(in), issue_pop(in), f), s) <=>
          ~f /\ IF Accepted(in) THEN ~NewDe(in).cancel /\ NewDe(in).ptr = s
                ELSE ~issue_pop(in) /\ LiveIn(de2issue, s)
    <3>1. PICK c \in BOOLEAN, q \in BOOLEAN : c = Accepted(in) /\ q = issue_pop(in)
      BY <2>3
    <3>e. PICK e : e = NewDe(in)
      OBVIOUS
    <3>2. (c => MarksOnly(f, e)) /\ (de2issue # <<>> => MarksOnly(f, de2issue[1]))
      BY <2>2, <3>1, <3>e
    <3>3. LiveIn(After(de2issue, e, c, q, f), s) <=>
            ~f /\ IF c THEN ~e.cancel /\ e.ptr = s ELSE ~q /\ LiveIn(de2issue, s)
      BY <3>2, <1>l, Zenon
    <3> QED BY <3>1, <3>e, <3>3
  <2> QED BY <2>1, <2>4
<1>3. LiveIn(alu2wb', s) <=> ~f /\ Issued(in, {"alu"}) /\ ~NewAlu.cancel /\ NewAlu.ptr = s
  <2>1. alu2wb' = IF Issued(in, {"alu"}) THEN <<CancelIf(f, NewAlu)>> ELSE <<>>
    BY <1>1, PipesCycle, Zenon DEF After
  <2>2. Issued(in, {"alu"}) => MarksOnly(f, NewAlu)
    BY Wires, NewShapes, Marked DEF Issued, MarksOnly
  <2>3. LiveIn(<<CancelIf(f, NewAlu)>>, s) <=> ~CancelIf(f, NewAlu).cancel /\ CancelIf(f, NewAlu).ptr = s
    BY <1>y
  <2>4. ~LiveIn(<<>>, s)
    BY DEF LiveIn
  <2> QED BY <2>1, <2>2, <2>3, <2>4, Zenon DEF MarksOnly
<1>4. LiveIn(csr2wb', s) <=> ~f /\ Issued(in, {"csr"}) /\ ~NewCsr.cancel /\ NewCsr.ptr = s
  <2>1. csr2wb' = IF Issued(in, {"csr"}) THEN <<CancelIf(f, NewCsr)>> ELSE <<>>
    BY <1>1, PipesCycle, Zenon DEF After
  <2>2. Issued(in, {"csr"}) => MarksOnly(f, NewCsr)
    BY Wires, NewShapes, Marked DEF Issued, MarksOnly
  <2>3. LiveIn(<<CancelIf(f, NewCsr)>>, s) <=> ~CancelIf(f, NewCsr).cancel /\ CancelIf(f, NewCsr).ptr = s
    BY <1>y
  <2>4. ~LiveIn(<<>>, s)
    BY DEF LiveIn
  <2> QED BY <2>1, <2>2, <2>3, <2>4, Zenon DEF MarksOnly
<1>5. LiveIn(agu2lsu', s) <=>
        ~f /\ IF Issued(in, {"load", "store"}) THEN ~NewAgu.cancel /\ NewAgu.ptr = s
              ELSE ~agu_pop(in) /\ LiveIn(agu2lsu, s)
  <2>1. agu2lsu' = After(agu2lsu, NewAgu, Issued(in, {"load", "store"}), agu_pop(in), f)
    BY <1>1, PipesCycle
  <2>3. /\ agu2lsu # <<>> => agu2lsu[1] \in AguEntry
        /\ Issued(in, {"load", "store"}) \in BOOLEAN /\ agu_pop(in) \in BOOLEAN
        /\ Issued(in, {"load", "store"}) => NewAgu \in AguEntry
    BY Shapes, Wires, NewShapes, Zenon DEF LsuIn, Issued
  <2>2. (Issued(in, {"load", "store"}) => MarksOnly(f, NewAgu)) /\ (agu2lsu # <<>> => MarksOnly(f, agu2lsu[1]))
    BY <2>3, Marked DEF MarksOnly
  <2>4. LiveIn(After(agu2lsu, NewAgu, Issued(in, {"load", "store"}), agu_pop(in), f), s) <=>
          ~f /\ IF Issued(in, {"load", "store"}) THEN ~NewAgu.cancel /\ NewAgu.ptr = s
                ELSE ~agu_pop(in) /\ LiveIn(agu2lsu, s)
    <3>1. PICK c \in BOOLEAN, q \in BOOLEAN : c = Issued(in, {"load", "store"}) /\ q = agu_pop(in)
      BY <2>3
    <3>e. PICK e : e = NewAgu
      OBVIOUS
    <3>2. (c => MarksOnly(f, e)) /\ (agu2lsu # <<>> => MarksOnly(f, agu2lsu[1]))
      BY <2>2, <3>1, <3>e
    <3>3. LiveIn(After(agu2lsu, e, c, q, f), s) <=>
            ~f /\ IF c THEN ~e.cancel /\ e.ptr = s ELSE ~q /\ LiveIn(agu2lsu, s)
      BY <3>2, <1>l
    <3> QED BY <3>1, <3>e, <3>3
  <2> QED BY <2>1, <2>4
<1>6. LiveIn(excp_queue', s) <=>
        ~f /\ IF excp_push(in) THEN ~NewLsu.cancel /\ NewLsu.ptr = s
              ELSE ~excp_pop(in) /\ LiveIn(excp_queue, s)
  <2>1. excp_queue' = After(excp_queue, NewLsu, excp_push(in), excp_pop(in), f)
    BY <1>1, PipesCycle
  <2>3. /\ excp_queue # <<>> => excp_queue[1] \in LsuEntry
        /\ excp_push(in) \in BOOLEAN /\ excp_pop(in) \in BOOLEAN
        /\ excp_push(in) => NewLsu \in LsuEntry
    BY Shapes, Wires, NewShapes DEF excp_push, Valid
  <2>2. (excp_push(in) => MarksOnly(f, NewLsu)) /\ (excp_queue # <<>> => MarksOnly(f, excp_queue[1]))
    BY <2>3, Marked DEF MarksOnly
  <2>4. LiveIn(After(excp_queue, NewLsu, excp_push(in), excp_pop(in), f), s) <=>
          ~f /\ IF excp_push(in) THEN ~NewLsu.cancel /\ NewLsu.ptr = s
                ELSE ~excp_pop(in) /\ LiveIn(excp_queue, s)
    <3>1. PICK c \in BOOLEAN, q \in BOOLEAN : c = excp_push(in) /\ q = excp_pop(in)
      BY <2>3
    <3>e. PICK e : e = NewLsu
      OBVIOUS
    <3>2. (c => MarksOnly(f, e)) /\ (excp_queue # <<>> => MarksOnly(f, excp_queue[1]))
      BY <2>2, <3>1, <3>e, Zenon
    <3>3. LiveIn(After(excp_queue, e, c, q, f), s) <=>
            ~f /\ IF c THEN ~e.cancel /\ e.ptr = s ELSE ~q /\ LiveIn(excp_queue, s)
      BY <3>2, <1>l
    <3> QED BY <3>1, <3>e, <3>3
  <2> QED BY <2>1, <2>4
<1>7. \A ops : Issued(in, ops) => (LiveIn(de2issue, s) <=> ~Iss.cancel /\ Iss.ptr = s)
  BY Wires DEF Issued, LiveIn, Iss
<1>8. excp_push(in) => (LiveIn(agu2lsu, s) <=> LsuIn.ptr = s)
  BY DEF excp_push, Valid, LiveIn, LsuIn
<1> QED BY <1>1, <1>2, <1>3, <1>4, <1>5, <1>6, <1>7, <1>8, Zenon DEF NewDe, NewAlu, NewCsr, NewAgu, NewLsu

\* The same for mem_queue.
LEMMA WaitsCycle ==
  ASSUME TypeOK, NEW in \in Inputs, Tick(in), NEW s \in Slot, NEW k \in 1 .. Len(mem_queue')
  PROVE  LET i == IF mem_pop(in) THEN k + 1 ELSE k
         IN  Waits(k, s)' <=> ~flush(in) /\ IF i <= Len(mem_queue) THEN Waits(i, s) ELSE LiveIn(agu2lsu, s)
<1> DEFINE i == IF mem_pop(in) THEN k + 1 ELSE k
           e == IF i <= Len(mem_queue) THEN mem_queue[i] ELSE NewLsu
<1>1. mem_queue'[k] = CancelIf(flush(in), e)
  BY MemQueueCycle
<1>2. /\ Len(mem_queue') = Len(mem_queue) + (IF mem_push THEN 1 ELSE 0) - (IF mem_pop(in) THEN 1 ELSE 0)
      /\ Len(mem_queue) \in Nat /\ mem_push \in BOOLEAN /\ mem_pop(in) \in BOOLEAN /\ flush(in) \in BOOLEAN
  BY MemQueueCycle, Wires, Shapes
<1>3. i \in Nat /\ i >= 1 /\ (i > Len(mem_queue) => mem_push)
  BY <1>2
<1>4. e \in LsuEntry
  <2>1. CASE i <= Len(mem_queue)
    BY <1>3, <2>1, <1>2, Shapes
  <2>2. CASE i > Len(mem_queue)
    <3>1. NewLsu \in LsuEntry
      BY <1>3, <2>2, NewShapes DEF mem_push, Valid
    <3> QED BY <1>2, <1>3, <2>2, <3>1
  <2> QED BY <1>2, <1>3, <2>1, <2>2
<1>5. mem_queue'[k].cancel = (flush(in) \/ e.cancel) /\ mem_queue'[k].ptr = e.ptr
  <2>1. \A x \in LsuEntry : /\ CancelIf(flush(in), x).cancel = (flush(in) \/ x.cancel)
                            /\ CancelIf(flush(in), x).ptr = x.ptr
    BY <1>2, Marked
  <2> HIDE DEF e
  <2> QED BY <1>1, <1>4, <2>1, Zenon
<1>6. Waits(k, s)' <=> ~flush(in) /\ ~e.cancel /\ e.ptr = s
  BY <1>2, <1>5, Zenon DEF Waits
<1>7. CASE i <= Len(mem_queue)
  <2>1. e = mem_queue[i]
    BY <1>7
  <2>2. i \in 1 .. Len(mem_queue)
    BY <1>2, <1>3, <1>7
  <2> HIDE DEF e
  <2> QED BY <1>6, <1>7, <2>1, <2>2, Zenon DEF Waits
<1>8. CASE i > Len(mem_queue)
  <2>1. mem_push
    BY <1>3, <1>8
  <2>2. e = NewLsu
    BY <1>2, <1>3, <1>8
  <2>3. LiveIn(agu2lsu, s) <=> ~NewLsu.cancel /\ NewLsu.ptr = s
    BY <2>1 DEF mem_push, Valid, LiveIn, LsuIn, NewLsu
  <2> HIDE DEF e
  <2> QED BY <1>2, <1>3, <1>6, <1>8, <2>2, <2>3
<1> QED BY <1>2, <1>3, <1>7, <1>8

\* Slots with a live operation after the cycle in mem_queue.
LEMMA WaitingCycle ==
  ASSUME TypeOK, NEW in \in Inputs, Tick(in), NEW s \in Slot
  PROVE  Waiting(s)' <=>
           ~flush(in) /\ \/ mem_push /\ LiveIn(agu2lsu, s)
                         \/ \E i \in 1 .. Len(mem_queue) : Waits(i, s) /\ ~(mem_pop(in) /\ i = 1)
<1>1. /\ Len(mem_queue') = Len(mem_queue) + (IF mem_push THEN 1 ELSE 0) - (IF mem_pop(in) THEN 1 ELSE 0)
      /\ Len(mem_queue) \in Nat /\ mem_push \in BOOLEAN /\ mem_pop(in) \in BOOLEAN /\ flush(in) \in BOOLEAN
  BY MemQueueCycle, Wires, Shapes
<1>2. ASSUME Waiting(s)'
      PROVE  ~flush(in) /\ \/ mem_push /\ LiveIn(agu2lsu, s)
                           \/ \E i \in 1 .. Len(mem_queue) : Waits(i, s) /\ ~(mem_pop(in) /\ i = 1)
  <2>1. PICK k \in 1 .. Len(mem_queue') : Waits(k, s)'
    BY <1>2 DEF Waiting
  <2> DEFINE i == IF mem_pop(in) THEN k + 1 ELSE k
  <2>2. ~flush(in) /\ IF i <= Len(mem_queue) THEN Waits(i, s) ELSE LiveIn(agu2lsu, s)
    BY <2>1, WaitsCycle
  <2>3. i \in Nat /\ i >= 1 /\ (i > Len(mem_queue) => mem_push) /\ ~(mem_pop(in) /\ i = 1)
    BY <1>1
  <2> HIDE DEF i
  <2> QED BY <1>1, <2>2, <2>3
<1>3. ASSUME ~flush(in), mem_push, LiveIn(agu2lsu, s) PROVE Waiting(s)'
  <2>0. PICK k \in 1 .. Len(mem_queue') : (IF mem_pop(in) THEN k + 1 ELSE k) = Len(mem_queue) + 1
    <3>1. /\ Len(mem_queue') \in 1 .. Len(mem_queue')
          /\ (IF mem_pop(in) THEN Len(mem_queue') + 1 ELSE Len(mem_queue')) = Len(mem_queue) + 1
      BY <1>1, <1>3, Wires, Shapes
    <3> QED BY <3>1, Zenon
  <2> DEFINE i == IF mem_pop(in) THEN k + 1 ELSE k
  <2>1. i = Len(mem_queue) + 1
    BY <2>0
  <2>2. ~(i <= Len(mem_queue))
    BY <1>1, <2>1
  <2>3. Waits(k, s)'
    BY <1>3, <2>2, WaitsCycle
  <2> QED BY <2>3 DEF Waiting
<1>4. ASSUME ~flush(in), NEW i \in 1 .. Len(mem_queue), Waits(i, s), ~(mem_pop(in) /\ i = 1)
      PROVE  Waiting(s)'
  <2>1. PICK k \in 1 .. Len(mem_queue') : i = IF mem_pop(in) THEN k + 1 ELSE k
    <3> DEFINE j == IF mem_pop(in) THEN i - 1 ELSE i
    <3>1. j \in 1 .. Len(mem_queue') /\ i = IF mem_pop(in) THEN j + 1 ELSE j
      BY <1>1, <1>4
    <3> HIDE DEF j
    <3> QED BY <3>1
  <2>2. Waits(k, s)'
    BY <1>4, <2>1, WaitsCycle
  <2> QED BY <2>2 DEF Waiting
<1> QED BY <1>2, <1>3, <1>4

\* Slot s waits for a result exactly if one place holds a live operation for it.
OneAt(s) ==
  LET d == LiveIn(de2issue, s)
      a == LiveIn(alu2wb, s)
      c == LiveIn(csr2wb, s)
      g == LiveIn(agu2lsu, s)
      x == LiveIn(excp_queue, s)
      m == Waiting(s)
  IN  /\ rob_state[s] = MAPPED_S <=> d \/ a \/ c \/ g \/ x \/ m
      /\ d => ~a /\ ~c /\ ~g /\ ~x /\ ~m
      /\ a => ~c /\ ~g /\ ~x /\ ~m
      /\ c => ~g /\ ~x /\ ~m
      /\ g => ~x /\ ~m
      /\ x => ~m
      /\ \A j, k \in 1 .. Len(mem_queue) : Waits(j, s) /\ Waits(k, s) => j = k
OnePlace == \A s \in Slot : OneAt(s)

\* The operations issue hands to another unit.
Elsewhere == {"alu", "csr", "load", "store"}

\* The slots that are written back, by unit.
LEMMA WbSlotsAre ==
  ASSUME TypeOK, NEW in \in Inputs, NEW s \in Slot
  PROVE  s \in WbSlots(in) <=>
           \/ ~flush(in) /\ LiveIn(de2issue, s) /\ Iss.ins.op \notin Elsewhere
           \/ ~flush(in) /\ LiveIn(alu2wb, s)
           \/ ~flush(in) /\ LiveIn(csr2wb, s)
           \/ mem_pop(in) /\ Waits(1, s)
           \/ excp_pop(in) /\ LiveIn(excp_queue, s)
<1>1. s \in WbSlots(in) <=> \/ \E w \in bjp_nop_wb(in) : w.ptr = s
                            \/ \E w \in alu_wb(in) : w.ptr = s
                            \/ \E w \in csr_wb(in) : w.ptr = s
                            \/ \E w \in lsu_wb(in) : w.ptr = s
  BY Zenon DEF WbSlots, WriteBacks
<1>3. (\E w \in bjp_nop_wb(in) : w.ptr = s) <=>
        ~flush(in) /\ LiveIn(de2issue, s) /\ Iss.ins.op \notin Elsewhere
  <2>1. Wb(Iss, Iss.ins.op = "ecall", LinkVal, 0).ptr = Iss.ptr
    BY DEF Wb
  <2> QED BY <2>1 DEF bjp_nop_wb, Valid, LiveIn, Iss, Elsewhere
<1>4. (\E w \in alu_wb(in) : w.ptr = s) <=> ~flush(in) /\ LiveIn(alu2wb, s)
  <2>1. alu_wb(in) = IF LiveIn(alu2wb, alu2wb[1].ptr) /\ ~flush(in)
                    THEN {Wb(alu2wb[1], FALSE, alu2wb[1].dat, 0)} ELSE {}
    BY DEF alu_wb, Valid, LiveIn
  <2>2. Wb(alu2wb[1], FALSE, alu2wb[1].dat, 0).ptr = alu2wb[1].ptr
    BY DEF Wb
  <2> QED BY <2>1, <2>2, Zenon DEF LiveIn
<1>5. (\E w \in csr_wb(in) : w.ptr = s) <=> ~flush(in) /\ LiveIn(csr2wb, s)
  <2>1. csr_wb(in) = IF LiveIn(csr2wb, csr2wb[1].ptr) /\ ~flush(in)
                    THEN {Wb(csr2wb[1], FALSE, csr2wb[1].dat, csr2wb[1].csrdat)} ELSE {}
    BY DEF csr_wb, Valid, LiveIn
  <2>2. Wb(csr2wb[1], FALSE, csr2wb[1].dat, csr2wb[1].csrdat).ptr = csr2wb[1].ptr
    BY DEF Wb
  <2> QED BY <2>1, <2>2, Zenon DEF LiveIn
<1>6. (\E w \in lsu_wb(in) : w.ptr = s) <=>
        (mem_pop(in) /\ Waits(1, s)) \/ (excp_pop(in) /\ LiveIn(excp_queue, s))
  <2>1. ~(mem_pop(in) /\ excp_pop(in))
    BY DEF mem_pop, excp_pop
  <2>2. mem_pop(in) => 1 \in 1 .. Len(mem_queue)
    BY Wires, Shapes
  <2>3. mem_pop(in) => (Waits(1, s) <=> ~mem_queue[1].cancel /\ mem_queue[1].ptr = s)
    BY <2>2 DEF Waits
  <2>4. excp_pop(in) => (LiveIn(excp_queue, s) <=> ~excp_queue[1].cancel /\ excp_queue[1].ptr = s)
    BY Wires DEF LiveIn
  <2>5. /\ Wb(mem_queue[1], FALSE, bus[1].dat, 0).ptr = mem_queue[1].ptr
        /\ Wb(excp_queue[1], TRUE, 0, 0).ptr = excp_queue[1].ptr
    BY DEF Wb
  <2> QED BY <2>1, <2>3, <2>4, <2>5, Zenon DEF lsu_wb
<1> QED BY <1>1, <1>3, <1>4, <1>5, <1>6

\* The pipeline keeps the rules the reorder buffer relies on.
LEMMA RelyKept ==
  ASSUME TypeOK, OnePlace, NEW in \in Inputs
  PROVE  RobRely(rob_wen(in), WbSlots(in), flush(in))
<1>1. rob_wen(in) => ~rob_full /\ ~flush(in)
  BY Zenon DEF rob_wen, Accepted, dep
<1>2. ASSUME NEW s \in WbSlots(in) PROVE rob_state[s] = MAPPED_S
  <2>1. s \in Slot
    BY WbType DEF WbSlots, WbEntry
  <2>2. mem_pop(in) /\ Waits(1, s) => Waiting(s)
    BY DEF Waiting, Waits
  <2>3. OneAt(s)
    BY <2>1 DEF OnePlace
  <2> QED BY <2>1, <2>2, <2>3, WbSlotsAre DEF OneAt
<1>3. flush(in) => commit_ready
  BY DEF flush, excp_en, irq_en
<1> QED BY <1>1, <1>2, <1>3 DEF RobRely

\* One cycle: for every slot still exactly one place, or none.
LEMMA OnePlaceStep ==
  ASSUME TypeOK, RobWindow, OnePlace, NEW in \in Inputs, Tick(in)
  PROVE  OnePlace'
<1> SUFFICES ASSUME NEW s \in Slot PROVE OneAt(s)'
  BY DEF OnePlace
<1>1. rob_state'[s] = SlotNext(rob_wen(in), WbSlots(in), flush(in), s)
  BY RobTakes DEF RobStep
<1> DEFINE New == rob_wen(in) /\ s = SlotOf(rob_tail_ptr)
<1>2. OneAt(s)
  BY DEF OnePlace
<1>3. New => rob_state[s] = EMPTY_S
  <2>1. New => ~rob_full
    BY DEF rob_wen, Accepted, dep
  <2>2. RobTypeOK
    BY Zenon DEF TypeOK
  <2>3. New => RobAge(s) = RobCount /\ RobCount \in Nat
    BY <2>1, <2>2, RobGeometry
  <2>4. New => ~(RobAge(s) < RobCount)
    BY <2>3
  <2> QED BY <2>4, Zenon DEF RobWindow
<1>4. Waits(1, s) => Waiting(s)
  BY DEF Waiting, Waits
<1>5. CASE flush(in)
  <2>1. rob_state'[s] = EMPTY_S
    BY <1>1, <1>5 DEF SlotNext
  <2>2. /\ ~LiveIn(de2issue, s)' /\ ~LiveIn(alu2wb, s)' /\ ~LiveIn(csr2wb, s)'
        /\ ~LiveIn(agu2lsu, s)' /\ ~LiveIn(excp_queue, s)'
    BY <1>5, LiveCycle, Zenon
  <2>3. ~Waiting(s)'
    BY <1>5, WaitingCycle
  <2>4. \A k \in 1 .. Len(mem_queue)' : ~Waits(k, s)'
    BY <2>3 DEF Waiting
  <2> QED BY <2>1, <2>2, <2>3, <2>4, Zenon DEF OneAt, EMPTY_S, MAPPED_S
<1>6. CASE ~flush(in)
  <2> DEFINE d == LiveIn(de2issue, s)
             a == LiveIn(alu2wb, s)
             c == LiveIn(csr2wb, s)
             g == LiveIn(agu2lsu, s)
             x == LiveIn(excp_queue, s)
             m == Waiting(s)
             Out == mem_pop(in) /\ Waits(1, s)
             Ls  == Issued(in, {"load", "store"})
  <2>1. LiveIn(de2issue, s)' <=> New \/ (d /\ ~issue_pop(in))
    <3>1. Accepted(in) /\ d => issue_pop(in)
      BY Wires DEF LiveIn
    <3>2. New <=> Accepted(in) /\ ~in.fetch[1].cancel /\ SlotOf(rob_tail_ptr) = s
      BY <1>6, Zenon DEF rob_wen
    <3> QED BY <1>6, <3>1, <3>2, LiveCycle, Zenon
  <2>2. /\ LiveIn(alu2wb, s)' <=> Issued(in, {"alu"}) /\ d
        /\ LiveIn(csr2wb, s)' <=> Issued(in, {"csr"}) /\ d
    BY <1>6, LiveCycle, Zenon
  <2>3. LiveIn(agu2lsu, s)' <=> (Ls /\ d) \/ (g /\ ~agu_pop(in))
    <3>1. Ls /\ g => agu_pop(in)
      BY Wires DEF LiveIn
    <3>2. LiveIn(agu2lsu, s)' <=> IF Ls THEN d ELSE ~agu_pop(in) /\ g
      BY <1>6, LiveCycle, Zenon
    <3> QED BY <3>1, <3>2, Zenon
  <2>4. LiveIn(excp_queue, s)' <=> (excp_push(in) /\ g) \/ (x /\ ~excp_pop(in))
    <3>1. excp_push(in) /\ x => excp_pop(in)
      BY Wires DEF LiveIn
    <3> QED BY <1>6, <3>1, LiveCycle, Zenon
  <2>5. Waiting(s)' <=> (mem_push /\ g) \/ (m /\ ~Out)
    <3>1. (\E i \in 1 .. Len(mem_queue) : Waits(i, s) /\ ~(mem_pop(in) /\ i = 1)) <=> m /\ ~Out
      BY <1>2 DEF OneAt, Waiting, Waits
    <3> QED BY <1>6, <3>1, WaitingCycle, Zenon
  <2>6. s \in WbSlots(in) <=>
          \/ d /\ Iss.ins.op \notin Elsewhere
          \/ a \/ c \/ Out
          \/ excp_pop(in) /\ x
    BY <1>6, WbSlotsAre, Zenon
  <2>7. /\ rob_state[s] = MAPPED_S <=> d \/ a \/ c \/ g \/ x \/ m
        /\ d => ~a /\ ~c /\ ~g /\ ~x /\ ~m
        /\ a => ~c /\ ~g /\ ~x /\ ~m
        /\ c => ~g /\ ~x /\ ~m
        /\ g => ~x /\ ~m
        /\ x => ~m
        /\ Out => m
    BY <1>2, <1>4 DEF OneAt
  <2>8. rob_state'[s] = MAPPED_S <=> New \/ (rob_state[s] = MAPPED_S /\ s \notin WbSlots(in))
    <3>1. commit_ready /\ s = SlotOf(rob_head_ptr) => rob_state[s] # MAPPED_S
      BY Zenon DEF commit_ready, MAPPED_S, WRITEBACK_S
    <3> QED BY <1>1, <1>6, <3>1, Zenon DEF SlotNext, EMPTY_S, MAPPED_S, WRITEBACK_S
  <2>9. New => ~d /\ ~a /\ ~c /\ ~g /\ ~x /\ ~m
    BY <1>3, <2>7 DEF EMPTY_S, MAPPED_S
  <2>10. d => /\ issue_pop(in) <=> \/ Iss.ins.op \notin Elsewhere
                                   \/ Issued(in, {"alu"}) \/ Issued(in, {"csr"}) \/ Ls
              /\ Iss.ins.op \notin Elsewhere => ~Issued(in, {"alu"}) /\ ~Issued(in, {"csr"}) /\ ~Ls
              /\ ~(Issued(in, {"alu"}) /\ Issued(in, {"csr"}))
              /\ ~(Issued(in, {"alu"}) /\ Ls)
              /\ ~(Issued(in, {"csr"}) /\ Ls)
    BY Zenon DEF LiveIn, Issued, issue_pop, Valid, agu_sel, Elsewhere
  <2>11. g => /\ agu_pop(in) <=> mem_push \/ excp_push(in)
              /\ ~(mem_push /\ excp_push(in))
    BY DEF LiveIn, agu_pop, mem_push, excp_push, Valid, LsuIn
  <2>12. \A j, k \in 1 .. Len(mem_queue)' : Waits(j, s)' /\ Waits(k, s)' => j = k
    <3>1. SUFFICES ASSUME NEW j \in 1 .. Len(mem_queue'), NEW k \in 1 .. Len(mem_queue'),
                          Waits(j, s)', Waits(k, s)'
                   PROVE  j = k
      OBVIOUS
    <3> DEFINE at(n) == IF mem_pop(in) THEN n + 1 ELSE n
    <3>2. /\ IF at(j) <= Len(mem_queue) THEN Waits(at(j), s) ELSE g
          /\ IF at(k) <= Len(mem_queue) THEN Waits(at(k), s) ELSE g
      BY <3>1, WaitsCycle, Zenon
    <3>3. /\ Len(mem_queue') = Len(mem_queue) + (IF mem_push THEN 1 ELSE 0) - (IF mem_pop(in) THEN 1 ELSE 0)
          /\ Len(mem_queue) \in Nat /\ mem_push \in BOOLEAN /\ mem_pop(in) \in BOOLEAN
      BY MemQueueCycle, Wires, Shapes
    <3>4. g => \A i \in 1 .. Len(mem_queue) : ~Waits(i, s)
      BY <2>7 DEF Waiting
    <3>5. at(j) \in Nat \ {0} /\ at(k) \in Nat \ {0} /\ at(j) <= Len(mem_queue) + 1 /\ at(k) <= Len(mem_queue) + 1
      BY <3>3
    <3>9. at(j) = at(k) => j = k
      OBVIOUS
    <3> HIDE DEF at
    <3>6. CASE at(j) <= Len(mem_queue) /\ at(k) <= Len(mem_queue)
      BY <1>2, <3>2, <3>3, <3>5, <3>6, <3>9 DEF OneAt
    <3>7. CASE ~(at(j) <= Len(mem_queue)) /\ ~(at(k) <= Len(mem_queue))
      BY <3>3, <3>5, <3>7, <3>9
    <3>8. CASE ~(at(j) <= Len(mem_queue) <=> at(k) <= Len(mem_queue))
      BY <3>2, <3>4, <3>5, <3>8
    <3> QED BY <3>6, <3>7, <3>8
  <2> HIDE DEF New, Out, Ls
  <2>13. /\ rob_state'[s] = MAPPED_S <=>
              \/ LiveIn(de2issue, s)' \/ LiveIn(alu2wb, s)' \/ LiveIn(csr2wb, s)'
              \/ LiveIn(agu2lsu, s)' \/ LiveIn(excp_queue, s)' \/ Waiting(s)'
    BY <2>1, <2>2, <2>3, <2>4, <2>5, <2>6, <2>7, <2>8, <2>9, <2>10, <2>11, Zenon
  <2> QED BY <2>1, <2>2, <2>3, <2>4, <2>5, <2>7, <2>9, <2>10, <2>11, <2>12, <2>13, Zenon DEF OneAt
<1> QED BY <1>5, <1>6

\* Commands for bus b and command buffer f, entry by entry.
CommandsOf(b, f) == [k \in 1 .. Len(b) |-> b[k].read] \o [k \in 1 .. Len(f) |-> f[k].read]

\* Each command of CommandsOf is the read flag of the entry it stands for.
LEMMA CommandAt ==
  ASSUME NEW b \in Seq(BusEntry), Len(b) <= 1, NEW f \in Seq(CmdEntry)
  PROVE  /\ (b = <<>> /\ Len(b) = 0) \/ (b # <<>> /\ Len(b) = 1)
         /\ Len(f) \in Nat
         /\ Len(CommandsOf(b, f)) = Len(b) + Len(f)
         /\ \A k \in 1 .. Len(b) + Len(f) :
              CommandsOf(b, f)[k] = IF k <= Len(b) THEN b[k].read ELSE f[k - Len(b)].read
<1> DEFINE r == [k \in 1 .. Len(b) |-> b[k].read]
           m == [k \in 1 .. Len(f) |-> f[k].read]
<1>1. (b = <<>> /\ Len(b) = 0) \/ (b # <<>> /\ Len(b) = 1)
  BY ShortSeq
<1>2. /\ \A k \in 1 .. Len(b) : b[k] \in BusEntry
      /\ \A k \in 1 .. Len(f) : f[k] \in CmdEntry
      /\ Len(b) \in Nat /\ Len(f) \in Nat
  OBVIOUS
<1>3. (\A k \in 1 .. Len(b) : b[k].read \in BOOLEAN) /\ \A k \in 1 .. Len(f) : f[k].read \in BOOLEAN
  BY <1>2 DEF BusEntry, CmdEntry
<1>4. r \in Seq(BOOLEAN) /\ m \in Seq(BOOLEAN) /\ Len(r) = Len(b) /\ Len(m) = Len(f)
  BY <1>2, <1>3
<1>5. /\ \A k \in 1 .. Len(b) : r[k] = b[k].read
      /\ \A k \in 1 .. Len(f) : m[k] = f[k].read
  OBVIOUS
<1>6. CommandsOf(b, f) = r \o m
  BY DEF CommandsOf
<1> HIDE DEF r, m
<1>7. /\ Len(CommandsOf(b, f)) = Len(b) + Len(f)
      /\ \A k \in 1 .. Len(b) + Len(f) :
           CommandsOf(b, f)[k] = IF k <= Len(b) THEN r[k] ELSE m[k - Len(b)]
  <2>1. /\ Len(r \o m) = Len(r) + Len(m)
        /\ \A k \in 1 .. Len(r) + Len(m) : (r \o m)[k] = IF k <= Len(r) THEN r[k] ELSE m[k - Len(r)]
    BY <1>4, Joined, Zenon
  <2> QED BY <1>4, <1>6, <2>1, Zenon
<1>8. \A k \in 1 .. Len(b) + Len(f) :
        IF k <= Len(b) THEN k \in 1 .. Len(b) ELSE k - Len(b) \in 1 .. Len(f)
  BY <1>2
<1> QED BY <1>1, <1>2, <1>5, <1>7, <1>8, Zenon

\* The commands after a cycle: they move on with the entries of mem_queue.
LEMMA CommandsCycle ==
  ASSUME TypeOK, Len(Commands) = Len(mem_queue), NEW in \in Inputs, Tick(in)
  PROVE  /\ Len(Commands') = Len(mem_queue')
         /\ \A k \in 1 .. Len(mem_queue') :
              LET i == IF mem_pop(in) THEN k + 1 ELSE k
              IN  Commands'[k] = IF i <= Len(mem_queue) THEN Commands[i] ELSE LsuIn.read
<1> DEFINE B == Len(bus)
           F == Len(mem_fifo)
           Q == Len(mem_queue)
<1>1. /\ (bus = <<>> /\ B = 0) \/ (bus # <<>> /\ B = 1)
      /\ F \in Nat /\ Len(Commands) = B + F
      /\ \A k \in 1 .. B + F : Commands[k] = IF k <= B THEN bus[k].read ELSE mem_fifo[k - B].read
  <2>1. Commands = CommandsOf(bus, mem_fifo)
    BY DEF Commands, CommandsOf
  <2>2. bus \in Seq(BusEntry) /\ Len(bus) <= 1 /\ mem_fifo \in Seq(CmdEntry)
    BY DEF TypeOK
  <2> QED BY <2>1, <2>2, CommandAt
<1>2. /\ (bus' = <<>> /\ Len(bus') = 0) \/ (bus' # <<>> /\ Len(bus') = 1)
      /\ Len(mem_fifo') \in Nat /\ Len(Commands') = Len(bus') + Len(mem_fifo')
      /\ \A k \in 1 .. Len(bus') + Len(mem_fifo') :
           Commands'[k] = IF k <= Len(bus') THEN bus'[k].read ELSE mem_fifo'[k - Len(bus')].read
  <2>1. Commands' = CommandsOf(bus', mem_fifo')
    BY DEF Commands, CommandsOf
  <2>2. bus' \in Seq(BusEntry) /\ Len(bus') <= 1 /\ mem_fifo' \in Seq(CmdEntry)
    BY BusType
  <2> QED BY <2>1, <2>2, CommandAt, Zenon
<1>3. Q = B + F
  BY <1>1
<1>4. /\ Len(mem_queue') = Q + (IF mem_push THEN 1 ELSE 0) - (IF mem_pop(in) THEN 1 ELSE 0)
      /\ mem_push \in BOOLEAN /\ mem_pop(in) \in BOOLEAN
  BY MemQueueCycle, Wires
<1>5. mem_pop(in) <=> in.rsp_valid
  <2>1. in.rsp_valid => mem_queue # <<>>
    BY <1>1, <1>3, InputsAre, Shapes
  <2> QED BY <2>1, InputsAre, Zenon DEF mem_pop, Valid
<1>6. /\ Len(Cmds) = F + (IF mem_push THEN 1 ELSE 0)
      /\ \A k \in 1 .. Len(Cmds) : Cmds[k] = IF k <= F THEN mem_fifo[k] ELSE NewCommand
  BY CmdsAre, Zenon
<1>7. /\ cmd_fire(in) \in BOOLEAN /\ (cmd_fire(in) => Len(Cmds) > 0 /\ bus = <<>>)
      /\ Len(mem_fifo') = Len(Cmds) - (IF cmd_fire(in) THEN 1 ELSE 0)
      /\ \A k \in 1 .. Len(mem_fifo') : mem_fifo'[k] = Cmds[IF cmd_fire(in) THEN k + 1 ELSE k]
  BY FifoCycle
<1>8. bus' = IF cmd_fire(in)
             THEN <<[read |-> Cmds[1].read, dat |-> IF Cmds[1].read THEN mem ELSE 0]>>
             ELSE IF in.rsp_valid THEN <<>> ELSE bus
  BY Zenon DEF Tick, BusStep
<1>9. NewCommand.read = LsuIn.read
  BY DEF NewCommand
<1>10. ASSUME NEW k \in 1 .. Len(Cmds)
       PROVE  Cmds[k].read = IF B + k <= Q THEN Commands[B + k] ELSE LsuIn.read
  <2>1. k <= F <=> B + k <= Q
    BY <1>1, <1>3, <1>6
  <2>2. k <= F => Commands[B + k] = mem_fifo[k].read
    <3>1. k <= F => B + k \in 1 .. B + F /\ ~(B + k <= B) /\ (B + k) - B = k
      BY <1>1
    <3> QED BY <1>1, <3>1
  <2> QED BY <1>6, <1>9, <2>1, <2>2, Zenon
<1>11. CASE cmd_fire(in)
  <2>1. B = 0 /\ ~mem_pop(in) /\ Len(Cmds) > 0
    BY <1>1, <1>5, <1>7, <1>11, InputsAre, Zenon
  <2>2. Len(bus') = 1 /\ bus'[1].read = Cmds[1].read
    BY <1>8, <1>11, Zenon
  <2>3. Len(Commands') = Len(mem_queue') /\ Len(mem_queue') = Len(Cmds)
    BY <1>1, <1>2, <1>3, <1>4, <1>6, <1>7, <1>11, <2>1, <2>2
  <2>4. ASSUME NEW k \in 1 .. Len(Cmds) PROVE Commands'[k] = Cmds[k].read
    <3>1. CASE k = 1
      BY <1>2, <2>2, <2>3, <3>1
    <3>2. CASE k # 1
      <4>1. k - 1 \in 1 .. Len(mem_fifo') /\ (k - 1) + 1 = k
        BY <1>1, <1>4, <1>6, <1>7, <1>11, <3>2
      <4>2. mem_fifo'[k - 1] = Cmds[k]
        BY <1>7, <1>11, <4>1, Zenon
      <4>3. k \in 1 .. Len(bus') + Len(mem_fifo') /\ ~(k <= Len(bus'))
        BY <1>2, <2>2, <4>1, <3>2
      <4> QED BY <1>2, <2>2, <4>2, <4>3, Zenon
    <3> QED BY <3>1, <3>2
  <2> QED BY <1>10, <2>1, <2>3, <2>4
<1>12. CASE ~cmd_fire(in) /\ in.rsp_valid
  <2>1. B = 1 /\ mem_pop(in) /\ Len(bus') = 0
    BY <1>1, <1>5, <1>8, <1>12, InputsAre, Zenon
  <2>2. Len(Commands') = Len(mem_queue') /\ Len(mem_queue') = Len(Cmds) /\ Len(mem_fifo') = Len(Cmds)
    BY <1>1, <1>2, <1>3, <1>4, <1>6, <1>7, <1>12, <2>1
  <2>3. ASSUME NEW k \in 1 .. Len(Cmds) PROVE Commands'[k] = Cmds[k].read
    BY <1>2, <1>7, <1>12, <2>1, <2>2
  <2> QED BY <1>10, <2>1, <2>2, <2>3
<1>13. CASE ~cmd_fire(in) /\ ~in.rsp_valid
  <2>1. ~mem_pop(in) /\ bus' = bus
    BY <1>5, <1>8, <1>13
  <2>2. Len(Commands') = Len(mem_queue') /\ Len(mem_queue') = B + Len(Cmds) /\ Len(mem_fifo') = Len(Cmds)
    <3>1. Len(bus') = B
      BY <2>1, Zenon
    <3>2. Len(Cmds) = F + (IF mem_push THEN 1 ELSE 0) /\ Len(mem_fifo') = Len(Cmds)
      BY <1>1, <1>4, <1>6, <1>7, <1>13
    <3>3. Len(mem_queue') = B + F + (IF mem_push THEN 1 ELSE 0)
      BY <1>1, <1>3, <1>4, <2>1
    <3>4. Len(Commands') = Len(bus') + Len(mem_fifo')
      BY <1>2
    <3>5. B \in Nat /\ F \in Nat /\ mem_push \in BOOLEAN
      BY <1>1, <1>4
    <3> HIDE DEF B, F
    <3> QED BY <3>1, <3>2, <3>3, <3>4, <3>5
  <2>3. ASSUME NEW k \in 1 .. Len(mem_queue')
        PROVE  Commands'[k] = IF k <= Q THEN Commands[k] ELSE LsuIn.read
    <3>1. CASE k <= B
      BY <1>1, <1>2, <1>3, <2>1, <2>2, <3>1
    <3>2. CASE ~(k <= B)
      <4>1. k - B \in 1 .. Len(Cmds) /\ B + (k - B) = k
        BY <1>1, <2>2, <3>2
      <4>2. Commands'[k] = Cmds[k - B].read
        BY <1>1, <1>2, <1>7, <1>13, <2>1, <2>2, <3>2, <4>1, Zenon
      <4> QED BY <1>10, <4>1, <4>2, Zenon
    <3> QED BY <3>1, <3>2, Zenon
  <2> QED BY <2>1, <2>2, <2>3, Zenon
<1> QED BY <1>11, <1>12, <1>13, InputsAre, Zenon

(***************************************************************************)
(* The first inductive invariant: the types, the window of the reorder     *)
(* buffer and the one place of every slot that waits.  They need one       *)
(* another: the buffer keeps its window because a unit writes back only    *)
(* slots that wait (RelyKept), and a slot that is allocated is free        *)
(* because it is outside the window.                                       *)
(***************************************************************************)
Placed == TypeOK /\ RobWindow /\ OnePlace

\* After reset every slot is empty and nothing is under way.
LEMMA PlacedInit == Init => Placed
<1> SUFFICES ASSUME Init PROVE Placed
  OBVIOUS
<1>1. RobWindow
  BY RobSizeAssumption DEF Init, RobInit, RobWindow, RobCount, RobAge, SlotOf, Slot
<1>2. /\ de2issue = <<>> /\ alu2wb = <<>> /\ csr2wb = <<>> /\ agu2lsu = <<>> /\ excp_queue = <<>>
      /\ mem_queue = <<>> /\ \A s \in Slot : rob_state[s] = EMPTY_S
  BY DEF Init, RobInit
<1>3. ASSUME NEW s \in Slot PROVE OneAt(s)
  <2>1. Len(mem_queue) = 0
    BY <1>2
  <2>2. ~Waiting(s)
    BY <2>1 DEF Waiting
  <2>3. /\ ~LiveIn(de2issue, s) /\ ~LiveIn(alu2wb, s) /\ ~LiveIn(csr2wb, s)
        /\ ~LiveIn(agu2lsu, s) /\ ~LiveIn(excp_queue, s)
    BY <1>2 DEF LiveIn
  <2>4. rob_state[s] # MAPPED_S
    BY <1>2 DEF EMPTY_S, MAPPED_S
  <2>5. \A j, k \in 1 .. Len(mem_queue) : Waits(j, s) /\ Waits(k, s) => j = k
    BY <2>1
  <2> QED BY <2>2, <2>3, <2>4, <2>5, Zenon DEF OneAt
<1>4. TypeOK
  <2>1. RobTypeOK
    BY RobSizeAssumption DEF Init, RobInit, RobTypeOK, Ptr, SlotState
  <2>2. 0 \in Val /\ LsuDepth \in Nat
    BY InstrAssumption, BackendAssumption DEF Val
  <2>3. rob_entry \in [Slot -> RobEntry]
    BY <2>2 DEF Init, NoEntry, RobEntry
  <2>4. /\ de2issue = <<>> /\ alu2wb = <<>> /\ csr2wb = <<>> /\ agu2lsu = <<>>
        /\ excp_queue = <<>> /\ mem_queue = <<>> /\ mem_fifo = <<>> /\ bus = <<>>
    BY DEF Init
  <2>5. \A R : <<>> \in Seq(R) /\ Len(<<>>) <= 1 /\ Len(<<>>) <= LsuDepth
    BY <2>2
  <2>6. regs \in [Reg -> Val] /\ csr \in Val /\ mem \in Val /\ redirect \in BOOLEAN
    BY <2>2, Zenon DEF Init
  <2> QED BY <2>1, <2>3, <2>4, <2>5, <2>6, Zenon DEF TypeOK
<1> QED BY <1>1, <1>3, <1>4 DEF Placed, OnePlace

\* A clock cycle keeps Placed, and is a cycle of the reorder buffer.
LEMMA PlacedStep ==
  ASSUME Placed, NEW in \in Inputs, Tick(in)
  PROVE  Placed' /\ RobNext
<1>1. TypeOK /\ RobWindow /\ OnePlace /\ RobTypeOK
  BY DEF Placed, TypeOK
<1>2. RobRely(rob_wen(in), WbSlots(in), flush(in))
  BY <1>1, RelyKept
<1>3. /\ rob_wen(in) \in BOOLEAN /\ flush(in) \in BOOLEAN /\ WbSlots(in) \in SUBSET Slot
      /\ RobStep(rob_wen(in), WbSlots(in), flush(in))
  BY <1>1, RobTakes
<1>4. RobWindow'
  BY <1>1, <1>2, <1>3, RobStepWindow
<1>5. RobNext
  BY <1>2, <1>3, Zenon DEF RobNext
<1>6. TypeOK' /\ OnePlace'
  BY <1>1, TypeStep, OnePlaceStep
<1> QED BY <1>4, <1>5, <1>6, Zenon DEF Placed

\* Placed is inductive.
LEMMA PlacedKept == Placed /\ [Next]_vars => Placed' /\ [RobNext]_rob_vars
<1>1. Placed /\ Next => Placed' /\ RobNext
  BY PlacedStep DEF Next
<1>2. ASSUME Placed, UNCHANGED vars PROVE Placed' /\ UNCHANGED rob_vars
  <2>1. /\ UNCHANGED rob_vars /\ UNCHANGED <<rob_head_ptr, rob_tail_ptr, rob_state>>
        /\ UNCHANGED <<de2issue, alu2wb, csr2wb, agu2lsu, excp_queue, mem_queue, mem_fifo, bus>>
        /\ UNCHANGED <<rob_entry, regs, csr, mem, redirect>>
    BY <1>2, Zenon DEF vars, rob_vars, pipe_vars
  <2>2. TypeOK'
    BY <1>2, <2>1, Zenon DEF Placed, TypeOK, RobTypeOK
  <2>3. RobWindow'
    BY <1>2, <2>1 DEF Placed, RobWindow, RobCount, RobAge, SlotOf
  <2>4. OnePlace'
    <3>1. \A s, k : Waits(k, s)' <=> Waits(k, s)
      BY <2>1, Zenon DEF Waits
    <3>2. \A s : Waiting(s)' <=> Waiting(s)
      BY <2>1, <3>1, Zenon DEF Waiting
    <3>3. ASSUME NEW s \in Slot PROVE OneAt(s)'
      <4>1. OneAt(s)
        BY <1>2, Zenon DEF Placed, OnePlace
      <4>2. /\ LiveIn(de2issue, s)' <=> LiveIn(de2issue, s)
            /\ LiveIn(alu2wb, s)' <=> LiveIn(alu2wb, s)
            /\ LiveIn(csr2wb, s)' <=> LiveIn(csr2wb, s)
            /\ LiveIn(agu2lsu, s)' <=> LiveIn(agu2lsu, s)
            /\ LiveIn(excp_queue, s)' <=> LiveIn(excp_queue, s)
            /\ rob_state'[s] = rob_state[s] /\ Len(mem_queue') = Len(mem_queue)
        BY <2>1 DEF LiveIn
      <4> QED BY <3>1, <3>2, <4>1, <4>2, Zenon DEF OneAt
    <3> QED BY <2>1, <3>3 DEF OnePlace
  <2> QED BY <2>1, <2>2, <2>3, <2>4 DEF Placed
<1> QED BY <1>1, <1>2

\* Placed holds in every state.
LEMMA AlwaysPlaced == Spec => []Placed
  BY PlacedInit, PlacedKept, PTL DEF Spec

\* No pipe, queue or register of the execution part ever exceeds its depth or
\* width: the ready signals of decode, issue, HiCore_agu and HiCore_lsu hold
\* back what has no room.
THEOREM BackendTypeCorrect == Spec => []TypeOK
<1>1. Placed => TypeOK
  BY DEF Placed
<1> QED BY <1>1, AlwaysPlaced, PTL

\* Every slot that waits for a result has exactly one operation under way and
\* no other slot has one, for every size of the buffer, every depth of the
\* queues and every set of instructions.
THEOREM BackendNoneLost == Spec => []OneOperationPerSlot
<1>1. Placed => OneOperationPerSlot
  <2> SUFFICES ASSUME TypeOK, NEW s \in Slot, OneAt(s)
               PROVE  IF rob_state[s] = MAPPED_S THEN \E p \in LiveFor(s) : LiveFor(s) = {p}
                                                 ELSE LiveFor(s) = {}
    BY DEF Placed, OnePlace, OneOperationPerSlot
  <2>p. ASSUME NEW R, NEW b \in Seq(R), Len(b) <= 1, NEW k \in Nat \ {0}
        PROVE  k <= Len(b) /\ ~b[k].cancel /\ b[k].ptr = s <=> k = 1 /\ LiveIn(b, s)
    <3>3. (b = <<>> /\ Len(b) = 0) \/ (b # <<>> /\ Len(b) = 1)
      BY <2>p, ShortSeq, Zenon
    <3>1. CASE b = <<>>
      <4>1. Len(b) = 0
        BY <3>1
      <4> QED BY <3>1, <4>1 DEF LiveIn
    <3>2. CASE b # <<>>
      <4>1. Len(b) = 1
        BY <3>2, <3>3, Zenon
      <4>2. k <= Len(b) <=> k = 1
        BY <4>1
      <4> QED BY <3>2, <4>2 DEF LiveIn
    <3> QED BY <3>1, <3>2
  <2> DEFINE P == 1 .. LsuDepth
             In(i, k) == k <= Len(Units[i]) /\ ~Units[i][k].cancel /\ Units[i][k].ptr = s
  <2>1. /\ Units[1] = de2issue /\ Units[2] = alu2wb /\ Units[3] = csr2wb
        /\ Units[4] = agu2lsu /\ Units[5] = excp_queue /\ Units[6] = mem_queue
    BY DEF Units
  <2>2. /\ LsuDepth \in Nat /\ 1 \in P /\ Len(mem_queue) \in 0 .. LsuDepth /\ P \subseteq Nat \ {0}
        /\ 1 .. Len(mem_queue) \subseteq P
    BY Shapes, BackendAssumption
  <2>3. \A k \in P : In(1, k) <=> k = 1 /\ LiveIn(de2issue, s)
    <3>1. de2issue \in Seq(DeEntry) /\ Len(de2issue) <= 1
      BY DEF TypeOK
    <3>2. \A k \in P : k <= Len(de2issue) /\ ~de2issue[k].cancel /\ de2issue[k].ptr = s <=> k = 1 /\ LiveIn(de2issue, s)
      BY <2>2, <3>1, <2>p, Zenon
    <3> QED BY <2>1, <3>2
  <2>4. \A k \in P : In(2, k) <=> k = 1 /\ LiveIn(alu2wb, s)
    <3>1. alu2wb \in Seq(AluEntry) /\ Len(alu2wb) <= 1
      BY Zenon DEF TypeOK
    <3>2. \A k \in P : k <= Len(alu2wb) /\ ~alu2wb[k].cancel /\ alu2wb[k].ptr = s <=> k = 1 /\ LiveIn(alu2wb, s)
      BY <2>2, <3>1, <2>p
    <3> QED BY <2>1, <3>2
  <2>5. \A k \in P : In(3, k) <=> k = 1 /\ LiveIn(csr2wb, s)
    <3>1. csr2wb \in Seq(CsrEntry) /\ Len(csr2wb) <= 1
      BY Zenon DEF TypeOK
    <3>2. \A k \in P : k <= Len(csr2wb) /\ ~csr2wb[k].cancel /\ csr2wb[k].ptr = s <=> k = 1 /\ LiveIn(csr2wb, s)
      BY <2>2, <3>1, <2>p
    <3> QED BY <2>1, <3>2
  <2>6. \A k \in P : In(4, k) <=> k = 1 /\ LiveIn(agu2lsu, s)
    <3>1. agu2lsu \in Seq(AguEntry) /\ Len(agu2lsu) <= 1
      BY Zenon DEF TypeOK
    <3>2. \A k \in P : k <= Len(agu2lsu) /\ ~agu2lsu[k].cancel /\ agu2lsu[k].ptr = s <=> k = 1 /\ LiveIn(agu2lsu, s)
      BY <2>2, <3>1, <2>p
    <3> QED BY <2>1, <3>2
  <2>7. \A k \in P : In(5, k) <=> k = 1 /\ LiveIn(excp_queue, s)
    <3>1. excp_queue \in Seq(LsuEntry) /\ Len(excp_queue) <= 1
      BY Zenon DEF TypeOK
    <3>2. \A k \in P : k <= Len(excp_queue) /\ ~excp_queue[k].cancel /\ excp_queue[k].ptr = s <=> k = 1 /\ LiveIn(excp_queue, s)
      BY <2>2, <3>1, <2>p
    <3> QED BY <2>1, <3>2
  <2>8. \A k \in P : In(6, k) <=> Waits(k, s)
    BY <2>1, <2>2 DEF Waits
  <2>9. LiveFor(s) = {p \in (1 .. 6) \X P : In(p[1], p[2])}
    BY Zenon DEF LiveFor
  <2> HIDE DEF In, P
  <2>10. \A p : p \in LiveFor(s) <=>
           \/ p = <<1, 1>> /\ LiveIn(de2issue, s)
           \/ p = <<2, 1>> /\ LiveIn(alu2wb, s)
           \/ p = <<3, 1>> /\ LiveIn(csr2wb, s)
           \/ p = <<4, 1>> /\ LiveIn(agu2lsu, s)
           \/ p = <<5, 1>> /\ LiveIn(excp_queue, s)
           \/ \E k \in P : p = <<6, k>> /\ Waits(k, s)
    <3>1. ASSUME NEW i \in 1 .. 6, NEW k \in P
          PROVE  In(i, k) <=>
                   \/ i = 1 /\ k = 1 /\ LiveIn(de2issue, s)
                   \/ i = 2 /\ k = 1 /\ LiveIn(alu2wb, s)
                   \/ i = 3 /\ k = 1 /\ LiveIn(csr2wb, s)
                   \/ i = 4 /\ k = 1 /\ LiveIn(agu2lsu, s)
                   \/ i = 5 /\ k = 1 /\ LiveIn(excp_queue, s)
                   \/ i = 6 /\ Waits(k, s)
      <4>1. i = 1 \/ i = 2 \/ i = 3 \/ i = 4 \/ i = 5 \/ i = 6
        OBVIOUS
      <4> QED BY <2>3, <2>4, <2>5, <2>6, <2>7, <2>8, <4>1
    <3>2. \A p : p \in (1 .. 6) \X P <=> \E i \in 1 .. 6, k \in P : p = <<i, k>>
      OBVIOUS
    <3> QED BY <2>2, <2>9, <3>1, <3>2
  <2>11. CASE rob_state[s] # MAPPED_S
    <3>1. \A p : p \notin LiveFor(s)
      BY <2>2, <2>10, <2>11, Zenon DEF OneAt, Waiting, Waits
    <3> QED BY <2>11, <3>1, Zenon
  <2>12. CASE rob_state[s] = MAPPED_S
    <3>1. CASE ~Waiting(s)
      <4>1. \A k \in P : ~Waits(k, s)
        BY <3>1, Zenon DEF Waiting, Waits
      <4>2. \E n \in 1 .. 5 : \A p : p \in LiveFor(s) <=> p = <<n, 1>>
        BY <2>10, <2>12, <3>1, <4>1 DEF OneAt
      <4>3. PICK n \in 1 .. 5 : \A p : p \in LiveFor(s) <=> p = <<n, 1>>
        BY <4>2
      <4>4. LiveFor(s) = {<<n, 1>>} /\ <<n, 1>> \in LiveFor(s)
        BY <4>3
      <4> QED BY <2>12, <4>4
    <3>2. CASE Waiting(s)
      <4>1. PICK k \in P : Waits(k, s)
        BY <2>2, <3>2 DEF Waiting
      <4>2. \A j \in P : Waits(j, s) => j = k
        BY <4>1, Zenon DEF OneAt, Waits
      <4>3. /\ ~LiveIn(de2issue, s) /\ ~LiveIn(alu2wb, s) /\ ~LiveIn(csr2wb, s)
            /\ ~LiveIn(agu2lsu, s) /\ ~LiveIn(excp_queue, s)
        BY <3>2, Zenon DEF OneAt
      <4>4. \A p : p \in LiveFor(s) <=> p = <<6, k>>
        BY <2>10, <4>1, <4>2, <4>3
      <4>5. LiveFor(s) = {<<6, k>>} /\ <<6, k>> \in LiveFor(s)
        BY <4>4
      <4> QED BY <2>12, <4>5
    <3> QED BY <3>1, <3>2
  <2> QED BY <2>11, <2>12
<1> QED BY <1>1, AlwaysPlaced, PTL

\* The pipeline keeps the rules the reorder buffer relies on (RobRely), so its
\* buffer is the one of RobSpec and keeps its window.
THEOREM BackendKeepsRob == Spec => RobSpec /\ []RobWindow
<1>1. Init => RobInit
  BY DEF Init
<1>2. Placed => RobWindow
  BY DEF Placed
<1> QED BY <1>1, <1>2, AlwaysPlaced, PlacedKept, PTL DEF Spec, RobSpec
==========================================================================

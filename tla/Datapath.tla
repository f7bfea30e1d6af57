----------------------------- MODULE Datapath ----------------------------
(***************************************************************************)
(* The data path of the core on words of bits: the adder, comparator and   *)
(* shifter of HiCore_alu, the targets and conditions of HiCore_branch, the *)
(* byte lanes of HiCore_agu, sirv_sim_ram and HiCore_lsu, the CSR          *)
(* operations and the cause encoders of HiCore_csr, with the operand       *)
(* selection of HiCore_Decode.  They are compared with what the simulator  *)
(* computes on integers (IsaSim), for every operand of XLEN bits.          *)
(***************************************************************************)
EXTENDS IsaSim, FiniteSetsExt

Bit == 0 .. XLEN - 1
Bits(v) == [i \in Bit |-> (v \div 2 ^ i) % 2 = 1]
Num(bits) == MapThenSumSet(LAMBDA i : IF bits[i] THEN 2 ^ i ELSE 0, DOMAIN bits)
Zero == [i \in Bit |-> FALSE]

\* XLEN + 1 bits: the word with a copy of its sign, or a zero, on top.
Extend(word, signed) == [i \in 0 .. XLEN |-> IF i < XLEN THEN word[i] ELSE signed /\ word[XLEN - 1]]
Invert(bits) == [i \in DOMAIN bits |-> ~bits[i]]
\* Their sum as XLEN + 1 bits.
Sum33(a, b, cin) == LET s == Num(a) + Num(b) + (IF cin THEN 1 ELSE 0)
                    IN  [i \in 0 .. XLEN |-> (s \div 2 ^ i) % 2 = 1]
Low(bits) == [i \in Bit |-> bits[i]]
--------------------------------------------------------------------------
\* HiCore_alu.  x is [alu_op, msg, dir, src1, src2]; alu_op is FALSE for lui
\* and auipc.

slt_op(x)  == x.alu_op /\ x.msg \in {2, 3}
sltu_op(x) == x.alu_op /\ x.msg = 3
is_sub(x)  == (x.alu_op /\ x.msg = 0 /\ x.dir) \/ slt_op(x)

add_res(x) == LET src2 == Extend(x.src2, ~sltu_op(x))
              IN  Sum33(Extend(x.src1, ~sltu_op(x)), IF is_sub(x) THEN Invert(src2) ELSE src2, is_sub(x))

\* The shifter shifts left; for a right shift its input and output are
\* turned round, and the sign is filled in under shifter_mask.
Reverse(word) == [i \in Bit |-> word[XLEN - 1 - i]]
shifter_in2(x) == Num(x.src2) % XLEN
ShiftLeft(word, n) == [i \in Bit |-> i >= n /\ word[i - n]]
sll_res(x) == ShiftLeft(x.src1, shifter_in2(x))
srl_res(x) == LET pre == Reverse(ShiftLeft(Reverse(x.src1), shifter_in2(x)))
              IN  [i \in Bit |-> pre[i] \/ (/\ x.dir /\ x.src1[XLEN - 1]
                                            /\ i >= XLEN - shifter_in2(x))]

alu_res_pre(x) ==
  CASE ~x.alu_op \/ x.msg = 0 -> Low(add_res(x))
    [] x.msg = 1       -> sll_res(x)
    [] x.msg \in {2, 3} -> [i \in Bit |-> i = 0 /\ add_res(x)[XLEN]]
    [] x.msg = 4       -> [i \in Bit |-> x.src1[i] # x.src2[i]]
    [] x.msg = 5       -> srl_res(x)
    [] x.msg = 6       -> [i \in Bit |-> x.src1[i] \/ x.src2[i]]
    [] x.msg = 7       -> [i \in Bit |-> x.src1[i] /\ x.src2[i]]

\* Operands, from the instruction i = [class, f3, b30] (class "op",
\* "op_imm", "lui" or "auipc"; f3 is funct3, b30 bit 30 of the word), the
\* registers rs1 and rs2, the immediate and the address.
Shift(i) == i.f3 \in {1, 5}
\* Mutant: bit 30 of an immediate turns addi into a subtraction.
alu_dir_Bit30(i) == i.b30
alu_dir(i) == i.b30 /\ ~(i.class = "op_imm" /\ i.f3 = 0)
DecodeAlu(i, rs1, rs2, imm, pc) ==
  [alu_op |-> i.class \in {"op", "op_imm"}, msg |-> i.f3, dir |-> alu_dir(i),
   src1 |-> CASE i.class = "lui" -> Zero [] i.class = "auipc" -> pc [] OTHER -> rs1,
   src2 |-> IF i.class = "op" THEN rs2
            ELSE IF i.class = "op_imm" /\ Shift(i) THEN Bits(Num(imm) % XLEN) ELSE imm]
--------------------------------------------------------------------------
\* HiCore_branch.  j is [kind, msg], kind "branch", "jal" or "jalr".

\* Mutant: bltu and bgeu compare signed numbers.
unsigned_op_JumpsOnly(j) == j.kind # "branch"
unsigned_op(j) == j.kind # "branch" \/ j.msg \in {2, 3, 6, 7}
\* The sum: rs1 - rs2 of a branch, pc + 4 of a jump.
cmp_res(j, rs1, rs2, pc) ==
  LET isbr == j.kind = "branch"
      src1 == Extend(IF isbr THEN rs1 ELSE pc, ~unsigned_op(j))
      src2 == Extend(IF isbr THEN rs2 ELSE Bits(4), ~unsigned_op(j))
  IN  Sum33(src1, IF isbr THEN Invert(src2) ELSE src2, isbr)
rd_result(j, rs1, rs2, pc) == Low(cmp_res(j, rs1, rs2, pc))
branch_res(j, rs1, rs2, pc) ==
  LET res == cmp_res(j, rs1, rs2, pc)
  IN  CASE j.msg = 0       -> Num(res) = 0
        [] j.msg = 1       -> Num(res) # 0
        [] j.msg \in {4, 6} -> res[XLEN]
        [] j.msg \in {5, 7} -> ~res[XLEN]
        [] OTHER           -> FALSE
taken(j, rs1, rs2, pc) == j.kind # "branch" \/ branch_res(j, rs1, rs2, pc)
branch_pc(j, rs1, imm, pc) == Low(Sum33(Extend(imm, FALSE),
                                        Extend(IF j.kind = "jalr" THEN rs1 ELSE pc, FALSE), FALSE))
\* An address that raises the exception "misaligned" when it is fetched
\* (HiCore_ifetch), with this address in mepc.
excp_code0(pc) == pc % 4 # 0
next_pc(j, rs1, rs2, imm, pc) ==
  IF taken(j, rs1, rs2, pc) THEN branch_pc(j, rs1, imm, pc)
  ELSE Low(Sum33(Extend(pc, FALSE), Extend(Bits(4), FALSE), FALSE))
--------------------------------------------------------------------------
\* Byte lanes: a word has the bytes 0 .. 3 of BW bits.  x is [msg, addr],
\* msg the funct3 of the access, addr the low two bits of its address.

BW == XLEN \div 4
Lane(word, k) == [i \in 0 .. BW - 1 |-> word[k * BW + i]]
Size(x) == CASE x.msg \in {0, 4} -> 1 [] x.msg \in {1, 5} -> 2 [] OTHER -> 4

mem_addr_err(x) == (Size(x) = 4 /\ x.addr # 0) \/ (Size(x) = 2 /\ x.addr \in {1, 3})
\* The data of the register repeated over the lanes, and the lanes written.
i_agu2lsu_wdata(x, src3) == [i \in Bit |-> src3[i % (Size(x) * BW)]]
\* Mutant: a halfword is always written to the low lanes.
i_agu2lsu_wmask_Low(x) == IF Size(x) = 1 THEN {x.addr} ELSE IF Size(x) = 2 THEN {0, 1} ELSE 0 .. 3
i_agu2lsu_wmask(x) == CASE Size(x) = 1 -> {x.addr}
                        [] Size(x) = 2 -> {2 * (x.addr \div 2), 2 * (x.addr \div 2) + 1}
                        [] OTHER       -> 0 .. 3
\* The word of the RAM after a write.
mem_r(word, din, wem) == [i \in Bit |-> IF i \div BW \in wem THEN din[i] ELSE word[i]]

lsu_rsp_rdata_algn(x, word) == [i \in Bit |-> i + x.addr * BW < XLEN /\ word[i + x.addr * BW]]
lsu_wb_rd_data(x, word) ==
  LET algn == lsu_rsp_rdata_algn(x, word)
      top  == Size(x) * BW
  IN  [i \in Bit |-> IF i < top THEN algn[i] ELSE x.msg \notin {4, 5} /\ algn[top - 1]]
--------------------------------------------------------------------------
\* HiCore_csr: what a CSR instruction writes, and the index of the lowest
\* bit of the exceptions or interrupts of an instruction, by halving.

\* Mutant: csrrc clears the bits that are not in its operand.
csr_wdata_And(msg, rdata, src) ==
  CASE msg \in {1, 5} -> src
    [] msg \in {2, 6} -> [i \in Bit |-> rdata[i] \/ src[i]]
    [] msg \in {3, 7} -> [i \in Bit |-> rdata[i] /\ src[i]]
csr_wdata(msg, rdata, src) ==
  CASE msg \in {1, 5} -> src
    [] msg \in {2, 6} -> [i \in Bit |-> rdata[i] \/ src[i]]
    [] msg \in {3, 7} -> [i \in Bit |-> rdata[i] /\ ~src[i]]

Upper(bits, n) == {b - n : b \in {c \in bits : c >= n}}
Lower(bits, n) == {b \in bits : b < n}
Halve(bits, n) == IF Lower(bits, n) = {} THEN Upper(bits, n) ELSE Lower(bits, n)
\* Mutant: of eight causes the upper four go first.
cause_idx_Upper(bits) ==
  LET d8 == Halve(bits, 8)
      d4 == IF Upper(d8, 4) # {} THEN Upper(d8, 4) ELSE d8
      d2 == Halve(d4, 2)
  IN  8 * Bool(Lower(bits, 8) = {}) + 4 * Bool(Upper(d8, 4) # {})
      + 2 * Bool(Lower(d4, 2) = {}) + Bool(0 \notin d2)
cause_idx(bits) ==
  LET d8 == Halve(bits, 8)
      d4 == Halve(d8, 4)
      d2 == Halve(d4, 2)
  IN  8 * Bool(Lower(bits, 8) = {}) + 4 * Bool(Lower(d8, 4) = {})
      + 2 * Bool(Lower(d4, 2) = {}) + Bool(0 \notin d2)
--------------------------------------------------------------------------
\* The inputs of the units: nothing, or an instruction with its operands,
\* or the exceptions or interrupts of one that traps.
AluInstr == {i \in [class : {"op", "op_imm", "lui", "auipc"}, f3 : 0 .. 7, b30 : BOOLEAN] :
               /\ i.b30 /\ i.class = "op" => i.f3 \in {0, 5}
               /\ i.b30 /\ i.class = "op_imm" => i.f3 # 1}
Jump == [kind : {"branch"}, msg : {0, 1, 4, 5, 6, 7}] \cup [kind : {"jal", "jalr"}, msg : {0}]
Aligned == {v \in RegVal : v % 4 = 0}
Nothing == [unit |-> "none"]
Work == [unit : {"alu"}, i : AluInstr, a : RegVal, y : RegVal]
        \cup [unit : {"branch"}, j : Jump, a : RegVal, b : RegVal, imm : Aligned, pc : Aligned]
        \cup [unit : {"agu"}, x : [msg : {0, 1, 2, 4, 5}, addr : 0 .. 3], v : RegVal, old : RegVal]
        \cup [unit : {"csr"}, msg : {1, 2, 3, 5, 6, 7}, old : RegVal, src : RegVal]
        \cup [unit : {"trap"}, bits : (SUBSET {0, 1, 2, 3, 4, 6, 11} \cup SUBSET {3, 7, 11}) \ {{}}]

VARIABLE ex

UnitsInit == ex = Nothing
Dispatch == ex = Nothing /\ ex' \in Work
Finish == ex # Nothing /\ ex' = Nothing
UnitsNext == Dispatch \/ Finish
UnitsSpec == UnitsInit /\ [][UnitsNext]_ex
--------------------------------------------------------------------------
SimAlu(i, a, y, imm, pc) ==
  CASE i.class = "lui"   -> imm
    [] i.class = "auipc" -> add(imm, pc)
    [] i.f3 = 0 -> IF i.b30 /\ i.class = "op" THEN sub(a, y) ELSE add(a, y)
    [] i.f3 = 1 -> sll(a, y)
    [] i.f3 = 2 -> slt(a, y)
    [] i.f3 = 3 -> sltu(a, y)
    [] i.f3 = 4 -> xor(a, y)
    [] i.f3 = 5 -> IF i.b30 THEN sra(a, y) ELSE srl(a, y)
    [] i.f3 = 6 -> or(a, y)
    [] i.f3 = 7 -> and(a, y)

(***************************************************************************)
(* The ALU computes what the simulator does, for every register,           *)
(* immediate and address, and whatever bit 30 of the word is: in the word  *)
(* of addi, slti or lui that bit belongs to the immediate and must not     *)
(* turn the sum into a difference.                                         *)
(***************************************************************************)
AluAgrees ==
  ex.unit = "alu" =>
    LET imm == IF ex.i.class = "op" THEN 0 ELSE ex.y
    IN  Num(alu_res_pre(DecodeAlu(ex.i, Bits(ex.a), Bits(ex.y), Bits(imm), Bits(ex.a))))
          = SimAlu(ex.i, ex.a, ex.y, imm, ex.a)

SimTaken(j, a, b) == CASE j.kind # "branch" -> TRUE
                       [] j.msg = 0 -> beq(a, b)  [] j.msg = 1 -> bne(a, b)
                       [] j.msg = 4 -> blt(a, b)  [] j.msg = 5 -> bge(a, b)
                       [] j.msg = 6 -> bltu(a, b) [] j.msg = 7 -> bgeu(a, b)
SimTarget(j, a, imm, pc) == IF j.kind = "jalr" THEN jalr(a, imm) ELSE jal(pc, imm)

(***************************************************************************)
(* A branch or jump goes where it goes in the simulator and links the      *)
(* address behind it, if its target is a multiple of 4 (JumpsAgree is      *)
(* about the other targets).                                               *)
(***************************************************************************)
BranchAgrees ==
  ex.unit = "branch" =>
    LET j == ex.j
        a == ex.a
        b == ex.b
        next == next_pc(j, Bits(a), Bits(b), Bits(ex.imm), Bits(ex.pc))
    IN  add(IF j.kind = "jalr" THEN a ELSE ex.pc, ex.imm) % 4 = 0 =>
          /\ Num(next) = IF SimTaken(j, a, b) THEN SimTarget(j, a, ex.imm, ex.pc) ELSE add(ex.pc, 4)
          /\ j.kind # "branch" => Num(rd_result(j, Bits(a), Bits(b), Bits(ex.pc))) = add(ex.pc, 4)

\* What a jump comes to: an address to go on at and the link, or a trap.
CoreJump(j, a, imm, pc) ==
  LET next == Num(next_pc(j, Bits(a), Zero, Bits(imm), Bits(pc)))
  IN  [link |-> <<Num(rd_result(j, Bits(a), Zero, Bits(pc)))>>,
       to   |-> IF excp_code0(next) THEN "trap" ELSE "go", addr |-> next]
SimJump(j, a, imm, pc) ==
  LET target == SimTarget(j, a, imm, pc)
  IN  IF set_pc_traps(target) THEN [link |-> <<>>, to |-> "trap", addr |-> pc]
      ELSE [link |-> <<add(pc, 4)>>, to |-> "go", addr |-> target]

(***************************************************************************)
(* A jump comes to what it comes to in the simulator, whatever its target: *)
(* jalr ignores bit 0 of the sum, and a jump to a target that is not a     *)
(* multiple of 4 traps with its own address in mepc and writes no link     *)
(* (the tests of ma_fetch.S:42-89).                                        *)
(***************************************************************************)
JumpsAgree == ex.unit = "branch" /\ ex.j.kind # "branch" =>
                CoreJump(ex.j, ex.a, ex.imm, ex.pc) = SimJump(ex.j, ex.a, ex.imm, ex.pc)

BytesOf(word) == [k \in 0 .. 3 |-> Num(Lane(word, k))]
SimLoad(x, m) == CASE x.msg = 0 -> lb(m, x.addr)  [] x.msg = 1 -> lh(m, x.addr)
                   [] x.msg = 2 -> lw(m, x.addr)  [] x.msg = 4 -> lbu(m, x.addr)
                   [] x.msg = 5 -> lhu(m, x.addr)

(***************************************************************************)
(* Loads and stores of bytes, halfwords and words are those of a byte      *)
(* memory: a store changes the bytes it addresses and no others, a load    *)
(* gets them with the right extension, and the two agree with the          *)
(* simulator on which accesses are misaligned.                             *)
(***************************************************************************)
LanesAgree ==
  ex.unit = "agu" =>
    LET x    == ex.x
        word == Bits(ex.v)
        old  == Bits(ex.old)
    IN  /\ mem_addr_err(x) <=> misaligned(x.addr, Size(x))
        /\ ~mem_addr_err(x) =>
             /\ Num(lsu_wb_rd_data(x, word)) = SimLoad(x, BytesOf(word))
             /\ BytesOf(mem_r(old, i_agu2lsu_wdata(x, word), i_agu2lsu_wmask(x)))
                  = store(BytesOf(old), x.addr, Size(x), ex.v)

(***************************************************************************)
(* A CSR instruction writes the value the simulator gives the register,    *)
(* also where that does not write at all (x0 as operand of csrrs, csrrc).  *)
(***************************************************************************)
CsrOpAgrees ==
  ex.unit = "csr" =>
    \A zero \in {ex.src = 0, FALSE} :
      Num(csr_wdata(ex.msg, Bits(ex.old), Bits(ex.src)))
        = CASE ex.msg \in {1, 5} -> csrrw(ex.old, ex.src)
            [] ex.msg \in {2, 6} -> csrrs(ex.old, ex.src, zero)
            [] ex.msg \in {3, 7} -> csrrc(ex.old, ex.src, zero)

(***************************************************************************)
(* Of several exceptions of an instruction mcause names the lowest, which  *)
(* is the first the simulator meets (a faulting fetch before the illegal   *)
(* word it brought, that before a misaligned access); of several           *)
(* interrupts it names the one the simulator takes.                        *)
(***************************************************************************)
CauseAgrees == ex.unit = "trap" => cause_idx(ex.bits) = ctz(ex.bits)
==========================================================================

------------------------------ MODULE IsaSim -----------------------------
(***************************************************************************)
(* What instructions compute, from the instruction set simulator kept with *)
(* the core (riscv-isa-sim): one definition per file of insns/, on         *)
(* integers.  A register holds 0 .. 2^XLEN - 1; XLEN is a multiple of 4, a *)
(* power of two, and a word has four bytes of XLEN / 4 bits, so that every *)
(* operand can be tried.                                                   *)
(***************************************************************************)
EXTENDS Integers, Bitwise

CONSTANT XLEN       \* 32 in the core

ASSUME IsaAssumption == XLEN \in {4, 8}

RegVal == 0 .. 2 ^ XLEN - 1

zext_xlen(v) == v % 2 ^ XLEN
sreg(v) == IF v < 2 ^ (XLEN - 1) THEN v ELSE v - 2 ^ XLEN
Bool(b) == IF b THEN 1 ELSE 0
Flip(v) == 2 ^ XLEN - 1 - v

\* Register-register and register-immediate operations; b is rs2 or i_imm.
add(a, b)  == zext_xlen(a + b)
sub(a, b)  == zext_xlen(a - b)
sll(a, b)  == zext_xlen(a * 2 ^ (b % XLEN))
srl(a, b)  == a \div 2 ^ (b % XLEN)
sra(a, b)  == zext_xlen(sreg(a) \div 2 ^ (b % XLEN))
slt(a, b)  == Bool(sreg(a) < sreg(b))
sltu(a, b) == Bool(a < b)
xor(a, b)  == a ^^ b
or(a, b)   == a | b
and(a, b)  == a & b

\* Conditions of the branches and targets of the jumps.
beq(a, b)  == a = b
bne(a, b)  == a # b
blt(a, b)  == sreg(a) < sreg(b)
bge(a, b)  == sreg(a) >= sreg(b)
bltu(a, b) == a < b
bgeu(a, b) == a >= b
jal(pc, imm)  == zext_xlen(pc + imm)
jalr(a, imm)  == zext_xlen(a + imm) & Flip(1)
set_pc_traps(target) == target & 2 # 0

\* Memory is a function from the addresses 0 .. 3 to bytes, little endian;
\* uint(m, a, n) is the unsigned number in the n bytes from a on.
uint(m, a, n) == LET B == 2 ^ (XLEN \div 4)
                 IN  CASE n = 1 -> m[a]
                       [] n = 2 -> m[a] + B * m[a + 1]
                       [] n = 4 -> m[a] + B * m[a + 1] + B ^ 2 * m[a + 2] + B ^ 3 * m[a + 3]
SignExtend(v, n) == LET top == 2 ^ (n * (XLEN \div 4))
                    IN  IF 2 * v < top THEN v ELSE zext_xlen(v - top)
misaligned(a, n) == a % n # 0
lb(m, a)  == SignExtend(uint(m, a, 1), 1)
lbu(m, a) == uint(m, a, 1)
lh(m, a)  == SignExtend(uint(m, a, 2), 2)
lhu(m, a) == uint(m, a, 2)
lw(m, a)  == uint(m, a, 4)
store(m, a, n, v) == [k \in 0 .. 3 |-> IF k \in a .. a + n - 1
                                       THEN (v \div 2 ^ ((k - a) * (XLEN \div 4))) % 2 ^ (XLEN \div 4)
                                       ELSE m[k]]

\* The value of the CSR afterwards; zero is "the rs1 field is 0".
csrrw(old, src)       == src
csrrs(old, src, zero) == IF zero THEN old ELSE old | src
csrrc(old, src, zero) == IF zero THEN old ELSE old & Flip(src)

\* The number of a trap: the lowest bit that is set.
ctz(bits) == CHOOSE i \in bits : \A j \in bits : i <= j
==========================================================================

---------------------------- MODULE ClintSim -----------------------------
(***************************************************************************)
(* The timer device of the instruction set simulator kept with the core    *)
(* (riscv-isa-sim, clint.cc), for one hart: mtime and mtimecmp are single  *)
(* 64-bit variables, of which a 32-bit access reads or writes a half.      *)
(* W is the number of values of a half, 2^32 there.                        *)
(***************************************************************************)
EXTENDS Integers, Sequences

CONSTANT W

VARIABLES mtime, mtimecmp, msip

ClintReg == {"msip", "mtimecmp_L", "mtimecmp_H", "mtime_L", "mtime_H"}

\* t with its low or high half replaced by v.
SetLow(t, v)  == (t \div W) * W + v
SetHigh(t, v) == v * W + (t % W)

\* The word an access to register r reads; the other offsets have none.
load(r) == CASE r = "msip"       -> msip
             [] r = "mtimecmp_L" -> mtimecmp % W
             [] r = "mtimecmp_H" -> mtimecmp \div W
             [] r = "mtime_L"    -> mtime % W
             [] r = "mtime_H"    -> mtime \div W
             [] OTHER            -> 0

\* Time moves on by inc, then register r is written with v ("none": no
\* register is).
Advance(inc) == (mtime + inc) % (W * W)
store(inc, r, v) ==
  /\ mtime' = CASE r = "mtime_L" -> SetLow(Advance(inc), v)
                [] r = "mtime_H" -> SetHigh(Advance(inc), v)
                [] OTHER         -> Advance(inc)
  /\ mtimecmp' = CASE r = "mtimecmp_L" -> SetLow(mtimecmp, v)
                   [] r = "mtimecmp_H" -> SetHigh(mtimecmp, v)
                   [] OTHER            -> mtimecmp
  /\ msip' = IF r = "msip" THEN v % 2 ELSE msip

SimInit == mtime = 0 /\ mtimecmp = 0 /\ msip = 0

\* A step in which time moves on by inc and the hart makes the store "made",
\* <<>> or <<[addr, wdata]>>.
SimNext(inc, made) == IF made = <<>> THEN store(inc, "none", 0)
                      ELSE store(inc, made[1].addr, made[1].wdata)
==========================================================================

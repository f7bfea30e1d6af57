--------------------------- MODULE BusProofs ---------------------------
(***************************************************************************)
(* The bus, the CLINT and the time it tells, for every word width.         *)
(*   - The bus: its slaves stay in step with it and a read returns the     *)
(*     word addressed, from the invariant BusInv.                          *)
(*   - The CLINT: its two halves are the simulator's 64-bit register, and  *)
(*     it makes the writes that the bus takes (ImplementsClintSim); BusInv *)
(*     says that the CLINT is ready for them.                              *)
(*   - The time: the three reads of the high, the low and the high half    *)
(*     give a time the timer had, from the invariant TimeInv.              *)
(***************************************************************************)
EXTENDS TimeRead, Lemmas

\* The registers of the CLINT keep their ranges.
ClintTypeOK ==
  /\ sync_dat \in BOOLEAN \X BOOLEAN /\ sync_clk_r \in BOOLEAN
  /\ mtime_L_r \in Word /\ mtime_H_r \in Word
  /\ mtimecmp_L_r \in Word /\ mtimecmp_H_r \in Word /\ msip_r \in {0, 1}

\* A command the device takes: none, or one with a word to write.
Fire(fire) == fire = <<>> \/ (fire = <<fire[1]>> /\ fire[1].wdata \in Word)

\* The write that is in it, as the simulator's device gets it.
Store(fire) == IF fire = <<>> \/ fire[1].read THEN <<>>
               ELSE <<[addr |-> fire[1].addr, wdata |-> fire[1].wdata]>>

\* The count and its halves.
LEMMA PlusOne ==
  ASSUME ClintTypeOK
  PROVE  /\ mtime \in Nat /\ mtimecmp \in Nat
         /\ mtime_plus_one \in Nat
         /\ mtime_plus_one = Sim!Advance(IF sync_clk_edge THEN 1 ELSE 0)
         /\ mtime_plus_one \div W \in Word /\ mtime_plus_one % W \in Word
         /\ mtime_plus_one = (mtime_plus_one \div W) * W + (mtime_plus_one % W)
<1> USE ClintAssumption DEF ClintTypeOK, Word
<1>1. /\ mtime_H_r * W \in Nat /\ mtimecmp_H_r * W \in Nat
      /\ W * W \in Nat /\ W * W >= W
  BY Product
<1>2. mtime \in Nat /\ mtimecmp \in Nat
  BY <1>1 DEF mtime, mtimecmp
<1>3. mtime < W * W
  <2>1. (W - mtime_H_r) * W >= W
    BY Product
  <2>2. (W - mtime_H_r) * W = W * W - mtime_H_r * W
    BY SMT
  <2> QED BY <1>1, <2>1, <2>2 DEF mtime
<1>4. mtime_plus_one = Sim!Advance(IF sync_clk_edge THEN 1 ELSE 0)
  <2>1. mtime % (W * W) = mtime
    <3> DEFINE n == W * W
    <3>1. n \in Nat \ {0} /\ mtime \in 0 .. n - 1 /\ 0 * n + mtime = mtime
      BY <1>1, <1>2, <1>3
    <3> HIDE DEF n
    <3>2. mtime % n = mtime
      BY <3>1, Halves
    <3> QED BY <3>2 DEF n
  <2> QED BY <1>2, <2>1 DEF mtime_plus_one, Sim!Advance
<1>5. mtime_plus_one \in 0 .. W * W - 1
  <2> DEFINE n == W * W
  <2>1. n \in Nat \ {0}
    BY <1>1
  <2> HIDE DEF n
  <2>2. (mtime + 1) % n \in 0 .. n - 1
    BY <1>2, <2>1, DivMod
  <2> QED BY <1>2, <1>3, <2>2 DEF mtime_plus_one, n
<1> DEFINE x == mtime_plus_one
<1>x. x \in Nat
  BY <1>1, <1>5
<1> HIDE DEF x
<1>6. /\ x \div W \in Nat /\ x % W \in 0 .. W - 1
      /\ x = (x \div W) * W + (x % W)
  BY <1>x, DivMod, Zenon
<1>7. x \div W < W
  <2>1. SUFFICES ASSUME x \div W >= W PROVE FALSE
    BY <1>6
  <2>2. (x \div W - W) * W \in Nat
    BY <1>6, <2>1, Product
  <2>3. (x \div W - W) * W = (x \div W) * W - W * W
    BY <1>6, SMT
  <2> QED BY <1>5, <1>6, <2>2, <2>3, Product DEF x
<1> QED BY <1>1, <1>2, <1>4, <1>5, <1>6, <1>7 DEF x

(***************************************************************************)
(* A cycle of the CLINT is a step of the simulator's device: time moves on *)
(* with the edge, then the command writes its register, if it has one      *)
(* (HiCore_Clint.v:61-88).                                                 *)
(***************************************************************************)
LEMMA ClintStepSim ==
  ASSUME ClintTypeOK, NEW fire, Fire(fire), NEW clk \in BOOLEAN, ClintStep(fire, clk)
  PROVE  ClintTypeOK' /\ Sim!SimNext(IF sync_clk_edge THEN 1 ELSE 0, Store(fire))
<1> DEFINE inc == IF sync_clk_edge THEN 1 ELSE 0
           v == fire[1].wdata
           hi == mtime_plus_one \div W
           lo == mtime_plus_one % W
<1>1. /\ mtime_L_r' = mtime_L_nxt(fire) /\ mtime_H_r' = mtime_H_nxt(fire)
      /\ mtimecmp_L_r' = IF wr(fire, "mtimecmp_L") THEN v ELSE mtimecmp_L_r
      /\ mtimecmp_H_r' = IF wr(fire, "mtimecmp_H") THEN v ELSE mtimecmp_H_r
      /\ msip_r' = IF wr(fire, "msip") THEN v % 2 ELSE msip_r
  BY DEF ClintStep
<1>2. hi \in Word /\ lo \in Word /\ Sim!Advance(inc) = hi * W + lo
  BY PlusOne
<1>3. Sim!Advance(inc) \div W = hi /\ Sim!Advance(inc) % W = lo
  BY PlusOne
<1>4. /\ mtimecmp \div W = mtimecmp_H_r /\ mtimecmp % W = mtimecmp_L_r
  BY ClintAssumption, Halves DEF mtimecmp, ClintTypeOK, Word
<1>5. fire # <<>> => v \in Word /\ v \in Nat
  BY ClintAssumption DEF Fire, Word
<1> DEFINE adv == Sim!Advance(inc)
<1> HIDE DEF v, hi, lo, adv
<1>6. ClintTypeOK'
  <2>1. (sync_dat \in BOOLEAN \X BOOLEAN /\ sync_clk_r \in BOOLEAN)'
    BY DEF ClintTypeOK, ClintStep
  <2>2. (mtime_L_r \in Word /\ mtime_H_r \in Word)'
    BY <1>1, <1>2, <1>5 DEF mtime_L_nxt, mtime_H_nxt, wr, v, hi, lo
  <2>3. (mtimecmp_L_r \in Word /\ mtimecmp_H_r \in Word)'
    BY <1>1, <1>5 DEF ClintTypeOK, wr
  <2>4. (msip_r \in {0, 1})'
    BY <1>1, <1>5 DEF ClintTypeOK, wr
  <2> QED BY <2>1, <2>2, <2>3, <2>4 DEF ClintTypeOK
<1>7. Sim!SimNext(inc, Store(fire))
  <2> USE <1>1, <1>2, <1>3, <1>4, <1>5
      DEF mtime, mtimecmp, mtime_L_nxt, mtime_H_nxt, Sim!store, Sim!SetLow, Sim!SetHigh,
          adv, hi, lo
  <2>1. CASE fire = <<>> \/ fire[1].read
    <3>1. \A r : ~wr(fire, r)
      BY <2>1 DEF wr
    <3>2. Sim!store(inc, "none", 0)
      BY <3>1
    <3> QED BY <2>1, <3>2, Zenon DEF Store, Sim!SimNext
  <2>2. CASE fire # <<>> /\ ~fire[1].read
    <3>1. \A r : wr(fire, r) <=> fire[1].addr = r
      BY <2>2 DEF wr
    <3>2. Sim!store(inc, fire[1].addr, v)
      BY <2>2, <3>1 DEF v
    <3>3. Store(fire) # <<>> /\ Store(fire)[1].addr = fire[1].addr /\ Store(fire)[1].wdata = v
      BY <2>2 DEF Store, v
    <3> QED BY <3>2, <3>3, Zenon DEF Sim!SimNext
  <2> QED BY <2>1, <2>2
<1> QED BY <1>6, <1>7

\* The inputs of a cycle.
LEMMA InputTypes ==
  ASSUME NEW in \in BusInputs
  PROVE  /\ in.async_clk \in BOOLEAN /\ in.rsp_ready \in BOOLEAN /\ in.plic_rdata \in Word
         /\ in.cmd = <<>> \/ (splt_free /\ \E c \in Commands : in.cmd = <<c>>)
<1>1. PICK cmd \in Offers : in \in [cmd : {cmd}, rsp_ready : IF splt_free THEN {FALSE} ELSE BOOLEAN,
                                    plic_rdata : PlicReads(cmd), async_clk : BOOLEAN]
  BY Zenon DEF BusInputs
<1>2. PlicReads(cmd) \subseteq Word
  BY ClintAssumption DEF PlicReads, Word
<1> QED BY <1>1, <1>2, Zenon DEF Offers

\* A command and the slaves it selects.
LEMMA CommandTypes ==
  ASSUME NEW c \in Commands
  PROVE  /\ c.slave \in {"dtcm", "itcm", "plic", "clint", "none"}
         /\ c.read \in BOOLEAN /\ c.wdata \in Word
         /\ c.slave = "clint" => c.addr \in Sim!ClintReg \cup {"other"}
<1>0. 0 \in Word
  BY ClintAssumption DEF Word
<1>1. ASSUME NEW slave, NEW addr, NEW data \in SUBSET Word, c \in Access(slave, addr, data)
      PROVE  c.slave \in slave /\ c.addr \in addr /\ c.read \in BOOLEAN /\ c.wdata \in Word
  BY <1>0, <1>1, Zenon DEF Access
<1>2. CASE c \in Access(Memory, {"other"}, Word)
  BY <1>1, <1>2 DEF Memory
<1>3. CASE c \in Access({"clint"}, Sim!ClintReg, Word)
  BY <1>1, <1>3
<1>4. CASE c \in Access({"plic", "clint", "none"}, {"other"}, {0})
  BY <1>0, <1>1, <1>4
<1> QED BY <1>2, <1>3, <1>4 DEF Commands

\* The CLINT takes nothing or a command with a word to write.
LEMMA ToClintFires ==
  ASSUME NEW in \in BusInputs
  PROVE  Fire(ToClint(in))
  BY InputTypes, CommandTypes DEF Fire, ToClint

\* The registers of the CLINT start within their widths.
LEMMA ClintTypeInit == BusInit => ClintTypeOK
<1> SUFFICES ASSUME BusInit PROVE ClintTypeOK
  OBVIOUS
<1>1. sync_dat \in BOOLEAN \X BOOLEAN /\ sync_clk_r \in BOOLEAN
  BY Zenon DEF BusInit, ClintInit
<1>2. /\ mtime_L_r \in Word /\ mtime_H_r \in Word
      /\ mtimecmp_L_r \in Word /\ mtimecmp_H_r \in Word /\ msip_r \in {0, 1}
  BY ClintAssumption DEF BusInit, ClintInit, Word
<1> QED BY <1>1, <1>2 DEF ClintTypeOK

(***************************************************************************)
(* The inductive invariant of the bus.  Beyond SlavesInStep it says which  *)
(* sets of slaves a command can select, so that at most one of them has a  *)
(* word to give, that the nop slave has none, and that a command under way *)
(* is answered with the word it must read.                                 *)
(***************************************************************************)
Selections == {{"dtcm"}, {"itcm"}, {"plic"}, {"clint", "nop"}, {"nop"}}
BusInv ==
  /\ BusTypeOK /\ SlavesInStep
  /\ rspid = <<>> \/ \E S \in Selections : rspid = <<S>>
  /\ rsp_dat["nop"] = 0
  /\ want = <<>> \/ (rspid # <<>> /\ want = <<i_icb_rsp_rdata>>)

\* The decoder selects one of these sets.
LEMMA DecoderSelects ==
  ASSUME NEW c \in Commands
  PROVE  /\ i_icb_splt_indic(c) = CASE c.slave = "clint" -> {"clint", "nop"}
                                    [] c.slave = "none"  -> {"nop"}
                                    [] OTHER             -> {c.slave}
         /\ i_icb_splt_indic(c) \in Selections
  BY CommandTypes DEF i_icb_splt_indic, Selections

\* The word of the first slave of a selection.
WordOf(S) == CASE S = {"clint", "nop"} -> rsp_dat["clint"]
               [] S = {"dtcm"}         -> ram["dtcm"]
               [] S = {"itcm"}         -> ram["itcm"]
               [] S = {"plic"}         -> rsp_dat["plic"]
               [] OTHER                -> 0
RdataIsWordOf ==
  \A S \in Selections : rspid = <<S>> /\ rsp_dat["nop"] = 0 => i_icb_rsp_rdata = WordOf(S)
\* The splitter returns the word of the first slave, also where the idle slave
\* is selected beside the CLINT.
LEMMA RdataOf == RdataIsWordOf
<1> SUFFICES ASSUME NEW S \in Selections, rspid = <<S>>, rsp_dat["nop"] = 0
             PROVE  i_icb_rsp_rdata = WordOf(S)
  BY DEF RdataIsWordOf
<1> DEFINE hot == {s \in S : Rdata(s) # 0}
<1>1. port_id = S
  BY DEF port_id
<1>2. i_icb_rsp_rdata = IF hot = {} THEN 0
                        ELSE IF \E s \in hot : hot = {s} THEN Rdata(CHOOSE s \in hot : TRUE) ELSE Mixed
  BY <1>1 DEF i_icb_rsp_rdata
<1>3. ASSUME NEW a \in S, \A s \in S : s = a \/ Rdata(s) = 0
      PROVE  i_icb_rsp_rdata = Rdata(a)
  <2>1. CASE Rdata(a) = 0
    BY <1>2, <1>3, <2>1
  <2>2. CASE Rdata(a) # 0
    <3>1. hot = {a}
      BY <1>3, <2>2
    <3>2. (CHOOSE s \in hot : TRUE) = a
      BY <3>1
    <3> QED BY <1>2, <3>1, <3>2
  <2> QED BY <2>1, <2>2
<1>4. /\ Rdata("nop") = 0 /\ Rdata("clint") = rsp_dat["clint"] /\ Rdata("plic") = rsp_dat["plic"]
      /\ Rdata("dtcm") = ram["dtcm"] /\ Rdata("itcm") = ram["itcm"]
  BY DEF Rdata, Memory
<1>5. CASE S = {"clint", "nop"}
  BY <1>3, <1>4, <1>5 DEF WordOf
<1>6. CASE S = {"dtcm"}
  BY <1>3, <1>4, <1>6 DEF WordOf
<1>7. CASE S = {"itcm"}
  BY <1>3, <1>4, <1>7 DEF WordOf
<1>8. CASE S = {"plic"}
  BY <1>3, <1>4, <1>8 DEF WordOf
<1>9. CASE S = {"nop"}
  BY <1>3, <1>4, <1>9 DEF WordOf
<1> QED BY <1>5, <1>6, <1>7, <1>8, <1>9 DEF Selections

\* A read of the CLINT returns what the simulator's device loads.
LEMMA ClintReadAgrees ==
  ASSUME ClintTypeOK, NEW c \in Commands, c.slave = "clint", c.read
  PROVE  pipe_idat(<<c>>) = Sim!load(c.addr) /\ pipe_idat(<<c>>) \in Word
<1>1. /\ mtime \div W = mtime_H_r /\ mtime % W = mtime_L_r
      /\ mtimecmp \div W = mtimecmp_H_r /\ mtimecmp % W = mtimecmp_L_r
  BY ClintAssumption, Halves DEF mtime, mtimecmp, ClintTypeOK, Word
<1>2. \A r : rd(<<c>>, r) <=> c.addr = r
  BY DEF rd
<1>3. c.addr \in Sim!ClintReg \cup {"other"}
  BY CommandTypes
<1>4. 0 \in Word /\ 1 \in Word
  BY ClintAssumption DEF Word
<1> QED BY <1>1, <1>2, <1>3, <1>4 DEF pipe_idat, Sim!load, Sim!ClintReg, ClintTypeOK

\* What the registers of the slaves hold, from BusTypeOK.
LEMMA BusStepType ==
  ASSUME BusInv, NEW in \in BusInputs, BusTick(in)
  PROVE  /\ ClintTypeOK'
         /\ (rsp_vld \in [Slave -> BOOLEAN])'
         /\ (rsp_dat \in [Slave -> Word])' /\ (ram \in [Memory -> Word])'
         /\ (rsp_dat["nop"] = 0)'
<1>1. ClintTypeOK
  BY DEF BusInv, BusTypeOK, ClintTypeOK
<1>2. ClintTypeOK'
  BY <1>1, InputTypes, ToClintFires, ClintStepSim DEF BusTick
<1>3. 0 \in Word /\ 1 \in Word
  BY ClintAssumption DEF Word
<1>4. rsp_vld' = [s \in Slave |-> slave_fire(in, s) \/ (rsp_vld[s] /\ ~o_icb_rsp_ready(in, s))]
  BY DEF BusTick
<1>5. (rsp_vld \in [Slave -> BOOLEAN])'
  BY <1>4
<1>6. \A s \in Slave : Reads(in, s) \in Word /\ Reads(in, "nop") = 0
  <2>1. pipe_idat(ToClint(in)) \in Word
    BY <1>1, <1>3 DEF pipe_idat, ClintTypeOK
  <2> QED BY <1>3, <2>1, InputTypes DEF Reads
<1>7. (rsp_dat \in [Slave -> Word])' /\ (rsp_dat["nop"] = 0)'
  <2>1. rsp_dat' = [s \in Slave |-> IF slave_fire(in, s) THEN Reads(in, s)
                                    ELSE IF o_icb_rsp_ready(in, s) THEN 0 ELSE rsp_dat[s]]
    BY Zenon DEF BusTick
  <2>2. "nop" \in Slave
    BY DEF Slave
  <2> QED BY <1>3, <1>6, <2>1, <2>2 DEF BusInv, BusTypeOK
<1>8. (ram \in [Memory -> Word])'
  <2>1. ram' = [s \in Memory |-> IF slave_fire(in, s) /\ ~in.cmd[1].read
                                 THEN in.cmd[1].wdata ELSE ram[s]]
    BY DEF BusTick
  <2>2. in.cmd # <<>> => in.cmd[1].wdata \in Word
    BY InputTypes, CommandTypes
  <2>3. \A s \in Memory : slave_fire(in, s) => in.cmd # <<>>
    BY DEF slave_fire, o_icb_cmd_valid
  <2> QED BY <2>1, <2>2, <2>3 DEF BusInv, BusTypeOK
<1> QED BY <1>2, <1>5, <1>7, <1>8

\* A cycle without a command and without an answer taken leaves the bus alone.
LEMMA BusWaits ==
  ASSUME BusInv, NEW in \in BusInputs, BusTick(in), in.cmd = <<>>, rspid = <<>> \/ ~in.rsp_ready
  PROVE  rspid' = rspid /\ want' = want /\ rsp_vld' = rsp_vld /\ rsp_dat' = rsp_dat /\ ram' = ram
<1>1. \A s \in Slave : ~slave_fire(in, s) /\ ~o_icb_rsp_ready(in, s)
  BY DEF slave_fire, o_icb_cmd_valid, o_icb_rsp_ready, port_id
<1>2. ~cmd_fire(in) /\ ~rsp_fire(in)
  BY <1>1 DEF cmd_fire, rsp_fire, i_icb_rsp_valid, port_id
<1>3. Memory \subseteq Slave
  BY DEF Slave
<1>4. rspid' = rspid /\ want' = want
  BY <1>2 DEF BusTick
<1>5. rsp_vld' = rsp_vld /\ rsp_dat' = rsp_dat
  BY <1>1 DEF BusTick, BusInv, BusTypeOK
<1>6. ram' = ram
  BY <1>1, <1>3, Zenon DEF BusTick, BusInv, BusTypeOK
<1> QED BY <1>4, <1>5, <1>6

\* A cycle in which the answer is taken empties the bus.
LEMMA BusAnswered ==
  ASSUME BusInv, NEW in \in BusInputs, BusTick(in), rspid # <<>>, in.rsp_ready
  PROVE  rspid' = <<>> /\ want' = <<>> /\ \A s \in Slave : ~rsp_vld'[s]
<1>1. in.cmd = <<>>
  BY InputTypes DEF splt_free
<1>2. \A s \in Slave : ~slave_fire(in, s)
  BY <1>1 DEF slave_fire, o_icb_cmd_valid
<1>3. PICK S \in Selections : rspid = <<S>>
  BY DEF BusInv
<1>4. port_id = S
  BY <1>3 DEF port_id
<1>5. PICK s \in Slave : s \in S
  BY DEF Selections, Slave, Memory
<1>6. rsp_fire(in)
  BY <1>4, <1>5 DEF rsp_fire, i_icb_rsp_valid, BusInv, SlavesInStep
<1>7. rspid' = <<>> /\ want' = <<>>
  BY <1>2, <1>6 DEF BusTick, cmd_fire
<1>8. \A t \in Slave : ~rsp_vld'[t]
  BY <1>2, <1>4, Zenon DEF BusTick, o_icb_rsp_ready, BusInv, SlavesInStep
<1> QED BY <1>7, <1>8

\* A command reaches all the slaves it selects in one cycle, and each of them
\* then holds its answer.
LEMMA BusTakes ==
  ASSUME BusInv, NEW in \in BusInputs, BusTick(in), NEW c \in Commands, in.cmd = <<c>>
  PROVE  /\ rspid' = <<i_icb_splt_indic(c)>>
         /\ \A s \in Slave : rsp_vld'[s] <=> s \in i_icb_splt_indic(c)
         /\ want' = IF c.read THEN <<Addressed(in)>> ELSE <<>>
         /\ \A s \in i_icb_splt_indic(c) : rsp_dat'[s] = Reads(in, s)
         /\ c.read => ram' = ram
<1> DEFINE S == i_icb_splt_indic(c)
<1>1. splt_free /\ port_id = {}
  BY InputTypes DEF splt_free, port_id
<1>2. \A s \in Slave : ~rsp_vld[s]
  BY <1>1 DEF BusInv, SlavesInStep
<1>3. S \subseteq Slave /\ \E s \in Slave : s \in S
  BY DecoderSelects DEF Selections, Slave, Memory
<1>4. \A s \in Slave : slave_fire(in, s) <=> s \in S
  BY <1>1, <1>2 DEF slave_fire, o_icb_cmd_valid, o_icb_cmd_ready
<1>5. cmd_fire(in)
  BY <1>3, <1>4 DEF cmd_fire
<1>6. rspid' = <<S>> /\ want' = IF c.read THEN <<Addressed(in)>> ELSE <<>>
  BY <1>5 DEF BusTick
<1>7. \A s \in Slave : rsp_vld'[s] <=> s \in S
  BY <1>2, <1>4, Zenon DEF BusTick
<1>8. \A s \in S : rsp_dat'[s] = Reads(in, s)
  BY <1>3, <1>4, Zenon DEF BusTick
<1>9. c.read => ram' = ram
  <2>1. ram = [s \in Memory |-> ram[s]]
    BY DEF BusInv, BusTypeOK
  <2>2. ram' = [s \in Memory |-> IF slave_fire(in, s) /\ ~in.cmd[1].read
                                 THEN in.cmd[1].wdata ELSE ram[s]]
    BY Zenon DEF BusTick
  <2>3. in.cmd[1] = c
    OBVIOUS
  <2> QED BY <2>1, <2>2, <2>3, Zenon
<1> QED BY <1>6, <1>7, <1>8, <1>9

\* BusInv is inductive.
LEMMA BusInvStep == BusInv /\ [BusNext]_bus_vars => BusInv'
<1>1. ASSUME BusInv, NEW in \in BusInputs, BusTick(in) PROVE BusInv'
  <2> USE <1>1
  <2>1. /\ ClintTypeOK' /\ (rsp_vld \in [Slave -> BOOLEAN])'
        /\ (rsp_dat \in [Slave -> Word])' /\ (ram \in [Memory -> Word])' /\ (rsp_dat["nop"] = 0)'
    BY BusStepType
  <2>2. CASE in.cmd = <<>> /\ (rspid = <<>> \/ ~in.rsp_ready)
    <3>1. rspid' = rspid /\ want' = want /\ rsp_vld' = rsp_vld /\ rsp_dat' = rsp_dat /\ ram' = ram
      BY <2>2, BusWaits
    <3>2. port_id' = port_id /\ i_icb_rsp_rdata' = i_icb_rsp_rdata
      BY <3>1 DEF port_id, i_icb_rsp_rdata, Rdata
    <3> QED BY <2>1, <3>1, <3>2 DEF BusInv, BusTypeOK, ClintTypeOK, SlavesInStep
  <2>3. CASE rspid # <<>> /\ in.rsp_ready
    <3>1. rspid' = <<>> /\ want' = <<>> /\ \A s \in Slave : ~rsp_vld'[s]
      BY <2>3, BusAnswered
    <3>2. port_id' = {}
      BY <3>1 DEF port_id
    <3>3. SlavesInStep'
      BY <3>1, <3>2 DEF SlavesInStep
    <3> QED BY <2>1, <3>1, <3>3 DEF BusInv, BusTypeOK, ClintTypeOK
  <2>4. ASSUME NEW c \in Commands, in.cmd = <<c>> PROVE BusInv'
    <3> DEFINE S == i_icb_splt_indic(c)
    <3>1. /\ rspid' = <<S>>
          /\ \A s \in Slave : rsp_vld'[s] <=> s \in S
          /\ want' = IF c.read THEN <<Addressed(in)>> ELSE <<>>
          /\ \A s \in S : rsp_dat'[s] = Reads(in, s)
          /\ c.read => ram' = ram
      BY <2>4, BusTakes
    <3>2. S \in Selections /\ S = CASE c.slave = "clint" -> {"clint", "nop"}
                                    [] c.slave = "none"  -> {"nop"}
                                    [] OTHER             -> {c.slave}
      BY DecoderSelects
    <3> HIDE DEF S
    <3>3. port_id' = S
      BY <3>1 DEF port_id
    <3>4. SlavesInStep'
      BY <3>1, <3>3 DEF SlavesInStep
    <3>5. BusTypeOK'
      <4>1. S \in SUBSET Slave
        BY <3>2 DEF Selections, Slave, Memory
      <4> QED BY <2>1, <3>1, <4>1 DEF BusTypeOK, ClintTypeOK
    <3>6. ASSUME c.read PROVE i_icb_rsp_rdata' = Addressed(in)
      <4>1. RdataIsWordOf'
        BY RdataOf, PTL
      <4>2. i_icb_rsp_rdata' = WordOf(S)'
        BY <2>1, <3>1, <3>2, <4>1 DEF RdataIsWordOf
      <4>3. CASE c.slave = "clint"
        <5>1. S = {"clint", "nop"}
          BY <3>2, <4>3
        <5>2. ToClint(in) = <<c>>
          <6>1. slave_fire(in, "clint")
            BY <2>4, <3>2, <4>3, InputTypes
               DEF slave_fire, o_icb_cmd_valid, o_icb_cmd_ready, S, splt_free, BusInv,
                   SlavesInStep, port_id, Slave
          <6> QED BY <2>4, <6>1 DEF ToClint
        <5>3. WordOf(S)' = Reads(in, "clint")
          BY <3>1, <5>1, Zenon DEF WordOf
        <5>4. Reads(in, "clint") = Sim!load(c.addr)
          BY <3>6, <4>3, <5>2, ClintReadAgrees DEF Reads, BusInv, BusTypeOK, ClintTypeOK
        <5>5. Addressed(in) = Sim!load(c.addr)
          BY <2>4, <4>3 DEF Addressed, Memory
        <5> QED BY <4>2, <5>3, <5>4, <5>5
      <4>4. CASE c.slave = "plic"
        BY <2>4, <3>1, <3>2, <4>2, <4>4 DEF WordOf, Reads, Addressed, Memory
      <4>5. CASE c.slave = "none"
        <5>1. S = {"nop"}
          BY <3>2, <4>5
        <5>2. WordOf(S)' = 0
          BY <5>1 DEF WordOf
        <5>3. Addressed(in) = 0
          BY <2>4, <4>5 DEF Addressed, Memory
        <5> QED BY <4>2, <5>2, <5>3
      <4>6. CASE c.slave \in Memory
        BY <2>4, <3>1, <3>2, <3>6, <4>2, <4>6 DEF WordOf, Addressed, Memory
      <4> QED BY <4>3, <4>4, <4>5, <4>6, CommandTypes DEF Memory
    <3> QED BY <2>1, <3>1, <3>2, <3>4, <3>5, <3>6 DEF BusInv
  <2> QED BY <2>2, <2>3, <2>4, InputTypes
<1>2. ASSUME BusInv, UNCHANGED bus_vars PROVE BusInv'
  <2>1. BusTypeOK'
    BY <1>2 DEF bus_vars, clint_vars, mtime_vars, BusInv, BusTypeOK, ClintTypeOK
  <2>2. SlavesInStep'
    BY <1>2 DEF bus_vars, BusInv, SlavesInStep, port_id
  <2>3. i_icb_rsp_rdata' = i_icb_rsp_rdata
    BY <1>2 DEF bus_vars, i_icb_rsp_rdata, Rdata, port_id
  <2>4. rspid' = rspid /\ rsp_dat' = rsp_dat /\ want' = want
    BY <1>2 DEF bus_vars
  <2> QED BY <1>2, <2>1, <2>2, <2>3, <2>4 DEF BusInv
<1> QED BY <1>1, <1>2 DEF BusNext

\* So it always holds.
LEMMA AlwaysBusInv == BusSpec => []BusInv
<1>1. BusInit => BusInv
  <2> SUFFICES ASSUME BusInit PROVE BusInv
    OBVIOUS
  <2>1. 0 \in Word /\ "nop" \in Slave
    BY ClintAssumption DEF Word, Slave
  <2>2. BusTypeOK
    BY <2>1, ClintTypeInit DEF BusInit, BusTypeOK, ClintTypeOK
  <2>3. SlavesInStep
    BY DEF BusInit, SlavesInStep, port_id
  <2> QED BY <2>1, <2>2, <2>3 DEF BusInit, BusInv
<1> QED BY <1>1, BusInvStep, PTL DEF BusSpec

(***************************************************************************)
(* The splitter and its slaves stay in step, and every read is answered    *)
(* with the word addressed (sirv_icb_splt.v:94-182).                       *)
(***************************************************************************)
THEOREM BusSafe == BusSpec => [](BusTypeOK /\ SlavesInStep /\ ReadsAddressed)
<1>1. BusInv => BusTypeOK /\ SlavesInStep /\ ReadsAddressed
  BY DEF BusInv, ReadsAddressed
<1> QED BY <1>1, AlwaysBusInv, PTL

\* A write to the CLINT that the bus takes reaches the CLINT in that cycle,
\* and no other write does.
LEMMA ClintGetsTheWrite ==
  ASSUME BusInv, NEW in \in BusInputs, BusTick(in)
  PROVE  made' = Store(ToClint(in))
<1>1. CASE in.cmd = <<>>
  BY <1>1 DEF BusTick, cmd_fire, slave_fire, o_icb_cmd_valid, ToClint, Store
<1>2. ASSUME NEW c \in Commands, in.cmd = <<c>>, splt_free PROVE made' = Store(ToClint(in))
  <2>1. /\ \A s \in Slave : ~rsp_vld[s]
        /\ \A s \in Slave : slave_fire(in, s) <=> s \in i_icb_splt_indic(c)
    BY <1>2 DEF BusInv, SlavesInStep, port_id, splt_free, slave_fire, o_icb_cmd_valid,
                o_icb_cmd_ready
  <2>2. \E s \in Slave : s \in i_icb_splt_indic(c)
    BY DecoderSelects DEF Selections, Slave, Memory
  <2>3. cmd_fire(in)
    BY <2>1, <2>2 DEF cmd_fire
  <2>4. "clint" \in i_icb_splt_indic(c) <=> c.slave = "clint"
    BY CommandTypes DEF i_icb_splt_indic
  <2>5. slave_fire(in, "clint") <=> c.slave = "clint"
    BY <2>1, <2>4 DEF Slave
  <2>6. in.cmd[1] = c /\ in.cmd # <<>>
    BY <1>2
  <2>7. made' = IF c.slave = "clint" /\ ~c.read
                THEN <<[addr |-> c.addr, wdata |-> c.wdata]>> ELSE <<>>
    BY <2>3, <2>6, Zenon DEF BusTick
  <2>8. CASE c.slave = "clint"
    <3>1. ToClint(in) = in.cmd
      BY <2>5, <2>8 DEF ToClint
    <3> QED BY <2>6, <2>7, <2>8, <3>1, Zenon DEF Store
  <2>9. CASE c.slave # "clint"
    <3>1. ToClint(in) = <<>>
      BY <2>5, <2>9 DEF ToClint
    <3> QED BY <2>7, <2>9, <3>1, Zenon DEF Store
  <2> QED BY <2>8, <2>9
<1> QED BY <1>1, <1>2, InputTypes

(***************************************************************************)
(* The timer of the core is the simulator's, for every word width: a cycle *)
(* moves time on by the edge of the timer clock and makes exactly the      *)
(* write that the bus took in it.                                          *)
(***************************************************************************)
THEOREM ClintImplementsSim == BusSpec => ImplementsClintSim
<1>1. BusInit => Sim!SimInit
  BY ClintAssumption DEF BusInit, ClintInit, Sim!SimInit, mtime, mtimecmp
<1>2. BusInv /\ [BusNext]_bus_vars
        => [Sim!SimNext(IF sync_clk_edge THEN 1 ELSE 0, made')]_bus_vars
  <2>1. ASSUME BusInv, NEW in \in BusInputs, BusTick(in)
        PROVE  Sim!SimNext(IF sync_clk_edge THEN 1 ELSE 0, made')
    <3>1. made' = Store(ToClint(in))
      BY <2>1, ClintGetsTheWrite
    <3>2. ClintTypeOK
      BY <2>1 DEF BusInv, BusTypeOK, ClintTypeOK
    <3>3. Sim!SimNext(IF sync_clk_edge THEN 1 ELSE 0, Store(ToClint(in)))
      BY <2>1, <3>2, InputTypes, ToClintFires, ClintStepSim DEF BusTick
    <3> QED BY <3>1, <3>3
  <2> QED BY <2>1 DEF BusNext
<1> QED BY <1>1, <1>2, AlwaysBusInv, PTL DEF BusSpec, ImplementsClintSim

\* The registers of the splitter, the bus and the CLINT keep their widths.
THEOREM BusTypeCorrect == BusSpec => []BusTypeOK
  BY BusSafe, PTL

\* A slave holds an answer exactly while the splitter waits for one from it
\* (sirv_icb_splt.v:94-182).
THEOREM BusSlavesInStep == BusSpec => []SlavesInStep
  BY BusSafe, PTL

--------------------------------------------------------------------------
\* mtime stays below W * W.
LEMMA TimeBound ==
  ASSUME ClintTypeOK
  PROVE  mtime \in 0 .. W * W - 1 /\ W * W \in Nat /\ W * (W - 1) = W * W - W
<1>1. W \in Nat \ {0, 1} /\ mtime_H_r \in 0 .. W - 1 /\ mtime_L_r \in 0 .. W - 1
  BY ClintAssumption DEF ClintTypeOK, Word
<1>2. W * W \in Nat /\ W * (W - 1) = W * W - W
  BY <1>1, SMT
<1>3. (W - mtime_H_r) * W >= W
  BY <1>1, Product
<1>4. (W - mtime_H_r) * W = W * W - mtime_H_r * W
  BY <1>1, SMT
<1>5. mtime_H_r * W \in Nat
  BY <1>1, Product
<1> QED BY <1>1, <1>2, <1>3, <1>4, <1>5 DEF mtime

\* A cycle that does not write mtime moves it on by one if it has an edge of
\* the timer clock, and the count wraps.
LEMMA TimeMoves ==
  ASSUME ClintTypeOK, NEW fire, NEW clk, ClintStep(fire, clk),
         ~wr(fire, "mtime_L"), ~wr(fire, "mtime_H")
  PROVE  mtime' = mtime + Tick \/ mtime' = mtime + Tick - W * W
<1>1. mtime' = mtime_plus_one
  <2>1. mtime_L_r' = mtime_plus_one % W /\ mtime_H_r' = mtime_plus_one \div W
    BY DEF ClintStep, mtime_L_nxt, mtime_H_nxt
  <2>2. mtime' = mtime_H_r' * W + mtime_L_r'
    BY DEF mtime
  <2>3. mtime_plus_one = (mtime_plus_one \div W) * W + (mtime_plus_one % W)
    BY PlusOne
  <2> QED BY <2>1, <2>2, <2>3
<1>2. CASE ~sync_clk_edge
  BY <1>1, <1>2, TimeBound DEF mtime_plus_one, Tick
<1>3. CASE sync_clk_edge
  <2>1. PICK m \in Nat : m = W * W
    BY TimeBound
  <2>2. PICK t \in 0 .. m - 1 : t = mtime
    BY <2>1, TimeBound
  <2>3. (t + 1) % m = t + 1 \/ (t + 1) % m = t + 1 - m
    <3>1. CASE t + 1 < m
      BY <3>1
    <3>2. CASE t + 1 = m
      BY <3>2
    <3> QED BY <3>1, <3>2
  <2>4. mtime' = (t + 1) % m /\ Tick = 1
    BY <1>1, <1>3, <2>1, <2>2 DEF mtime_plus_one, Tick
  <2> QED BY <2>1, <2>2, <2>3, <2>4
<1> QED BY <1>2, <1>3

\* mtime is seen.ago ticks after a moment at which its high half was seen.h
\* and its low half was a.
Since(a) == \/ mtime = seen.h * W + a + seen.ago
            \/ mtime = seen.h * W + a + seen.ago - W * W

\* The low half was read d ticks after that moment.
LowAfter(a, d) == \E t \in Word : \/ t * W + seen.l = seen.h * W + a + d
                                  \/ t * W + seen.l = seen.h * W + a + d - W * W

Short == seen.ago <= W * (W - 1)

\* The inductive invariant: where the halves that the program has read so far
\* come from.
TimeInv ==
  /\ ClintTypeOK
  /\ seen \in [n : 0 .. 3, h : Word, l : Word, ago : 0 .. W * W - 1]
  /\ seen.n \in {1, 2} /\ Short => \E a \in Word : Since(a)
  /\ seen.n = 2 /\ Short => \E a \in Word, d \in 0 .. seen.ago : Since(a) /\ LowAfter(a, d)
  /\ TimeReadIsTrue

\* The arithmetic of the three reads: if the high half reads h before and after
\* and less than a whole round has passed, it was h in between as well.
LEMMA ThreeReads ==
  ASSUME NEW w \in Nat \ {0, 1}, NEW h \in 0 .. w - 1, NEW l \in 0 .. w - 1, NEW a \in 0 .. w - 1,
         NEW b \in 0 .. w - 1, NEW t \in 0 .. w - 1, NEW ago \in Nat, NEW d \in 0 .. ago,
         ago <= w * w - w,
         h * w + b = h * w + a + ago \/ h * w + b = h * w + a + ago - w * w,
         t * w + l = h * w + a + d \/ t * w + l = h * w + a + d - w * w
  PROVE  b = a + ago /\ l = a + d
<1>1. PICK m \in Nat, q \in Nat, p \in Nat : m = w * w /\ q = h * w /\ p = t * w
  BY Product
<1>2. q + w <= m
  <2>1. (w - h) * w >= w
    BY Product
  <2>2. (w - h) * w = w * w - h * w
    BY SMT
  <2> QED BY <1>1, <2>1, <2>2
<1>3. b = a + ago
  <2>1. q + b = q + a + ago \/ q + b = q + a + ago - m
    BY <1>1
  <2>2. ago <= m - w
    BY <1>1
  <2> QED BY <2>1, <2>2
<1>4. p + l = q + (a + d) /\ a + d \in 0 .. w - 1
  <2>1. p + l = q + a + d \/ p + l = q + a + d - m
    BY <1>1
  <2> QED BY <1>2, <1>3, <2>1
<1>5. (t * w + l) % w = l /\ (h * w + (a + d)) % w = a + d
  BY <1>4, Halves
<1> QED BY <1>1, <1>3, <1>4, <1>5

\* What the program remembers ages with the timer, and Since holds on.
LEMMA SinceKept ==
  ASSUME TimeInv, ClintTypeOK', seen' \in [n : 0 .. 3, h : Word, l : Word, ago : 0 .. W * W - 1],
         mtime' = mtime + Tick \/ mtime' = mtime + Tick - W * W,
         seen'.h = seen.h, seen'.ago = Later(seen.ago), Short'
  PROVE  /\ Short /\ seen'.ago = seen.ago + Tick
         /\ \A a \in Word : Since(a) => Since(a)'
<1>1. PICK m \in Nat : m = W * W /\ W * (W - 1) = m - W
  BY TimeBound DEF TimeInv
<1>2. mtime \in 0 .. m - 1 /\ mtime' \in 0 .. m - 1
  <2>1. (mtime \in 0 .. W * W - 1)'
    BY TimeBound, PTL
  <2> QED BY <1>1, <2>1, TimeBound DEF TimeInv
<1>3. Tick \in {0, 1} /\ seen.ago \in 0 .. m - 1 /\ seen.h \in 0 .. W - 1 /\ W \in Nat \ {0, 1}
  BY <1>1, ClintAssumption DEF Tick, TimeInv, Word
<1>4. seen'.ago = (IF seen.ago + Tick < m THEN seen.ago + Tick ELSE seen.ago)
  BY <1>1 DEF Later
<1>5. seen'.ago <= m - W
  BY <1>1 DEF Short
<1>6. seen.ago <= m - W /\ seen'.ago = seen.ago + Tick
  BY <1>3, <1>4, <1>5
<1>7. Short
  BY <1>1, <1>6 DEF Short
<1>8. ASSUME NEW a \in Word, Since(a) PROVE Since(a)'
  <2>1. PICK q \in Nat : q = seen.h * W /\ q + W <= m
    <3>1. seen.h * W \in Nat /\ (W - seen.h) * W >= W
      BY <1>3, Product
    <3>2. (W - seen.h) * W = W * W - seen.h * W
      BY <1>3, SMT
    <3>3. PICK q \in Nat : q = seen.h * W
      BY <3>1
    <3>4. q + W <= m
      BY <1>1, <1>3, <3>1, <3>2, <3>3
    <3> QED BY <3>3, <3>4
  <2>2. mtime = q + a + seen.ago \/ mtime = q + a + seen.ago - m
    BY <1>1, <1>8, <2>1 DEF Since
  <2>3. a \in 0 .. W - 1 /\ (mtime' = mtime + Tick \/ mtime' = mtime + Tick - m)
    BY <1>1 DEF Word
  <2>4. mtime' = q + a + seen'.ago \/ mtime' = q + a + seen'.ago - m
    BY <1>2, <1>3, <1>6, <2>1, <2>2, <2>3
  <2> QED BY <1>1, <2>1, <2>4 DEF Since
<1> QED BY <1>6, <1>7, <1>8

\* A cycle in which the program reads nothing, or the first two of its three
\* reads, keeps the invariant.
LEMMA TimeInvAges ==
  ASSUME TimeInv, ClintTypeOK', seen' \in [n : 0 .. 3, h : Word, l : Word, ago : 0 .. W * W - 1],
         mtime' = mtime + Tick \/ mtime' = mtime + Tick - W * W,
         seen'.h = seen.h, seen'.ago = Later(seen.ago), seen.n \in {1, 2}, seen'.n \in {1, 2},
         seen'.n = 2 => \/ seen.n = 2 /\ seen'.l = seen.l
                        \/ seen'.l = mtime_L_r
  PROVE  TimeInv'
<1>1. TimeReadIsTrue'
  BY DEF TimeReadIsTrue
<1>2. ASSUME Short' PROVE (\E a \in Word : Since(a))'
  <2>1. PICK a \in Word : Since(a)
    BY <1>2, SinceKept DEF TimeInv
  <2> QED BY <1>2, <2>1, SinceKept
<1>3. ASSUME Short', seen'.n = 2
      PROVE  (\E a \in Word, d \in 0 .. seen.ago : Since(a) /\ LowAfter(a, d))'
  <2>0. Short /\ seen'.ago = seen.ago + Tick /\ Tick \in {0, 1} /\ seen.ago \in Nat
    BY <1>3, SinceKept DEF Tick, TimeInv
  <2>1. CASE seen.n = 2 /\ seen'.l = seen.l
    <3>1. PICK a \in Word, d \in 0 .. seen.ago : Since(a) /\ LowAfter(a, d)
      BY <2>0, <2>1 DEF TimeInv
    <3>2. Since(a)'
      BY <1>3, <3>1, SinceKept
    <3>3. LowAfter(a, d)'
      BY <2>1, <3>1 DEF LowAfter
    <3>4. d \in 0 .. seen'.ago
      BY <2>0
    <3> QED BY <3>2, <3>3, <3>4
  <2>2. CASE seen'.l = mtime_L_r
    <3>1. PICK a \in Word : Since(a)
      BY <2>0 DEF TimeInv
    <3>2. Since(a)'
      BY <1>3, <3>1, SinceKept
    <3>3. PICK d \in 0 .. seen'.ago : d = seen.ago
      BY <2>0
    <3>4. LowAfter(a, d)'
      <4>1. \/ mtime_H_r * W + mtime_L_r = seen.h * W + a + d
            \/ mtime_H_r * W + mtime_L_r = seen.h * W + a + d - W * W
        BY <3>1, <3>3 DEF Since, mtime
      <4>2. PICK t \in Word : t = mtime_H_r
        BY DEF TimeInv, ClintTypeOK
      <4>3. \/ t * W + seen'.l = seen'.h * W + a + d
            \/ t * W + seen'.l = seen'.h * W + a + d - W * W
        BY <2>2, <4>1, <4>2
      <4> QED BY <4>3 DEF LowAfter
    <3> QED BY <3>2, <3>3, <3>4
  <2> QED BY <1>3, <2>1, <2>2
<1> QED BY <1>1, <1>2, <1>3 DEF TimeInv

\* The third read: the two halves belong to one moment.
LEMMA TimeInvReads ==
  ASSUME TimeInv, ClintTypeOK', seen' \in [n : 0 .. 3, h : Word, l : Word, ago : 0 .. W * W - 1],
         mtime' = mtime + Tick \/ mtime' = mtime + Tick - W * W,
         seen'.h = seen.h, seen'.ago = Later(seen.ago), seen.n = 2, seen'.n = 3,
         seen'.l = seen.l, mtime_H_r = seen.h
  PROVE  TimeInv'
<1>1. ASSUME Short' PROVE (mtime' - (seen'.h * W + seen'.l)) % (W * W) <= seen'.ago
  <2>0. Short /\ seen'.ago = seen.ago + Tick /\ Tick \in {0, 1} /\ seen.ago \in Nat
    BY <1>1, SinceKept DEF Tick, TimeInv
  <2>1. PICK a \in Word, d \in 0 .. seen.ago : Since(a) /\ LowAfter(a, d)
    BY <2>0 DEF TimeInv
  <2>2. PICK t \in Word : \/ t * W + seen.l = seen.h * W + a + d
                          \/ t * W + seen.l = seen.h * W + a + d - W * W
    BY <2>1 DEF LowAfter
  <2>3. PICK b \in Word : b = mtime_L_r /\ mtime = seen.h * W + b
    BY DEF TimeInv, ClintTypeOK, mtime
  <2>4. PICK m \in Nat : m = W * W /\ W * (W - 1) = m - W
    BY TimeBound DEF TimeInv
  <2>5. W \in Nat \ {0, 1} /\ seen.h \in 0 .. W - 1 /\ seen.l \in 0 .. W - 1 /\ a \in 0 .. W - 1
        /\ b \in 0 .. W - 1 /\ t \in 0 .. W - 1
    BY ClintAssumption DEF TimeInv, Word
  <2>6. seen.ago <= W * W - W
    BY <2>0, <2>4 DEF Short
  <2>7. seen.h * W + b = seen.h * W + a + seen.ago \/ seen.h * W + b = seen.h * W + a + seen.ago - W * W
    BY <2>1, <2>3 DEF Since
  <2>8. b = a + seen.ago /\ seen.l = a + d
    <3>1. PICK h \in 0 .. W - 1, l \in 0 .. W - 1, ago \in Nat :
            h = seen.h /\ l = seen.l /\ ago = seen.ago
      BY <2>0, <2>5
    <3>2. /\ d \in 0 .. ago /\ ago <= W * W - W
          /\ h * W + b = h * W + a + ago \/ h * W + b = h * W + a + ago - W * W
          /\ t * W + l = h * W + a + d \/ t * W + l = h * W + a + d - W * W
      BY <2>2, <2>6, <2>7, <3>1
    <3>3. b = a + ago /\ l = a + d
      BY <2>5, <3>2, ThreeReads
    <3> QED BY <3>1, <3>3
  <2>9. PICK q \in Nat : q = seen.h * W
    BY <2>5, Product
  <2>10. mtime' = q + b + Tick \/ mtime' = q + b + Tick - m
    BY <2>3, <2>4, <2>9
  <2>11. PICK x \in Nat : x = seen.ago - d + Tick /\ x <= seen'.ago /\ x < m
    <3>1. seen'.ago \in 0 .. m - 1
      BY <2>4
    <3>2. PICK x \in Nat : x = seen.ago - d + Tick
      BY <2>0
    <3>3. x <= seen'.ago /\ x < m
      BY <2>0, <3>1, <3>2
    <3> QED BY <3>2, <3>3
  <2>12. mtime' - (q + seen.l) = x \/ mtime' - (q + seen.l) = x - m
    BY <2>0, <2>5, <2>8, <2>10, <2>11
  <2>13. x % m = x /\ (x - m) % m = x
    BY <2>11
  <2>14. (mtime' - (q + seen.l)) % m <= seen'.ago
    BY <2>11, <2>12, <2>13
  <2> QED BY <2>4, <2>9, <2>14
<1>2. TimeReadIsTrue'
  BY <1>1 DEF TimeReadIsTrue, Short
<1> QED BY <1>2 DEF TimeInv

\* Every cycle keeps the invariant.
LEMMA TimeInvStep ==
  ASSUME TimeInv, NEW in \in BusInputs, BusTick(in), seen' = SeenNext(ToClint(in))
  PROVE  TimeInv'
<1>1. PICK fire : fire = ToClint(in) /\ Fire(fire)
  BY ToClintFires
<1>2. ClintStep(fire, in.async_clk) /\ in.async_clk \in BOOLEAN
  BY <1>1, InputTypes, Zenon DEF BusTick
<1>3. ClintTypeOK'
  BY <1>1, <1>2, ClintStepSim DEF TimeInv
<1>4. PICK m \in Nat \ {0} : m = W * W /\ 1 < m
  <2>1. W * W >= W /\ W * W \in Nat
    BY ClintAssumption, Product
  <2> QED BY <2>1, ClintAssumption
<1> DEFINE Ago == 0 .. W * W - 1
           SeenSet == [n : 0 .. 3, h : Word, l : Word, ago : Ago]
<1>5. 0 \in Word /\ Tick \in Ago /\ 0 \in Ago
  BY <1>4, ClintAssumption DEF Word, Tick
<1>6. seen \in SeenSet /\ Later(seen.ago) \in Ago /\ mtime_H_r \in Word /\ mtime_L_r \in Word
  <2>1. seen.ago \in 0 .. m - 1 /\ Tick \in {0, 1}
    BY <1>4 DEF TimeInv, Tick
  <2>2. Later(seen.ago) \in 0 .. W * W - 1
    BY <1>4, <2>1 DEF Later
  <2> QED BY <2>2 DEF TimeInv, ClintTypeOK
<1>7. ASSUME seen' = NotSeen PROVE TimeInv'
  BY <1>3, <1>5, <1>7 DEF TimeInv, NotSeen, TimeReadIsTrue
<1>8. CASE wr(fire, "mtime_L") \/ wr(fire, "mtime_H")
  <2>1. fire # <<>> /\ ~fire[1].read
    BY <1>8 DEF wr
  <2>2. ~rd(fire, "mtime_H") /\ ~rd(fire, "mtime_L")
    BY <2>1 DEF rd
  <2>3. seen' = NotSeen
    BY <1>1, <1>8, <2>2 DEF SeenNext
  <2> QED BY <1>7, <2>3
<1>9. CASE ~(wr(fire, "mtime_L") \/ wr(fire, "mtime_H"))
  <2>0. mtime' = mtime + Tick \/ mtime' = mtime + Tick - W * W
    BY <1>2, <1>9, TimeMoves DEF TimeInv
  <2>1. CASE rd(fire, "mtime_H") /\ seen.n = 2 /\ mtime_H_r = seen.h
    <3>1. seen' = [seen EXCEPT !.n = 3, !.ago = Later(@)]
      BY <1>1, <1>9, <2>1 DEF SeenNext
    <3>2. /\ seen' \in SeenSet /\ seen'.h = seen.h /\ seen'.l = seen.l /\ seen'.n = 3
          /\ seen'.ago = Later(seen.ago)
      <4> HIDE DEF Ago
      <4>1. /\ seen'.n = 3 /\ seen'.h = seen.h /\ seen'.l = seen.l /\ seen'.ago = Later(seen.ago)
            /\ seen' = [n |-> 3, h |-> seen.h, l |-> seen.l, ago |-> Later(seen.ago)]
        BY <1>6, <3>1, Zenon
      <4>2. 3 \in 0 .. 3 /\ seen.h \in Word /\ seen.l \in Word
        BY <1>6
      <4> QED BY <1>6, <4>1, <4>2
    <3> QED BY <1>3, <2>0, <2>1, <3>2, TimeInvReads, Zenon
  <2>2. CASE rd(fire, "mtime_H") /\ ~(seen.n = 2 /\ mtime_H_r = seen.h)
    <3>1. seen' = [n |-> 1, h |-> mtime_H_r, l |-> 0, ago |-> Tick]
      BY <1>1, <1>9, <2>2 DEF SeenNext, SeenHigh, rd
    <3>2. seen' \in SeenSet /\ seen'.n = 1 /\ seen'.h = mtime_H_r /\ seen'.ago = Tick
      BY <1>5, <1>6, <3>1
    <3>3. PICK a \in Word : a = mtime_L_r
      BY <1>6
    <3>4. Since(a)'
      BY <2>0, <3>2, <3>3, TimeBound DEF Since, mtime, TimeInv, Tick
    <3>5. TimeReadIsTrue'
      BY <3>2 DEF TimeReadIsTrue
    <3> QED BY <1>3, <3>2, <3>4, <3>5 DEF TimeInv
  <2>3. CASE ~rd(fire, "mtime_H") /\ rd(fire, "mtime_L") /\ seen.n = 1
    <3>1. seen' = [seen EXCEPT !.n = 2, !.l = mtime_L_r, !.ago = Later(@)]
      BY <1>1, <1>9, <2>3 DEF SeenNext
    <3>2. /\ seen' \in SeenSet /\ seen'.h = seen.h /\ seen'.l = mtime_L_r /\ seen'.n = 2
          /\ seen'.ago = Later(seen.ago)
      <4> HIDE DEF Ago
      <4>1. /\ seen'.n = 2 /\ seen'.h = seen.h /\ seen'.l = mtime_L_r /\ seen'.ago = Later(seen.ago)
            /\ seen' = [n |-> 2, h |-> seen.h, l |-> mtime_L_r, ago |-> Later(seen.ago)]
        BY <1>6, <3>1, Zenon
      <4>2. 2 \in 0 .. 3 /\ seen.h \in Word /\ mtime_L_r \in Word
        BY <1>6
      <4> QED BY <1>6, <4>1, <4>2
    <3> QED BY <1>3, <2>0, <2>3, <3>2, TimeInvAges, Zenon
  <2>4. CASE ~rd(fire, "mtime_H") /\ ~(rd(fire, "mtime_L") /\ seen.n = 1) /\ seen.n \in {0, 3}
    BY <1>1, <1>7, <1>9, <2>4 DEF SeenNext
  <2>5. CASE ~rd(fire, "mtime_H") /\ ~(rd(fire, "mtime_L") /\ seen.n = 1) /\ seen.n \notin {0, 3}
    <3>1. seen' = [seen EXCEPT !.ago = Later(@)]
      BY <1>1, <1>9, <2>5 DEF SeenNext
    <3>2. /\ seen' \in SeenSet /\ seen'.h = seen.h /\ seen'.l = seen.l /\ seen'.n = seen.n
          /\ seen'.ago = Later(seen.ago)
      <4> HIDE DEF Ago
      <4>1. /\ seen'.n = seen.n /\ seen'.h = seen.h /\ seen'.l = seen.l /\ seen'.ago = Later(seen.ago)
            /\ seen' = [n |-> seen.n, h |-> seen.h, l |-> seen.l, ago |-> Later(seen.ago)]
        BY <1>6, <3>1
      <4>2. seen.n \in 0 .. 3 /\ seen.h \in Word /\ seen.l \in Word
        BY <1>6
      <4> QED BY <1>6, <4>1, <4>2
    <3>3. seen.n \in {1, 2}
      BY <1>6, <2>5
    <3> QED BY <1>3, <2>0, <3>2, <3>3, TimeInvAges, Zenon
  <2> QED BY <2>1, <2>2, <2>3, <2>4, <2>5
<1> QED BY <1>8, <1>9

(***************************************************************************)
(* A program that reads the high half, the low half and the high half      *)
(* again gets a time that mtime had meanwhile, for every word width and    *)
(* whatever else happens on the bus (HiCore_Clint.v:61-75).                *)
(***************************************************************************)
THEOREM TimeReadsAreTrue == TimeSpec => []TimeReadIsTrue
<1>1. TimeInit => TimeInv
  <2> SUFFICES ASSUME TimeInit PROVE TimeInv
    OBVIOUS
  <2>1. 0 \in Word /\ 0 \in 0 .. W * W - 1
    BY ClintAssumption, Product DEF Word
  <2> QED BY <2>1, ClintTypeInit DEF TimeInit, TimeInv, NotSeen, TimeReadIsTrue
<1>2. TimeInv /\ [TimeNext]_time_vars => TimeInv'
  <2>1. ASSUME TimeInv, TimeNext PROVE TimeInv'
    BY <2>1, TimeInvStep DEF TimeNext
  <2>2. ASSUME TimeInv, UNCHANGED time_vars PROVE TimeInv'
    <3>1. UNCHANGED <<sync_dat, sync_clk_r, mtime_L_r, mtime_H_r, mtimecmp_L_r, mtimecmp_H_r,
                      msip_r, seen>>
      BY <2>2 DEF time_vars, bus_vars, clint_vars, mtime_vars
    <3>2. mtime' = mtime
      BY <3>1 DEF mtime
    <3>3. ClintTypeOK' /\ (Short' <=> Short)
      BY <2>2, <3>1 DEF TimeInv, ClintTypeOK, Short
    <3>4. \A a : Since(a)' <=> Since(a)
      BY <3>1, <3>2 DEF Since
    <3>5. \A a, d : LowAfter(a, d)' <=> LowAfter(a, d)
      BY <3>1 DEF LowAfter
    <3>6. TimeReadIsTrue'
      BY <2>2, <3>1, <3>2 DEF TimeInv, TimeReadIsTrue
    <3> QED BY <2>2, <3>1, <3>3, <3>4, <3>5, <3>6 DEF TimeInv
  <2> QED BY <2>1, <2>2
<1>3. TimeInv => TimeReadIsTrue
  BY DEF TimeInv
<1> QED BY <1>1, <1>2, <1>3, PTL DEF TimeSpec

=============================================================================

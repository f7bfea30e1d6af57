------------------------------- MODULE Bus -------------------------------
(***************************************************************************)
(* The bus below the load/store unit: the address decoder (HiCore_biu),    *)
(* the splitter (sirv_icb_splt) and its five slaves: the two memories, the *)
(* PLIC, the CLINT and the slave for unused addresses (HiCore_nop_slave).  *)
(* A step is a clock cycle.  The inputs of a cycle are "in":               *)
(*   cmd        the command offered, <<>> or <<[slave, addr, read, wdata]>>*)
(*              (slave: the address region, "none" if it is in no region)  *)
(*   rsp_ready  the load/store unit takes the answer                       *)
(*   plic_rdata what the PLIC reads                                        *)
(*   async_clk  the clock of the timer                                     *)
(* A command that is not taken (a command is under way, the arbiter before *)
(* the ITCM prefers another one) leaves no trace, which is the case of no  *)
(* offer.  A memory is one word; sub-word stores are in Datapath.  The     *)
(* payload of an empty response register is forgotten: by SlavesInStep it  *)
(* is never read.                                                          *)
(***************************************************************************)
EXTENDS Clint

Memory == {"dtcm", "itcm"}
Slave  == Memory \cup {"plic", "clint", "nop"}

VARIABLES
  rspid,    \* split_fifo: <<>> or <<the slaves of the command under way>>
  rsp_vld,  \* o_vld of the response register of each slave
  rsp_dat,  \* its o_dat (of the PLIC, the CLINT and the nop slave)
  ram,      \* the word of each memory
  want,     \* history: what the command under way must read, <<>> if a write
  made      \* history: the write to the CLINT taken in the last cycle, or <<>>

bus_vars == <<clint_vars, rspid, rsp_vld, rsp_dat, ram, want, made>>

\* The timer of the simulator, with the pairs of half registers as its
\* 64-bit registers.
Sim == INSTANCE ClintSim WITH msip <- msip_r

\* The decoder: an address of the CLINT also selects the nop slave.
i_icb_splt_indic(c) == IF c.slave = "clint" THEN {"clint", "nop"}
                       ELSE IF c.slave = "none" THEN {"nop"} ELSE {c.slave}

\* The answer: from the slaves remembered in split_fifo.
port_id == IF rspid = <<>> THEN {} ELSE rspid[1]
i_icb_rsp_valid == \E s \in port_id : rsp_vld[s]
o_icb_rsp_ready(in, s) == s \in port_id /\ in.rsp_ready

\* Their words are or-ed; a mix of two words that are not zero is no word.
Rdata(s) == IF s \in Memory THEN ram[s] ELSE rsp_dat[s]
Mixed == W
i_icb_rsp_rdata ==
  LET hot == {s \in port_id : Rdata(s) # 0}
  IN  IF hot = {} THEN 0 ELSE IF \E s \in hot : hot = {s} THEN Rdata(CHOOSE s \in hot : TRUE) ELSE Mixed

\* i_rdy of the response registers: HiCore_pipe, with CUT_READY in the PLIC.
o_icb_cmd_ready(in, s) ==
  ~rsp_vld[s] \/ (s # "plic" /\ o_icb_rsp_ready(in, s))

\* Mutant: a command is let through while another one is under way.
splt_free_Always == TRUE
splt_free == rspid = <<>>
o_icb_cmd_valid(in, s) == in.cmd # <<>> /\ splt_free /\ s \in i_icb_splt_indic(in.cmd[1])
slave_fire(in, s) == o_icb_cmd_valid(in, s) /\ o_icb_cmd_ready(in, s)
\* i_icb_cmd_ready: one of the selected slaves is ready.
cmd_fire(in) == \E s \in Slave : slave_fire(in, s)
rsp_fire(in) == i_icb_rsp_valid /\ in.rsp_ready

ToClint(in) == IF slave_fire(in, "clint") THEN in.cmd ELSE <<>>
Reads(in, s) == CASE s = "plic"  -> in.plic_rdata
                  [] s = "clint" -> pipe_idat(ToClint(in))
                  [] OTHER       -> 0

\* What a read must return, by the simulator's device for the CLINT.
Addressed(in) == LET c == in.cmd[1]
                 IN  CASE c.slave \in Memory -> ram[c.slave]
                       [] c.slave = "plic"   -> in.plic_rdata
                       [] c.slave = "clint"  -> Sim!load(c.addr)
                       [] OTHER              -> 0

BusInit ==
  /\ ClintInit
  /\ rspid = <<>> /\ want = <<>> /\ made = <<>>
  /\ rsp_vld = [s \in Slave |-> FALSE] /\ rsp_dat = [s \in Slave |-> 0]
  /\ ram = [s \in Memory |-> 0]

BusTick(in) ==
  /\ ClintStep(ToClint(in), in.async_clk)
  /\ rspid' = IF cmd_fire(in) THEN <<i_icb_splt_indic(in.cmd[1])>>
              ELSE IF rsp_fire(in) THEN <<>> ELSE rspid
  /\ rsp_vld' = [s \in Slave |-> slave_fire(in, s) \/ (rsp_vld[s] /\ ~o_icb_rsp_ready(in, s))]
  /\ rsp_dat' = [s \in Slave |-> IF slave_fire(in, s) THEN Reads(in, s)
                                  ELSE IF o_icb_rsp_ready(in, s) THEN 0 ELSE rsp_dat[s]]
  /\ ram' = [s \in Memory |-> IF slave_fire(in, s) /\ ~in.cmd[1].read
                              THEN in.cmd[1].wdata ELSE ram[s]]
  /\ want' = IF cmd_fire(in)
             THEN (IF in.cmd[1].read THEN <<Addressed(in)>> ELSE <<>>)
             ELSE IF rsp_fire(in) THEN <<>> ELSE want
  /\ made' = IF cmd_fire(in) /\ in.cmd[1].slave = "clint" /\ ~in.cmd[1].read
             THEN <<[addr |-> in.cmd[1].addr, wdata |-> in.cmd[1].wdata]>> ELSE <<>>

\* The word of a write that meets no register here is of no account.
Access(slave, addr, data) == [slave : slave, addr : addr, read : {TRUE}, wdata : {0}]
                             \cup [slave : slave, addr : addr, read : {FALSE}, wdata : data]
Commands == Access(Memory, {"other"}, Word) \cup Access({"clint"}, Sim!ClintReg, Word)
            \cup Access({"plic", "clint", "none"}, {"other"}, {0})
Offers == {<<>>} \cup (IF splt_free THEN {<<c>> : c \in Commands} ELSE {})
PlicReads(cmd) == IF cmd # <<>> /\ cmd[1].slave = "plic" /\ cmd[1].read THEN Word ELSE {0}
BusInputs == UNION {[cmd : {cmd}, rsp_ready : IF splt_free THEN {FALSE} ELSE BOOLEAN,
                     plic_rdata : PlicReads(cmd), async_clk : BOOLEAN] : cmd \in Offers}

BusNext == \E in \in BusInputs : BusTick(in)
BusSpec == BusInit /\ [][BusNext]_bus_vars
--------------------------------------------------------------------------
\* The registers hold values of their types.
BusTypeOK ==
  /\ sync_dat \in BOOLEAN \X BOOLEAN /\ sync_clk_r \in BOOLEAN
  /\ mtime_L_r \in Word /\ mtime_H_r \in Word
  /\ mtimecmp_L_r \in Word /\ mtimecmp_H_r \in Word /\ msip_r \in {0, 1}
  /\ rsp_vld \in [Slave -> BOOLEAN] /\ rsp_dat \in [Slave -> Word] /\ ram \in [Memory -> Word]
  /\ rspid = <<>> \/ \E S \in SUBSET Slave : rspid = <<S>>

(***************************************************************************)
(* The slaves that hold an answer are exactly the ones the splitter        *)
(* remembers for the command under way, although an access to the CLINT    *)
(* also selects the nop slave (HiCore_biu.v:85): no answer is left behind  *)
(* in a slave, to be taken for that of a later command, and the splitter   *)
(* never waits for a slave that got no command.                            *)
(***************************************************************************)
SlavesInStep == \A s \in Slave : rsp_vld[s] <=> s \in port_id

(***************************************************************************)
(* A read is answered with the word that its address had when the command  *)
(* was taken.                                                              *)
(***************************************************************************)
ReadsAddressed == i_icb_rsp_valid /\ want # <<>> => i_icb_rsp_rdata = want[1]

(***************************************************************************)
(* The CLINT in half registers is the simulator's device: a cycle moves    *)
(* time on by one if it has an edge of the timer clock, by nothing         *)
(* otherwise, and then makes the write that the bus took in it, that one   *)
(* and no other.  A write that falls on a tick neither loses the carry     *)
(* into the other half nor is overwritten by the tick, and none is lost    *)
(* between the splitter and the device.                                    *)
(***************************************************************************)
ImplementsClintSim ==
  Sim!SimInit /\ [][Sim!SimNext(IF sync_clk_edge THEN 1 ELSE 0, made')]_bus_vars
==========================================================================

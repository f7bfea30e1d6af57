------------------------------ MODULE Plic -------------------------------
(***************************************************************************)
(* The interrupt controller (sirv_plic_man with a sirv_LevelGateway per    *)
(* source, as HiCore_plic_top configures it: inputs, outputs and responses *)
(* are registered).  A step is a clock cycle; its inputs are the interrupt *)
(* lines, a command of the bus (<<>> or <<cmd>>) and the ready signal of   *)
(* the response.  Responses wait in a PipeReg; all that is kept of one is  *)
(* the number a claim read returns.                                        *)
(***************************************************************************)
EXTENDS PipeReg

CONSTANTS PLIC_IRQ_NUM,     \* 4; source 0 does not exist
          MaxPrio,          \* 3: two bits
          TreeDepth         \* 10: levels of the comparison tree

Source == 1 .. PLIC_IRQ_NUM - 1
Prio == 0 .. MaxPrio

\* The number of nodes of a level of the comparison tree: 1, 2, 4, ... 1024.
Width[l \in 0 .. TreeDepth] == IF l = 0 THEN 1 ELSE 2 * Width[l - 1]

ASSUME PlicAssumption ==
  /\ PLIC_IRQ_NUM \in Nat \ {0, 1} /\ MaxPrio \in Nat /\ TreeDepth \in Nat
  /\ PLIC_IRQ_NUM <= Width[TreeDepth]
  /\ CUT_READY = 1 /\ Item = 0 .. PLIC_IRQ_NUM - 1

VARIABLES
  plic_irq_i_r, inFlight, irq_pend_r, irq_enab_r,   \* sets of sources
  irq_prio_r, irq_thod_r,
  plic_irq_o, plic_irq_id,      \* the registered outcome of the tree
  serving                       \* sources software has claimed and not completed

plic_vars == <<plic_irq_i_r, inFlight, irq_pend_r, irq_enab_r, irq_prio_r, irq_thod_r,
               plic_irq_o, plic_irq_id, serving, pipe_vars>>
--------------------------------------------------------------------------
\* The comparison tree: level TreeDepth holds the inputs, level 0 the result.

Leaf(i) == LET ip == i \in irq_pend_r /\ i \in irq_enab_r
           IN  [id |-> i, ip |-> ip, prio |-> IF ip THEN irq_prio_r[i] ELSE 0]

\* Mutant: the upper number wins a tie.
Winner_TieUp(a, b) == IF a.prio <= b.prio THEN b ELSE a
Winner(a, b) == IF a.prio < b.prio THEN b ELSE a

lvl[l \in 0 .. TreeDepth] ==
  [i \in 0 .. Width[l] - 1 |->
    IF l = TreeDepth THEN Leaf(i) ELSE Winner(lvl[l + 1][2 * i], lvl[l + 1][2 * i + 1])]

Top == lvl[0][0]

irq_o  == Top.ip /\ Top.prio > irq_thod_r
irq_id == Top.id
--------------------------------------------------------------------------
\* Commands.  A read other than a claim, and a write to no register, is "other".

PlicCommands == [op : {"claim", "other"}]
            \cup [op : {"complete"}, id : Source]
            \cup [op : {"enable"}, set : SUBSET Source]
            \cup [op : {"priority"}, id : Source, val : Prio]
            \cup [op : {"threshold"}, val : Prio]

hsked(cmd, o_rdy) == cmd # <<>> /\ i_rdy(o_rdy)
Does(cmd, o_rdy, op) == hsked(cmd, o_rdy) /\ cmd[1].op = op

rsp_rdata(cmd) == IF cmd # <<>> /\ cmd[1].op = "claim" THEN plic_irq_id ELSE 0

icb_claim_irq(cmd, o_rdy) == IF Does(cmd, o_rdy, "claim") THEN {rsp_rdata(cmd)} \ {0} ELSE {}
icb_complete_irq(cmd, o_rdy) == IF Does(cmd, o_rdy, "complete") THEN {cmd[1].id} ELSE {}

\* The gateway of a source, and its pending bit: ready while not pending.
irq_i_gated_ready == Source \ irq_pend_r
\* Mutant: the gateway does not wait for the completion.
irq_i_gated_valid_Again == plic_irq_i_r
irq_i_gated_valid == plic_irq_i_r \ inFlight
irq_pend_set == irq_i_gated_valid \cap irq_i_gated_ready

PlicInit ==
  /\ plic_irq_i_r = {} /\ inFlight = {} /\ irq_pend_r = {} /\ irq_enab_r = {}
  /\ irq_prio_r = [i \in Source |-> 0] /\ irq_thod_r = 0
  /\ plic_irq_o = FALSE /\ plic_irq_id = 0 /\ serving = {}
  /\ PipeInit /\ o_dat = 0

PlicStep(plic_irq_i, cmd, o_rdy) ==
  LET claim    == icb_claim_irq(cmd, o_rdy)
      complete == icb_complete_irq(cmd, o_rdy)
  IN  /\ plic_irq_i_r' = plic_irq_i
      /\ inFlight' = (inFlight \cup (plic_irq_i_r \cap irq_i_gated_ready)) \ complete
      /\ irq_pend_r' = (irq_pend_r \ claim) \cup irq_pend_set
      /\ irq_enab_r' = IF Does(cmd, o_rdy, "enable") THEN cmd[1].set ELSE irq_enab_r
      /\ irq_prio_r' = IF Does(cmd, o_rdy, "priority")
                       THEN [irq_prio_r EXCEPT ![cmd[1].id] = cmd[1].val] ELSE irq_prio_r
      /\ irq_thod_r' = IF Does(cmd, o_rdy, "threshold") THEN cmd[1].val ELSE irq_thod_r
      /\ plic_irq_o' = irq_o /\ plic_irq_id' = irq_id
      /\ serving' = (serving \cup claim) \ complete
      /\ PipeStep(cmd # <<>>, rsp_rdata(cmd), FALSE, o_rdy, FALSE)

\* Software completes only what it has claimed.  A command that the response
\* register does not let in leaves no trace and is not offered, and without a
\* response nothing looks at o_rdy.
MayIssue(cmd) == cmd.op = "complete" => cmd.id \in serving
Offered(o_rdy) == {<<>>} \cup
                  (IF i_rdy(o_rdy) THEN {<<c>> : c \in {c \in PlicCommands : MayIssue(c)}} ELSE {})
Readies == IF vld_r THEN BOOLEAN ELSE {FALSE}

PlicNext == \E plic_irq_i \in SUBSET Source, o_rdy \in Readies :
              \E cmd \in Offered(o_rdy) : PlicStep(plic_irq_i, cmd, o_rdy)

PlicSpec == PlicInit /\ [][PlicNext]_plic_vars
--------------------------------------------------------------------------
(***************************************************************************)
(* A source that software is serving does not become pending again before  *)
(* it is completed, and a pending one keeps its gateway shut: an interrupt *)
(* is claimed once.                                                        *)
(***************************************************************************)
ClaimedOnce == /\ irq_pend_r \cap serving = {}
               /\ inFlight = irq_pend_r \cup serving

(***************************************************************************)
(* The tree picks, among the sources that are pending and enabled, the one *)
(* of highest priority, of these the lowest number, and none of priority   *)
(* 0 ("select the pending interrupt source with the max priority and its   *)
(* ID", sirv_plic_man.v:288-289).                                          *)
(***************************************************************************)
TreePicksBest ==
  LET Claimable == {i \in irq_pend_r \cap irq_enab_r : irq_prio_r[i] > 0}
      Before(i, j) == \/ irq_prio_r[i] > irq_prio_r[j]
                      \/ irq_prio_r[i] = irq_prio_r[j] /\ i <= j
  IN  IF Claimable = {} THEN irq_id = 0 /\ ~irq_o
      ELSE irq_id \in Claimable /\ \A j \in Claimable : Before(irq_id, j)

(***************************************************************************)
(* The source a claim is answered with is pending and enabled in the cycle *)
(* of the claim and served by nobody, although the number was registered a *)
(* cycle earlier: no interrupt is reported a second time, or after it was  *)
(* disabled.  And only the source in the answer stops being pending: none  *)
(* is lost.                                                                *)
(***************************************************************************)
ClaimsAreCurrent ==
  [][ LET answer == {put'[k].dat : k \in DOMAIN put'} \ {0}
      IN  /\ answer \subseteq irq_pend_r \cap irq_enab_r
          /\ irq_pend_r \ irq_pend_r' = answer
          /\ serving' \ serving = answer ]_plic_vars
==========================================================================

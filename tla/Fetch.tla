------------------------------ MODULE Fetch ------------------------------
(***************************************************************************)
(* The fetch unit (HiCore_ifetch) with the ITCM, the arbiter that shares   *)
(* it with the load/store unit (sirv_icb_arbt) and the buffer before       *)
(* decode.  A step is a clock cycle.  The inputs of a cycle are "in":      *)
(*   o_rdy    decode takes the entry it is offered                         *)
(*   branch   decode takes a jump: <<>> or <<target>>                      *)
(*   flush    commit redirects: <<>> or <<target>>                         *)
(*   retire   commit retires the last instruction without redirecting      *)
(*   lsu      a new command of the load/store unit: "none", "read", "write"*)
(* Addresses are 0 .. NPc - 1, one per word, and wrap; those in Itcm are   *)
(* in the ITCM, fetching another one is an exception.  A word is named by  *)
(* its address.  The fetch unit never reads the payload of a cancelled     *)
(* entry, and forgets it here unless KeepCancelled (Core does read it).    *)
(***************************************************************************)
EXTENDS CancelBuf

CONSTANTS NPc, Itcm, Targets,   \* Targets: addresses redirections go to
          QueueDepth,           \* icache_HiCore_queue: 4
          BufDepth,             \* mem_bypbuf: 8
          KeepCancelled         \* whether cancelled entries keep their payload

Pc == 0 .. NPc - 1
NoPc == NPc
LsuWord == NPc + 1      \* what a load of the load/store unit reads

ASSUME FetchAssumption ==
  /\ NPc \in Nat \ {0} /\ Itcm \subseteq Pc /\ Targets \subseteq Pc
  /\ QueueDepth \in Nat \ {0} /\ BufDepth \in Nat \ {0, 1}
  /\ KeepCancelled \in BOOLEAN

VARIABLES
  pc,
  excp_pipe,    \* fetch exceptions: [pc, cancel]
  mem_queue,    \* fetches without their answer: [pc, cancel]
  if2de,        \* the buffer before decode: [pc, word, excp, cancel]
  itcm_vld,     \* the response register of the ITCM is full
  addr_r,       \* the address register of its RAM
  arbt_queue,   \* arbt_queue: the port of each command, "lsu" or "if"
  lsu_cmd,      \* the command the load/store unit waits to hand over
  lsu_wait,     \* its command that is not answered yet
  rob           \* what decode has taken: "empty", "some", or "trap" with a
                \* fetch exception among it

fetch_vars == <<pc, excp_pipe, mem_queue, if2de, itcm_vld, addr_r, arbt_queue,
                lsu_cmd, lsu_wait, rob>>

PcInc(p) == IF p = NPc - 1 THEN 0 ELSE p + 1
redirect(in) == in.branch # <<>> \/ in.flush # <<>>
excp_code == pc \notin Itcm
--------------------------------------------------------------------------
\* The buffer before decode (sirv_bypbuf): its ready signal, and
\* fifo_half_full, whose counter reads zero when the buffer is full
\* (CounterTracksContents of Bypbuf).

\* Mutant: it accepts when it is full.
if2de_ready_Always == TRUE
if2de_ready == QueueReady(if2de, BufDepth)

\* Mutant: fetching is not throttled.
fifo_half_full_Never == FALSE
fifo_half_full == BufDepth \div 2 <= Len(if2de) /\ Len(if2de) < BufDepth
--------------------------------------------------------------------------
\* Answers of the ITCM: the port they go to (sirv_icb_arbt.v:145-156, 207)
\* and the register that holds them (HiCore_dtcm_ctrl).

rsp_port == IF Valid(arbt_queue) THEN arbt_queue[1] ELSE "lsu"
rsp_valid(port) == Valid(arbt_queue) /\ itcm_vld /\ rsp_port = port
if_rsp_ready == Valid(mem_queue) /\ if2de_ready
\* The load/store unit takes every answer at once (mem_queue of the LSU).
itcm_pop == rsp_valid("lsu") \/ (rsp_valid("if") /\ if_rsp_ready)

\* Commands: the load/store unit goes first; its splitter offers nothing
\* while a command is not answered.
LsuOffer(in) == IF lsu_cmd # "none" THEN lsu_cmd ELSE in.lsu
lsu_cmd_valid(in) == LsuOffer(in) # "none" /\ lsu_wait = "none"
cmd_ready == (~itcm_vld \/ itcm_pop) /\ QueueReady(arbt_queue, 4)

\* Mutant: both ports are granted.
if_cmd_ready_NoPriority(in) == cmd_ready
if_cmd_ready(in) == cmd_ready /\ ~lsu_cmd_valid(in)

\* Mutant: fetch also gives way to commands the splitter still holds back.
wants_itcm_AfterLsu(in) == ~redirect(in) /\ ~excp_code /\ ~fifo_half_full /\ LsuOffer(in) = "none"
wants_itcm(in) == ~redirect(in) /\ ~excp_code /\ ~fifo_half_full
if_cmd_valid(in) == wants_itcm(in) /\ QueueReady(mem_queue, QueueDepth)
if_fire(in)  == if_cmd_valid(in) /\ if_cmd_ready(in)
lsu_fire(in) == lsu_cmd_valid(in) /\ cmd_ready

\* The command that goes to the ITCM: the arbiter notes its port, the
\* response register of HiCore_dtcm_ctrl fills, the RAM latches the address
\* of a read.
o_fire(in) == (lsu_cmd_valid(in) \/ if_cmd_valid(in)) /\ cmd_ready
i_arbt_indic_id(in) == IF lsu_cmd_valid(in) THEN "lsu" ELSE "if"
ArbtStep(in) == arbt_queue' = (IF itcm_pop THEN Tail(arbt_queue) ELSE arbt_queue)
                              \o When(o_fire(in), i_arbt_indic_id(in))
DtcmCtrlStep(in) == itcm_vld' = (o_fire(in) \/ (itcm_vld /\ ~itcm_pop))
SimRamStep(in) == addr_r' = CASE lsu_fire(in) /\ LsuOffer(in) = "read" -> LsuWord
                              [] ~lsu_cmd_valid(in) /\ if_fire(in)     -> pc
                              [] OTHER                                 -> addr_r
ItcmStep(in) == ArbtStep(in) /\ DtcmCtrlStep(in) /\ SimRamStep(in)

LsuStep(in) ==
  /\ lsu_cmd' = IF lsu_fire(in) THEN "none" ELSE LsuOffer(in)
  /\ lsu_wait' = IF lsu_fire(in) THEN LsuOffer(in)
                 ELSE IF rsp_valid("lsu") THEN "none" ELSE lsu_wait
--------------------------------------------------------------------------
\* The fetch unit

mem_push(in) == wants_itcm(in) /\ if_cmd_ready(in) /\ QueueReady(mem_queue, QueueDepth)
mem_pop  == rsp_valid("if") /\ if2de_ready
excp_pop == Valid(excp_pipe) /\ ~rsp_valid("if") /\ if2de_ready
excp_push(in) == ~redirect(in) /\ excp_code /\ PipeReady(excp_pipe, excp_pop)

\* What goes into the buffer: an answer before an exception.
i_if2de ==
  IF rsp_valid("if") /\ Valid(mem_queue)
  THEN <<[pc |-> mem_queue[1].pc, word |-> addr_r, excp |-> FALSE,
          cancel |-> mem_queue[1].cancel]>>
  ELSE IF Valid(excp_pipe)
  THEN <<[pc |-> excp_pipe[1].pc, word |-> NoPc, excp |-> TRUE,
          cancel |-> excp_pipe[1].cancel]>>
  ELSE <<>>
if2de_push == IF if2de_ready THEN i_if2de ELSE <<>>

\* What decode sees: the oldest entry, or the new one through the bypass
\* (an empty buffer is ready).
Offered == IF Valid(if2de) THEN <<if2de[1]>> ELSE if2de_push
Taken(in) == IF in.o_rdy THEN Offered ELSE <<>>

\* Mutant: the address moves on although the ITCM did not take it.
pc_step_NoReady(in) == if_cmd_valid(in) \/ excp_push(in)
pc_step(in) == if_fire(in) \/ excp_push(in)
PcNext(in) == IF in.flush # <<>> THEN in.flush[1]
              ELSE IF in.branch # <<>> THEN in.branch[1]
              ELSE IF pc_step(in) THEN PcInc(pc) ELSE pc

\* Entries of a buffer after the cycle, cancelled ones without payload.
Forget(buf) == [k \in 1 .. Len(buf) |->
                 IF KeepCancelled \/ ~buf[k].cancel THEN buf[k]
                 ELSE [f \in DOMAIN buf[k] |-> IF f \in {"cancel", "excp"} THEN buf[k][f] ELSE NoPc]]

FetchStep(in) ==
  /\ pc' = PcNext(in)
  /\ excp_pipe' = Forget(BufNext(excp_pipe, When(excp_push(in), [pc |-> pc, cancel |-> FALSE]),
                                 excp_pop, redirect(in)))
  /\ mem_queue' = Forget(BufNext(mem_queue, When(mem_push(in), [pc |-> pc, cancel |-> FALSE]),
                                 mem_pop, redirect(in)))
  /\ if2de' = Forget(BufNext(if2de, if2de_push, in.o_rdy /\ Valid(Offered), redirect(in)))
--------------------------------------------------------------------------
\* The surroundings.  Only an instruction that decode takes can branch, and
\* only one that it has taken can flush; a fetch exception among them always
\* ends in a flush (HiCore_commit.v:60-68).

TakesLive(in) == Valid(Taken(in)) /\ ~Taken(in)[1].cancel
RobAfter(in) == IF in.flush # <<>> THEN "empty"
               ELSE IF rob = "trap" \/ (TakesLive(in) /\ Taken(in)[1].excp) THEN "trap"
               ELSE IF TakesLive(in) THEN "some"
               ELSE IF in.retire THEN "empty" ELSE rob

Redirects == {<<>>} \cup {<<t>> : t \in Targets}
Inputs ==
  {in \in [o_rdy : BOOLEAN, branch : Redirects,
           flush : IF rob = "empty" THEN {<<>>} ELSE Redirects,
           retire : IF rob = "some" THEN BOOLEAN ELSE {FALSE},
           lsu : IF lsu_cmd = "none" THEN {"none", "read", "write"} ELSE {"none"}] :
     in.branch # <<>> => TakesLive(in) /\ ~Taken(in)[1].excp}

FetchInit ==
  /\ pc = 0 /\ excp_pipe = <<>> /\ mem_queue = <<>> /\ if2de = <<>>
  /\ itcm_vld = FALSE /\ addr_r = 0 /\ arbt_queue = <<>>
  /\ lsu_cmd = "none" /\ lsu_wait = "none" /\ rob = "empty"

FetchTick(in) == FetchStep(in) /\ ItcmStep(in) /\ LsuStep(in) /\ rob' = RobAfter(in)

FetchNext == \E in \in Inputs : FetchTick(in)
FetchSpec == FetchInit /\ [][FetchNext]_fetch_vars

(***************************************************************************)
(* The clock never stops: the registers keep their values for ever only    *)
(* where a cycle without any input leaves them alone.  Decode takes        *)
(* cancelled entries and exceptions (a cancelled store may hang there:     *)
(* KeepsRetiring of Core), and an exception reaches commit.  Decode may    *)
(* keep any other entry waiting for as long as it likes, for instance for  *)
(* a load from the ITCM.                                                   *)
(***************************************************************************)
NoInput == [o_rdy |-> FALSE, branch |-> <<>>, flush |-> <<>>, retire |-> FALSE, lsu |-> "none"]
CanIdle == ENABLED (FetchTick(NoInput) /\ UNCHANGED fetch_vars)
ClockRuns == []<>CanIdle \/ []<><<TRUE>>_fetch_vars
Drain == \E in \in Inputs : /\ Valid(Taken(in)) /\ (Taken(in)[1].cancel \/ Taken(in)[1].excp)
                            /\ FetchTick(in)
TrapTaken == rob = "trap" /\ \E in \in Inputs : in.flush # <<>> /\ FetchTick(in)
FairFetchSpec == /\ FetchSpec /\ ClockRuns
                 /\ WF_fetch_vars(Drain) /\ WF_fetch_vars(TrapTaken)
--------------------------------------------------------------------------
Addr       == Pc \cup {NoPc}
FetchEntry == [pc : Addr, cancel : BOOLEAN]
IfEntry    == [pc : Addr, word : Addr, excp : BOOLEAN, cancel : BOOLEAN]

\* Every register has its type and no buffer exceeds its depth.
FetchTypeOK ==
  /\ pc \in Pc /\ addr_r \in Pc \cup {LsuWord} /\ itcm_vld \in BOOLEAN
  /\ excp_pipe \in Seq(FetchEntry) /\ Len(excp_pipe) <= 1
  /\ mem_queue \in Seq(FetchEntry) /\ Len(mem_queue) <= QueueDepth
  /\ if2de \in Seq(IfEntry) /\ Len(if2de) <= BufDepth
  /\ arbt_queue \in Seq({"lsu", "if"}) /\ Len(arbt_queue) <= 4
  /\ lsu_cmd \in {"none", "read", "write"} /\ lsu_wait \in {"none", "read", "write"}
  /\ rob \in {"empty", "some", "trap"}

(***************************************************************************)
(* The answer in the ITCM belongs to the port the arbiter remembers and to *)
(* the command that port is waiting for, and the RAM still shows the word  *)
(* of that command: commands of the two masters never mix up each other's  *)
(* words (HiCore_dtcm_ctrl.v: "douta need to keep its value").             *)
(***************************************************************************)
AnswersBelong ==
  /\ Len(arbt_queue) = (IF itcm_vld THEN 1 ELSE 0)
  /\ Len(mem_queue) = (IF rsp_valid("if") THEN 1 ELSE 0)
  /\ rsp_valid("if") => mem_queue[1].cancel \/ addr_r = mem_queue[1].pc
  /\ rsp_valid("lsu") <=> lsu_wait # "none"
  /\ lsu_wait = "read" => addr_r = LsuWord

(***************************************************************************)
(* Of what is on its way to decode, the entries that are not cancelled are *)
(* the words of the present path, consecutive and up to pc, with no gap or *)
(* repetition and each with its own word, although answers and exceptions  *)
(* go different ways.  Cancelled entries come before them, except for a    *)
(* cancelled fetch exception, which the new path can overtake.  Behind an  *)
(* exception the order no longer matters: it flushes all of it.            *)
(***************************************************************************)
Stream == if2de
          \o [k \in 1 .. Len(mem_queue) |-> [pc |-> mem_queue[k].pc, word |-> mem_queue[k].pc,
                                             excp |-> FALSE, cancel |-> mem_queue[k].cancel]]
          \o [k \in 1 .. Len(excp_pipe) |-> [pc |-> excp_pipe[k].pc, word |-> NoPc,
                                             excp |-> TRUE, cancel |-> excp_pipe[k].cancel]]
          \o <<[pc |-> pc, word |-> pc, excp |-> FALSE, cancel |-> FALSE]>>
Live(e) == ~e.cancel
StreamOrder ==
  LET S == Stream
      N == Len(S)
  IN  /\ \A j, k \in 1 .. N :
           /\ j < k /\ Live(S[j]) /\ Live(S[k]) /\ \A i \in j + 1 .. k - 1 : ~Live(S[i])
           /\ rob # "trap" /\ \A i \in 1 .. j : Live(S[i]) => ~S[i].excp
           => S[j].word = S[j].pc /\ S[k].pc = PcInc(S[j].pc)
      /\ \A j, k \in 1 .. N : j < k /\ Live(S[j]) /\ ~Live(S[k]) => S[k].excp

(***************************************************************************)
(* A load or store to the ITCM gets its turn even if decode waits for it:  *)
(* a fetch answer never occupies the ITCM for good, since fifo_half_full   *)
(* keeps room for it.  That is so while no fetch exception is raised:      *)
(* exceptions are not held back, and a buffer they fill up reads as not    *)
(* half full.                                                              *)
(***************************************************************************)
LoadsGetThrough == [](excp_pipe = <<>>) => (lsu_cmd # "none" ~> lsu_cmd = "none")

\* After a redirection decode is offered the new path, again and again.
NewPathReaches == []<>(Valid(Offered) /\ ~Offered[1].cancel)
==========================================================================

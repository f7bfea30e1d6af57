------------------------------- MODULE ROB -------------------------------
(***************************************************************************)
(* The control part of the reorder buffer, HiCore_ROB.v: the head and tail *)
(* pointers (slot number plus wrap bit) and the state of every slot.  One  *)
(* step is one clock edge; the parameters of RobStep are the input wires   *)
(* of the Verilog module in that cycle.  The payload registers of a slot   *)
(* belong to the modules that read them (Backend, Trap).                   *)
(***************************************************************************)
EXTENDS Integers

CONSTANT RobSize        \* HiCore_ROB_SIZE: 16 in the code

ASSUME RobSizeAssumption == RobSize \in Nat \ {0, 1}

VARIABLES
  rob_head_ptr,         \* oldest instruction, with wrap bit
  rob_tail_ptr,         \* next free slot, with wrap bit
  rob_state             \* rob_state[i]: state of slot i

rob_vars == <<rob_head_ptr, rob_tail_ptr, rob_state>>

Slot == 0 .. RobSize - 1
Ptr  == 0 .. 2 * RobSize - 1    \* HiCore_ROB_PTR_SIZE + 1 bits

EMPTY_S     == "EMPTY_S"
MAPPED_S    == "MAPPED_S"
WRITEBACK_S == "WRITEBACK_S"
SlotState   == {EMPTY_S, MAPPED_S, WRITEBACK_S}

\* A pointer without its wrap bit, and a pointer plus one (both wrap).
SlotOf(p) == IF p < RobSize THEN p ELSE p - RobSize
\* Mutant: the pointer does not wrap.
PtrInc_NoWrap(p) == p + 1
PtrInc(p) == IF p = 2 * RobSize - 1 THEN 0 ELSE p + 1

rob_full  == rob_tail_ptr # rob_head_ptr /\ SlotOf(rob_tail_ptr) = SlotOf(rob_head_ptr)
rob_empty == rob_tail_ptr = rob_head_ptr

\* The oldest slot has its result; commit_valid is tied to 1 in HiCore_commit.
commit_ready == rob_state[SlotOf(rob_head_ptr)] = WRITEBACK_S
--------------------------------------------------------------------------
RobInit ==
  /\ rob_head_ptr = 0
  /\ rob_tail_ptr = 0
  /\ rob_state = [i \in Slot |-> EMPTY_S]

\* Mutant: a flush forgets that the head moves with it.
TailNext_FlushToHead(issue_wen, flush) ==
  IF flush THEN rob_head_ptr
  ELSE IF issue_wen /\ ~rob_full THEN PtrInc(rob_tail_ptr)
  ELSE rob_tail_ptr

\* Next state of slot i; wb is the set of slots some unit writes back.
SlotNext(issue_wen, wb, flush, i) ==
  IF flush THEN EMPTY_S
  ELSE IF issue_wen /\ i = SlotOf(rob_tail_ptr) THEN MAPPED_S
  ELSE IF i \in wb THEN WRITEBACK_S
  ELSE IF commit_ready /\ i = SlotOf(rob_head_ptr) THEN EMPTY_S
  ELSE rob_state[i]

TailNext(issue_wen, flush) ==
  IF flush THEN PtrInc(rob_head_ptr)
  ELSE IF issue_wen /\ ~rob_full THEN PtrInc(rob_tail_ptr)
  ELSE rob_tail_ptr

HeadNext == IF commit_ready THEN PtrInc(rob_head_ptr) ELSE rob_head_ptr

RobStep(issue_wen, wb, flush) ==
  /\ rob_state' = [i \in Slot |-> SlotNext(issue_wen, wb, flush, i)]
  /\ rob_tail_ptr' = TailNext(issue_wen, flush)
  /\ rob_head_ptr' = HeadNext

(***************************************************************************)
(* What the buffer relies on: decode allocates only when the buffer is not *)
(* full and no flush is under way, a unit writes back only a slot that     *)
(* waits for its result, and a flush comes with a commit.  Backend shows   *)
(* that the pipeline around the buffer keeps these rules.                  *)
(***************************************************************************)
RobRely(issue_wen, wb, flush) ==
  /\ issue_wen => ~rob_full /\ ~flush
  /\ \A i \in wb : rob_state[i] = MAPPED_S
  /\ flush => commit_ready

RobNext ==
  \E issue_wen \in BOOLEAN, flush \in BOOLEAN, wb \in SUBSET Slot :
    /\ RobRely(issue_wen, wb, flush)
    /\ RobStep(issue_wen, wb, flush)

RobSpec == RobInit /\ [][RobNext]_rob_vars
--------------------------------------------------------------------------
\* The registers hold values of their widths.
RobTypeOK ==
  /\ rob_head_ptr \in Ptr
  /\ rob_tail_ptr \in Ptr
  /\ rob_state \in [Slot -> SlotState]

\* Number of allocated slots, and how far slot i is behind the head.
RobCount == IF rob_tail_ptr >= rob_head_ptr
            THEN rob_tail_ptr - rob_head_ptr
            ELSE rob_tail_ptr - rob_head_ptr + 2 * RobSize
RobAge(i) == IF i >= SlotOf(rob_head_ptr)
             THEN i - SlotOf(rob_head_ptr)
             ELSE i - SlotOf(rob_head_ptr) + RobSize

(***************************************************************************)
(* The allocated slots are exactly the RobCount slots from the head on:    *)
(* none is freed or skipped out of order, none outside the window is       *)
(* occupied, and the pointers never overrun each other, whatever mixture   *)
(* of allocation, write-back, commit and flush the cycles bring (HiCore_   *)
(* ROB.v:153-171).                                                         *)
(***************************************************************************)
RobWindow ==
  /\ RobCount <= RobSize
  /\ \A i \in Slot : rob_state[i] # EMPTY_S <=> RobAge(i) < RobCount

==========================================================================

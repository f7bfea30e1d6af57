------------------------------ MODULE Queue ------------------------------
(***************************************************************************)
(* HiCore_queue (HiCore_mem_queue.v): a ring of DP entries with wrap-bit   *)
(* pointers.  It holds the loads and stores on the bus (HiCore_lsu), the   *)
(* instruction fetches on the bus (HiCore_ifetch) and is the storage of    *)
(* sirv_bypbuf.  The parameters of QueueStep are the input wires; put, got *)
(* and flushed are what they and the handshakes were in the last cycle.    *)
(***************************************************************************)
EXTENDS CancelBuf

CONSTANTS DP,     \* 4 or 8 in the code
          Item    \* payloads

ASSUME QueueAssumption == DP \in Nat \ {0} /\ Item # {}

VARIABLES wr_ptr, rd_ptr,   \* with wrap bit
          queue_ram,        \* payload registers, without reset
          queue_cancel,     \* cancel marks
          put, got, flushed \* the ports in the last cycle, see CancelFifo

queue_vars == <<wr_ptr, rd_ptr, queue_ram, queue_cancel, put, got, flushed>>

Idx  == 0 .. DP - 1
QPtr == 0 .. 2 * DP - 1
IdxOf(p) == IF p < DP THEN p ELSE p - DP
\* Mutant: the pointer does not wrap.
QInc_NoWrap(p) == p + 1
QInc(p)  == IF p = 2 * DP - 1 THEN 0 ELSE p + 1

empty == rd_ptr = wr_ptr
full  == rd_ptr # wr_ptr /\ IdxOf(rd_ptr) = IdxOf(wr_ptr)

o_info   == queue_ram[IdxOf(rd_ptr)]
o_cancel == queue_cancel[IdxOf(rd_ptr)]

QueueInit ==
  /\ wr_ptr = 0 /\ rd_ptr = 0
  /\ queue_ram \in [Idx -> Item]
  /\ queue_cancel = [i \in Idx |-> FALSE]
  /\ put = <<>> /\ got = <<>> /\ flushed = FALSE

CancelNext(wen, i_cancel, flush, i) ==
  IF flush THEN TRUE
  ELSE IF wen /\ IdxOf(wr_ptr) = i THEN i_cancel ELSE queue_cancel[i]

\* The registers after a cycle, without what the consumer sees.
RingStep(i_valid, i_info, i_cancel, o_ready, flush) ==
  LET wen == i_valid /\ ~full
      ren == ~empty /\ o_ready
  IN  /\ wr_ptr' = IF wen THEN QInc(wr_ptr) ELSE wr_ptr
      /\ rd_ptr' = IF ren THEN QInc(rd_ptr) ELSE rd_ptr
      /\ queue_ram' = IF wen THEN [queue_ram EXCEPT ![IdxOf(wr_ptr)] = i_info] ELSE queue_ram
      /\ queue_cancel' = [i \in Idx |-> CancelNext(wen, i_cancel, flush, i)]

QueueStep(i_valid, i_info, i_cancel, o_ready, flush) ==
  /\ RingStep(i_valid, i_info, i_cancel, o_ready, flush)
  /\ put' = When(i_valid /\ ~full, [dat |-> i_info, cancel |-> i_cancel])
  /\ flushed' = flush
  /\ got' = When(~empty /\ o_ready, [dat |-> o_info, cancel |-> o_cancel])

QueueNext ==
  \E i_valid, i_cancel, o_ready, flush \in BOOLEAN, i_info \in Item :
    QueueStep(i_valid, i_info, i_cancel, o_ready, flush)

QueueSpec == QueueInit /\ [][QueueNext]_queue_vars
--------------------------------------------------------------------------
\* The registers hold values of their widths.
QueueTypeOK ==
  /\ wr_ptr \in QPtr /\ rd_ptr \in QPtr
  /\ queue_ram \in [Idx -> Item]
  /\ queue_cancel \in [Idx -> BOOLEAN]

Count == IF wr_ptr >= rd_ptr THEN wr_ptr - rd_ptr ELSE wr_ptr - rd_ptr + 2 * DP

\* The pointers never overrun each other (HiCore_mem_queue.v:27-43).
NoOverrun == Count <= DP

\* The entries in the ring from rd_ptr to wr_ptr, oldest first.
At(k) == IF IdxOf(rd_ptr) + k - 1 < DP
         THEN IdxOf(rd_ptr) + k - 1 ELSE IdxOf(rd_ptr) + k - 1 - DP
Contents == [k \in 1 .. Count |-> [dat |-> queue_ram[At(k)], cancel |-> queue_cancel[At(k)]]]

(***************************************************************************)
(* The ring is a bounded cancellable FIFO of what goes in under the        *)
(* handshake, although a flush also marks the free registers and the       *)
(* payload registers are never cleared.                                    *)
(***************************************************************************)
Fifo == INSTANCE CancelFifo WITH buf <- Contents, Depth <- DP
ImplementsFifo == Fifo!FifoSpec
==========================================================================

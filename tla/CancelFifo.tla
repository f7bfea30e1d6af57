---------------------------- MODULE CancelFifo ---------------------------
(***************************************************************************)
(* What every storage block of the core promises: a bounded first-in       *)
(* first-out buffer whose entries can be cancelled in place.  Nothing is   *)
(* lost, duplicated or reordered, a flush marks all that is inside or      *)
(* entering, and a mark stays with its entry until it is delivered.  What  *)
(* happens at the ports is part of the promise: put, got and flushed show  *)
(* the handshakes and the flush input of the last cycle.                   *)
(***************************************************************************)
EXTENDS CancelBuf

CONSTANTS Item,   \* payloads
          Depth   \* most entries held

VARIABLES buf,    \* entries held, oldest first: [dat, cancel]
          put,    \* what the producer handed over in the last cycle
          got,    \* what the consumer received in it
          flushed \* there was a flush in it

fifo_vars == <<buf, put, got, flushed>>

Entry == [dat : Item, cancel : BOOLEAN]
OrNone(S) == {<<>>} \cup {<<e>> : e \in S}

FifoInit == buf = <<>> /\ put = <<>> /\ got = <<>> /\ flushed = FALSE

\* A cycle: what is put in goes to the end, what is got comes from the front.
FifoNext ==
  LET all == buf \o put'
      pop == got' # <<>>
  IN  /\ put' \in OrNone(Entry) /\ flushed' \in BOOLEAN
      /\ pop => all # <<>> /\ got' = <<all[1]>>
      /\ buf' = BufNext(buf, put', pop, flushed')
      /\ Len(buf') <= Depth

FifoSpec == FifoInit /\ [][FifoNext]_fifo_vars
==========================================================================

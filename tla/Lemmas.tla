----------------------------- MODULE Lemmas ------------------------------
(***************************************************************************)
(* Facts that several proofs rest on: what BufNext of CancelBuf yields,    *)
(* entry by entry, the arithmetic of a number kept in two halves, and the  *)
(* reorder buffer, for every size of it.                                   *)
(***************************************************************************)
EXTENDS CancelBuf, ROB, TLAPS

\* How many entries a cycle leaves, and the k-th of them before marking.
KeptLen(buf, push, pop) ==
  IF pop THEN Len(buf) + Len(push) - 1 ELSE Len(buf) + Len(push)
KeptAt(buf, push, pop, k) ==
  LET i == IF pop THEN k + 1 ELSE k
  IN  IF i <= Len(buf) THEN buf[i] ELSE push[i - Len(buf)]

(***************************************************************************)
(* After a cycle the buffer holds the old entries and then the new one,    *)
(* less the first if one left, each marked if there was a flush.           *)
(***************************************************************************)
LEMMA BufNextEntries ==
  ASSUME NEW R, NEW buf \in Seq(R), NEW push \in Seq(R), NEW pop \in BOOLEAN, NEW flush,
         pop => Len(buf) + Len(push) > 0
  PROVE  BufNext(buf, push, pop, flush) =
           [k \in 1 .. KeptLen(buf, push, pop) |-> CancelIf(flush, KeptAt(buf, push, pop, k))]
<1> DEFINE m == KeptLen(buf, push, pop)
           all  == buf \o push
           kept == IF pop THEN Tail(all) ELSE all
<1>1. all \in Seq(R) /\ Len(all) = Len(buf) + Len(push)
  OBVIOUS
<1>2. \A i \in 1 .. Len(all) :
        all[i] = IF i <= Len(buf) THEN buf[i] ELSE push[i - Len(buf)]
  OBVIOUS
<1>3. Len(kept) = m
  <2>1. CASE pop
    <3>1. all # <<>>
      BY <1>1, <2>1
    <3> QED BY <1>1, <2>1, <3>1 DEF KeptLen
  <2>2. CASE ~pop
    BY <1>1, <2>2 DEF KeptLen
  <2> QED BY <2>1, <2>2
<1>4. \A k \in 1 .. m : kept[k] = KeptAt(buf, push, pop, k)
  <2>1. CASE pop
    <3>1. all # <<>>
      BY <1>1, <2>1
    <3>2. \A k \in 1 .. m : kept[k] = all[k + 1]
      BY <1>1, <1>3, <2>1, <3>1 DEF KeptLen
    <3>3. \A k \in 1 .. m : k + 1 \in 1 .. Len(all)
      BY <1>1, <2>1 DEF KeptLen
    <3> QED BY <1>2, <2>1, <3>2, <3>3 DEF KeptAt
  <2>2. CASE ~pop
    BY <1>1, <1>2, <2>2 DEF KeptAt, KeptLen
  <2> QED BY <2>1, <2>2
<1>5. BufNext(buf, push, pop, flush) = [k \in 1 .. Len(kept) |-> CancelIf(flush, kept[k])]
  BY DEF BufNext
<1> HIDE DEF m, all, kept
<1>6. BufNext(buf, push, pop, flush) = [k \in 1 .. m |-> CancelIf(flush, KeptAt(buf, push, pop, k))]
  BY <1>3, <1>4, <1>5
<1> QED BY <1>6 DEF m

\* A sequence that is not longer than one.
LEMMA ShortSeq ==
  ASSUME NEW R, NEW b \in Seq(R), Len(b) <= 1
  PROVE  \/ b = <<>> /\ Len(b) = 0
         \/ b = <<b[1]>> /\ Len(b) = 1 /\ b # <<>> /\ b[1] \in R
<1>1. Len(b) \in Nat
  OBVIOUS
<1>2. \A n \in Nat : n <= 1 => n = 0 \/ n = 1
  OBVIOUS
<1>3. Len(b) = 0 \/ Len(b) = 1
  BY <1>1, <1>2
<1>4. Len(b) = 0 => b = <<>>
  OBVIOUS
<1>5. Len(b) = 1 => b = <<b[1]>> /\ b # <<>> /\ b[1] \in R
  OBVIOUS
<1> QED BY <1>3, <1>4, <1>5

\* A one-entry register after a cycle that adds e if c, removes if pop and
\* marks if f.
After(b, e, c, pop, f) == IF c THEN <<CancelIf(f, e)>>
                          ELSE IF b # <<>> /\ ~pop THEN <<CancelIf(f, b[1])>> ELSE <<>>

\* What BufNext does to a register of one entry.
LEMMA PipeCycle ==
  ASSUME NEW R, NEW b \in Seq(R), Len(b) <= 1, NEW e, NEW c \in BOOLEAN, NEW pop \in BOOLEAN,
         NEW f, pop => b # <<>>, c => b = <<>> \/ pop
  PROVE  BufNext(b, When(c, e), pop, f) = After(b, e, c, pop, f)
<1> USE DEF After
<1>a. BufNext(<<>>, <<>>, FALSE, f) = <<>> /\ BufNext(<<>>, <<e>>, FALSE, f) = <<CancelIf(f, e)>>
  BY DEF BufNext
<1>b. ASSUME NEW d
      PROVE  /\ BufNext(<<d>>, <<>>, FALSE, f) = <<CancelIf(f, d)>>
             /\ BufNext(<<d>>, <<>>, TRUE, f) = <<>>
             /\ BufNext(<<d>>, <<e>>, TRUE, f) = <<CancelIf(f, e)>>
  BY DEF BufNext
<1>1. CASE c /\ b = <<>>
  <2>1. pop = FALSE /\ When(c, e) = <<e>>
    BY <1>1 DEF When
  <2> QED BY <1>1, <1>a, <2>1
<1>2. CASE c /\ b # <<>>
  <2>1. pop = TRUE /\ When(c, e) = <<e>>
    BY <1>2 DEF When
  <2>2. PICK d : b = <<d>>
    BY <1>2, ShortSeq
  <2> QED BY <1>2, <1>b, <2>1, <2>2
<1>3. CASE ~c /\ b = <<>>
  <2>1. pop = FALSE /\ When(c, e) = <<>>
    BY <1>3 DEF When
  <2> QED BY <1>3, <1>a, <2>1
<1>4. CASE ~c /\ b # <<>>
  <2>1. When(c, e) = <<>> /\ (pop = TRUE \/ pop = FALSE)
    BY <1>4 DEF When
  <2>2. PICK d : b = <<d>>
    BY <1>4, ShortSeq
  <2>3. b[1] = d
    BY <2>2
  <2>4. CASE pop = TRUE
    <3>1. BufNext(<<d>>, <<>>, TRUE, f) = <<>>
      BY <1>b
    <3>2. BufNext(b, When(c, e), pop, f) = <<>>
      BY <2>1, <2>2, <2>4, <3>1
    <3> QED BY <1>4, <2>4, <3>2
  <2>5. CASE pop = FALSE
    <3>1. BufNext(<<d>>, <<>>, FALSE, f) = <<CancelIf(f, d)>>
      BY <1>b
    <3>2. BufNext(b, When(c, e), pop, f) = <<CancelIf(f, b[1])>>
      BY <2>1, <2>2, <2>3, <2>5, <3>1
    <3> QED BY <1>4, <2>5, <3>2
  <2> QED BY <2>1, <2>4, <2>5
<1> QED BY <1>1, <1>2, <1>3, <1>4

\* It is again a register of at most one entry.
LEMMA AfterType ==
  ASSUME NEW R, NEW b \in Seq(R), Len(b) <= 1, NEW e, NEW c \in BOOLEAN, NEW pop \in BOOLEAN,
         NEW f, c => e \in R, \A x \in R : CancelIf(f, x) \in R
  PROVE  After(b, e, c, pop, f) \in Seq(R) /\ Len(After(b, e, c, pop, f)) <= 1
<1>1. \A x \in R : <<x>> \in Seq(R) /\ Len(<<x>>) = 1
  OBVIOUS
<1>2. <<>> \in Seq(R) /\ Len(<<>>) = 0
  OBVIOUS
<1>3. b # <<>> => b[1] \in R
  BY ShortSeq
<1> QED BY <1>1, <1>2, <1>3 DEF After

\* Two sequences one after the other, entry by entry.
LEMMA Joined ==
  ASSUME NEW R, NEW s \in Seq(R), NEW t \in Seq(R)
  PROVE  /\ s \o t \in Seq(R) /\ Len(s \o t) = Len(s) + Len(t)
         /\ \A i \in 1 .. Len(s) + Len(t) : (s \o t)[i] = IF i <= Len(s) THEN s[i] ELSE t[i - Len(s)]
  OBVIOUS
--------------------------------------------------------------------------
\* Numbers kept in two halves of w values each, for every w: the facts on
\* division that the provers do not find by themselves.

\* A product of naturals is a natural, and at least as large as each factor
\* that is multiplied by more than zero.
LEMMA Product ==
  ASSUME NEW a \in Nat, NEW b \in Nat
  PROVE  a * b \in Nat /\ (a >= 1 => a * b >= b)
<1>1. a * b \in Nat
  BY SMT
<1>2. ASSUME a >= 1 PROVE a * b >= b
  <2>1. (a - 1) * b \in Nat
    BY <1>2, SMT
  <2>2. a * b = (a - 1) * b + b
    BY SMT
  <2> QED BY <2>1, <2>2
<1> QED BY <1>1, <1>2

\* Division with remainder.
LEMMA DivMod ==
  ASSUME NEW w \in Nat \ {0}, NEW x \in Nat
  PROVE  /\ x \div w \in Nat /\ x % w \in 0 .. w - 1
         /\ x = (x \div w) * w + (x % w)
  BY SMT

\* The halves of a number that is put together from halves.
LEMMA Halves ==
  ASSUME NEW w \in Nat \ {0}, NEW h \in Nat, NEW l \in 0 .. w - 1
  PROVE  (h * w + l) \div w = h /\ (h * w + l) % w = l
<1> DEFINE x == h * w + l
           q == x \div w
           r == x % w
<1>1. x \in Nat
  BY Product
<1>2. q \in Nat /\ r \in 0 .. w - 1 /\ x = q * w + r
  BY <1>1, DivMod
<1> HIDE DEF q, r
<1>3. q = h
  <2>1. CASE q > h
    <3>1. (q - h) * w >= w
      BY <1>2, <2>1, Product
    <3>2. (q - h) * w = q * w - h * w
      BY <1>2, SMT
    <3> QED BY <3>1, <3>2, <1>2, Product
  <2>2. CASE h > q
    <3>1. (h - q) * w >= w
      BY <1>2, <2>2, Product
    <3>2. (h - q) * w = h * w - q * w
      BY <1>2, SMT
    <3> QED BY <3>1, <3>2, <1>2, Product
  <2> QED BY <1>2, <2>1, <2>2
<1>4. r = l
  BY <1>2, <1>3, Product
<1> QED BY <1>3, <1>4 DEF q, r

--------------------------------------------------------------------------
\* The reorder buffer.

\* Pointer arithmetic stays within the pointer and slot ranges.
LEMMA PtrArith ==
  ASSUME NEW p \in Ptr
  PROVE  /\ SlotOf(p) \in Slot
         /\ PtrInc(p) \in Ptr
         /\ SlotOf(PtrInc(p)) = IF SlotOf(p) = RobSize - 1 THEN 0 ELSE SlotOf(p) + 1
  BY RobSizeAssumption DEF Ptr, Slot, SlotOf, PtrInc

\* One cycle keeps the registers within their widths.
LEMMA RobStepType ==
  ASSUME RobTypeOK,
         NEW issue_wen \in BOOLEAN, NEW flush \in BOOLEAN, NEW wb,
         RobStep(issue_wen, wb, flush)
  PROVE  RobTypeOK'
  <1>1. PtrInc(rob_head_ptr) \in Ptr /\ PtrInc(rob_tail_ptr) \in Ptr
    BY PtrArith DEF RobTypeOK
  <1>2. \A i \in Slot : SlotNext(issue_wen, wb, flush, i) \in SlotState
    BY DEF RobTypeOK, SlotNext, SlotState
  <1> QED BY <1>1, <1>2 DEF RobTypeOK, RobStep, TailNext, HeadNext

\* Where the slots are: the head has age 0, the next free slot the age of the
\* count, and no other slot has the age of either.
LEMMA RobGeometry ==
  ASSUME RobTypeOK, RobWindow
  PROVE  /\ SlotOf(rob_head_ptr) \in Slot /\ SlotOf(rob_tail_ptr) \in Slot
         /\ RobCount \in 0 .. RobSize
         /\ \A i \in Slot : RobAge(i) \in 0 .. RobSize - 1
         /\ \A i \in Slot : RobAge(i) = 0 <=> i = SlotOf(rob_head_ptr)
         /\ rob_full <=> RobCount = RobSize
         /\ rob_empty <=> RobCount = 0
         /\ ~rob_full => \A i \in Slot : RobAge(i) = RobCount <=> i = SlotOf(rob_tail_ptr)
         /\ commit_ready => RobCount > 0
  <1> DEFINE h == rob_head_ptr
             t == rob_tail_ptr
  <1>1. h \in Ptr /\ t \in Ptr /\ SlotOf(h) \in Slot /\ SlotOf(t) \in Slot
    BY PtrArith DEF RobTypeOK
  <1>2. RobCount \in 0 .. RobSize
    BY <1>1, RobSizeAssumption DEF RobWindow, RobCount, Ptr
  <1>3. \A i \in Slot : RobAge(i) \in 0 .. RobSize - 1
    BY <1>1, RobSizeAssumption DEF RobAge, Slot
  <1>4. /\ \A i \in Slot : RobAge(i) = 0 <=> i = SlotOf(h)
        /\ rob_full <=> RobCount = RobSize
        /\ ~rob_full => \A i \in Slot : RobAge(i) = RobCount <=> i = SlotOf(t)
    BY <1>1, <1>2, RobSizeAssumption
       DEF RobCount, RobAge, Ptr, Slot, SlotOf, rob_full, RobWindow
  <1>5. rob_empty <=> RobCount = 0
    BY <1>1, RobSizeAssumption DEF RobCount, Ptr, rob_empty
  <1>6. commit_ready => RobCount > 0
    BY <1>1, <1>2, <1>4 DEF commit_ready, RobWindow, EMPTY_S, WRITEBACK_S
  <1> QED BY <1>1, <1>2, <1>3, <1>4, <1>5, <1>6

\* How one cycle without a flush moves the window: an allocation adds a slot
\* at its end, a commit makes every slot one younger.
LEMMA RobMoves ==
  ASSUME RobTypeOK, RobWindow,
         NEW issue_wen \in BOOLEAN, NEW wb \in SUBSET Slot,
         RobRely(issue_wen, wb, FALSE),
         RobStep(issue_wen, wb, FALSE)
  PROVE  /\ RobCount' = RobCount + (IF issue_wen THEN 1 ELSE 0) - (IF commit_ready THEN 1 ELSE 0)
         /\ \A i \in Slot : RobAge(i)' = IF commit_ready
                                         THEN IF RobAge(i) = 0 THEN RobSize - 1 ELSE RobAge(i) - 1
                                         ELSE RobAge(i)
         /\ \A i \in Slot : rob_state'[i] # EMPTY_S <=>
              \/ issue_wen /\ i = SlotOf(rob_tail_ptr)
              \/ rob_state[i] # EMPTY_S /\ ~(commit_ready /\ i = SlotOf(rob_head_ptr))
  <1> DEFINE h == rob_head_ptr
             t == rob_tail_ptr
  <1>1. h \in Ptr /\ t \in Ptr
    BY DEF RobTypeOK
  <1>2. /\ rob_head_ptr' = IF commit_ready THEN PtrInc(h) ELSE h
        /\ rob_tail_ptr' = IF issue_wen THEN PtrInc(t) ELSE t
    BY DEF RobStep, RobRely, HeadNext, TailNext
  <1>3. RobCount' = RobCount + (IF issue_wen THEN 1 ELSE 0) - (IF commit_ready THEN 1 ELSE 0)
    BY <1>1, <1>2, RobGeometry, RobSizeAssumption DEF RobRely, RobCount, PtrInc, Ptr
  <1>4. ASSUME NEW i \in Slot
        PROVE  RobAge(i)' = IF commit_ready
                            THEN IF RobAge(i) = 0 THEN RobSize - 1 ELSE RobAge(i) - 1
                            ELSE RobAge(i)
    BY <1>1, <1>2, RobGeometry, PtrArith, RobSizeAssumption DEF RobAge, Slot, SlotOf, PtrInc, Ptr
  <1>5. ASSUME NEW i \in Slot
        PROVE  rob_state'[i] # EMPTY_S <=>
                 \/ issue_wen /\ i = SlotOf(t)
                 \/ rob_state[i] # EMPTY_S /\ ~(commit_ready /\ i = SlotOf(h))
    <2>1. rob_state'[i] = SlotNext(issue_wen, wb, FALSE, i)
      BY DEF RobStep
    <2>2. i \in wb => rob_state[i] # EMPTY_S /\ ~(commit_ready /\ i = SlotOf(h))
      BY DEF RobRely, commit_ready, EMPTY_S, MAPPED_S, WRITEBACK_S
    <2> QED BY <2>1, <2>2 DEF SlotNext, EMPTY_S, MAPPED_S, WRITEBACK_S
  <1> QED BY <1>3, <1>4, <1>5

\* A flush empties the buffer.
LEMMA RobFlushed ==
  ASSUME RobTypeOK, NEW issue_wen \in BOOLEAN, NEW wb \in SUBSET Slot,
         RobRely(issue_wen, wb, TRUE), RobStep(issue_wen, wb, TRUE)
  PROVE  RobCount' = 0 /\ RobWindow'
  <1>1. RobTypeOK'
    BY RobStepType
  <1>2. rob_head_ptr' = PtrInc(rob_head_ptr) /\ rob_tail_ptr' = PtrInc(rob_head_ptr)
    BY DEF RobStep, RobRely, HeadNext, TailNext
  <1>3. RobCount' = 0
    BY <1>1, <1>2, RobSizeAssumption DEF RobCount, RobTypeOK, Ptr
  <1>4. ASSUME NEW i \in Slot
        PROVE  ~(RobAge(i)' < RobCount') /\ rob_state'[i] = EMPTY_S
    <2>1. SlotOf(rob_head_ptr)' \in Slot
      BY <1>1, <1>2, PtrArith DEF RobTypeOK
    <2>2. RobAge(i)' \in Nat
      BY <2>1, RobSizeAssumption DEF RobAge, Slot
    <2> QED BY <1>3, <2>2 DEF RobStep, SlotNext
  <1> QED BY <1>3, <1>4, RobSizeAssumption DEF RobWindow

\* One cycle under the rules the buffer relies on keeps the window.
LEMMA RobStepWindow ==
  ASSUME RobTypeOK, RobWindow,
         NEW issue_wen \in BOOLEAN, NEW flush \in BOOLEAN, NEW wb \in SUBSET Slot,
         RobRely(issue_wen, wb, flush),
         RobStep(issue_wen, wb, flush)
  PROVE  RobWindow'
  <1>1. CASE flush = TRUE
    BY <1>1, RobFlushed
  <1>2. CASE flush = FALSE
    <2>1. RobRely(issue_wen, wb, FALSE) /\ RobStep(issue_wen, wb, FALSE)
      BY <1>2
    <2>2. /\ RobCount' = RobCount + (IF issue_wen THEN 1 ELSE 0) - (IF commit_ready THEN 1 ELSE 0)
          /\ RobCount \in 0 .. RobSize
          /\ rob_full <=> RobCount = RobSize
          /\ issue_wen => ~rob_full
          /\ commit_ready => RobCount > 0
      BY <2>1, RobMoves, RobGeometry DEF RobRely
    <2>3. ASSUME NEW i \in Slot
          PROVE  rob_state'[i] # EMPTY_S <=> RobAge(i)' < RobCount'
      <3>1. rob_state[i] # EMPTY_S <=> RobAge(i) < RobCount
        BY DEF RobWindow
      <3>2. /\ RobAge(i) \in 0 .. RobSize - 1
            /\ i = SlotOf(rob_head_ptr) <=> RobAge(i) = 0
            /\ issue_wen => (i = SlotOf(rob_tail_ptr) <=> RobAge(i) = RobCount)
        BY <2>2, RobGeometry
      <3>3. /\ RobAge(i)' = IF commit_ready
                            THEN IF RobAge(i) = 0 THEN RobSize - 1 ELSE RobAge(i) - 1
                            ELSE RobAge(i)
            /\ rob_state'[i] # EMPTY_S <=>
                 \/ issue_wen /\ i = SlotOf(rob_tail_ptr)
                 \/ rob_state[i] # EMPTY_S /\ ~(commit_ready /\ i = SlotOf(rob_head_ptr))
        BY <2>1, RobMoves
      <3> QED BY <2>2, <3>1, <3>2, <3>3, RobSizeAssumption
    <2>4. RobCount' <= RobSize
      BY <2>2, RobSizeAssumption
    <2> QED BY <2>4, <2>3 DEF RobWindow
  <1> QED BY <1>1, <1>2

==========================================================================

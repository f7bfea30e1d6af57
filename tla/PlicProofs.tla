--------------------------- MODULE PlicProofs ---------------------------
(***************************************************************************)
(* The PLIC and HiCore_pipe, for every number of sources and every value   *)
(* of the other constants.                                                 *)
(*   - HiCore_pipe is the cancellable FIFO of one entry, for both values   *)
(*     of CUT_READY and every set of payloads; so are the responses of     *)
(*     the PLIC, which go through one.                                     *)
(*   - The comparator tree computes the best source: FirstBest says where  *)
(*     it is on one level, and UpTo follows it from the top to the leaves. *)
(*   - No source is claimed twice, from the invariant PlicInv: with        *)
(*     ClaimedOnce it says that the number on offer is current whenever a  *)
(*     claim can read it (IdCurrent).                                      *)
(***************************************************************************)
EXTENDS Plic, Lemmas, WellFoundedInduction
--------------------------------------------------------------------------
PipeTypeOK == vld_r \in BOOLEAN /\ o_dat \in Item /\ o_cancel \in BOOLEAN

\* The registers of HiCore_pipe keep their widths.
LEMMA PipeStepType == PipeTypeOK /\ [PipeNext]_pipe_vars => PipeTypeOK'
<1> SUFFICES ASSUME PipeTypeOK, [PipeNext]_pipe_vars
             PROVE  PipeTypeOK'
  OBVIOUS
<1>1. ASSUME NEW i_vld \in BOOLEAN, NEW i_cancel \in BOOLEAN, NEW o_rdy \in BOOLEAN,
             NEW branch \in BOOLEAN, NEW i_dat \in Item,
             PipeStep(i_vld, i_dat, i_cancel, o_rdy, branch)
      PROVE  PipeTypeOK'
  <2>1. vld_r' \in BOOLEAN
    BY <1>1, Zenon DEF PipeTypeOK, PipeStep, vld_nxt
  <2>2. o_dat' \in Item
    BY <1>1 DEF PipeTypeOK, PipeStep
  <2>3. o_cancel' \in BOOLEAN
    BY <1>1, Zenon DEF PipeTypeOK, PipeStep
  <2> QED
    BY <2>1, <2>2, <2>3 DEF PipeTypeOK
<1>2. CASE PipeNext
  BY <1>1, <1>2 DEF PipeNext
<1>3. CASE UNCHANGED pipe_vars
  BY <1>3 DEF PipeTypeOK, pipe_vars
<1> QED
  BY <1>2, <1>3

\* Marking an entry changes its cancel mark only.
LEMMA CancelIfRecord ==
  ASSUME NEW d \in Item, NEW c \in BOOLEAN, NEW flush \in BOOLEAN
  PROVE  CancelIf(flush, [dat |-> d, cancel |-> c]) = [dat |-> d, cancel |-> flush \/ c]
  BY DEF CancelIf

\* A clock edge of HiCore_pipe is a step of the FIFO.
LEMMA PipeStepRefines ==
  ASSUME PipeTypeOK,
         NEW i_vld \in BOOLEAN, NEW i_cancel \in BOOLEAN, NEW o_rdy \in BOOLEAN,
         NEW branch \in BOOLEAN, NEW i_dat \in Item,
         PipeStep(i_vld, i_dat, i_cancel, o_rdy, branch)
  PROVE  Fifo!FifoNext
<1> DEFINE set  == i_vld /\ i_rdy(o_rdy)
           new  == [dat |-> i_dat, cancel |-> i_cancel]
           old  == [dat |-> o_dat, cancel |-> o_cancel]
           push == When(set, new)
           R    == [dat : Item, cancel : BOOLEAN]
<1>0. PICK clr \in BOOLEAN : clr = (vld_r /\ o_rdy)
  BY Zenon
<1> DEFINE B == BufNext(Held, push, clr, branch)
<1>1. new \in R /\ old \in R
  BY DEF PipeTypeOK
<1>2. set \in BOOLEAN /\ clr \in BOOLEAN /\ (set => ~vld_r \/ clr)
  BY <1>0 DEF PipeTypeOK, i_rdy
<1>a. vld_r \in BOOLEAN /\ Held = When(vld_r, old)
  BY DEF PipeTypeOK, Held
<1>b. /\ vld_r' = IF set \/ clr THEN set \/ ~clr ELSE vld_r
      /\ o_dat' = IF set THEN i_dat ELSE o_dat
      /\ o_cancel' = IF branch THEN TRUE ELSE IF set THEN i_cancel ELSE o_cancel
      /\ put' = push /\ flushed' = branch /\ got' = When(clr, old)
      /\ clr => vld_r
  BY <1>0, Zenon DEF PipeStep, vld_nxt
<1>c. CancelIf(branch, new) = [dat |-> i_dat, cancel |-> branch \/ i_cancel]
      /\ CancelIf(branch, old) = [dat |-> o_dat, cancel |-> branch \/ o_cancel]
  BY CancelIfRecord DEF PipeTypeOK
<1> HIDE DEF set, new, old, R
<1>3. push \in Seq(R) /\ Held \in Seq(R) /\ Len(push) = (IF set THEN 1 ELSE 0)
      /\ Len(Held) = (IF vld_r THEN 1 ELSE 0)
  BY <1>1, <1>2, <1>a DEF When
<1>4. (set => push[1] = new) /\ (vld_r => Held[1] = old)
  BY <1>a, <1>2 DEF When
<1>5. clr => Len(Held) + Len(push) > 0
  BY <1>2, <1>3, <1>a, <1>b
<1> HIDE DEF push
<1>7. Held' = B
  <2> DEFINE m == KeptLen(Held, push, clr)
             first == KeptAt(Held, push, clr, 1)
  <2>1. B = [k \in 1 .. m |-> CancelIf(branch, KeptAt(Held, push, clr, k))]
    BY <1>2, <1>3, <1>5, BufNextEntries
  <2> HIDE DEF B
  <2>a. Held' = When(vld_r', [dat |-> o_dat', cancel |-> o_cancel'])
    BY DEF Held
  <2>2. CASE set
    <3>1. m = 1 /\ first = new
      BY <1>2, <1>3, <1>4, <1>a, <1>b, <2>2 DEF KeptLen, KeptAt
    <3>2. B = <<CancelIf(branch, new)>>
      BY <2>1, <3>1
    <3>3. vld_r' /\ o_dat' = i_dat /\ o_cancel' = (branch \/ i_cancel)
      BY <1>b, <2>2, Zenon
    <3> QED BY <1>c, <2>a, <3>2, <3>3 DEF When
  <2>3. CASE ~set /\ vld_r /\ ~clr
    <3>1. m = 1 /\ first = old
      BY <1>2, <1>3, <1>4, <2>3 DEF KeptLen, KeptAt
    <3>2. B = <<CancelIf(branch, old)>>
      BY <2>1, <3>1
    <3>3. vld_r' /\ o_dat' = o_dat /\ o_cancel' = (branch \/ o_cancel)
      BY <1>b, <2>3, Zenon DEF PipeTypeOK
    <3> QED BY <1>c, <2>a, <3>2, <3>3 DEF When
  <2>4. CASE ~set /\ ~(vld_r /\ ~clr)
    <3>1. m = 0
      BY <1>2, <1>3, <1>a, <1>b, <2>4 DEF KeptLen
    <3>2. B = <<>>
      BY <2>1, <3>1
    <3>3. ~vld_r'
      BY <1>a, <1>b, <2>4, Zenon
    <3> QED BY <2>a, <3>2, <3>3 DEF When
  <2> QED BY <2>2, <2>3, <2>4
<1>8. /\ clr => Held \o push # <<>> /\ got' = <<(Held \o push)[1]>>
      /\ (got' # <<>>) = clr
      /\ Held' = Fifo!BufNext(Held, push, clr, branch) /\ Len(Held') <= 1
  <2>1. clr => (Held \o push)[1] = old /\ Held \o push # <<>>
    <3>1. SUFFICES ASSUME clr PROVE (Held \o push)[1] = old /\ Held \o push # <<>>
      OBVIOUS
    <3>2. Len(Held) = 1 /\ Held[1] = old
      BY <1>3, <1>4, <1>b, <3>1
    <3>3. Len(Held \o push) > 0 /\ (Held \o push)[1] = Held[1]
      BY <1>2, <1>3, <3>2
    <3> QED BY <3>2, <3>3
  <2>2. got' = IF clr THEN <<(Held \o push)[1]>> ELSE <<>>
    BY <1>b, <2>1 DEF When
  <2>5. (got' # <<>>) = clr
    BY <1>2, <2>2
  <2>3. Len(Held') <= 1
    BY DEF Held, When
  <2>4. Fifo!BufNext(Held, push, clr, branch) = B
    BY DEF Fifo!BufNext, Fifo!CancelIf, BufNext, CancelIf
  <2> QED BY <1>7, <2>1, <2>2, <2>3, <2>4, <2>5
<1>9. push \in Fifo!OrNone(Fifo!Entry)
  BY <1>1, <1>2 DEF When, Fifo!OrNone, Fifo!Entry, push, R
<1> QED BY <1>b, <1>8, <1>9 DEF Fifo!FifoNext

(***************************************************************************)
(* HiCore_pipe loses, duplicates and reorders nothing, marks its entry and *)
(* the incoming one on a flush, and never forgets a mark.                  *)
(***************************************************************************)
THEOREM PipeImplementsFifo == PipeSpec => ImplementsFifo
<1>1. PipeInit => PipeTypeOK /\ Fifo!FifoInit
  BY Zenon DEF PipeInit, PipeTypeOK, Fifo!FifoInit, Held, When
<1>2. PipeTypeOK /\ [PipeNext]_pipe_vars => [Fifo!FifoNext]_(Fifo!fifo_vars)
  <2>1. ASSUME PipeTypeOK, PipeNext PROVE Fifo!FifoNext
    BY <2>1, PipeStepRefines DEF PipeNext
  <2>2. UNCHANGED pipe_vars => UNCHANGED Fifo!fifo_vars
    BY DEF pipe_vars, Held, When, Fifo!fifo_vars
  <2> QED BY <2>1, <2>2
<1> QED BY <1>1, <1>2, PipeStepType, PTL DEF PipeSpec, ImplementsFifo, Fifo!FifoSpec
--------------------------------------------------------------------------
\* A set of naturals that is not empty has a least element.
LEMMA Least ==
  ASSUME NEW T \in SUBSET Nat, T # {}
  PROVE  \E m \in T : \A y \in T : m <= y
<1>1. \E x \in T : \A y \in T : ~ (<<y, x>> \in OpToRel(<, Nat))
  BY NatLessThanWellFounded, WFMin
<1>2. PICK m \in T : \A y \in T : ~ (<<y, m>> \in OpToRel(<, Nat))
  BY <1>1
<1>3. \A y \in T : ~ (y < m)
  BY <1>2, Zenon DEF OpToRel
<1> QED BY <1>3

\* Induction over 0 .. n, for a set instead of a predicate.
LEMMA UpTo ==
  ASSUME NEW n \in Nat, NEW T, 0 \in T, \A k \in 0 .. n - 1 : k \in T => k + 1 \in T
  PROVE  \A k \in 0 .. n : k \in T
<1> DEFINE Bad == (0 .. n) \ T
<1> SUFFICES ASSUME Bad # {} PROVE FALSE
  OBVIOUS
<1>1. Bad \in SUBSET Nat
  OBVIOUS
<1> HIDE DEF Bad
<1>2. PICK m \in Bad : \A y \in Bad : m <= y
  BY <1>1, Least
<1>3. m \in 0 .. n /\ m \notin T
  BY DEF Bad
<1>4. m - 1 \in 0 .. n - 1 /\ m - 1 \notin Bad
  BY <1>2, <1>3
<1> QED BY <1>3, <1>4 DEF Bad

\* Width satisfies its recursive definition.
LEMMA WidthIs == Width = [l \in 0 .. TreeDepth |-> IF l = 0 THEN 1 ELSE 2 * Width[l - 1]]
<1> DEFINE Is(g, n) == g = [l \in 0 .. n |-> IF l = 0 THEN 1 ELSE 2 * g[l - 1]]
           Good == {n \in 0 .. TreeDepth : \E g : Is(g, n)}
<1>1. 0 \in Good
  <2>1. Is([l \in 0 .. 0 |-> 1], 0)
    OBVIOUS
  <2>2. \E g : Is(g, 0)
    BY <2>1, Zenon
  <2>3. 0 \in 0 .. TreeDepth
    BY PlicAssumption
  <2> HIDE DEF Is
  <2> QED BY <2>2, <2>3
<1>2. ASSUME NEW n \in 0 .. TreeDepth - 1, n \in Good PROVE n + 1 \in Good
  <2>1. PICK g : Is(g, n)
    BY <1>2
  <2> DEFINE h == [l \in 0 .. n + 1 |-> IF l = n + 1 THEN 2 * g[n] ELSE g[l]]
  <2>2. ASSUME NEW l \in 0 .. n + 1
        PROVE  h[l] = IF l = 0 THEN 1 ELSE 2 * h[l - 1]
    BY <2>1, PlicAssumption
  <2>3. Is(h, n + 1)
    BY <2>2
  <2>4. n + 1 \in 0 .. TreeDepth
    BY PlicAssumption
  <2> HIDE DEF Is, h
  <2> QED BY <2>3, <2>4
<1> HIDE DEF Good
<1>a. \A n \in 0 .. TreeDepth - 1 : n \in Good => n + 1 \in Good
  BY <1>2
<1>b. TreeDepth \in Nat /\ TreeDepth \in 0 .. TreeDepth
  BY PlicAssumption
<1>3. \A n \in 0 .. TreeDepth : n \in Good
  BY <1>1, <1>a, <1>b, UpTo
<1>4. \E g : Is(g, TreeDepth)
  BY <1>3, <1>b DEF Good
<1> QED BY <1>4, Zenon DEF Width

\* A level has twice as many nodes as the one above it.
LEMMA WidthDoubles ==
  /\ Width[0] = 1
  /\ \A l \in 0 .. TreeDepth : Width[l] \in Nat
  /\ \A l \in 0 .. TreeDepth - 1 : Width[l + 1] = 2 * Width[l]
<1>1. Width[0] = 1
  BY WidthIs, PlicAssumption
<1>2. \A l \in 0 .. TreeDepth - 1 : Width[l + 1] = 2 * Width[l]
  BY WidthIs, PlicAssumption
<1> DEFINE Good == {l \in 0 .. TreeDepth : Width[l] \in Nat}
<1>3. 0 \in Good
  BY <1>1, PlicAssumption
<1>4. \A l \in 0 .. TreeDepth - 1 : l \in Good => l + 1 \in Good
  BY <1>2, PlicAssumption
<1>5. \A l \in 0 .. TreeDepth : l \in Good
  <2> HIDE DEF Good
  <2> QED BY <1>3, <1>4, UpTo, PlicAssumption
<1> QED BY <1>1, <1>2, <1>5

\* A row of the tree, of the rows below it.
Row(g, l) == [i \in 0 .. Width[l] - 1 |->
               IF l = TreeDepth THEN Leaf(i) ELSE Winner(g[l + 1][2 * i], g[l + 1][2 * i + 1])]

\* The tree satisfies its recursive definition, level by level.
LEMMA LvlIs == lvl = [l \in 0 .. TreeDepth |-> Row(lvl, l)]
<1> DEFINE Is(g, n) == g = [l \in TreeDepth - n .. TreeDepth |-> Row(g, l)]
           Good == {n \in 0 .. TreeDepth : \E g : Is(g, n)}
<1>0. TreeDepth \in Nat /\ TreeDepth \in 0 .. TreeDepth /\ TreeDepth - TreeDepth = 0
  BY PlicAssumption
<1>1. 0 \in Good
  <2> DEFINE h == [l \in TreeDepth - 0 .. TreeDepth |-> Row(<<>>, l)]
  <2>1. ASSUME NEW l \in TreeDepth - 0 .. TreeDepth PROVE Row(<<>>, l) = Row(h, l)
    <3>1. l = TreeDepth
      BY <1>0
    <3> QED BY <3>1 DEF Row
  <2>2. Is(h, 0)
    BY <2>1
  <2>3. 0 \in 0 .. TreeDepth
    BY <1>0
  <2> HIDE DEF Is, h
  <2> QED BY <2>2, <2>3
<1>2. ASSUME NEW n \in 0 .. TreeDepth - 1, n \in Good PROVE n + 1 \in Good
  <2>1. PICK g : Is(g, n)
    BY <1>2
  <2> DEFINE h == [l \in TreeDepth - (n + 1) .. TreeDepth |->
                    IF l = TreeDepth - (n + 1) THEN Row(g, l) ELSE g[l]]
  <2>2. ASSUME NEW l \in TreeDepth - (n + 1) .. TreeDepth PROVE h[l] = Row(h, l)
    <3>a. l = TreeDepth - (n + 1) => h[l] = Row(g, l)
      OBVIOUS
    <3>b. ASSUME l # TreeDepth - (n + 1) PROVE h[l] = Row(g, l)
      <4>1. l \in TreeDepth - n .. TreeDepth
        BY <1>0, <3>b
      <4>2. g[l] = Row(g, l)
        BY <2>1, <4>1, Zenon
      <4> QED BY <3>b, <4>2
    <3>1. h[l] = Row(g, l)
      BY <3>a, <3>b
    <3>2. CASE l = TreeDepth
      BY <3>1, <3>2 DEF Row
    <3>3. CASE l # TreeDepth
      <4>1. h[l + 1] = g[l + 1]
        BY <1>0, <3>3
      <4> HIDE DEF h
      <4> QED BY <3>1, <4>1 DEF Row
    <3> QED BY <3>2, <3>3
  <2>3. Is(h, n + 1)
    BY <2>2
  <2>4. n + 1 \in 0 .. TreeDepth
    BY <1>0
  <2> HIDE DEF Is, h
  <2> QED BY <2>3, <2>4
<1> HIDE DEF Good
<1>a. \A n \in 0 .. TreeDepth - 1 : n \in Good => n + 1 \in Good
  BY <1>2
<1>3. \A n \in 0 .. TreeDepth : n \in Good
  BY <1>0, <1>1, <1>a, UpTo
<1>4. \E g : Is(g, TreeDepth)
  BY <1>0, <1>3 DEF Good
<1>5. \E g : g = [l \in 0 .. TreeDepth |-> Row(g, l)]
  BY <1>0, <1>4
<1> QED BY <1>5, Zenon DEF lvl, Row

\* The entries of the tree.
LEMMA LvlAt ==
  ASSUME NEW l \in 0 .. TreeDepth, NEW i \in 0 .. Width[l] - 1
  PROVE  lvl[l][i] = IF l = TreeDepth THEN Leaf(i)
                     ELSE Winner(lvl[l + 1][2 * i], lvl[l + 1][2 * i + 1])
<1>1. lvl[l] = Row(lvl, l)
  BY LvlIs, Zenon
<1> QED BY <1>1 DEF Row

\* The registers of sirv_plic_man keep their widths.
PlicTypeOK ==
  /\ plic_irq_i_r \in SUBSET Source /\ inFlight \in SUBSET Source
  /\ irq_pend_r \in SUBSET Source /\ irq_enab_r \in SUBSET Source
  /\ serving \in SUBSET Source
  /\ irq_prio_r \in [Source -> Prio] /\ irq_thod_r \in Prio
  /\ plic_irq_o \in BOOLEAN /\ plic_irq_id \in 0 .. PLIC_IRQ_NUM - 1
  /\ PipeTypeOK

\* What a leaf of the tree holds.
LEMMA LeafIs ==
  ASSUME PlicTypeOK, NEW i \in Nat
  PROVE  /\ Leaf(i).id = i /\ (Leaf(i).ip <=> i \in irq_pend_r \cap irq_enab_r)
         /\ Leaf(i).prio = IF i \in irq_pend_r \cap irq_enab_r THEN irq_prio_r[i] ELSE 0
         /\ Leaf(i).prio \in Nat
<1>1. /\ Leaf(i).id = i /\ (Leaf(i).ip <=> i \in irq_pend_r \cap irq_enab_r)
      /\ Leaf(i).prio = IF i \in irq_pend_r \cap irq_enab_r THEN irq_prio_r[i] ELSE 0
  BY Zenon DEF Leaf
<1>2. i \in irq_pend_r \cap irq_enab_r => irq_prio_r[i] \in Nat
  BY PlicAssumption DEF PlicTypeOK, Prio
<1> QED BY <1>1, <1>2

\* Every node of the tree carries a priority.
LEMMA NodePrio ==
  ASSUME PlicTypeOK, NEW l \in 0 .. TreeDepth, NEW i \in 0 .. Width[l] - 1
  PROVE  lvl[l][i].prio \in Nat
<1> DEFINE Good == {n \in 0 .. TreeDepth : \A k \in 0 .. Width[TreeDepth - n] - 1 :
                                             lvl[TreeDepth - n][k].prio \in Nat}
<1>0. TreeDepth \in Nat
  BY PlicAssumption
<1>1. 0 \in Good
  <2>1. TreeDepth - 0 = TreeDepth /\ TreeDepth \in 0 .. TreeDepth /\ 0 \in 0 .. TreeDepth
    BY <1>0
  <2>2. ASSUME NEW k \in 0 .. Width[TreeDepth] - 1 PROVE lvl[TreeDepth][k].prio \in Nat
    <3>1. lvl[TreeDepth][k] = Leaf(k) /\ k \in Nat
      BY <2>1, LvlAt, WidthDoubles
    <3> QED BY <3>1, LeafIs
  <2> QED BY <2>1, <2>2
<1>2. ASSUME NEW n \in 0 .. TreeDepth - 1, n \in Good PROVE n + 1 \in Good
  <2>1. PICK d \in 0 .. TreeDepth - 1 : d = TreeDepth - (n + 1)
    BY <1>0
  <2>2. TreeDepth - n = d + 1 /\ n + 1 \in 0 .. TreeDepth /\ d \in 0 .. TreeDepth /\ d # TreeDepth
    BY <1>0, <2>1
  <2>3. Width[d + 1] = 2 * Width[d] /\ Width[d] \in Nat
    BY <2>2, WidthDoubles
  <2>4. ASSUME NEW k \in 0 .. Width[d] - 1 PROVE lvl[d][k].prio \in Nat
    <3>1. 2 * k \in 0 .. Width[d + 1] - 1 /\ 2 * k + 1 \in 0 .. Width[d + 1] - 1
      BY <2>3
    <3>2. lvl[d + 1][2 * k].prio \in Nat /\ lvl[d + 1][2 * k + 1].prio \in Nat
      BY <1>2, <2>2, <3>1
    <3>3. lvl[d][k] = Winner(lvl[d + 1][2 * k], lvl[d + 1][2 * k + 1])
      BY <2>2, LvlAt
    <3> QED BY <3>2, <3>3 DEF Winner
  <2> QED BY <2>1, <2>2, <2>4
<1>a. \A n \in 0 .. TreeDepth - 1 : n \in Good => n + 1 \in Good
  BY <1>2
<1> HIDE DEF Good
<1>3. \A n \in 0 .. TreeDepth : n \in Good
  BY <1>0, <1>1, <1>a, UpTo
<1>4. TreeDepth - l \in 0 .. TreeDepth /\ TreeDepth - (TreeDepth - l) = l
  BY <1>0
<1> QED BY <1>3, <1>4 DEF Good

\* Node k of a level holds the outcome, and every other node of that level has
\* a lower priority or, at the same priority, a higher place.
FirstBest(l, k) ==
  /\ k \in 0 .. Width[l] - 1 /\ Top = lvl[l][k]
  /\ \A i \in 0 .. Width[l] - 1 : \/ lvl[l][i].prio < lvl[l][k].prio
                                  \/ lvl[l][i].prio = lvl[l][k].prio /\ k <= i

\* If one level has a first best node that holds the outcome, so has the next.
LEMMA FirstBestBelow ==
  ASSUME PlicTypeOK, NEW l \in 0 .. TreeDepth - 1, NEW k, FirstBest(l, k)
  PROVE  \E j : FirstBest(l + 1, j)
<1>0. l \in 0 .. TreeDepth /\ l + 1 \in 0 .. TreeDepth /\ l # TreeDepth
  BY PlicAssumption
<1>1. PICK w \in Nat : w = Width[l] /\ Width[l + 1] = 2 * w
  BY <1>0, WidthDoubles
<1>2. k \in 0 .. w - 1
  BY <1>1 DEF FirstBest
<1> DEFINE P(i) == lvl[l + 1][i].prio
<1>3. \A i \in 0 .. w - 1 : lvl[l][i] = Winner(lvl[l + 1][2 * i], lvl[l + 1][2 * i + 1])
  BY <1>0, <1>1, LvlAt
<1>4. \A i \in 0 .. 2 * w - 1 : P(i) \in Nat
  BY <1>0, <1>1, NodePrio
<1>5. PICK j \in {2 * k, 2 * k + 1} :
        /\ lvl[l][k] = lvl[l + 1][j]
        /\ \A i \in {2 * k, 2 * k + 1} : P(i) < P(j) \/ (P(i) = P(j) /\ j <= i)
  <2>1. lvl[l][k] = IF P(2 * k) < P(2 * k + 1) THEN lvl[l + 1][2 * k + 1] ELSE lvl[l + 1][2 * k]
    BY <1>2, <1>3 DEF Winner
  <2>2. P(2 * k) \in Nat /\ P(2 * k + 1) \in Nat
    BY <1>2, <1>4
  <2>3. CASE P(2 * k) < P(2 * k + 1)
    <3>1. lvl[l][k] = lvl[l + 1][2 * k + 1]
      BY <2>1, <2>3
    <3> HIDE DEF P
    <3> QED BY <1>2, <2>2, <2>3, <3>1
  <2>4. CASE ~ (P(2 * k) < P(2 * k + 1))
    <3>1. lvl[l][k] = lvl[l + 1][2 * k]
      BY <2>1, <2>4
    <3> HIDE DEF P
    <3> QED BY <1>2, <2>2, <2>4, <3>1
  <2> QED BY <2>3, <2>4
<1>6. ASSUME NEW i \in 0 .. 2 * w - 1 PROVE P(i) < P(j) \/ (P(i) = P(j) /\ j <= i)
  <2>1. PICK p \in 0 .. w - 1 : i = 2 * p \/ i = 2 * p + 1
    <3>1. i = 2 * (i \div 2) \/ i = 2 * (i \div 2) + 1
      OBVIOUS
    <3>2. i \div 2 \in 0 .. w - 1
      OBVIOUS
    <3> QED BY <3>1, <3>2
  <2>2. CASE p = k
    BY <1>5, <2>1, <2>2
  <2>3. CASE p # k
    <3>1. lvl[l][p].prio < lvl[l][k].prio \/ (lvl[l][p].prio = lvl[l][k].prio /\ k <= p)
      BY <1>1 DEF FirstBest
    <3>2. lvl[l][k].prio = P(j)
      BY <1>5
    <3>3. lvl[l][p] = IF P(2 * p) < P(2 * p + 1) THEN lvl[l + 1][2 * p + 1] ELSE lvl[l + 1][2 * p]
      BY <1>3 DEF Winner
    <3>4. lvl[l][p].prio = IF P(2 * p) < P(2 * p + 1) THEN P(2 * p + 1) ELSE P(2 * p)
      BY <3>3
    <3>5. P(2 * p) \in Nat /\ P(2 * p + 1) \in Nat /\ P(j) \in Nat
      BY <1>2, <1>4
    <3>6. P(i) = P(2 * p) \/ P(i) = P(2 * p + 1)
      BY <2>1
    <3>7. k < p => j <= i
      BY <1>2, <2>1
    <3> HIDE DEF P
    <3>8. P(i) <= lvl[l][p].prio /\ lvl[l][p].prio \in Nat /\ P(i) \in Nat
      BY <3>4, <3>5, <3>6
    <3> QED BY <1>2, <2>3, <3>1, <3>2, <3>5, <3>7, <3>8
  <2> QED BY <2>2, <2>3
<1>7. j \in 0 .. 2 * w - 1 /\ Top = lvl[l + 1][j]
  BY <1>2, <1>5 DEF FirstBest
<1>8. FirstBest(l + 1, j)
  BY <1>1, <1>6, <1>7 DEF FirstBest
<1> QED BY <1>8

\* The outcome of the tree is its first best leaf.
LEMMA TopIsLeaf ==
  ASSUME PlicTypeOK
  PROVE  \E k \in 0 .. Width[TreeDepth] - 1 :
           /\ Top = Leaf(k)
           /\ \A i \in 0 .. Width[TreeDepth] - 1 :
                Leaf(i).prio < Leaf(k).prio \/ (Leaf(i).prio = Leaf(k).prio /\ k <= i)
<1> DEFINE Good == {l \in 0 .. TreeDepth : \E k : FirstBest(l, k)}
<1>0. TreeDepth \in Nat /\ TreeDepth \in 0 .. TreeDepth /\ 0 \in 0 .. TreeDepth
  BY PlicAssumption
<1>1. 0 \in Good
  <2>1. FirstBest(0, 0)
    <3>1. \A i \in 0 .. Width[0] - 1 : i = 0
      BY WidthDoubles
    <3>2. 0 \in 0 .. Width[0] - 1
      BY WidthDoubles
    <3> QED BY <3>1, <3>2 DEF FirstBest, Top
  <2> QED BY <1>0, <2>1
<1>2. \A l \in 0 .. TreeDepth - 1 : l \in Good => l + 1 \in Good
  <2> TAKE l \in 0 .. TreeDepth - 1
  <2> HAVE l \in Good
  <2>1. PICK k : FirstBest(l, k)
    OBVIOUS
  <2>2. \E j : FirstBest(l + 1, j)
    BY <2>1, FirstBestBelow
  <2>3. l + 1 \in 0 .. TreeDepth
    BY <1>0
  <2> QED BY <2>2, <2>3
<1>3. \A l \in 0 .. TreeDepth : l \in Good
  <2> HIDE DEF Good
  <2> QED BY <1>0, <1>1, <1>2, UpTo
<1>4. PICK k : FirstBest(TreeDepth, k)
  BY <1>0, <1>3
<1>5. \A i \in 0 .. Width[TreeDepth] - 1 : lvl[TreeDepth][i] = Leaf(i)
  BY <1>0, LvlAt
<1>6. k \in 0 .. Width[TreeDepth] - 1
  BY <1>4 DEF FirstBest
<1> QED BY <1>4, <1>5, <1>6 DEF FirstBest

\* The tree picks the best source in every state of the right type.
LEMMA TreeIsRight == PlicTypeOK => TreePicksBest
<1> SUFFICES ASSUME PlicTypeOK PROVE TreePicksBest
  OBVIOUS
<1> DEFINE Claimable == {i \in irq_pend_r \cap irq_enab_r : irq_prio_r[i] > 0}
           Before(i, j) == \/ irq_prio_r[i] > irq_prio_r[j]
                           \/ irq_prio_r[i] = irq_prio_r[j] /\ i <= j
<1>1. PICK k \in 0 .. Width[TreeDepth] - 1 :
        /\ Top = Leaf(k)
        /\ \A i \in 0 .. Width[TreeDepth] - 1 :
             Leaf(i).prio < Leaf(k).prio \/ (Leaf(i).prio = Leaf(k).prio /\ k <= i)
  BY TopIsLeaf
<1>2. Width[TreeDepth] \in Nat /\ \A i \in Source : i \in 0 .. Width[TreeDepth] - 1
  BY WidthDoubles, PlicAssumption DEF Source
<1>3. irq_id = k /\ (irq_o => k \in irq_pend_r \cap irq_enab_r /\ Leaf(k).prio > 0)
  BY <1>1, <1>2, LeafIs, PlicAssumption DEF irq_id, irq_o, PlicTypeOK, Prio
<1>4. ASSUME NEW j \in Claimable
      PROVE  j \in Source /\ Leaf(j).prio = irq_prio_r[j] /\ irq_prio_r[j] \in Nat \ {0}
  <2>1. j \in Source /\ j \in irq_pend_r \cap irq_enab_r /\ irq_prio_r[j] > 0
    BY DEF PlicTypeOK
  <2>2. j \in Nat
    BY <2>1 DEF Source
  <2> QED BY <2>1, <2>2, LeafIs
<1>5. Leaf(k).prio \in Nat /\ (Leaf(k).prio > 0 => k \in Claimable /\ Leaf(k).prio = irq_prio_r[k])
  BY <1>1, <1>2, LeafIs
<1>6. CASE Claimable = {}
  <2>1. Leaf(k).prio = 0 /\ ~irq_o
    BY <1>3, <1>5, <1>6
  <2>2. 0 \in 0 .. Width[TreeDepth] - 1 /\ Leaf(0).prio \in Nat
    BY <1>1, <1>2, LeafIs
  <2>3. k = 0
    BY <1>1, <1>2, <2>1, <2>2
  <2> QED BY <1>3, <1>6, <2>1, <2>3 DEF TreePicksBest
<1>7. CASE Claimable # {}
  <2>1. PICK j \in Claimable : TRUE
    BY <1>7
  <2>2. Leaf(k).prio > 0
    BY <1>1, <1>2, <1>4, <1>5
  <2>3. k \in Claimable /\ Leaf(k).prio = irq_prio_r[k]
    BY <1>5, <2>2
  <2>4. ASSUME NEW i \in Claimable PROVE Before(k, i)
    BY <1>1, <1>2, <1>4, <2>3
  <2> QED BY <1>3, <1>7, <2>3, <2>4 DEF TreePicksBest
<1> QED BY <1>6, <1>7

\* The number the tree puts out is zero or that of a pending, enabled source.
LEMMA TreeNumber ==
  ASSUME PlicTypeOK
  PROVE  /\ irq_id = 0 \/ irq_id \in irq_pend_r \cap irq_enab_r
         /\ irq_id \in 0 .. PLIC_IRQ_NUM - 1 /\ irq_o \in BOOLEAN
<1>1. irq_id = 0 \/ irq_id \in irq_pend_r \cap irq_enab_r
  BY TreeIsRight DEF TreePicksBest
<1>2. irq_o \in BOOLEAN
  <2>1. PICK k \in 0 .. Width[TreeDepth] - 1 : Top = Leaf(k)
    BY TopIsLeaf
  <2>2. Leaf(k).ip \in BOOLEAN
    BY Zenon DEF Leaf
  <2> QED BY <2>1, <2>2 DEF irq_o
<1>3. irq_id \in 0 .. PLIC_IRQ_NUM - 1
  <2>1. irq_id = 0 \/ irq_id \in Source
    BY <1>1 DEF PlicTypeOK
  <2>2. 0 \in 0 .. PLIC_IRQ_NUM - 1 /\ Source \subseteq 0 .. PLIC_IRQ_NUM - 1
    BY PlicAssumption DEF Source
  <2> QED BY <2>1, <2>2, Zenon
<1> QED BY <1>1, <1>2, <1>3, Zenon
--------------------------------------------------------------------------
\* The registered number is that of a source still pending and enabled,
\* unless the response to the last command still waits: then no claim is taken.
IdCurrent == ~vld_r /\ plic_irq_id # 0 => plic_irq_id \in irq_pend_r \cap irq_enab_r

\* The inductive invariant of the interrupt controller.
PlicInv == PlicTypeOK /\ ClaimedOnce /\ IdCurrent

\* What a command does: it is taken when no response waits; a claim takes a
\* source that is pending and enabled, a completion ends one that is served.
LEMMA CommandEffect ==
  ASSUME PlicInv, NEW o_rdy \in BOOLEAN, NEW cmd \in Offered(o_rdy)
  PROVE  /\ hsked(cmd, o_rdy) => ~vld_r /\ cmd # <<>>
         /\ (cmd # <<>>) /\ i_rdy(o_rdy) <=> hsked(cmd, o_rdy)
         /\ rsp_rdata(cmd) \in Item
         /\ icb_claim_irq(cmd, o_rdy) \subseteq irq_pend_r \cap irq_enab_r
         /\ icb_claim_irq(cmd, o_rdy) # {} =>
              /\ hsked(cmd, o_rdy) /\ icb_claim_irq(cmd, o_rdy) = {rsp_rdata(cmd)}
              /\ icb_complete_irq(cmd, o_rdy) = {}
         /\ icb_complete_irq(cmd, o_rdy) \subseteq serving
         /\ icb_complete_irq(cmd, o_rdy) # {} => hsked(cmd, o_rdy)
<1>1. (hsked(cmd, o_rdy) => ~vld_r /\ cmd # <<>>)
      /\ ((cmd # <<>>) /\ i_rdy(o_rdy) <=> hsked(cmd, o_rdy))
  BY PlicAssumption DEF hsked, i_rdy
<1>2. rsp_rdata(cmd) \in Item
  BY PlicAssumption DEF rsp_rdata, PlicInv, PlicTypeOK
<1>3. CASE ~hsked(cmd, o_rdy)
  BY <1>1, <1>2, <1>3 DEF icb_claim_irq, icb_complete_irq, Does
<1>4. CASE hsked(cmd, o_rdy)
  <2>1. PICK c \in PlicCommands : cmd = <<c>> /\ MayIssue(c)
    BY <1>1, <1>4 DEF Offered
  <2>2. cmd[1] = c /\ cmd # <<>>
    BY <2>1
  <2>3. CASE c.op = "claim"
    <3>1. icb_complete_irq(cmd, o_rdy) = {}
      BY <2>2, <2>3 DEF icb_complete_irq, Does
    <3>2. rsp_rdata(cmd) = plic_irq_id
      BY <2>2, <2>3 DEF rsp_rdata
    <3>3. icb_claim_irq(cmd, o_rdy) = {plic_irq_id} \ {0}
      BY <1>4, <2>2, <2>3, <3>2 DEF icb_claim_irq, Does
    <3>4. plic_irq_id # 0 => plic_irq_id \in irq_pend_r \cap irq_enab_r
      BY <1>1, <1>4 DEF PlicInv, IdCurrent
    <3> QED BY <1>1, <1>2, <1>4, <3>1, <3>2, <3>3, <3>4
  <2>4. CASE c.op # "claim"
    <3>1. icb_claim_irq(cmd, o_rdy) = {}
      BY <2>2, <2>4 DEF icb_claim_irq, Does
    <3>2. icb_complete_irq(cmd, o_rdy) \subseteq serving
      BY <2>1, <2>2 DEF icb_complete_irq, Does, MayIssue
    <3> QED BY <1>1, <1>2, <1>4, <3>1, <3>2
  <2> QED BY <2>3, <2>4
<1> QED BY <1>3, <1>4

\* The registers that only the bus writes keep their widths, and a cycle in
\* which no command is taken leaves them alone.
LEMMA WrittenRegisters ==
  ASSUME PlicInv, NEW plic_irq_i \in SUBSET Source, NEW o_rdy \in BOOLEAN,
         NEW cmd \in Offered(o_rdy), PlicStep(plic_irq_i, cmd, o_rdy)
  PROVE  /\ irq_enab_r' \in SUBSET Source /\ irq_prio_r' \in [Source -> Prio]
         /\ irq_thod_r' \in Prio
         /\ ~hsked(cmd, o_rdy) => irq_enab_r' = irq_enab_r
<1>1. CASE ~hsked(cmd, o_rdy)
  BY <1>1 DEF PlicStep, Does, PlicInv, PlicTypeOK
<1>2. CASE hsked(cmd, o_rdy)
  <2>1. PICK c \in PlicCommands : cmd = <<c>>
    BY <1>2, CommandEffect DEF Offered
  <2>2. cmd[1] = c
    BY <2>1
  <2>3. irq_enab_r' \in SUBSET Source
    <3>1. c.op = "enable" => c.set \in SUBSET Source
      BY DEF PlicCommands
    <3> QED BY <2>2, <3>1 DEF PlicStep, Does, PlicInv, PlicTypeOK
  <2>4. irq_prio_r' \in [Source -> Prio]
    <3>1. c.op = "priority" => c.id \in Source /\ c.val \in Prio
      BY DEF PlicCommands
    <3> QED BY <2>2, <3>1 DEF PlicStep, Does, PlicInv, PlicTypeOK
  <2>5. irq_thod_r' \in Prio
    <3>1. c.op = "threshold" => c.val \in Prio
      BY DEF PlicCommands
    <3> QED BY <2>2, <3>1 DEF PlicStep, Does, PlicInv, PlicTypeOK
  <2> QED BY <1>2, <2>3, <2>4, <2>5
<1> QED BY <1>1, <1>2

\* The source in the response that enters the register, if there is one.
Answer == {put'[k].dat : k \in DOMAIN put'} \ {0}

\* A clock edge keeps the invariant, and moves sources from pending to served
\* only by a claim.
LEMMA PlicStepKept ==
  ASSUME PlicInv, NEW plic_irq_i \in SUBSET Source, NEW o_rdy \in BOOLEAN,
         NEW cmd \in Offered(o_rdy), PlicStep(plic_irq_i, cmd, o_rdy)
  PROVE  /\ PlicInv'
         /\ Answer \subseteq irq_pend_r \cap irq_enab_r
         /\ irq_pend_r \ irq_pend_r' = Answer /\ serving' \ serving = Answer
<1>1. PICK claim, complete :
        claim = icb_claim_irq(cmd, o_rdy) /\ complete = icb_complete_irq(cmd, o_rdy)
  OBVIOUS
<1>2. /\ claim \subseteq irq_pend_r \cap irq_enab_r
      /\ claim # {} => hsked(cmd, o_rdy) /\ claim = {rsp_rdata(cmd)} /\ complete = {}
      /\ complete \subseteq serving
      /\ complete # {} => hsked(cmd, o_rdy)
      /\ rsp_rdata(cmd) \in Item
  BY <1>1, CommandEffect
<1>3. /\ irq_pend_r \cap serving = {} /\ inFlight = irq_pend_r \cup serving
      /\ plic_irq_i_r \subseteq Source /\ irq_pend_r \subseteq Source /\ serving \subseteq Source
      /\ irq_enab_r \subseteq Source /\ inFlight \subseteq Source
  BY DEF PlicInv, PlicTypeOK, ClaimedOnce
<1>4. /\ inFlight' = (inFlight \cup (plic_irq_i_r \cap (Source \ irq_pend_r))) \ complete
      /\ irq_pend_r' = (irq_pend_r \ claim) \cup ((plic_irq_i_r \ inFlight) \cap (Source \ irq_pend_r))
      /\ serving' = (serving \cup claim) \ complete
      /\ plic_irq_i_r' = plic_irq_i /\ plic_irq_o' = irq_o /\ plic_irq_id' = irq_id
  BY <1>1 DEF PlicStep, irq_pend_set, irq_i_gated_valid, irq_i_gated_ready
<1>5. PICK set \in BOOLEAN : set <=> hsked(cmd, o_rdy)
  BY Zenon
<1>6. /\ o_dat' = IF set THEN rsp_rdata(cmd) ELSE o_dat
      /\ (set => vld_r') /\ (set => ~vld_r)
      /\ PipeTypeOK'
  <2>1. PipeStep(cmd # <<>>, rsp_rdata(cmd), FALSE, o_rdy, FALSE)
    BY Zenon DEF PlicStep
  <2>2. (cmd # <<>>) /\ i_rdy(o_rdy) <=> set
    BY <1>5, CommandEffect
  <2>3. o_dat' = IF set THEN rsp_rdata(cmd) ELSE o_dat
    BY <2>1, <2>2 DEF PipeStep
  <2>4. vld_r' = IF set \/ (vld_r /\ o_rdy) THEN set \/ ~(vld_r /\ o_rdy) ELSE vld_r
    BY <2>1, <2>2 DEF PipeStep, vld_nxt
  <2>5. o_cancel' = IF set THEN FALSE ELSE o_cancel
    BY <2>1, <2>2, Zenon DEF PipeStep
  <2>6. vld_r \in BOOLEAN /\ o_dat \in Item /\ o_cancel \in BOOLEAN
    BY DEF PlicInv, PlicTypeOK, PipeTypeOK
  <2>7. PipeTypeOK'
    BY <1>2, <2>3, <2>4, <2>5, <2>6, Zenon DEF PipeTypeOK
  <2>8. (set => vld_r') /\ (set => ~vld_r)
    BY <1>5, <2>4, CommandEffect
  <2> QED BY <2>3, <2>7, <2>8
<1>7. PlicTypeOK'
  <2>1. irq_enab_r' \in SUBSET Source /\ irq_prio_r' \in [Source -> Prio] /\ irq_thod_r' \in Prio
    BY WrittenRegisters
  <2>2. inFlight' \in SUBSET Source /\ irq_pend_r' \in SUBSET Source /\ serving' \in SUBSET Source
    BY <1>2, <1>3, <1>4
  <2>3. plic_irq_o' \in BOOLEAN /\ plic_irq_id' \in 0 .. PLIC_IRQ_NUM - 1
    BY <1>4, TreeNumber, Zenon DEF PlicInv
  <2> QED BY <1>4, <1>6, <2>1, <2>2, <2>3 DEF PlicTypeOK
<1>8. ClaimedOnce'
  <2>1. irq_pend_r' \cap serving' = {}
    BY <1>2, <1>3, <1>4
  <2>2. inFlight' = irq_pend_r' \cup serving'
    BY <1>2, <1>3, <1>4
  <2> QED BY <2>1, <2>2 DEF ClaimedOnce
<1>9. IdCurrent'
  <2>1. SUFFICES ASSUME ~vld_r', irq_id # 0 PROVE irq_id \in irq_pend_r' \cap irq_enab_r'
    BY <1>4 DEF IdCurrent
  <2>2. ~set /\ claim = {}
    BY <1>2, <1>5, <1>6, <2>1
  <2>3. irq_enab_r' = irq_enab_r
    BY <1>5, <2>2, WrittenRegisters
  <2> QED BY <1>4, <2>1, <2>2, <2>3, TreeNumber DEF PlicInv
<1>10. serving' \ serving = claim
  BY <1>2, <1>3, <1>4
<1>11. irq_pend_r \ irq_pend_r' = claim
  BY <1>2, <1>3, <1>4
<1>12. Answer = claim
  <2>1. put' = When(hsked(cmd, o_rdy), [dat |-> rsp_rdata(cmd), cancel |-> FALSE])
    BY DEF PlicStep, PipeStep, hsked
  <2>2. CASE ~hsked(cmd, o_rdy)
    BY <1>2, <2>1, <2>2 DEF When, Answer
  <2>3. CASE hsked(cmd, o_rdy)
    <3>1. put' = <<[dat |-> rsp_rdata(cmd), cancel |-> FALSE]>>
      BY <2>1, <2>3 DEF When
    <3>2. Answer = {rsp_rdata(cmd)} \ {0}
      BY <3>1 DEF Answer
    <3>3. claim = {rsp_rdata(cmd)} \ {0}
      BY <1>1, <2>3 DEF icb_claim_irq, Does, rsp_rdata, hsked
    <3> QED BY <3>2, <3>3
  <2> QED BY <2>2, <2>3
<1> QED BY <1>2, <1>7, <1>8, <1>9, <1>10, <1>11, <1>12 DEF PlicInv

\* The invariant holds in every reachable state.
LEMMA AlwaysPlicInv == PlicSpec => []PlicInv
<1>1. PlicInit => PlicInv
  <2> SUFFICES ASSUME PlicInit PROVE PlicInv
    OBVIOUS
  <2>1. PlicTypeOK
    <3>1. 0 \in Prio /\ 0 \in 0 .. PLIC_IRQ_NUM - 1
      BY PlicAssumption DEF Prio
    <3>2. PipeTypeOK
      BY Zenon DEF PlicInit, PipeInit, PipeTypeOK
    <3>3. irq_prio_r \in [Source -> Prio]
      BY <3>1 DEF PlicInit
    <3> QED BY <3>1, <3>2, <3>3, Zenon DEF PlicInit, PlicTypeOK
  <2>2. ClaimedOnce /\ IdCurrent
    BY DEF PlicInit, ClaimedOnce, IdCurrent
  <2> QED BY <2>1, <2>2 DEF PlicInv
<1>2. PlicInv /\ [PlicNext]_plic_vars => PlicInv'
  <2>1. ASSUME PlicInv, PlicNext PROVE PlicInv'
    BY <2>1, PlicStepKept DEF PlicNext, Readies
  <2>2. ASSUME PlicInv, UNCHANGED plic_vars PROVE PlicInv'
    BY <2>2 DEF plic_vars, pipe_vars, PlicInv, PlicTypeOK, PipeTypeOK, ClaimedOnce, IdCurrent
  <2> QED BY <2>1, <2>2
<1> QED BY <1>1, <1>2, PTL DEF PlicSpec

(***************************************************************************)
(* For any number of sources, any priorities and any depth of the tree:    *)
(* an interrupt is claimed once, whatever the order of line changes,       *)
(* claims and completions.                                                 *)
(***************************************************************************)
THEOREM PlicClaimsOnce == PlicSpec => []ClaimedOnce
  BY AlwaysPlicInv, PTL DEF PlicInv

(***************************************************************************)
(* The comparison tree picks the pending and enabled source of highest     *)
(* priority, the lowest number first, and none of priority zero, for any   *)
(* depth of the tree.                                                      *)
(***************************************************************************)
THEOREM PlicPicksBest == PlicSpec => []TreePicksBest
<1>1. PlicInv => TreePicksBest
  BY TreeIsRight DEF PlicInv
<1> QED BY <1>1, AlwaysPlicInv, PTL

(***************************************************************************)
(* A claim is never answered with a number that is out of date, although   *)
(* the number was registered in an earlier cycle: its source is pending,   *)
(* enabled and served by nobody.  And no other source stops being pending. *)
(***************************************************************************)
THEOREM PlicClaimsAreCurrent == PlicSpec => ClaimsAreCurrent
<1> DEFINE A == /\ Answer \subseteq irq_pend_r \cap irq_enab_r
                /\ irq_pend_r \ irq_pend_r' = Answer
                /\ serving' \ serving = Answer
<1>1. PlicInv /\ [PlicNext]_plic_vars => [A]_plic_vars
  <2>1. ASSUME PlicInv, PlicNext PROVE A
    BY <2>1, PlicStepKept DEF PlicNext, Readies
  <2> QED BY <2>1
<1> QED BY <1>1, AlwaysPlicInv, PTL DEF PlicSpec, ClaimsAreCurrent, Answer

(***************************************************************************)
(* The responses of the interrupt controller pass through HiCore_pipe as   *)
(* its protocol demands, so none is lost, duplicated or reordered.         *)
(***************************************************************************)
THEOREM PlicResponses == PlicSpec => ImplementsFifo
<1>1. PlicInit => PipeInit
  BY PlicAssumption DEF PlicInit
<1>2. PlicInv /\ [PlicNext]_plic_vars => [PipeNext]_pipe_vars
  <2>1. ASSUME PlicInv, PlicNext PROVE PipeNext
    <3>1. PICK plic_irq_i \in SUBSET Source, o_rdy \in BOOLEAN :
            \E cmd \in Offered(o_rdy) : PlicStep(plic_irq_i, cmd, o_rdy)
      BY <2>1 DEF PlicNext, Readies
    <3>6. PICK cmd \in Offered(o_rdy) : PlicStep(plic_irq_i, cmd, o_rdy)
      BY <3>1
    <3>2. rsp_rdata(cmd) \in Item
      BY <2>1, CommandEffect
    <3>3. PICK i_vld \in BOOLEAN : i_vld <=> cmd # <<>>
      BY Zenon
    <3>4. PipeStep(i_vld, rsp_rdata(cmd), FALSE, o_rdy, FALSE)
      BY <3>3, <3>6, Zenon DEF PlicStep, PipeStep
    <3>5. PICK no \in BOOLEAN : no = FALSE
      BY Zenon
    <3> QED BY <3>2, <3>4, <3>5, Zenon DEF PipeNext
  <2>2. UNCHANGED plic_vars => UNCHANGED pipe_vars
    BY DEF plic_vars
  <2> QED BY <2>1, <2>2
<1> QED BY <1>1, <1>2, AlwaysPlicInv, PipeImplementsFifo, PTL DEF PlicSpec, PipeSpec
==========================================================================

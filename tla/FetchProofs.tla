--------------------------- MODULE FetchProofs ---------------------------
(***************************************************************************)
(* The fetch unit, for every address space and every depth of the buffers. *)
(*   - Fetches and loads share the ITCM without mixing up words, from      *)
(*     the invariant FetchInv: AnswersBelong with the shapes of the        *)
(*     registers it speaks of.  What the buffer before decode holds does   *)
(*     not matter, only that the queue of the fetch unit and the ITCM see  *)
(*     the same if2de_ready.                                               *)
(*   - The registers keep their types (Typed).                             *)
(*   - What decode takes is in program order (Ordered), as long as no      *)
(*     exception is followed by a word that could overtake it              *)
(*     (RejoinsLate).  Ordered ties each place of the path, the buffer,    *)
(*     the queue, the exception pipe and pc, to the one behind it;         *)
(*     StreamOrder alone does not say where the next word comes from.      *)
(***************************************************************************)
EXTENDS Fetch, Lemmas

\* Buffers of at most one entry.
LEMMA ShortBufs ==
  ASSUME NEW e, NEW d, NEW f
  PROVE  /\ BufNext(<<>>, <<>>, FALSE, f) = <<>>
         /\ BufNext(<<d>>, <<>>, FALSE, f) = <<CancelIf(f, d)>>
         /\ BufNext(<<d>>, <<>>, TRUE, f) = <<>>
         /\ BufNext(<<>>, <<e>>, FALSE, f) = <<CancelIf(f, e)>>
         /\ BufNext(<<d>>, <<e>>, TRUE, f) = <<CancelIf(f, e)>>
<1>1. BufNext(<<>>, <<>>, FALSE, f) = <<>>
  BY DEF BufNext
<1>2. BufNext(<<d>>, <<>>, FALSE, f) = <<CancelIf(f, d)>>
  BY DEF BufNext
<1>3. BufNext(<<d>>, <<>>, TRUE, f) = <<>>
  BY DEF BufNext
<1>4. BufNext(<<>>, <<e>>, FALSE, f) = <<CancelIf(f, e)>>
  BY DEF BufNext
<1>5. BufNext(<<d>>, <<e>>, TRUE, f) = <<CancelIf(f, e)>>
  BY DEF BufNext
<1> QED BY <1>1, <1>2, <1>3, <1>4, <1>5, Zenon

\* A fetch in mem_queue.
IsFetch(e) == DOMAIN e = {"pc", "cancel"} /\ e.cancel \in BOOLEAN

FetchInv ==
  /\ itcm_vld \in BOOLEAN
  /\ arbt_queue \in {<<>>, <<"lsu">>, <<"if">>}
  /\ mem_queue = <<>> \/ (mem_queue = <<mem_queue[1]>> /\ IsFetch(mem_queue[1]))
  /\ lsu_cmd \in {"none", "read", "write"} /\ lsu_wait \in {"none", "read", "write"}
  /\ AnswersBelong

\* Forgetting keeps the cancel marks, and all of what is not cancelled.
LEMMA ForgetShort ==
  /\ Forget(<<>>) = <<>>
  /\ \A e : IsFetch(e) => \E d : /\ Forget(<<e>>) = <<d>> /\ IsFetch(d)
                                 /\ d.cancel = e.cancel /\ (~e.cancel => d = e)
<1>1. Forget(<<>>) = <<>>
  BY DEF Forget
<1>2. ASSUME NEW e, IsFetch(e)
      PROVE  \E d : /\ Forget(<<e>>) = <<d>> /\ IsFetch(d)
                    /\ d.cancel = e.cancel /\ (~e.cancel => d = e)
  <2> DEFINE g == [f \in DOMAIN e |-> IF f \in {"cancel", "excp"} THEN e[f] ELSE NoPc]
             d == IF KeepCancelled \/ ~e.cancel THEN e ELSE g
  <2>1. Forget(<<e>>) = [k \in 1 .. 1 |-> d]
    BY DEF Forget
  <2>2. Forget(<<e>>) = <<d>>
    BY <2>1
  <2>3. IsFetch(g) /\ g.cancel = e.cancel
    BY <1>2 DEF IsFetch
  <2> HIDE DEF g
  <2>4. IsFetch(d) /\ d.cancel = e.cancel /\ (~e.cancel => d = e)
    BY <1>2, <2>3
  <2> QED BY <2>2, <2>4
<1> QED BY <1>1, <1>2
\* The arbiter's queue of at most one port.
LEMMA ShortPorts ==
  ASSUME NEW q \in {<<>>, <<"lsu">>, <<"if">>}
  PROVE  /\ Len(q) \in {0, 1}
         /\ Len(q) = 0 <=> q = <<>>
         /\ Len(q) = 1 => Tail(q) = <<>>
         /\ q \o <<>> = q
<1>1. CASE q = <<>>
  BY <1>1
<1>2. ASSUME NEW a, q = <<a>>
      PROVE  Len(q) = 1 /\ q # <<>> /\ Tail(q) = <<>> /\ q \o <<>> = q
  <2>1. Len(q) = 1
    BY <1>2
  <2>2. q # <<>>
    BY <1>2
  <2>3. Tail(q) = <<>>
    BY <1>2
  <2>4. <<a>> \o <<>> = <<a>>
    OBVIOUS
  <2> QED BY <1>2, <2>1, <2>2, <2>3, <2>4
<1> QED BY <1>1, <1>2

\* Who goes first, and what of the response register and its queue is taken.
LEMMA ItcmCycle ==
  ASSUME FetchInv, NEW in, FetchTick(in)
  PROVE  /\ mem_push(in) <=> if_fire(in)
         /\ o_fire(in) <=> lsu_fire(in) \/ if_fire(in)
         /\ ~(lsu_fire(in) /\ if_fire(in))
         /\ mem_pop <=> itcm_pop /\ rsp_valid("if")
         /\ itcm_pop => itcm_vld
         /\ o_fire(in) => ~itcm_vld \/ itcm_pop
         /\ itcm_vld' = (o_fire(in) \/ (itcm_vld /\ ~itcm_pop))
         /\ arbt_queue' = IF lsu_fire(in) THEN <<"lsu">> ELSE IF if_fire(in) THEN <<"if">>
                          ELSE IF itcm_pop THEN <<>> ELSE arbt_queue
<1>1. /\ mem_push(in) <=> if_fire(in)
      /\ o_fire(in) <=> lsu_fire(in) \/ if_fire(in)
      /\ ~(lsu_fire(in) /\ if_fire(in))
      /\ o_fire(in) => ~itcm_vld \/ itcm_pop
      /\ itcm_pop => itcm_vld
  BY DEF mem_push, if_fire, if_cmd_valid, if_cmd_ready, o_fire, lsu_fire, cmd_ready, itcm_pop,
         rsp_valid
<1>2. mem_pop <=> itcm_pop /\ rsp_valid("if")
  <2>1. rsp_valid("if") => Valid(mem_queue) /\ ~rsp_valid("lsu")
    BY DEF FetchInv, AnswersBelong, rsp_valid, Valid
  <2> QED BY <2>1 DEF mem_pop, itcm_pop, if_rsp_ready
<1>3. itcm_vld' = (o_fire(in) \/ (itcm_vld /\ ~itcm_pop))
  BY DEF FetchTick, ItcmStep, DtcmCtrlStep
<1>4. arbt_queue' = IF lsu_fire(in) THEN <<"lsu">> ELSE IF if_fire(in) THEN <<"if">>
                    ELSE IF itcm_pop THEN <<>> ELSE arbt_queue
  <2>1. arbt_queue' = (IF itcm_pop THEN Tail(arbt_queue) ELSE arbt_queue)
                      \o When(o_fire(in), i_arbt_indic_id(in))
    BY DEF FetchTick, ItcmStep, ArbtStep
  <2>2. /\ itcm_pop => Tail(arbt_queue) = <<>>
        /\ ~itcm_vld => arbt_queue = <<>>
        /\ arbt_queue \o <<>> = arbt_queue
    BY <1>1, ShortPorts, Zenon DEF FetchInv, AnswersBelong
  <2>3. CASE o_fire(in)
    <3>1. arbt_queue' = <<>> \o <<i_arbt_indic_id(in)>>
      BY <1>1, <2>1, <2>2, <2>3, Zenon DEF When
    <3>2. i_arbt_indic_id(in) = IF lsu_fire(in) THEN "lsu" ELSE "if"
      BY <2>3 DEF i_arbt_indic_id, lsu_fire, o_fire
    <3> QED BY <1>1, <2>3, <3>1, <3>2
  <2>4. CASE ~o_fire(in)
    <3>1. When(o_fire(in), i_arbt_indic_id(in)) = <<>> /\ <<>> \o <<>> = <<>>
      BY <2>4 DEF When
    <3> QED BY <1>1, <2>1, <2>2, <2>4, <3>1, Zenon
  <2> QED BY <2>3, <2>4
<1> QED BY <1>1, <1>2, <1>3, <1>4

\* What the queue of the fetch unit holds after a cycle.
LEMMA MemQueueCycle ==
  ASSUME FetchInv, NEW in, FetchTick(in)
  PROVE  /\ mem_queue' = <<>> \/ (mem_queue' = <<mem_queue'[1]>> /\ IsFetch(mem_queue'[1]))
         /\ mem_queue' # <<>> <=> if_fire(in) \/ (rsp_valid("if") /\ ~itcm_pop)
         /\ if_fire(in) => mem_queue'[1].cancel \/ mem_queue'[1].pc = pc
         /\ ~if_fire(in) /\ mem_queue' # <<>> =>
              mem_queue'[1].cancel \/ (~mem_queue[1].cancel /\ mem_queue'[1].pc = mem_queue[1].pc)
<1> DEFINE new == [pc |-> pc, cancel |-> FALSE]
           old == mem_queue[1]
           f == redirect(in)
           b == BufNext(mem_queue, When(mem_push(in), new), mem_pop, f)
<1>1. mem_queue' = Forget(b)
  BY DEF FetchTick, FetchStep
<1>2. /\ mem_queue # <<>> <=> rsp_valid("if")
      /\ mem_queue # <<>> => mem_queue = <<old>> /\ IsFetch(old)
  <2>1. Len(mem_queue) = 0 <=> mem_queue = <<>>
    BY DEF FetchInv
  <2> QED BY <2>1 DEF FetchInv, AnswersBelong
<1>3. f \in BOOLEAN
  BY DEF redirect
<1>4. /\ mem_push(in) <=> if_fire(in)
      /\ mem_pop <=> itcm_pop /\ rsp_valid("if")
      /\ if_fire(in) /\ rsp_valid("if") => itcm_pop
  BY ItcmCycle DEF rsp_valid
<1>5. ASSUME NEW e, IsFetch(e)
      PROVE  /\ IsFetch(CancelIf(f, e)) /\ CancelIf(f, e).pc = e.pc
             /\ CancelIf(f, e).cancel = (f \/ e.cancel)
  BY <1>3, <1>5 DEF CancelIf, IsFetch
<1>6. IsFetch(new) /\ new.pc = pc
  BY DEF IsFetch
<1> HIDE DEF new, old, f
<1>7. CASE if_fire(in)
  <2>1. b = <<CancelIf(f, new)>>
    <3>1. When(mem_push(in), new) = <<new>>
      BY <1>4, <1>7 DEF When
    <3>2. CASE mem_queue = <<>>
      <4>1. mem_pop = FALSE
        BY <1>2, <1>4, <3>2 DEF mem_pop
      <4> QED BY <3>1, <3>2, <4>1, ShortBufs, Zenon
    <3>3. CASE mem_queue # <<>>
      <4>1. mem_pop = TRUE /\ mem_queue = <<old>>
        BY <1>2, <1>4, <1>7, <3>3 DEF mem_pop
      <4>2. BufNext(<<old>>, <<new>>, TRUE, f) = <<CancelIf(f, new)>>
        BY ShortBufs, Zenon
      <4> QED BY <3>1, <4>1, <4>2, Zenon
    <3> QED BY <3>2, <3>3
  <2>2. PICK d : /\ Forget(b) = <<d>> /\ IsFetch(d) /\ d.cancel = CancelIf(f, new).cancel
                 /\ (~CancelIf(f, new).cancel => d = CancelIf(f, new))
    BY <1>5, <1>6, <2>1, ForgetShort
  <2> QED BY <1>1, <1>5, <1>6, <1>7, <2>2
<1>8. CASE ~if_fire(in) /\ rsp_valid("if") /\ ~itcm_pop
  <2>1. b = <<CancelIf(f, old)>>
    <3>1. When(mem_push(in), new) = <<>> /\ mem_pop = FALSE /\ mem_queue = <<old>>
      BY <1>2, <1>4, <1>8 DEF When, mem_pop
    <3> QED BY <3>1, ShortBufs, Zenon
  <2>2. PICK d : /\ Forget(b) = <<d>> /\ IsFetch(d) /\ d.cancel = CancelIf(f, old).cancel
                 /\ (~CancelIf(f, old).cancel => d = CancelIf(f, old))
    BY <1>2, <1>5, <1>8, <2>1, ForgetShort
  <2>3. mem_queue' = <<d>> /\ mem_queue'[1] = d
    BY <1>1, <2>2
  <2>4. IsFetch(old)
    BY <1>2, <1>8
  <2>5. d.cancel \/ (~old.cancel /\ d.pc = old.pc)
    BY <1>3, <1>5, <2>2, <2>4 DEF IsFetch
  <2> QED BY <1>8, <2>2, <2>3, <2>5 DEF old
<1>9. CASE ~if_fire(in) /\ ~(rsp_valid("if") /\ ~itcm_pop)
  <2>1. b = <<>>
    <3>1. When(mem_push(in), new) = <<>>
      BY <1>4, <1>9 DEF When
    <3>2. CASE rsp_valid("if")
      <4>1. mem_pop = TRUE /\ mem_queue = <<old>>
        BY <1>2, <1>4, <1>9, <3>2 DEF mem_pop
      <4>2. BufNext(<<old>>, <<>>, TRUE, f) = <<>>
        BY ShortBufs, Zenon
      <4> QED BY <3>1, <4>1, <4>2, Zenon
    <3>3. CASE ~rsp_valid("if")
      <4>1. mem_pop = FALSE /\ mem_queue = <<>>
        BY <1>2, <1>4, <3>3 DEF mem_pop
      <4> QED BY <3>1, <4>1, ShortBufs, Zenon
    <3> QED BY <3>2, <3>3
  <2> QED BY <1>1, <1>9, <2>1, ForgetShort
<1> QED BY <1>7, <1>8, <1>9

\* One cycle keeps the invariant.
LEMMA FetchInvStep ==
  ASSUME FetchInv, NEW in \in Inputs, FetchTick(in)
  PROVE  FetchInv'
<1>1. in.lsu \in {"none", "read", "write"}
  BY DEF Inputs
<1>2. LsuOffer(in) \in {"none", "read", "write"}
  BY <1>1 DEF LsuOffer, FetchInv
<1>3. /\ itcm_vld' = (o_fire(in) \/ (itcm_vld /\ ~itcm_pop))
      /\ arbt_queue' = IF lsu_fire(in) THEN <<"lsu">> ELSE IF if_fire(in) THEN <<"if">>
                       ELSE IF itcm_pop THEN <<>> ELSE arbt_queue
      /\ o_fire(in) <=> lsu_fire(in) \/ if_fire(in)
      /\ ~(lsu_fire(in) /\ if_fire(in))
      /\ o_fire(in) => ~itcm_vld \/ itcm_pop
      /\ itcm_pop => itcm_vld
  BY ItcmCycle
<1>4. /\ lsu_cmd' = IF lsu_fire(in) THEN "none" ELSE LsuOffer(in)
      /\ lsu_wait' = IF lsu_fire(in) THEN LsuOffer(in)
                     ELSE IF rsp_valid("lsu") THEN "none" ELSE lsu_wait
  BY DEF FetchTick, LsuStep
<1>5. lsu_fire(in) => LsuOffer(in) # "none" /\ lsu_wait = "none"
  BY DEF lsu_fire, lsu_cmd_valid
<1>6. addr_r' = CASE lsu_fire(in) /\ LsuOffer(in) = "read" -> LsuWord
                  [] ~lsu_cmd_valid(in) /\ if_fire(in)     -> pc
                  [] OTHER                                 -> addr_r
  BY DEF FetchTick, ItcmStep, SimRamStep
<1>7. itcm_vld' \in BOOLEAN /\ arbt_queue' \in {<<>>, <<"lsu">>, <<"if">>}
  BY <1>3 DEF FetchInv
<1>8. lsu_cmd' \in {"none", "read", "write"} /\ lsu_wait' \in {"none", "read", "write"}
  BY <1>2, <1>4 DEF FetchInv
<1>9. Len(arbt_queue') = IF itcm_vld' THEN 1 ELSE 0
  <2>1. Len(arbt_queue) = (IF itcm_vld THEN 1 ELSE 0) /\ itcm_vld \in BOOLEAN
    BY DEF FetchInv, AnswersBelong
  <2>2. Len(<<"lsu">>) = 1 /\ Len(<<"if">>) = 1 /\ Len(<<>>) = 0
    OBVIOUS
  <2>3. CASE lsu_fire(in) \/ if_fire(in)
    BY <1>3, <2>2, <2>3, Zenon
  <2>4. CASE ~lsu_fire(in) /\ ~if_fire(in) /\ itcm_pop
    <3>1. arbt_queue' = <<>> /\ itcm_vld' = FALSE
      BY <1>3, <2>4, Zenon
    <3> QED BY <2>2, <3>1
  <2>5. CASE ~lsu_fire(in) /\ ~if_fire(in) /\ ~itcm_pop
    BY <1>3, <2>1, <2>5
  <2> QED BY <2>3, <2>4, <2>5
<1>10. /\ rsp_valid("if") <=> itcm_vld /\ arbt_queue = <<"if">>
       /\ rsp_valid("lsu") <=> itcm_vld /\ arbt_queue = <<"lsu">>
  <2>1. itcm_vld => arbt_queue # <<>>
    BY DEF FetchInv, AnswersBelong
  <2> QED BY <2>1 DEF FetchInv, rsp_valid, rsp_port, Valid
<1>11. /\ rsp_valid("if")' <=> itcm_vld' /\ arbt_queue' = <<"if">>
       /\ rsp_valid("lsu")' <=> itcm_vld' /\ arbt_queue' = <<"lsu">>
  <2>1. itcm_vld' => arbt_queue' # <<>>
    BY <1>7, <1>9
  <2> QED BY <1>7, <2>1 DEF rsp_valid, rsp_port, Valid
<1>12. rsp_valid("if")' <=> if_fire(in) \/ (rsp_valid("if") /\ ~itcm_pop)
  BY <1>3, <1>10, <1>11, Zenon
<1>13. rsp_valid("lsu")' <=> lsu_fire(in) \/ (rsp_valid("lsu") /\ ~itcm_pop)
  BY <1>3, <1>10, <1>11, Zenon
<1>14. /\ mem_queue' = <<>> \/ (mem_queue' = <<mem_queue'[1]>> /\ IsFetch(mem_queue'[1]))
       /\ mem_queue' # <<>> <=> rsp_valid("if")'
       /\ if_fire(in) => mem_queue'[1].cancel \/ mem_queue'[1].pc = pc
       /\ ~if_fire(in) /\ mem_queue' # <<>> =>
            mem_queue'[1].cancel \/ (~mem_queue[1].cancel /\ mem_queue'[1].pc = mem_queue[1].pc)
  BY <1>12, MemQueueCycle
<1>15. Len(mem_queue') = IF rsp_valid("if")' THEN 1 ELSE 0
  <2>1. ASSUME NEW e PROVE Len(<<e>>) = 1
    OBVIOUS
  <2>2. Len(<<>>) = 0
    OBVIOUS
  <2> QED BY <1>14, <2>1, <2>2
<1>16. rsp_valid("if")' => mem_queue'[1].cancel \/ addr_r' = mem_queue'[1].pc
  <2>1. CASE if_fire(in)
    <3>1. ~lsu_cmd_valid(in)
      BY <2>1 DEF if_fire, if_cmd_ready
    <3> QED BY <1>3, <1>6, <1>14, <2>1, <3>1
  <2>2. CASE ~if_fire(in)
    <3>1. SUFFICES ASSUME rsp_valid("if")' PROVE mem_queue'[1].cancel \/ addr_r' = mem_queue'[1].pc
      OBVIOUS
    <3>2. rsp_valid("if") /\ ~itcm_pop
      BY <1>12, <2>2, <3>1
    <3>3. ~lsu_fire(in)
      BY <1>3, <1>10, <3>2
    <3>4. addr_r' = addr_r
      BY <1>6, <2>2, <3>3
    <3>5. mem_queue[1].cancel \/ addr_r = mem_queue[1].pc
      BY <3>2 DEF FetchInv, AnswersBelong
    <3> QED BY <1>14, <2>2, <3>1, <3>4, <3>5
  <2> QED BY <2>1, <2>2
<1>17. rsp_valid("lsu")' <=> lsu_wait' # "none"
  <2>1. rsp_valid("lsu") <=> lsu_wait # "none"
    BY DEF FetchInv, AnswersBelong
  <2>2. rsp_valid("lsu") => itcm_pop
    BY DEF itcm_pop
  <2> QED BY <1>4, <1>5, <1>13, <2>1, <2>2
<1>18. lsu_wait' = "read" => addr_r' = LsuWord
  <2>1. rsp_valid("lsu") <=> lsu_wait # "none"
    BY DEF FetchInv, AnswersBelong
  <2>2. lsu_wait' = "read" => lsu_fire(in) /\ LsuOffer(in) = "read"
    BY <1>4, <2>1
  <2> QED BY <1>3, <1>6, <2>2
<1>19. AnswersBelong'
  BY <1>9, <1>15, <1>16, <1>17, <1>18 DEF AnswersBelong, LsuWord
<1> QED BY <1>7, <1>8, <1>14, <1>19 DEF FetchInv

(***************************************************************************)
(* Every answer of the ITCM goes to the master whose command it answers,   *)
(* with the word of that command (sirv_icb_arbt.v:145-207, HiCore_dtcm_    *)
(* ctrl.v), whatever the depths of the buffers and the redirections.       *)
(***************************************************************************)
THEOREM AnswersAlwaysBelong == FetchSpec => []AnswersBelong
<1>1. FetchInit => FetchInv
  <2> SUFFICES ASSUME FetchInit PROVE FetchInv
    OBVIOUS
  <2>1. itcm_vld \in BOOLEAN /\ ~rsp_valid("if") /\ ~rsp_valid("lsu")
    BY Zenon DEF FetchInit, rsp_valid
  <2> QED BY <2>1 DEF FetchInit, FetchInv, AnswersBelong
<1>2. FetchInv /\ [FetchNext]_fetch_vars => FetchInv'
  <2>1. FetchInv /\ FetchNext => FetchInv'
    BY FetchInvStep DEF FetchNext
  <2>2. FetchInv /\ UNCHANGED fetch_vars => FetchInv'
    BY DEF fetch_vars, FetchInv, AnswersBelong, rsp_valid, rsp_port, Valid
  <2> QED BY <2>1, <2>2
<1>3. FetchInv => AnswersBelong
  BY DEF FetchInv
<1> QED BY <1>1, <1>2, <1>3, PTL DEF FetchSpec

--------------------------------------------------------------------------
\* Marking keeps the type of an entry and all but its mark.
LEMMA FetchMarks ==
  ASSUME NEW f \in BOOLEAN
  PROVE  /\ \A e \in FetchEntry : /\ CancelIf(f, e) \in FetchEntry /\ CancelIf(f, e).cancel = (f \/ e.cancel)
                                  /\ ~f => CancelIf(f, e) = e
         /\ \A e \in IfEntry : /\ CancelIf(f, e) \in IfEntry /\ CancelIf(f, e).cancel = (f \/ e.cancel)
                               /\ CancelIf(f, e).excp = e.excp /\ (~f => CancelIf(f, e) = e)
<1>1. ASSUME NEW e \in FetchEntry
      PROVE  /\ CancelIf(f, e) \in FetchEntry /\ CancelIf(f, e).cancel = (f \/ e.cancel)
             /\ ~f => CancelIf(f, e) = e
  BY DEF CancelIf, FetchEntry
<1>2. ASSUME NEW e \in IfEntry
      PROVE  /\ CancelIf(f, e) \in IfEntry /\ CancelIf(f, e).cancel = (f \/ e.cancel)
             /\ CancelIf(f, e).excp = e.excp /\ (~f => CancelIf(f, e) = e)
  BY DEF CancelIf, IfEntry
<1> QED BY <1>1, <1>2

\* An entry without its payload.
Blank(e) == [f \in DOMAIN e |-> IF f \in {"cancel", "excp"} THEN e[f] ELSE NoPc]

\* An entry that forgets its payload keeps its type, its mark and its kind.
LEMMA BlankType ==
  /\ \A e \in FetchEntry : Blank(e) \in FetchEntry /\ Blank(e).cancel = e.cancel
  /\ \A e \in IfEntry : Blank(e) \in IfEntry /\ Blank(e).cancel = e.cancel /\ Blank(e).excp = e.excp
<1>1. ASSUME NEW e \in FetchEntry PROVE Blank(e) \in FetchEntry /\ Blank(e).cancel = e.cancel
  <2>1. Blank(e) = [pc |-> NoPc, cancel |-> e.cancel]
    BY DEF Blank, FetchEntry
  <2> QED BY <2>1 DEF FetchEntry, Addr
<1>2. ASSUME NEW e \in IfEntry
      PROVE  Blank(e) \in IfEntry /\ Blank(e).cancel = e.cancel /\ Blank(e).excp = e.excp
  <2>1. Blank(e) = [pc |-> NoPc, word |-> NoPc, excp |-> e.excp, cancel |-> e.cancel]
    BY DEF Blank, IfEntry
  <2> QED BY <2>1 DEF IfEntry, Addr
<1> QED BY <1>1, <1>2

\* Forget, entry by entry.
LEMMA Forgets ==
  /\ \A b \in Seq(FetchEntry) :
       /\ Forget(b) \in Seq(FetchEntry) /\ Len(Forget(b)) = Len(b)
       /\ \A k \in 1 .. Len(b) : /\ Forget(b)[k].cancel = b[k].cancel
                                 /\ ~b[k].cancel => Forget(b)[k] = b[k]
  /\ \A b \in Seq(IfEntry) :
       /\ Forget(b) \in Seq(IfEntry) /\ Len(Forget(b)) = Len(b)
       /\ \A k \in 1 .. Len(b) : /\ Forget(b)[k].cancel = b[k].cancel /\ Forget(b)[k].excp = b[k].excp
                                 /\ ~b[k].cancel => Forget(b)[k] = b[k]
<1>1. \A b : Forget(b) = [k \in 1 .. Len(b) |-> IF KeepCancelled \/ ~b[k].cancel THEN b[k] ELSE Blank(b[k])]
  BY DEF Forget, Blank
<1>2. ASSUME NEW b \in Seq(FetchEntry)
      PROVE  /\ Forget(b) \in Seq(FetchEntry) /\ Len(Forget(b)) = Len(b)
             /\ \A k \in 1 .. Len(b) : /\ Forget(b)[k].cancel = b[k].cancel
                                       /\ ~b[k].cancel => Forget(b)[k] = b[k]
  <2> DEFINE h(k) == IF KeepCancelled \/ ~b[k].cancel THEN b[k] ELSE Blank(b[k])
  <2>1. ASSUME NEW k \in 1 .. Len(b)
        PROVE  h(k) \in FetchEntry /\ h(k).cancel = b[k].cancel /\ (~b[k].cancel => h(k) = b[k])
    <3>1. b[k] \in FetchEntry
      OBVIOUS
    <3> QED BY <3>1, BlankType
  <2>2. Forget(b) = [k \in 1 .. Len(b) |-> h(k)] /\ Len(b) \in Nat
    BY <1>1
  <2> HIDE DEF h
  <2>3. Forget(b) \in Seq(FetchEntry) /\ Len(Forget(b)) = Len(b) /\ \A k \in 1 .. Len(b) : Forget(b)[k] = h(k)
    BY <2>1, <2>2
  <2> QED BY <2>1, <2>3
<1>3. ASSUME NEW b \in Seq(IfEntry)
      PROVE  /\ Forget(b) \in Seq(IfEntry) /\ Len(Forget(b)) = Len(b)
             /\ \A k \in 1 .. Len(b) : /\ Forget(b)[k].cancel = b[k].cancel /\ Forget(b)[k].excp = b[k].excp
                                       /\ ~b[k].cancel => Forget(b)[k] = b[k]
  <2> DEFINE h(k) == IF KeepCancelled \/ ~b[k].cancel THEN b[k] ELSE Blank(b[k])
  <2>1. ASSUME NEW k \in 1 .. Len(b)
        PROVE  h(k) \in IfEntry /\ h(k).cancel = b[k].cancel /\ h(k).excp = b[k].excp /\ (~b[k].cancel => h(k) = b[k])
    <3>1. b[k] \in IfEntry
      OBVIOUS
    <3> QED BY <3>1, BlankType
  <2>2. Forget(b) = [k \in 1 .. Len(b) |-> h(k)] /\ Len(b) \in Nat
    BY <1>1
  <2> HIDE DEF h
  <2>3. Forget(b) \in Seq(IfEntry) /\ Len(Forget(b)) = Len(b) /\ \A k \in 1 .. Len(b) : Forget(b)[k] = h(k)
    BY <2>1, <2>2
  <2> QED BY <2>1, <2>3
<1> QED BY <1>2, <1>3

\* The types, and the word of a fetch that is answered.
Typed == FetchTypeOK /\ FetchInv /\ (rsp_valid("if") => addr_r \in Pc)

\* A fetch or an exception that is on its way and not cancelled.
MemLive  == mem_queue # <<>> /\ ~mem_queue[1].cancel
ExcpLive == excp_pipe # <<>> /\ ~excp_pipe[1].cancel

\* The inputs of a cycle.
LEMMA InputsAre ==
  ASSUME NEW in \in Inputs
  PROVE  /\ in.o_rdy \in BOOLEAN /\ in.retire \in BOOLEAN /\ redirect(in) \in BOOLEAN
         /\ in.branch = <<>> \/ \E t \in Targets : in.branch = <<t>>
         /\ in.flush = <<>> \/ \E t \in Targets : in.flush = <<t>>
         /\ in.branch # <<>> => TakesLive(in) /\ ~Taken(in)[1].excp
         /\ in.lsu \in {"none", "read", "write"}
<1>1. /\ in.o_rdy \in BOOLEAN /\ in.retire \in BOOLEAN /\ in.branch \in Redirects /\ in.flush \in Redirects
      /\ in.branch # <<>> => TakesLive(in) /\ ~Taken(in)[1].excp
      /\ in.lsu \in {"none", "read", "write"}
  BY Zenon DEF Inputs, Redirects
<1>2. redirect(in) \in BOOLEAN
  BY DEF redirect
<1> QED BY <1>1, <1>2 DEF Redirects

\* The queue of the fetch unit has at most one entry.
LEMMA MemShort ==
  ASSUME Typed
  PROVE  /\ mem_queue \in Seq(FetchEntry) /\ Len(mem_queue) <= 1
         /\ mem_queue # <<>> <=> rsp_valid("if")
         /\ mem_queue # <<>> => mem_queue[1] \in FetchEntry /\ mem_queue = <<mem_queue[1]>>
<1>1. mem_queue \in Seq(FetchEntry) /\ Len(mem_queue) = (IF rsp_valid("if") THEN 1 ELSE 0)
  BY DEF Typed, FetchTypeOK, FetchInv, AnswersBelong
<1>2. Len(mem_queue) <= 1
  BY <1>1
<1>3. Len(mem_queue) = 0 <=> mem_queue = <<>>
  BY <1>1
<1>4. mem_queue # <<>> => mem_queue[1] \in FetchEntry /\ mem_queue = <<mem_queue[1]>>
  BY <1>1, <1>2, ShortSeq
<1> QED BY <1>1, <1>2, <1>3, <1>4

\* What enters the buffer before decode: an answer or, if there is none, an
\* exception.
LEMMA PushIs ==
  ASSUME Typed
  PROVE  /\ if2de_push \in Seq(IfEntry)
         /\ \/ if2de_push = <<>> /\ Len(if2de_push) = 0 /\ ~mem_pop /\ ~excp_pop
            \/ /\ if2de_push # <<>> /\ if2de_push = <<if2de_push[1]>> /\ Len(if2de_push) = 1
               /\ if2de_push[1] \in IfEntry /\ Len(if2de) < BufDepth
               /\ \/ /\ mem_pop /\ ~excp_pop /\ mem_queue # <<>>
                     /\ if2de_push[1] = [pc |-> mem_queue[1].pc, word |-> addr_r, excp |-> FALSE,
                                         cancel |-> mem_queue[1].cancel]
                  \/ /\ excp_pop /\ ~mem_pop /\ mem_queue = <<>> /\ excp_pipe # <<>>
                     /\ if2de_push[1] = [pc |-> excp_pipe[1].pc, word |-> NoPc, excp |-> TRUE,
                                         cancel |-> excp_pipe[1].cancel]
<1>1. mem_queue # <<>> <=> rsp_valid("if")
  BY MemShort
<1>2. ASSUME NEW e \in IfEntry PROVE <<e>> # <<>> /\ <<e>> \in Seq(IfEntry) /\ Len(<<e>>) = 1 /\ <<e>>[1] = e
  OBVIOUS
<1>3. <<>> \in Seq(IfEntry) /\ Len(<<>>) = 0
  OBVIOUS
<1>4. CASE mem_pop
  <2> DEFINE e == [pc |-> mem_queue[1].pc, word |-> addr_r, excp |-> FALSE, cancel |-> mem_queue[1].cancel]
  <2>1. rsp_valid("if") /\ if2de_ready /\ mem_queue # <<>> /\ ~excp_pop
    BY <1>1, <1>4 DEF mem_pop, excp_pop
  <2>2. if2de_push = <<e>>
    BY <2>1, Zenon DEF if2de_push, i_if2de, Valid
  <2>3. e \in IfEntry
    <3>1. mem_queue[1] \in FetchEntry /\ addr_r \in Pc
      BY <2>1, MemShort DEF Typed
    <3> QED BY <3>1 DEF FetchEntry, IfEntry, Addr
  <2> HIDE DEF e
  <2>4. if2de_push[1] = e /\ if2de_push # <<>> /\ if2de_push \in Seq(IfEntry) /\ Len(if2de_push) = 1
    BY <1>2, <2>2, <2>3
  <2>5. Len(if2de) < BufDepth
    BY <2>1 DEF if2de_ready, QueueReady
  <2> QED BY <1>4, <2>1, <2>2, <2>3, <2>4, <2>5 DEF e
<1>5. CASE excp_pop
  <2> DEFINE e == [pc |-> excp_pipe[1].pc, word |-> NoPc, excp |-> TRUE, cancel |-> excp_pipe[1].cancel]
  <2>1. ~rsp_valid("if") /\ if2de_ready /\ mem_queue = <<>> /\ ~mem_pop /\ excp_pipe # <<>>
    BY <1>1, <1>5 DEF mem_pop, excp_pop, Valid
  <2>2. if2de_push = <<e>>
    BY <2>1, Zenon DEF if2de_push, i_if2de, Valid
  <2>3. e \in IfEntry
    <3>1. excp_pipe[1] \in FetchEntry
      BY <2>1 DEF Typed, FetchTypeOK
    <3> QED BY <3>1 DEF FetchEntry, IfEntry, Addr
  <2> HIDE DEF e
  <2>4. if2de_push[1] = e /\ if2de_push # <<>> /\ if2de_push \in Seq(IfEntry) /\ Len(if2de_push) = 1
    BY <1>2, <2>2, <2>3
  <2>5. Len(if2de) < BufDepth
    BY <2>1 DEF if2de_ready, QueueReady
  <2> QED BY <1>5, <2>1, <2>2, <2>3, <2>4, <2>5 DEF e
<1>6. CASE ~mem_pop /\ ~excp_pop
  <2>1. if2de_push = <<>>
    BY <1>1, <1>6 DEF if2de_push, i_if2de, Valid, mem_pop, excp_pop
  <2> QED BY <1>3, <1>6, <2>1
<1> QED BY <1>4, <1>5, <1>6

\* A register q of one entry, and r, what it is after a cycle that adds e if c,
\* removes if pop and marks if f: whether it is live, and with what.
EntryAfter(q, r, e, c, pop, f) ==
  /\ r \in Seq(FetchEntry) /\ Len(r) <= 1
  /\ r # <<>> /\ ~r[1].cancel <=> ~f /\ (c \/ (q # <<>> /\ ~q[1].cancel /\ ~pop))
  /\ r # <<>> /\ ~r[1].cancel => r[1].pc = IF c THEN e.pc ELSE q[1].pc

\* A cycle of a buffer of one entry, with the payload of cancelled ones
\* forgotten, is such a change.
LEMMA OneEntry ==
  ASSUME NEW q \in Seq(FetchEntry), Len(q) <= 1, NEW e \in FetchEntry, ~e.cancel,
         NEW c \in BOOLEAN, NEW pop \in BOOLEAN, NEW f \in BOOLEAN,
         pop => q # <<>>, c => ~f /\ (q = <<>> \/ pop),
         NEW r, r = Forget(BufNext(q, When(c, e), pop, f))
  PROVE  EntryAfter(q, r, e, c, pop, f)
<1> USE DEF EntryAfter
<1> DEFINE b == After(q, e, c, pop, f)
<1>1. q # <<>> => q[1] \in FetchEntry
  BY ShortSeq
<1>2. r = Forget(b)
  BY PipeCycle
<1>3. \A x \in FetchEntry : CancelIf(f, x) \in FetchEntry /\ CancelIf(f, x).cancel = (f \/ x.cancel)
                            /\ (~f => CancelIf(f, x) = x)
  BY FetchMarks
<1>4. b \in Seq(FetchEntry) /\ Len(b) <= 1
  BY <1>3, AfterType
<1>5. /\ r \in Seq(FetchEntry) /\ Len(r) = Len(b)
      /\ \A k \in 1 .. Len(b) : r[k].cancel = b[k].cancel /\ (~b[k].cancel => r[k] = b[k])
  BY <1>2, <1>4, Forgets
<1>6. (r = <<>> <=> b = <<>>) /\ (b # <<>> => 1 \in 1 .. Len(b))
  <2>1. (Len(b) = 0 <=> b = <<>>) /\ (Len(r) = 0 <=> r = <<>>) /\ Len(b) \in Nat
    BY <1>4, <1>5
  <2> QED BY <1>4, <1>5, <2>1
<1>7. CASE c
  <2>1. b # <<>> /\ b[1] = CancelIf(f, e)
    BY <1>7 DEF After
  <2>2. r # <<>> /\ r[1] = e
    BY <1>3, <1>5, <1>6, <1>7, <2>1
  <2> QED BY <1>4, <1>5, <1>7, <2>2, Zenon
<1>8. CASE ~c /\ q # <<>> /\ ~pop
  <2>1. b # <<>> /\ b[1] = CancelIf(f, q[1])
    BY <1>8 DEF After
  <2>2. r # <<>> /\ r[1].cancel = (f \/ q[1].cancel)
    BY <1>1, <1>3, <1>5, <1>6, <1>8, <2>1
  <2>3. ~f /\ ~q[1].cancel => r[1] = q[1]
    BY <1>1, <1>3, <1>5, <1>6, <1>8, <2>1
  <2> QED BY <1>4, <1>5, <1>8, <2>2, <2>3, Zenon
<1>9. CASE ~c /\ ~(q # <<>> /\ ~pop)
  <2>1. b = <<>>
    BY <1>9 DEF After
  <2> QED BY <1>4, <1>5, <1>6, <1>9, <2>1
<1> QED BY <1>7, <1>8, <1>9

\* The register of the fetch exceptions after a cycle.
LEMMA ExcpCycle ==
  ASSUME Typed, NEW in \in Inputs, FetchTick(in)
  PROVE  /\ excp_pipe' \in Seq(FetchEntry) /\ Len(excp_pipe') <= 1
         /\ ExcpLive' <=> ~redirect(in) /\ (excp_push(in) \/ (ExcpLive /\ ~excp_pop))
         /\ ExcpLive' => excp_pipe'[1].pc = IF excp_push(in) THEN pc ELSE excp_pipe[1].pc
         /\ excp_push(in) => ~redirect(in) /\ pc \notin Itcm /\ (ExcpLive => excp_pop)
<1> DEFINE new == [pc |-> pc, cancel |-> FALSE]
<1>1. /\ excp_pipe \in Seq(FetchEntry) /\ Len(excp_pipe) <= 1 /\ pc \in Pc
      /\ redirect(in) \in BOOLEAN
  BY InputsAre DEF Typed, FetchTypeOK
<1>2. /\ excp_push(in) \in BOOLEAN /\ excp_pop \in BOOLEAN
      /\ excp_pop => excp_pipe # <<>>
      /\ excp_push(in) => ~redirect(in) /\ pc \notin Itcm /\ (excp_pipe = <<>> \/ excp_pop)
  BY Zenon DEF excp_push, excp_pop, Valid, PipeReady, excp_code
<1>3. new \in FetchEntry /\ new.pc = pc /\ ~new.cancel
  BY <1>1 DEF FetchEntry, Addr
<1>4. excp_pipe' = Forget(BufNext(excp_pipe, When(excp_push(in), new), excp_pop, redirect(in)))
  BY DEF FetchTick, FetchStep
<1> HIDE DEF new
<1>5. /\ excp_pipe' \in Seq(FetchEntry) /\ Len(excp_pipe') <= 1
      /\ excp_pipe' # <<>> /\ ~excp_pipe'[1].cancel <=>
           ~redirect(in) /\ (excp_push(in) \/ (excp_pipe # <<>> /\ ~excp_pipe[1].cancel /\ ~excp_pop))
      /\ excp_pipe' # <<>> /\ ~excp_pipe'[1].cancel =>
           excp_pipe'[1].pc = IF excp_push(in) THEN new.pc ELSE excp_pipe[1].pc
  <2>1. PICK c \in BOOLEAN, pop \in BOOLEAN, f \in BOOLEAN :
               c = excp_push(in) /\ pop = excp_pop /\ f = redirect(in)
    BY <1>1, <1>2
  <2>2. /\ pop => excp_pipe # <<>>
        /\ c => ~f /\ (excp_pipe = <<>> \/ pop)
        /\ excp_pipe' = Forget(BufNext(excp_pipe, When(c, new), pop, f))
    BY <1>1, <1>2, <1>3, <1>4, <2>1
  <2>3. EntryAfter(excp_pipe, excp_pipe', new, c, pop, f)
    BY <1>1, <1>3, <2>2, OneEntry
  <2> QED BY <2>1, <2>3 DEF EntryAfter
<1> QED BY <1>2, <1>3, <1>5 DEF ExcpLive

\* The queue of the fetch unit after a cycle.
LEMMA MemCycle ==
  ASSUME Typed, NEW in \in Inputs, FetchTick(in)
  PROVE  /\ mem_queue' \in Seq(FetchEntry) /\ Len(mem_queue') <= 1
         /\ MemLive' <=> ~redirect(in) /\ (if_fire(in) \/ (MemLive /\ ~mem_pop))
         /\ MemLive' => mem_queue'[1].pc = IF if_fire(in) THEN pc ELSE mem_queue[1].pc
         /\ if_fire(in) => ~redirect(in) /\ pc \in Itcm /\ (MemLive => mem_pop)
<1> DEFINE new == [pc |-> pc, cancel |-> FALSE]
<1>1. /\ mem_queue \in Seq(FetchEntry) /\ Len(mem_queue) <= 1 /\ pc \in Pc
      /\ redirect(in) \in BOOLEAN /\ (mem_queue # <<>> <=> rsp_valid("if"))
  BY InputsAre, MemShort DEF Typed, FetchTypeOK
<1>2. /\ mem_push(in) <=> if_fire(in)
      /\ mem_pop <=> itcm_pop /\ rsp_valid("if")
      /\ if_fire(in) => ~itcm_vld \/ itcm_pop
      /\ rsp_valid("if") => itcm_vld
  BY ItcmCycle DEF Typed, rsp_valid
<1>3. mem_push(in) \in BOOLEAN /\ mem_pop \in BOOLEAN
  BY Zenon DEF mem_push, mem_pop
<1>4. if_fire(in) => ~redirect(in) /\ pc \in Itcm
  BY DEF if_fire, if_cmd_valid, wants_itcm, excp_code
<1>5. new \in FetchEntry /\ new.pc = pc /\ ~new.cancel
  BY <1>1 DEF FetchEntry, Addr
<1>6. mem_queue' = Forget(BufNext(mem_queue, When(mem_push(in), new), mem_pop, redirect(in)))
  BY DEF FetchTick, FetchStep
<1> HIDE DEF new
<1>7. /\ mem_pop => mem_queue # <<>>
      /\ mem_push(in) => ~redirect(in) /\ (mem_queue = <<>> \/ mem_pop)
  BY <1>1, <1>2, <1>4
<1>8. /\ mem_queue' \in Seq(FetchEntry) /\ Len(mem_queue') <= 1
      /\ mem_queue' # <<>> /\ ~mem_queue'[1].cancel <=>
           ~redirect(in) /\ (mem_push(in) \/ (mem_queue # <<>> /\ ~mem_queue[1].cancel /\ ~mem_pop))
      /\ mem_queue' # <<>> /\ ~mem_queue'[1].cancel =>
           mem_queue'[1].pc = IF mem_push(in) THEN new.pc ELSE mem_queue[1].pc
  <2>1. PICK c \in BOOLEAN, pop \in BOOLEAN, f \in BOOLEAN :
               c = mem_push(in) /\ pop = mem_pop /\ f = redirect(in)
    BY <1>1, <1>3
  <2>2. /\ pop => mem_queue # <<>>
        /\ c => ~f /\ (mem_queue = <<>> \/ pop)
        /\ mem_queue' = Forget(BufNext(mem_queue, When(c, new), pop, f))
    BY <1>1, <1>3, <1>6, <1>7, <2>1
  <2>3. EntryAfter(mem_queue, mem_queue', new, c, pop, f)
    BY <1>1, <1>5, <2>2, OneEntry
  <2> QED BY <2>1, <2>3 DEF EntryAfter
<1> QED BY <1>2, <1>4, <1>5, <1>7, <1>8 DEF MemLive

\* Whether decode takes an entry, and the entry at place i of the buffer with
\* the one that enters behind it.
Takes(in) == in.o_rdy /\ Valid(Offered)
Shift(in) == IF Takes(in) THEN 1 ELSE 0
EntryAt(i) == IF i <= Len(if2de) THEN if2de[i] ELSE if2de_push[1]

\* The buffer before decode after a cycle.
LEMMA BufCycle ==
  ASSUME Typed, NEW in \in Inputs, FetchTick(in)
  PROVE  /\ if2de \in Seq(IfEntry) /\ Len(if2de) \in Nat /\ Len(if2de_push) \in {0, 1}
         /\ if2de' \in Seq(IfEntry) /\ Len(if2de') = Len(if2de) + Len(if2de_push) - Shift(in)
         /\ Shift(in) \in {0, 1} /\ Shift(in) <= Len(if2de) + Len(if2de_push)
         /\ \A i \in 1 .. Len(if2de) + Len(if2de_push) : EntryAt(i) \in IfEntry
         /\ \A k \in 1 .. Len(if2de') :
              LET e == EntryAt(k + Shift(in))
              IN  /\ if2de'[k].cancel <=> redirect(in) \/ e.cancel
                  /\ if2de'[k].excp = e.excp
                  /\ ~redirect(in) /\ ~e.cancel => if2de'[k] = e
<1>1. if2de \in Seq(IfEntry) /\ Len(if2de) \in Nat /\ redirect(in) \in BOOLEAN
  BY InputsAre DEF Typed, FetchTypeOK
<1>2. /\ if2de_push \in Seq(IfEntry) /\ Len(if2de_push) \in {0, 1}
      /\ if2de_push = <<>> <=> Len(if2de_push) = 0
      /\ Len(if2de_push) = 1 => if2de_push[1] \in IfEntry
  BY PushIs
<1>3. Takes(in) \in BOOLEAN /\ (Takes(in) => Len(if2de) + Len(if2de_push) > 0)
  <2>1. Takes(in) => if2de # <<>> \/ if2de_push # <<>>
    BY DEF Takes, Offered, Valid
  <2>2. Takes(in) \in BOOLEAN
    BY InputsAre, Zenon DEF Takes
  <2>3. if2de # <<>> => Len(if2de) > 0
    BY <1>1
  <2> QED BY <1>1, <1>2, <2>1, <2>2, <2>3
<1>4. Shift(in) \in {0, 1} /\ Shift(in) <= Len(if2de) + Len(if2de_push)
  BY <1>1, <1>2, <1>3 DEF Shift
<1>5. \A i \in 1 .. Len(if2de) + Len(if2de_push) : EntryAt(i) \in IfEntry
  <2> TAKE i \in 1 .. Len(if2de) + Len(if2de_push)
  <2>1. CASE i <= Len(if2de)
    BY <1>1, <2>1 DEF EntryAt
  <2>2. CASE ~(i <= Len(if2de))
    BY <1>1, <1>2, <2>2 DEF EntryAt
  <2> QED BY <2>1, <2>2
<1> DEFINE n == Len(if2de) + Len(if2de_push) - Shift(in)
           b == BufNext(if2de, if2de_push, Takes(in), redirect(in))
           h(k) == CancelIf(redirect(in), EntryAt(k + Shift(in)))
<1>6. n \in Nat /\ \A k \in 1 .. n : k + Shift(in) \in 1 .. Len(if2de) + Len(if2de_push)
  BY <1>1, <1>2, <1>4
<1>7. b = [k \in 1 .. n |-> h(k)]
  <2>1. PICK pop \in BOOLEAN : pop = Takes(in)
    BY <1>3
  <2>2. pop => Len(if2de) + Len(if2de_push) > 0
    BY <1>3, <2>1
  <2>3. BufNext(if2de, if2de_push, pop, redirect(in)) =
          [k \in 1 .. KeptLen(if2de, if2de_push, pop) |-> CancelIf(redirect(in), KeptAt(if2de, if2de_push, pop, k))]
    BY <1>1, <1>2, <2>2, BufNextEntries
  <2>4. KeptLen(if2de, if2de_push, pop) = n
    BY <1>1, <1>2, <2>1 DEF KeptLen, Shift
  <2>5. ASSUME NEW k \in 1 .. n PROVE KeptAt(if2de, if2de_push, pop, k) = EntryAt(k + Shift(in))
    <3>1. k + Shift(in) = IF pop THEN k + 1 ELSE k
      BY <1>6, <2>1 DEF Shift
    <3>2. k + Shift(in) \in 1 .. Len(if2de) + Len(if2de_push)
      BY <1>6
    <3>3. ASSUME NEW l \in Nat, NEW m \in {0, 1}, NEW i \in 1 .. l + m, ~(i <= l) PROVE i - l = 1
      BY <3>3
    <3>4. ~(k + Shift(in) <= Len(if2de)) => (k + Shift(in)) - Len(if2de) = 1
      BY <1>1, <1>2, <3>2, <3>3, Zenon
    <3> QED BY <3>1, <3>4 DEF KeptAt, EntryAt
  <2> QED BY <2>1, <2>3, <2>4, <2>5
<1>8. ASSUME NEW k \in 1 .. n
      PROVE  /\ h(k) \in IfEntry /\ h(k).excp = EntryAt(k + Shift(in)).excp
             /\ h(k).cancel <=> redirect(in) \/ EntryAt(k + Shift(in)).cancel
             /\ ~redirect(in) => h(k) = EntryAt(k + Shift(in))
  <2>1. EntryAt(k + Shift(in)) \in IfEntry
    BY <1>5, <1>6
  <2> QED BY <1>1, <2>1, FetchMarks
<1>9. if2de' = Forget(b)
  BY DEF FetchTick, FetchStep, Takes
<1> HIDE DEF n, b, h
<1>10. b \in Seq(IfEntry) /\ Len(b) = n /\ \A k \in 1 .. n : b[k] = h(k)
  BY <1>6, <1>7, <1>8
<1>11. /\ if2de' \in Seq(IfEntry) /\ Len(if2de') = n
       /\ \A k \in 1 .. n : /\ if2de'[k].cancel = h(k).cancel /\ if2de'[k].excp = h(k).excp
                            /\ ~h(k).cancel => if2de'[k] = h(k)
  BY <1>9, <1>10, Forgets
<1>12. ASSUME NEW k \in 1 .. n
       PROVE  LET e == EntryAt(k + Shift(in))
              IN  /\ if2de'[k].cancel <=> redirect(in) \/ e.cancel
                  /\ if2de'[k].excp = e.excp
                  /\ ~redirect(in) /\ ~e.cancel => if2de'[k] = e
  BY <1>8, <1>11
<1> QED BY <1>1, <1>2, <1>4, <1>5, <1>11, <1>12 DEF n

\* The address after a cycle.
LEMMA PcCycle ==
  ASSUME Typed, NEW in \in Inputs, FetchTick(in)
  PROVE  /\ pc' \in Pc
         /\ redirect(in) => pc' \in Targets
         /\ ~redirect(in) => pc' = IF if_fire(in) \/ excp_push(in) THEN PcInc(pc) ELSE pc
<1>1. pc' = IF in.flush # <<>> THEN in.flush[1] ELSE IF in.branch # <<>> THEN in.branch[1]
            ELSE IF pc_step(in) THEN PcInc(pc) ELSE pc
  BY DEF FetchTick, FetchStep, PcNext
<1>2. pc \in Pc /\ PcInc(pc) \in Pc /\ Targets \subseteq Pc
  BY FetchAssumption DEF Typed, FetchTypeOK, Pc, PcInc
<1>3. in.branch # <<>> => in.branch[1] \in Targets
  <2>1. \A t \in Targets : <<t>>[1] = t
    OBVIOUS
  <2> QED BY <2>1, InputsAre
<1>4. in.flush # <<>> => in.flush[1] \in Targets
  <2>1. \A t \in Targets : <<t>>[1] = t
    OBVIOUS
  <2> QED BY <2>1, InputsAre
<1> QED BY <1>1, <1>2, <1>3, <1>4, Zenon DEF redirect, pc_step

\* A clock cycle keeps the types.
LEMMA TypedStep ==
  ASSUME Typed, NEW in \in Inputs, FetchTick(in)
  PROVE  Typed'
<1>1. FetchInv'
  BY FetchInvStep DEF Typed
<1>2. pc' \in Pc
  BY PcCycle
<1>3. excp_pipe' \in Seq(FetchEntry) /\ Len(excp_pipe') <= 1
  BY ExcpCycle
<1>4. mem_queue' \in Seq(FetchEntry) /\ Len(mem_queue') <= QueueDepth
  <2>1. mem_queue' \in Seq(FetchEntry) /\ Len(mem_queue') <= 1
    BY MemCycle
  <2> QED BY <2>1, FetchAssumption
<1>5. if2de' \in Seq(IfEntry) /\ Len(if2de') <= BufDepth
  <2>1. /\ if2de' \in Seq(IfEntry) /\ Len(if2de') = Len(if2de) + Len(if2de_push) - Shift(in)
        /\ Len(if2de) \in Nat /\ Shift(in) \in {0, 1}
    BY BufCycle
  <2>2. Len(if2de_push) = 0 \/ (Len(if2de_push) = 1 /\ Len(if2de) < BufDepth)
    BY PushIs
  <2>3. Len(if2de) <= BufDepth /\ BufDepth \in Nat
    BY FetchAssumption DEF Typed, FetchTypeOK
  <2>4. ASSUME NEW l \in Nat, NEW d \in Nat, NEW m, NEW s \in {0, 1}, l <= d, m = 0 \/ (m = 1 /\ l < d)
        PROVE  l + m - s <= d
    BY <2>4
  <2> QED BY <2>1, <2>2, <2>3, <2>4, Zenon
<1>6. addr_r' \in Pc \cup {LsuWord} /\ (rsp_valid("if")' => addr_r' \in Pc)
  <2>1. addr_r' = CASE lsu_fire(in) /\ LsuOffer(in) = "read" -> LsuWord
                    [] ~lsu_cmd_valid(in) /\ if_fire(in)     -> pc
                    [] OTHER                                 -> addr_r
    BY DEF FetchTick, ItcmStep, SimRamStep
  <2>2. lsu_fire(in) => lsu_cmd_valid(in)
    BY DEF lsu_fire
  <2>3. if_fire(in) => ~lsu_cmd_valid(in)
    BY DEF if_fire, if_cmd_ready
  <2>4. addr_r \in Pc \cup {LsuWord} /\ pc \in Pc
    BY DEF Typed, FetchTypeOK
  <2>5. rsp_valid("if")' <=> if_fire(in) \/ (rsp_valid("if") /\ ~itcm_pop)
    <3>1. mem_queue' # <<>> <=> if_fire(in) \/ (rsp_valid("if") /\ ~itcm_pop)
      BY MemQueueCycle DEF Typed
    <3>2. Len(mem_queue') = (IF rsp_valid("if")' THEN 1 ELSE 0) /\ mem_queue' \in Seq(FetchEntry)
      BY <1>1, <1>4 DEF FetchInv, AnswersBelong
    <3> QED BY <3>1, <3>2
  <2>6. rsp_valid("if") /\ ~itcm_pop => ~lsu_fire(in)
    BY DEF lsu_fire, cmd_ready, rsp_valid
  <2>7. rsp_valid("if") => addr_r \in Pc
    BY DEF Typed
  <2>8. CASE if_fire(in)
    <3>1. addr_r' = pc
      BY <2>1, <2>2, <2>3, <2>8
    <3> QED BY <2>4, <3>1
  <2>9. CASE ~if_fire(in) /\ lsu_fire(in)
    <3>1. addr_r' \in {addr_r, LsuWord} /\ ~rsp_valid("if")'
      BY <2>1, <2>5, <2>6, <2>9
    <3> QED BY <2>4, <3>1
  <2>10. CASE ~if_fire(in) /\ ~lsu_fire(in)
    <3>1. addr_r' = addr_r
      BY <2>1, <2>10
    <3> QED BY <2>4, <2>5, <2>7, <2>10, <3>1
  <2> QED BY <2>8, <2>9, <2>10
<1>7. itcm_vld' \in BOOLEAN /\ lsu_cmd' \in {"none", "read", "write"} /\ lsu_wait' \in {"none", "read", "write"}
  BY <1>1 DEF FetchInv
<1>8. arbt_queue' \in Seq({"lsu", "if"}) /\ Len(arbt_queue') <= 4
  <2>1. /\ <<>> \in Seq({"lsu", "if"}) /\ Len(<<>>) = 0
        /\ <<"lsu">> \in Seq({"lsu", "if"}) /\ Len(<<"lsu">>) = 1
        /\ <<"if">> \in Seq({"lsu", "if"}) /\ Len(<<"if">>) = 1
    OBVIOUS
  <2>2. arbt_queue' = <<>> \/ arbt_queue' = <<"lsu">> \/ arbt_queue' = <<"if">>
    BY <1>1 DEF FetchInv
  <2>3. \A n \in {0, 1} : n <= 4
    OBVIOUS
  <2>4. arbt_queue' \in Seq({"lsu", "if"}) /\ Len(arbt_queue') \in {0, 1}
    BY <2>1, <2>2, Zenon
  <2> QED BY <2>3, <2>4, Zenon
<1>9. rob' \in {"empty", "some", "trap"}
  BY DEF FetchTick, RobAfter, Typed, FetchTypeOK
<1>10. FetchTypeOK'
  BY <1>2, <1>3, <1>4, <1>5, <1>6, <1>7, <1>8, <1>9 DEF FetchTypeOK, Pc, LsuWord, FetchEntry, IfEntry, Addr
<1> QED BY <1>1, <1>6, <1>10 DEF Typed, Pc

\* The initial state is typed.
LEMMA TypedInit == FetchInit => Typed
<1> SUFFICES ASSUME FetchInit PROVE Typed
  OBVIOUS
<1>1. itcm_vld \in BOOLEAN /\ ~rsp_valid("if") /\ ~rsp_valid("lsu")
  BY Zenon DEF FetchInit, rsp_valid
<1>2. FetchInv
  BY <1>1 DEF FetchInit, FetchInv, AnswersBelong
<1>3. FetchTypeOK
  BY <1>1, FetchAssumption DEF FetchInit, FetchTypeOK, Pc
<1> QED BY <1>1, <1>2, <1>3 DEF Typed

\* A typed state stays typed when nothing changes.
LEMMA TypedSame ==
  ASSUME Typed, UNCHANGED fetch_vars
  PROVE  Typed'
<1>1. UNCHANGED <<pc, excp_pipe, mem_queue, if2de, itcm_vld, addr_r, arbt_queue, lsu_cmd, lsu_wait, rob>>
  BY DEF fetch_vars
<1>2. FetchTypeOK'
  BY <1>1 DEF Typed, FetchTypeOK
<1>3. rsp_valid("if")' = rsp_valid("if") /\ rsp_valid("lsu")' = rsp_valid("lsu")
  BY <1>1 DEF rsp_valid, rsp_port, Valid
<1>4. FetchInv'
  BY <1>1, <1>3 DEF Typed, FetchInv, AnswersBelong
<1> QED BY <1>1, <1>2, <1>3, <1>4 DEF Typed

\* Typed holds in every state.
LEMMA AlwaysTyped == FetchSpec => []Typed
<1>1. FetchInit => Typed
  BY TypedInit
<1>2. Typed /\ [FetchNext]_fetch_vars => Typed'
  BY TypedStep, TypedSame DEF FetchNext
<1> QED BY <1>1, <1>2, PTL DEF FetchSpec

\* The registers of the fetch unit keep their types and no buffer exceeds its
\* depth, for every address space, every depth and every sequence of
\* redirections (HiCore_ifetch.v, sirv_icb_arbt.v).
THEOREM FetchTypeCorrect == FetchSpec => []FetchTypeOK
<1>1. Typed => FetchTypeOK
  BY DEF Typed
<1> QED BY <1>1, AlwaysTyped, PTL

--------------------------------------------------------------------------
(***************************************************************************)
(* The order of the stream.  An exception is ahead when decode has taken   *)
(* it or the buffer before decode holds it; Clear(n) says that none is     *)
(* ahead of place n + 1 of the buffer.                                     *)
(***************************************************************************)
Clear(n) == rob # "trap" /\ \A i \in 1 .. n : ~if2de[i].cancel => ~if2de[i].excp
NoneAhead == Clear(Len(if2de))

\* The next address of the path behind the queue of the fetch unit, and behind
\* the buffer before decode.
Behind == IF ExcpLive THEN excp_pipe[1].pc ELSE pc
Coming == IF MemLive THEN mem_queue[1].pc ELSE Behind

\* An address that fetching reaches only past another one outside the ITCM.
Late(p) == p \notin Targets \cup {0} \cup {PcInc(o) : o \in Itcm}

\* What follows an address outside the ITCM is outside it too, unless that
\* address is late: the word behind could overtake its exception otherwise.
RejoinsLate == \A p \in Pc \ Itcm : PcInc(p) \in Itcm => Late(p)

\* The words of the buffer follow one another, and the rest follows them.
InBuffer ==
  \A j, k \in 1 .. Len(if2de) :
    /\ j < k /\ ~if2de[j].cancel /\ ~if2de[k].cancel
    /\ \A i \in j + 1 .. k - 1 : if2de[i].cancel
    /\ Clear(j)
    => if2de[j].word = if2de[j].pc /\ if2de[k].pc = PcInc(if2de[j].pc)
AfterBuffer ==
  \A j \in 1 .. Len(if2de) :
    /\ ~if2de[j].cancel /\ \A i \in j + 1 .. Len(if2de) : if2de[i].cancel
    /\ Clear(j)
    => if2de[j].word = if2de[j].pc /\ Coming = PcInc(if2de[j].pc)
AfterQueue == MemLive /\ NoneAhead => Behind = PcInc(mem_queue[1].pc)

\* What is cancelled comes first, but for exceptions.
CancelledFirst ==
  /\ \A j, k \in 1 .. Len(if2de) : j < k /\ ~if2de[j].cancel /\ if2de[k].cancel => if2de[k].excp
  /\ mem_queue # <<>> /\ mem_queue[1].cancel => \A i \in 1 .. Len(if2de) : if2de[i].cancel

\* An exception with none ahead is that of an address that is not late, and pc
\* has not moved on since; a late pc has an exception ahead or in the pipe.
FirstExcp ==
  /\ ExcpLive => excp_pipe[1].pc \in Pc \ Itcm
  /\ ExcpLive /\ NoneAhead => ~Late(excp_pipe[1].pc) /\ pc = PcInc(excp_pipe[1].pc)
  /\ Late(pc) /\ NoneAhead => ExcpLive

Ordered == Typed /\ InBuffer /\ AfterBuffer /\ AfterQueue /\ CancelledFirst /\ FirstExcp

\* What decode takes, and when what it has taken holds an exception.
LEMMA RobCycle ==
  ASSUME Typed, NEW in \in Inputs, FetchTick(in), ~redirect(in)
  PROVE  rob' = "trap" <=> rob = "trap" \/ (Takes(in) /\ ~EntryAt(1).cancel /\ EntryAt(1).excp)
<1>1. /\ if2de \in Seq(IfEntry) /\ Len(if2de) \in Nat /\ Len(if2de_push) \in {0, 1}
      /\ \A i \in 1 .. Len(if2de) + Len(if2de_push) : EntryAt(i) \in IfEntry
      /\ Takes(in) => Len(if2de) + Len(if2de_push) > 0
  BY BufCycle DEF Shift
<1>2. rob' = RobAfter(in) /\ in.flush = <<>>
  BY DEF FetchTick, redirect
<1>3. Takes(in) <=> Valid(Taken(in))
  BY InputsAre DEF Takes, Taken, Valid
<1>4. Takes(in) => Taken(in)[1] = EntryAt(1)
  <2>1. SUFFICES ASSUME Takes(in) PROVE Taken(in)[1] = EntryAt(1)
    OBVIOUS
  <2>2. Taken(in) = Offered
    BY <2>1 DEF Takes, Taken
  <2>3. CASE if2de # <<>>
    <3>1. 1 <= Len(if2de) /\ Taken(in) = <<if2de[1]>>
      BY <1>1, <2>2, <2>3 DEF Offered, Valid
    <3> QED BY <3>1 DEF EntryAt
  <2>4. CASE if2de = <<>>
    <3>1. Len(if2de) = 0 /\ Taken(in) = if2de_push
      BY <2>2, <2>4 DEF Offered, Valid
    <3> QED BY <3>1 DEF EntryAt
  <2> QED BY <2>3, <2>4
<1>5. TakesLive(in) <=> Takes(in) /\ ~EntryAt(1).cancel
  BY <1>3, <1>4 DEF TakesLive
<1>6. TakesLive(in) /\ Taken(in)[1].excp <=> Takes(in) /\ ~EntryAt(1).cancel /\ EntryAt(1).excp
  BY <1>4, <1>5
<1>7. rob \in {"empty", "some", "trap"}
  BY DEF Typed, FetchTypeOK
<1> QED BY <1>2, <1>6, <1>7 DEF RobAfter

\* If no exception is ahead after a cycle, none was before it.
LEMMA ClearCycle ==
  ASSUME Typed, NEW in \in Inputs, FetchTick(in), ~redirect(in),
         NEW k \in 0 .. Len(if2de'), Clear(k)'
  PROVE  /\ \A i \in 1 .. k + Shift(in) : ~EntryAt(i).cancel => ~EntryAt(i).excp
         /\ \A n \in 0 .. Len(if2de) : n <= k + Shift(in) => Clear(n)
<1>1. /\ Len(if2de) \in Nat /\ Len(if2de_push) \in {0, 1} /\ Shift(in) \in {0, 1}
      /\ Len(if2de') = Len(if2de) + Len(if2de_push) - Shift(in)
      /\ \A i \in 1 .. Len(if2de') : /\ if2de'[i].cancel <=> EntryAt(i + Shift(in)).cancel
                                     /\ if2de'[i].excp = EntryAt(i + Shift(in)).excp
  BY BufCycle
<1>2. rob' # "trap" /\ \A i \in 1 .. k : ~if2de'[i].cancel => ~if2de'[i].excp
  BY DEF Clear
<1>3. rob # "trap" /\ ~(Takes(in) /\ ~EntryAt(1).cancel /\ EntryAt(1).excp)
  BY <1>2, RobCycle
<1>4. ASSUME NEW i \in 1 .. k + Shift(in) PROVE ~EntryAt(i).cancel => ~EntryAt(i).excp
  <2>1. CASE i - Shift(in) \in 1 .. k
    <3>1. i - Shift(in) \in 1 .. Len(if2de') /\ (i - Shift(in)) + Shift(in) = i
      BY <1>1, <2>1
    <3> QED BY <1>1, <1>2, <2>1, <3>1, Zenon
  <2>2. CASE i - Shift(in) \notin 1 .. k
    <3>1. Shift(in) = 1 /\ i = 1
      BY <1>1, <2>2
    <3> QED BY <1>3, <3>1 DEF Shift
  <2> QED BY <2>1, <2>2
<1>5. ASSUME NEW n \in 0 .. Len(if2de), n <= k + Shift(in) PROVE Clear(n)
  <2>1. ASSUME NEW i \in 1 .. n PROVE ~if2de[i].cancel => ~if2de[i].excp
    <3>1. i \in 1 .. k + Shift(in) /\ i <= Len(if2de)
      BY <1>1, <1>5
    <3> QED BY <1>4, <3>1 DEF EntryAt
  <2> QED BY <1>3, <2>1, Zenon DEF Clear
<1> QED BY <1>4, <1>5

\* If no exception is ahead after a cycle, none that is alive left the pipe for
\* the buffer, and no fetch passed one.
LEMMA NoneAheadCycle ==
  ASSUME Ordered, RejoinsLate, NEW in \in Inputs, FetchTick(in), ~redirect(in), NoneAhead'
  PROVE  NoneAhead /\ ~(ExcpLive /\ excp_pop) /\ ~(ExcpLive /\ if_fire(in))
<1>1. /\ Len(if2de) \in Nat /\ Len(if2de_push) \in {0, 1} /\ Shift(in) \in {0, 1}
      /\ Len(if2de') = Len(if2de) + Len(if2de_push) - Shift(in) /\ Len(if2de') \in Nat
  BY BufCycle DEF Ordered
<1>2. /\ \A i \in 1 .. Len(if2de') + Shift(in) : ~EntryAt(i).cancel => ~EntryAt(i).excp
      /\ \A n \in 0 .. Len(if2de) : n <= Len(if2de') + Shift(in) => Clear(n)
  <2>1. PICK k \in 0 .. Len(if2de') : k = Len(if2de')
    BY <1>1
  <2>2. Clear(k)'
    BY <2>1 DEF NoneAhead, Clear
  <2> QED BY <2>1, <2>2, ClearCycle DEF Ordered
<1>3. NoneAhead
  <2>1. Len(if2de) \in 0 .. Len(if2de) /\ Len(if2de) <= Len(if2de') + Shift(in)
    BY <1>1
  <2> QED BY <1>2, <2>1 DEF NoneAhead
<1>4. ~(ExcpLive /\ excp_pop)
  <2> SUFFICES ASSUME ExcpLive, excp_pop PROVE FALSE
    OBVIOUS
  <2>1. Len(if2de_push) = 1 /\ ~if2de_push[1].cancel /\ if2de_push[1].excp
    BY PushIs DEF Ordered, ExcpLive
  <2>2. Len(if2de) + 1 \in 1 .. Len(if2de') + Shift(in) /\ ~(Len(if2de) + 1 <= Len(if2de))
    BY <1>1, <2>1
  <2>3. EntryAt(Len(if2de) + 1) = if2de_push[1]
    BY <2>2 DEF EntryAt
  <2> QED BY <1>2, <2>1, <2>2, <2>3
<1>5. ~(ExcpLive /\ if_fire(in))
  <2> SUFFICES ASSUME ExcpLive, if_fire(in) PROVE FALSE
    OBVIOUS
  <2>1. pc \in Itcm
    BY MemCycle DEF Ordered
  <2>2. /\ excp_pipe[1].pc \in Pc \ Itcm /\ ~Late(excp_pipe[1].pc) /\ pc = PcInc(excp_pipe[1].pc)
    BY <1>3 DEF Ordered, FirstExcp
  <2> QED BY <2>1, <2>2 DEF RejoinsLate
<1> QED BY <1>3, <1>4, <1>5

\* The path goes on where it was: a fetch that is handed over, an exception
\* that is raised and a word that enters the buffer keep the next address.
LEMMA NextCycle ==
  ASSUME Ordered, RejoinsLate, NEW in \in Inputs, FetchTick(in), ~redirect(in), NoneAhead'
  PROVE  /\ if_fire(in) => Behind = pc /\ Behind' = PcInc(pc)
         /\ ~if_fire(in) => Behind' = Behind
         /\ Coming' = IF MemLive /\ ~mem_pop THEN Coming ELSE Behind
<1>1. ~(ExcpLive /\ excp_pop) /\ ~(ExcpLive /\ if_fire(in))
  BY NoneAheadCycle
<1>2. /\ ExcpLive' <=> excp_push(in) \/ (ExcpLive /\ ~excp_pop)
      /\ ExcpLive' => excp_pipe'[1].pc = IF excp_push(in) THEN pc ELSE excp_pipe[1].pc
      /\ excp_push(in) => pc \notin Itcm /\ (ExcpLive => excp_pop)
  BY ExcpCycle DEF Ordered
<1>3. /\ MemLive' <=> if_fire(in) \/ (MemLive /\ ~mem_pop)
      /\ MemLive' => mem_queue'[1].pc = IF if_fire(in) THEN pc ELSE mem_queue[1].pc
      /\ if_fire(in) => pc \in Itcm /\ (MemLive => mem_pop)
  BY MemCycle DEF Ordered
<1>4. pc' = IF if_fire(in) \/ excp_push(in) THEN PcInc(pc) ELSE pc
  BY PcCycle DEF Ordered
<1>5. CASE if_fire(in)
  <2>1. Behind = pc
    BY <1>1, <1>5, Zenon DEF Behind
  <2>2. Behind' = PcInc(pc)
    BY <1>1, <1>2, <1>3, <1>4, <1>5, Zenon DEF Behind
  <2>3. Coming' = pc /\ ~(MemLive /\ ~mem_pop)
    BY <1>3, <1>5 DEF Coming
  <2> QED BY <1>5, <2>1, <2>2, <2>3
<1>6. CASE ~if_fire(in)
  <2>1. Behind' = Behind
    <3>1. CASE ExcpLive
      BY <1>1, <1>2, <3>1 DEF Behind
    <3>2. CASE ~ExcpLive /\ excp_push(in)
      BY <1>2, <3>2 DEF Behind
    <3>3. CASE ~ExcpLive /\ ~excp_push(in)
      BY <1>2, <1>4, <1>6, <3>3, Zenon DEF Behind
    <3> QED BY <3>1, <3>2, <3>3, Zenon
  <2>2. Coming' = IF MemLive /\ ~mem_pop THEN Coming ELSE Behind
    BY <1>3, <1>6, <2>1, Zenon DEF Coming
  <2> QED BY <1>6, <2>1, <2>2
<1> QED BY <1>5, <1>6

\* The entry that enters the buffer is the one that comes next.
LEMMA PushedNext ==
  ASSUME Ordered, if2de_push # <<>>
  PROVE  /\ ~if2de_push[1].cancel => if2de_push[1].pc = Coming
         /\ ~if2de_push[1].cancel /\ ~if2de_push[1].excp =>
              mem_pop /\ MemLive /\ if2de_push[1].word = if2de_push[1].pc
         /\ if2de_push[1].cancel /\ ~if2de_push[1].excp => mem_queue # <<>> /\ mem_queue[1].cancel
         /\ MemLive /\ mem_pop => ~if2de_push[1].cancel
<1>1. CASE mem_pop
  <2>1. /\ mem_queue # <<>>
        /\ if2de_push[1] = [pc |-> mem_queue[1].pc, word |-> addr_r, excp |-> FALSE,
                            cancel |-> mem_queue[1].cancel]
    BY <1>1, PushIs DEF Ordered
  <2>2. mem_queue[1].cancel \/ addr_r = mem_queue[1].pc
    BY <1>1, Zenon DEF Ordered, Typed, FetchInv, AnswersBelong, mem_pop
  <2> QED BY <1>1, <2>1, <2>2 DEF MemLive, Coming
<1>2. CASE ~mem_pop
  <2>1. /\ mem_queue = <<>> /\ excp_pipe # <<>>
        /\ if2de_push[1] = [pc |-> excp_pipe[1].pc, word |-> NoPc, excp |-> TRUE,
                            cancel |-> excp_pipe[1].cancel]
    BY <1>2, PushIs, Zenon DEF Ordered
  <2> QED BY <1>2, <2>1 DEF MemLive, ExcpLive, Coming, Behind
<1> QED BY <1>1, <1>2, Zenon

\* Place k of the buffer after a cycle without a redirection, as a place before.
LEMMA PlaceCycle ==
  ASSUME Typed, NEW in \in Inputs, FetchTick(in), ~redirect(in), NEW k \in 1 .. Len(if2de')
  PROVE  /\ k + Shift(in) \in 1 .. Len(if2de) + Len(if2de_push)
         /\ if2de'[k].cancel <=> EntryAt(k + Shift(in)).cancel
         /\ if2de'[k].excp = EntryAt(k + Shift(in)).excp
         /\ ~if2de'[k].cancel => if2de'[k] = EntryAt(k + Shift(in))
         /\ k + Shift(in) <= Len(if2de) => EntryAt(k + Shift(in)) = if2de[k + Shift(in)]
         /\ ~(k + Shift(in) <= Len(if2de)) =>
              /\ k + Shift(in) = Len(if2de) + 1 /\ EntryAt(k + Shift(in)) = if2de_push[1]
              /\ if2de_push # <<>>
<1>1. /\ Len(if2de) \in Nat /\ Len(if2de_push) \in {0, 1} /\ Shift(in) \in {0, 1}
      /\ Len(if2de') = Len(if2de) + Len(if2de_push) - Shift(in)
      /\ \A i \in 1 .. Len(if2de') : /\ if2de'[i].cancel <=> EntryAt(i + Shift(in)).cancel
                                     /\ if2de'[i].excp = EntryAt(i + Shift(in)).excp
                                     /\ ~EntryAt(i + Shift(in)).cancel => if2de'[i] = EntryAt(i + Shift(in))
  BY BufCycle
<1>2. k + Shift(in) \in 1 .. Len(if2de) + Len(if2de_push)
  BY <1>1
<1>3. ~(k + Shift(in) <= Len(if2de)) => k + Shift(in) = Len(if2de) + 1 /\ Len(if2de_push) = 1
  <2>1. ASSUME NEW l \in Nat, NEW m \in {0, 1}, NEW c \in 1 .. l + m
        PROVE  ~(c <= l) => c = l + 1 /\ m = 1
    BY <2>1
  <2>2. Len(if2de) \in Nat /\ Len(if2de_push) \in {0, 1}
    BY <1>1, Zenon
  <2> QED BY <1>2, <2>1, <2>2, Zenon
<1>4. Len(if2de_push) = 1 => if2de_push # <<>>
  OBVIOUS
<1> QED BY <1>1, <1>2, <1>3, <1>4, Zenon DEF EntryAt

\* A clock cycle keeps InBuffer.
LEMMA InBufferStep ==
  ASSUME Ordered, NEW in \in Inputs, FetchTick(in)
  PROVE  InBuffer'
<1> SUFFICES ASSUME NEW j \in 1 .. Len(if2de'), NEW k \in 1 .. Len(if2de'),
                    j < k, ~if2de'[j].cancel, ~if2de'[k].cancel,
                    \A i \in j + 1 .. k - 1 : if2de'[i].cancel, Clear(j)'
             PROVE  if2de'[j].word = if2de'[j].pc /\ if2de'[k].pc = PcInc(if2de'[j].pc)
  BY DEF InBuffer, Clear, PcInc
<1> DEFINE a == j + Shift(in)
           c == k + Shift(in)
<1>1. Typed
  BY DEF Ordered
<1>2. ~redirect(in)
  BY <1>1, BufCycle
<1>3. Len(if2de) \in Nat /\ Shift(in) \in {0, 1} /\ Len(if2de') \in Nat
  BY <1>1, BufCycle
<1>4. a \in 1 .. Len(if2de) /\ if2de[a] = if2de'[j] /\ ~if2de[a].cancel
  <2>1. a < c /\ (c <= Len(if2de) \/ c = Len(if2de) + 1)
    BY <1>1, <1>2, <1>3, PlaceCycle
  <2>2. a \in 1 .. Len(if2de)
    BY <1>3, <2>1
  <2> QED BY <1>1, <1>2, <2>2, PlaceCycle
<1>5. ASSUME NEW i \in a + 1 .. c - 1, i <= Len(if2de) PROVE if2de[i].cancel
  <2>1. /\ i - Shift(in) \in j + 1 .. k - 1 /\ i - Shift(in) \in 1 .. Len(if2de')
        /\ (i - Shift(in)) + Shift(in) = i
    BY <1>3, <1>5
  <2>2. if2de'[i - Shift(in)].cancel
    BY <2>1, Zenon
  <2>3. EntryAt(i).cancel
    BY <1>1, <1>2, <2>1, <2>2, PlaceCycle, Zenon
  <2> QED BY <1>5, <2>3 DEF EntryAt
<1>6. Clear(a)
  <2>1. j \in 0 .. Len(if2de') /\ a \in 0 .. Len(if2de) /\ a <= j + Shift(in)
    BY <1>3, <1>4
  <2> QED BY <1>1, <1>2, <2>1, ClearCycle, Zenon
<1>7. if2de'[k] = EntryAt(c) /\ ~EntryAt(c).cancel
  BY <1>1, <1>2, PlaceCycle, Zenon
<1>8. CASE c <= Len(if2de)
  <2>1. c \in 1 .. Len(if2de) /\ a < c /\ EntryAt(c) = if2de[c]
    BY <1>3, <1>8 DEF EntryAt
  <2>2. \A i \in a + 1 .. c - 1 : if2de[i].cancel
    BY <1>3, <1>5, <1>8
  <2> HIDE DEF a, c
  <2> QED BY <1>4, <1>6, <1>7, <2>1, <2>2 DEF Ordered, InBuffer
<1>9. CASE ~(c <= Len(if2de))
  <2>1. c = Len(if2de) + 1 /\ EntryAt(c) = if2de_push[1] /\ if2de_push # <<>>
    BY <1>1, <1>2, <1>9, PlaceCycle, Zenon
  <2>2. \A i \in a + 1 .. Len(if2de) : if2de[i].cancel
    BY <1>3, <1>5, <2>1
  <2> HIDE DEF a, c
  <2>3. if2de[a].word = if2de[a].pc /\ Coming = PcInc(if2de[a].pc)
    BY <1>4, <1>6, <2>2, Zenon DEF Ordered, AfterBuffer
  <2>4. if2de_push[1].pc = Coming
    BY <1>7, <2>1, PushedNext
  <2> QED BY <1>4, <1>7, <2>1, <2>3, <2>4, Zenon
<1> QED BY <1>8, <1>9

\* A clock cycle keeps AfterQueue.
LEMMA AfterQueueStep ==
  ASSUME Ordered, RejoinsLate, NEW in \in Inputs, FetchTick(in)
  PROVE  AfterQueue'
<1> SUFFICES ASSUME MemLive', NoneAhead' PROVE Behind' = PcInc(mem_queue'[1].pc)
  BY DEF AfterQueue, PcInc
<1>1. Typed
  BY DEF Ordered
<1>2. /\ ~redirect(in) /\ (if_fire(in) \/ (MemLive /\ ~mem_pop))
      /\ mem_queue'[1].pc = IF if_fire(in) THEN pc ELSE mem_queue[1].pc
  BY <1>1, MemCycle, Zenon
<1>3. NoneAhead
  BY <1>2, NoneAheadCycle, Zenon
<1>4. CASE if_fire(in)
  BY <1>2, <1>4, NextCycle, Zenon
<1>5. CASE ~if_fire(in)
  <2>1. Behind' = Behind /\ MemLive
    BY <1>2, <1>5, NextCycle, Zenon
  <2> QED BY <1>2, <1>3, <1>5, <2>1 DEF Ordered, AfterQueue
<1> QED BY <1>4, <1>5

\* A clock cycle keeps AfterBuffer.
LEMMA AfterBufferStep ==
  ASSUME Ordered, RejoinsLate, NEW in \in Inputs, FetchTick(in)
  PROVE  AfterBuffer'
<1> SUFFICES ASSUME NEW j \in 1 .. Len(if2de'), ~if2de'[j].cancel,
                    \A i \in j + 1 .. Len(if2de') : if2de'[i].cancel, Clear(j)'
             PROVE  if2de'[j].word = if2de'[j].pc /\ Coming' = PcInc(if2de'[j].pc)
  BY DEF AfterBuffer, Clear, PcInc
<1> DEFINE a == j + Shift(in)
<1>1. Typed
  BY DEF Ordered
<1>2. ~redirect(in)
  BY <1>1, BufCycle
<1>3. /\ Len(if2de) \in Nat /\ Shift(in) \in {0, 1} /\ Len(if2de_push) \in {0, 1}
      /\ Len(if2de') = Len(if2de) + Len(if2de_push) - Shift(in) /\ Len(if2de') \in Nat
  BY <1>1, BufCycle
<1>4. NoneAhead'
  <2>1. \A i \in 1 .. Len(if2de') : ~if2de'[i].cancel => i \in 1 .. j
    BY <1>3
  <2> QED BY <2>1 DEF NoneAhead, Clear
<1>5. if2de'[j] = EntryAt(a) /\ ~EntryAt(a).cancel /\ a \in 1 .. Len(if2de) + Len(if2de_push)
  BY <1>1, <1>2, PlaceCycle, Zenon
<1>6. ASSUME NEW i \in a + 1 .. Len(if2de) + Len(if2de_push) PROVE EntryAt(i).cancel
  <2>1. i - Shift(in) \in j + 1 .. Len(if2de') /\ i - Shift(in) \in 1 .. Len(if2de')
        /\ (i - Shift(in)) + Shift(in) = i
    BY <1>3
  <2> QED BY <1>1, <1>2, <2>1, PlaceCycle
<1>7. CASE a <= Len(if2de)
  <2>1. a \in 1 .. Len(if2de) /\ EntryAt(a) = if2de[a]
    BY <1>3, <1>5, <1>7 DEF EntryAt
  <2>2. ASSUME NEW i \in a + 1 .. Len(if2de) PROVE if2de[i].cancel
    <3>1. i \in a + 1 .. Len(if2de) + Len(if2de_push) /\ i <= Len(if2de)
      BY <1>3
    <3> QED BY <1>6, <3>1 DEF EntryAt
  <2>3. Clear(a)
    <3>1. j \in 0 .. Len(if2de') /\ a \in 0 .. Len(if2de) /\ a <= j + Shift(in)
      BY <1>3, <2>1
    <3> QED BY <1>1, <1>2, <3>1, ClearCycle
  <2>4. ~(MemLive /\ mem_pop)
    <3>1. if2de_push # <<>> => if2de_push[1].cancel
      <4> SUFFICES ASSUME if2de_push # <<>> PROVE if2de_push[1].cancel
        OBVIOUS
      <4>1. Len(if2de_push) = 1
        BY <1>1, PushIs
      <4>2. Len(if2de) + 1 \in a + 1 .. Len(if2de) + Len(if2de_push) /\ ~(Len(if2de) + 1 <= Len(if2de))
        BY <1>3, <2>1, <4>1
      <4> QED BY <1>6, <4>2 DEF EntryAt
    <3>2. mem_pop => if2de_push # <<>>
      BY <1>1, PushIs, Zenon
    <3> QED BY <3>1, <3>2, PushedNext
  <2> HIDE DEF a
  <2>5. if2de[a].word = if2de[a].pc /\ Coming = PcInc(if2de[a].pc)
    BY <1>5, <2>1, <2>2, <2>3, Zenon DEF Ordered, AfterBuffer
  <2>6. Coming' = Coming
    BY <1>2, <1>4, <2>4, NextCycle, Zenon DEF Coming
  <2> QED BY <1>5, <2>1, <2>5, <2>6, Zenon
<1>8. CASE ~(a <= Len(if2de))
  <2>1. a = Len(if2de) + 1 /\ EntryAt(a) = if2de_push[1] /\ if2de_push # <<>>
    BY <1>1, <1>2, <1>8, PlaceCycle, Zenon
  <2>2. ~if2de_push[1].excp
    <3>1. a \in 1 .. j + Shift(in) /\ j \in 0 .. Len(if2de')
      BY <1>3
    <3> QED BY <1>1, <1>2, <1>5, <2>1, <3>1, ClearCycle
  <2>3. mem_pop /\ MemLive /\ if2de_push[1].word = if2de_push[1].pc /\ if2de_push[1].pc = Coming
    BY <1>5, <2>1, <2>2, PushedNext, Zenon
  <2>4. Coming' = Behind
    BY <1>2, <1>4, <2>3, NextCycle
  <2>5. NoneAhead
    BY <1>2, <1>4, NoneAheadCycle, Zenon
  <2>6. Behind = PcInc(mem_queue[1].pc) /\ Coming = mem_queue[1].pc
    BY <2>3, <2>5 DEF Ordered, AfterQueue, Coming
  <2> QED BY <1>5, <2>1, <2>3, <2>4, <2>6
<1> QED BY <1>7, <1>8, Zenon

\* A clock cycle keeps CancelledFirst.
LEMMA CancelledFirstStep ==
  ASSUME Ordered, NEW in \in Inputs, FetchTick(in)
  PROVE  CancelledFirst'
<1>1. Typed /\ CancelledFirst
  BY DEF Ordered
<1>2. /\ Len(if2de) \in Nat /\ Shift(in) \in {0, 1} /\ Len(if2de_push) \in {0, 1}
      /\ Len(if2de') = Len(if2de) + Len(if2de_push) - Shift(in) /\ Len(if2de') \in Nat
  BY <1>1, BufCycle
<1>3. ASSUME NEW j \in 1 .. Len(if2de'), NEW k \in 1 .. Len(if2de'),
             j < k, ~if2de'[j].cancel, if2de'[k].cancel
      PROVE  if2de'[k].excp
  <2> DEFINE a == j + Shift(in)
             c == k + Shift(in)
  <2>1. ~redirect(in)
    BY <1>1, <1>3, BufCycle, Zenon
  <2>2. /\ c <= Len(if2de) \/ c = Len(if2de) + 1
        /\ a < c
    BY <1>1, <1>2, <1>3, <2>1, PlaceCycle
  <2>3. a \in 1 .. Len(if2de) /\ ~if2de[a].cancel
    <3>1. a \in 1 .. Len(if2de)
      BY <1>2, <2>2
    <3> QED BY <1>1, <1>3, <2>1, <3>1, PlaceCycle
  <2>4. CASE c <= Len(if2de)
    <3>1. c \in 1 .. Len(if2de)
      BY <1>2, <2>4
    <3>2. if2de[c].cancel /\ if2de'[k].excp = if2de[c].excp
      BY <1>1, <1>3, <2>1, <2>4, PlaceCycle
    <3> HIDE DEF a, c
    <3> QED BY <1>1, <2>2, <2>3, <3>1, <3>2 DEF CancelledFirst
  <2>5. CASE ~(c <= Len(if2de))
    <3>1. /\ if2de_push # <<>> /\ if2de_push[1].cancel
          /\ if2de'[k].excp = if2de_push[1].excp
      BY <1>1, <1>3, <2>1, <2>5, PlaceCycle
    <3> HIDE DEF a, c
    <3>2. ~if2de_push[1].excp => if2de[a].cancel
      BY <1>1, <2>3, <3>1, PushedNext DEF CancelledFirst
    <3> QED BY <2>3, <3>1, <3>2, Zenon
  <2> QED BY <2>4, <2>5
<1>4. ASSUME mem_queue' # <<>>, mem_queue'[1].cancel, NEW i \in 1 .. Len(if2de')
      PROVE  if2de'[i].cancel
  <2>1. CASE redirect(in)
    BY <1>1, <2>1, BufCycle, Zenon
  <2>2. CASE ~redirect(in)
    <3>1. ~MemLive'
      BY <1>4, Zenon DEF MemLive
    <3>2. ~if_fire(in) /\ (MemLive => mem_pop)
      BY <1>1, <2>2, <3>1, MemCycle
    <3>3. rsp_valid("if") /\ ~itcm_pop
      BY <1>1, <1>4, <3>2, MemQueueCycle DEF Typed
    <3>4. mem_queue # <<>> /\ ~mem_pop
      BY <1>1, <3>3, MemShort DEF itcm_pop, mem_pop, if_rsp_ready, Valid
    <3>5. mem_queue[1].cancel
      BY <3>2, <3>4 DEF MemLive
    <3>6. if2de_push = <<>>
      BY <1>1, <3>4, PushIs, Zenon
    <3>7. i + Shift(in) \in 1 .. Len(if2de)
      BY <1>1, <1>2, <2>2, <3>6, PlaceCycle
    <3>8. if2de[i + Shift(in)].cancel
      BY <1>1, <3>4, <3>5, <3>7, Zenon DEF CancelledFirst
    <3> QED BY <1>1, <1>2, <2>2, <3>7, <3>8, PlaceCycle
  <2> QED BY <2>1, <2>2
<1> QED BY <1>3, <1>4 DEF CancelledFirst

\* A clock cycle keeps FirstExcp.
LEMMA FirstExcpStep ==
  ASSUME Ordered, RejoinsLate, NEW in \in Inputs, FetchTick(in)
  PROVE  FirstExcp'
<1>1. Typed /\ pc \in Pc
  BY DEF Ordered, Typed, FetchTypeOK
<1>2. FirstExcp
  BY Zenon DEF Ordered
<1>3. /\ ExcpLive' <=> ~redirect(in) /\ (excp_push(in) \/ (ExcpLive /\ ~excp_pop))
      /\ ExcpLive' => excp_pipe'[1].pc = IF excp_push(in) THEN pc ELSE excp_pipe[1].pc
      /\ excp_push(in) => ~redirect(in) /\ pc \notin Itcm /\ (ExcpLive => excp_pop)
  BY <1>1, ExcpCycle
<1>4. /\ redirect(in) => pc' \in Targets
      /\ ~redirect(in) => pc' = IF if_fire(in) \/ excp_push(in) THEN PcInc(pc) ELSE pc
  BY <1>1, PcCycle
<1>5. ~redirect(in) /\ NoneAhead' =>
        NoneAhead /\ ~(ExcpLive /\ excp_pop) /\ ~(ExcpLive /\ if_fire(in))
  BY NoneAheadCycle
<1>6. if_fire(in) => pc \in Itcm
  BY <1>1, MemCycle, Zenon
<1>7. ExcpLive' => excp_pipe'[1].pc \in Pc \ Itcm
  BY <1>1, <1>2, <1>3 DEF FirstExcp
<1>8. ASSUME ExcpLive', NoneAhead'
      PROVE  ~Late(excp_pipe'[1].pc) /\ pc' = PcInc(excp_pipe'[1].pc)
  <2>1. CASE excp_push(in)
    <3>1. ~Late(pc)
      BY <1>2, <1>3, <1>5, <1>8, <2>1, Zenon DEF FirstExcp
    <3> QED BY <1>3, <1>4, <1>8, <2>1, <3>1, Zenon
  <2>2. CASE ~excp_push(in)
    <3>1. ~redirect(in) /\ ExcpLive /\ NoneAhead /\ ~if_fire(in)
      BY <1>3, <1>5, <1>8, <2>2
    <3> QED BY <1>2, <1>3, <1>4, <1>8, <2>2, <3>1, Zenon DEF FirstExcp
  <2> QED BY <2>1, <2>2, Zenon
<1>9. ASSUME Late(pc'), NoneAhead' PROVE ExcpLive'
  <2>1. ~redirect(in)
    BY <1>4, <1>9 DEF Late
  <2>2. ~if_fire(in)
    BY <1>4, <1>6, <1>9, <2>1, Zenon DEF Late
  <2>3. CASE excp_push(in)
    BY <1>3, <2>1, <2>3
  <2>4. CASE ~excp_push(in)
    BY <1>2, <1>3, <1>4, <1>5, <1>9, <2>1, <2>2, <2>4, Zenon DEF FirstExcp
  <2> QED BY <2>3, <2>4, Zenon
<1> QED BY <1>7, <1>8, <1>9 DEF FirstExcp, Late, PcInc

\* Fetching in order is an inductive invariant.
LEMMA AlwaysOrdered ==
  ASSUME RejoinsLate
  PROVE  FetchSpec => []Ordered
<1>1. FetchInit => Ordered
  <2> SUFFICES ASSUME FetchInit PROVE Ordered
    OBVIOUS
  <2>1. /\ ~MemLive /\ ~ExcpLive /\ ~Late(pc) /\ mem_queue = <<>>
        /\ \A i \in 1 .. Len(if2de) : FALSE
    BY DEF FetchInit, MemLive, ExcpLive, Late
  <2>2. InBuffer /\ AfterBuffer /\ AfterQueue /\ CancelledFirst /\ FirstExcp
    BY <2>1, Zenon DEF InBuffer, AfterBuffer, AfterQueue, CancelledFirst, FirstExcp
  <2>3. Typed
    BY TypedInit
  <2> QED BY <2>2, <2>3 DEF Ordered
<1>2. ASSUME Ordered, FetchNext PROVE Ordered'
  <2>1. PICK in \in Inputs : FetchTick(in)
    BY <1>2 DEF FetchNext
  <2>2. Typed'
    BY <1>2, <2>1, TypedStep DEF Ordered
  <2>3. InBuffer' /\ CancelledFirst'
    BY <1>2, <2>1, InBufferStep, CancelledFirstStep
  <2>4. AfterBuffer' /\ AfterQueue' /\ FirstExcp'
    BY <1>2, <2>1, AfterBufferStep, AfterQueueStep, FirstExcpStep
  <2> QED BY <2>2, <2>3, <2>4 DEF Ordered
<1>3. ASSUME Ordered, UNCHANGED fetch_vars PROVE Ordered'
  <2>1. UNCHANGED <<pc, excp_pipe, mem_queue, if2de, rob>>
    BY <1>3 DEF fetch_vars
  <2>2. Typed'
    BY <1>3, TypedSame DEF Ordered
  <2>3. (MemLive' <=> MemLive) /\ (ExcpLive' <=> ExcpLive)
    BY <2>1 DEF MemLive, ExcpLive
  <2>4. Behind' = Behind /\ Coming' = Coming
    BY <2>1, <2>3 DEF Behind, Coming
  <2>5. (\A j \in 1 .. Len(if2de) : Clear(j)' <=> Clear(j)) /\ (NoneAhead' <=> NoneAhead)
    BY <2>1, Zenon DEF Clear, NoneAhead
  <2>6. InBuffer'
    BY <1>3, <2>1, <2>5 DEF Ordered, InBuffer, PcInc
  <2>7. AfterBuffer'
    BY <1>3, <2>1, <2>4, <2>5, Zenon DEF Ordered, AfterBuffer, PcInc
  <2>8. AfterQueue'
    BY <1>3, <2>1, <2>3, <2>4, <2>5 DEF Ordered, AfterQueue, PcInc
  <2>9. CancelledFirst'
    BY <1>3, <2>1, Zenon DEF Ordered, CancelledFirst
  <2>10. FirstExcp'
    BY <1>3, <2>1, <2>3, <2>5 DEF Ordered, FirstExcp, Late, PcInc
  <2> QED BY <2>2, <2>6, <2>7, <2>8, <2>9, <2>10 DEF Ordered
<1> QED BY <1>1, <1>2, <1>3, PTL DEF FetchSpec

\* The places of a sequence put together from four parts, the last ones short.
Places(S, s, m, x, p) ==
  /\ Len(S) = Len(s) + Len(m) + Len(x) + 1
  /\ \A i \in 1 .. Len(s) : S[i] = s[i]
  /\ Len(m) = 1 => S[Len(s) + 1] = m[1]
  /\ Len(x) = 1 => S[Len(s) + Len(m) + 1] = x[1]
  /\ S[Len(s) + Len(m) + Len(x) + 1] = p[1]

\* Where the parts of such a sequence are.
LEMMA FourParts ==
  ASSUME NEW R, NEW s \in Seq(R), NEW m \in Seq(R), NEW x \in Seq(R), NEW p \in Seq(R),
         Len(m) \in {0, 1}, Len(x) \in {0, 1}, Len(p) = 1
  PROVE  Places(((s \o m) \o x) \o p, s, m, x, p)
<1>1. PICK t : t = s \o m
  BY Zenon
<1>2. PICK u : u = t \o x
  BY Zenon
<1> DEFINE S == u \o p
<1> HIDE DEF S
<1>3. /\ t \in Seq(R) /\ Len(t) = Len(s) + Len(m)
      /\ \A i \in 1 .. Len(s) + Len(m) : t[i] = IF i <= Len(s) THEN s[i] ELSE m[i - Len(s)]
  BY <1>1, Joined, Zenon
<1>4. /\ u \in Seq(R) /\ Len(u) = Len(t) + Len(x)
      /\ \A i \in 1 .. Len(t) + Len(x) : u[i] = IF i <= Len(t) THEN t[i] ELSE x[i - Len(t)]
  <2>1. t \in Seq(R)
    BY <1>3
  <2> QED BY <1>2, <2>1, Joined, Zenon
<1>5. /\ Len(S) = Len(u) + Len(p)
      /\ \A i \in 1 .. Len(u) + Len(p) : S[i] = IF i <= Len(u) THEN u[i] ELSE p[i - Len(u)]
  <2>1. u \in Seq(R)
    BY <1>4
  <2> QED BY <2>1, Joined, Zenon DEF S
<1>6. Len(s) \in Nat /\ Len(t) \in Nat /\ Len(u) \in Nat
  BY <1>3, <1>4
<1>7. ASSUME NEW i \in 1 .. Len(s) PROVE S[i] = s[i]
  <2>1. t[i] = s[i] /\ i <= Len(t) /\ i \in 1 .. Len(t) + Len(x)
    BY <1>3, <1>6
  <2>2. u[i] = t[i] /\ i <= Len(u) /\ i \in 1 .. Len(u) + Len(p)
    BY <1>4, <1>6, <2>1
  <2> QED BY <1>5, <2>1, <2>2
<1>8. ASSUME Len(m) = 1 PROVE S[Len(s) + 1] = m[1]
  <2>1. t[Len(t)] = m[1] /\ Len(s) + 1 = Len(t)
    <3>1. Len(t) = Len(s) + 1 /\ Len(t) \in 1 .. Len(s) + Len(m) /\ ~(Len(t) <= Len(s)) /\ Len(t) - Len(s) = 1
      BY <1>3, <1>6, <1>8
    <3> QED BY <1>3, <3>1
  <2>2. u[Len(t)] = t[Len(t)] /\ Len(t) <= Len(u) /\ Len(t) \in 1 .. Len(u) + Len(p)
    BY <1>4, <1>6, <2>1
  <2> QED BY <1>5, <2>1, <2>2
<1>9. ASSUME Len(x) = 1 PROVE S[Len(t) + 1] = x[1]
  <2>1. Len(u) = Len(t) + 1 /\ Len(u) \in 1 .. Len(t) + Len(x) /\ ~(Len(u) <= Len(t)) /\ Len(u) - Len(t) = 1
    BY <1>4, <1>6, <1>9
  <2>2. u[Len(u)] = x[1]
    BY <1>4, <2>1
  <2>3. Len(u) \in 1 .. Len(u) + Len(p) /\ Len(u) <= Len(u)
    BY <1>6, <2>1
  <2> QED BY <1>5, <2>1, <2>2, <2>3
<1>10. S[Len(u) + 1] = p[1]
  <2>1. Len(u) + 1 \in 1 .. Len(u) + Len(p) /\ ~(Len(u) + 1 <= Len(u)) /\ (Len(u) + 1) - Len(u) = 1
    BY <1>6
  <2> QED BY <1>5, <2>1
<1>11. Len(u) = Len(s) + Len(m) + Len(x) /\ Len(S) = Len(u) + 1
  BY <1>3, <1>4, <1>5, Zenon
<1>12. Places(S, s, m, x, p)
  BY <1>3, <1>7, <1>8, <1>9, <1>10, <1>11, Zenon DEF Places
<1> QED BY <1>1, <1>2, <1>12 DEF S

\* The places of the stream: the buffer before decode, the queue, the exception
\* and the address that is fetched next.
LEMMA StreamIs ==
  ASSUME Typed
  PROVE  LET B == Len(if2de)
             M == Len(mem_queue)
             E == Len(excp_pipe)
         IN  /\ B \in Nat /\ M \in {0, 1} /\ E \in {0, 1} /\ Len(Stream) = B + M + E + 1
             /\ mem_queue # <<>> <=> M = 1
             /\ excp_pipe # <<>> <=> E = 1
             /\ \A i \in 1 .. B : Stream[i] = if2de[i]
             /\ M = 1 => Stream[B + 1] = [pc |-> mem_queue[1].pc, word |-> mem_queue[1].pc,
                                          excp |-> FALSE, cancel |-> mem_queue[1].cancel]
             /\ E = 1 => Stream[B + M + 1] = [pc |-> excp_pipe[1].pc, word |-> NoPc,
                                              excp |-> TRUE, cancel |-> excp_pipe[1].cancel]
             /\ Stream[B + M + E + 1] = [pc |-> pc, word |-> pc, excp |-> FALSE, cancel |-> FALSE]
<1> DEFINE B == Len(if2de)
           M == Len(mem_queue)
           E == Len(excp_pipe)
           m == [k \in 1 .. Len(mem_queue) |-> [pc |-> mem_queue[k].pc, word |-> mem_queue[k].pc,
                                                excp |-> FALSE, cancel |-> mem_queue[k].cancel]]
           x == [k \in 1 .. Len(excp_pipe) |-> [pc |-> excp_pipe[k].pc, word |-> NoPc,
                                                excp |-> TRUE, cancel |-> excp_pipe[k].cancel]]
           p == <<[pc |-> pc, word |-> pc, excp |-> FALSE, cancel |-> FALSE]>>
<1>1. /\ if2de \in Seq(IfEntry) /\ excp_pipe \in Seq(FetchEntry) /\ Len(excp_pipe) <= 1 /\ pc \in Pc
      /\ mem_queue \in Seq(FetchEntry) /\ Len(mem_queue) <= 1
  BY MemShort DEF Typed, FetchTypeOK
<1>2. B \in Nat /\ M \in {0, 1} /\ E \in {0, 1} /\ (mem_queue # <<>> <=> M = 1) /\ (excp_pipe # <<>> <=> E = 1)
  <2>1. \/ mem_queue = <<>> /\ Len(mem_queue) = 0
        \/ Len(mem_queue) = 1 /\ mem_queue # <<>>
    BY <1>1, ShortSeq
  <2>2. \/ excp_pipe = <<>> /\ Len(excp_pipe) = 0
        \/ Len(excp_pipe) = 1 /\ excp_pipe # <<>>
    BY <1>1, ShortSeq
  <2>3. B \in Nat
    BY <1>1
  <2> QED BY <2>1, <2>2, <2>3
<1>3. m \in Seq(IfEntry) /\ Len(m) = M /\ x \in Seq(IfEntry) /\ Len(x) = E
      /\ p \in Seq(IfEntry) /\ Len(p) = 1
  <2>1. \A k \in 1 .. M : mem_queue[k] \in FetchEntry
    BY <1>1
  <2>2. \A k \in 1 .. E : excp_pipe[k] \in FetchEntry
    BY <1>1
  <2>3. NoPc \in Addr /\ Pc \subseteq Addr
    BY Zenon DEF Addr
  <2>4. \A k \in 1 .. M : m[k] \in IfEntry
    BY <2>1, Zenon DEF FetchEntry, IfEntry
  <2>5. \A k \in 1 .. E : x[k] \in IfEntry
    BY <2>2, <2>3 DEF FetchEntry, IfEntry
  <2>6. p[1] \in IfEntry
    BY <1>1, <2>3, Zenon DEF IfEntry
  <2>7. m \in [1 .. M -> IfEntry] /\ x \in [1 .. E -> IfEntry]
    BY <2>4, <2>5
  <2>8. M \in Nat /\ E \in Nat
    BY <1>2
  <2> HIDE DEF m, x, M, E
  <2>9. m \in Seq(IfEntry) /\ Len(m) = M /\ x \in Seq(IfEntry) /\ Len(x) = E
    BY <2>7, <2>8
  <2> QED BY <2>6, <2>9
<1>4. /\ M = 1 => m[1] = [pc |-> mem_queue[1].pc, word |-> mem_queue[1].pc,
                          excp |-> FALSE, cancel |-> mem_queue[1].cancel]
      /\ E = 1 => x[1] = [pc |-> excp_pipe[1].pc, word |-> NoPc, excp |-> TRUE, cancel |-> excp_pipe[1].cancel]
      /\ p[1] = [pc |-> pc, word |-> pc, excp |-> FALSE, cancel |-> FALSE]
  OBVIOUS
<1>5. Stream = ((if2de \o m) \o x) \o p
  BY Zenon DEF Stream
<1> HIDE DEF m, x, p
<1>6. /\ Len(Stream) = B + M + E + 1
      /\ \A i \in 1 .. B : Stream[i] = if2de[i]
      /\ M = 1 => Stream[B + 1] = m[1]
      /\ E = 1 => Stream[B + M + 1] = x[1]
      /\ Stream[B + M + E + 1] = p[1]
  <2>1. /\ if2de \in Seq(IfEntry) /\ Len(m) \in {0, 1} /\ Len(x) \in {0, 1} /\ Len(p) = 1
        /\ m \in Seq(IfEntry) /\ x \in Seq(IfEntry) /\ p \in Seq(IfEntry)
    BY <1>1, <1>2, <1>3, Zenon
  <2>2. /\ Len(Stream) = Len(if2de) + Len(m) + Len(x) + 1
        /\ \A i \in 1 .. Len(if2de) : Stream[i] = if2de[i]
        /\ Len(m) = 1 => Stream[Len(if2de) + 1] = m[1]
        /\ Len(x) = 1 => Stream[Len(if2de) + Len(m) + 1] = x[1]
        /\ Stream[Len(if2de) + Len(m) + Len(x) + 1] = p[1]
    <3>1. Places(((if2de \o m) \o x) \o p, if2de, m, x, p)
      BY <2>1, FourParts, Zenon
    <3> QED BY <1>5, <3>1, Zenon DEF Places
  <2> QED BY <1>3, <2>2
<1> QED BY <1>2, <1>4, <1>6, Zenon

\* What the places of the stream show: which ones are not cancelled, and which
\* address each of them holds.
LEMMA StreamShows ==
  ASSUME Typed, NEW i \in 1 .. Len(Stream)
  PROVE  \/ i \in 1 .. Len(if2de) /\ Stream[i] = if2de[i]
         \/ /\ i = Len(if2de) + 1 /\ mem_queue # <<>> /\ (Live(Stream[i]) <=> MemLive)
            /\ Stream[i].pc = mem_queue[1].pc /\ Stream[i].word = mem_queue[1].pc
            /\ Stream[i].cancel = mem_queue[1].cancel
         \/ /\ i = Len(if2de) + Len(mem_queue) + 1 /\ excp_pipe # <<>> /\ (Live(Stream[i]) <=> ExcpLive)
            /\ Stream[i].pc = excp_pipe[1].pc /\ Stream[i].excp
         \/ /\ i = Len(Stream) /\ Live(Stream[i])
            /\ Stream[i].pc = pc
<1> DEFINE B == Len(if2de)
           M == Len(mem_queue)
           E == Len(excp_pipe)
<1>1. /\ B \in Nat /\ M \in {0, 1} /\ E \in {0, 1} /\ Len(Stream) = B + M + E + 1
      /\ mem_queue # <<>> <=> M = 1
      /\ excp_pipe # <<>> <=> E = 1
      /\ \A n \in 1 .. B : Stream[n] = if2de[n]
      /\ M = 1 => Stream[B + 1] = [pc |-> mem_queue[1].pc, word |-> mem_queue[1].pc,
                                   excp |-> FALSE, cancel |-> mem_queue[1].cancel]
      /\ E = 1 => Stream[B + M + 1] = [pc |-> excp_pipe[1].pc, word |-> NoPc,
                                       excp |-> TRUE, cancel |-> excp_pipe[1].cancel]
      /\ Stream[B + M + E + 1] = [pc |-> pc, word |-> pc, excp |-> FALSE, cancel |-> FALSE]
  BY StreamIs, Zenon
<1>2. \/ i \in 1 .. B
      \/ M = 1 /\ i = B + 1
      \/ E = 1 /\ i = B + M + 1
      \/ i = B + M + E + 1
  <2>1. ASSUME NEW b \in Nat, NEW m \in {0, 1}, NEW e \in {0, 1}, NEW n \in 1 .. b + m + e + 1
        PROVE  n \in 1 .. b \/ (m = 1 /\ n = b + 1) \/ (e = 1 /\ n = b + m + 1) \/ n = b + m + e + 1
    BY <2>1
  <2> QED BY <1>1, <2>1, Zenon
<1> HIDE DEF B, M, E
<1>3. CASE i \in 1 .. B
  BY <1>1, <1>3, Zenon DEF B
<1>4. CASE M = 1 /\ i = B + 1
  BY <1>1, <1>4 DEF B, M, Live, MemLive
<1>5. CASE E = 1 /\ i = B + M + 1
  BY <1>1, <1>5 DEF B, M, E, Live, ExcpLive
<1>6. CASE i = B + M + E + 1
  BY <1>1, <1>6 DEF Live
<1> QED BY <1>2, <1>3, <1>4, <1>5, <1>6, Zenon

\* Fetching in order gives the order of the stream.
LEMMA OrderedStream == Ordered => StreamOrder
<1> SUFFICES ASSUME Ordered PROVE StreamOrder
  OBVIOUS
<1>0. Typed
  BY Zenon DEF Ordered
<1> DEFINE S == Stream
           B == Len(if2de)
           M == Len(mem_queue)
           E == Len(excp_pipe)
<1>1. /\ B \in Nat /\ M \in {0, 1} /\ E \in {0, 1} /\ Len(S) = B + M + E + 1
      /\ mem_queue # <<>> <=> M = 1
      /\ excp_pipe # <<>> <=> E = 1
      /\ \A i \in 1 .. B : S[i] = if2de[i]
      /\ M = 1 => Live(S[B + 1]) <=> MemLive
      /\ E = 1 => (Live(S[B + M + 1]) <=> ExcpLive) /\ S[B + M + 1].excp
  BY <1>0, StreamIs DEF Live, MemLive, ExcpLive
<1>2. \A i \in 1 .. Len(S) :
        \/ i \in 1 .. B /\ S[i] = if2de[i]
        \/ /\ i = B + 1 /\ mem_queue # <<>> /\ (Live(S[i]) <=> MemLive)
           /\ S[i].pc = mem_queue[1].pc /\ S[i].word = mem_queue[1].pc
           /\ S[i].cancel = mem_queue[1].cancel
        \/ /\ i = B + M + 1 /\ excp_pipe # <<>> /\ (Live(S[i]) <=> ExcpLive)
           /\ S[i].pc = excp_pipe[1].pc /\ S[i].excp
        \/ i = Len(S) /\ Live(S[i]) /\ S[i].pc = pc
  BY <1>0, StreamShows, Zenon
<1> HIDE DEF S, B, M, E
<1>3. ASSUME NEW j \in 1 .. Len(S), NEW k \in 1 .. Len(S),
             j < k, Live(S[j]), Live(S[k]), \A i \in j + 1 .. k - 1 : ~Live(S[i]),
             rob # "trap", \A i \in 1 .. j : Live(S[i]) => ~S[i].excp
      PROVE  S[j].word = S[j].pc /\ S[k].pc = PcInc(S[j].pc)
  <2>1. M = 1 /\ j < B + 1 /\ B + 1 < k => ~MemLive
    BY <1>1, <1>3
  <2>2. E = 1 /\ j < B + M + 1 /\ B + M + 1 < k => ~ExcpLive
    BY <1>1, <1>3
  <2>3. (M = 0 => ~MemLive) /\ (E = 0 => ~ExcpLive)
    BY <1>1 DEF MemLive, ExcpLive
  <2>4. j <= B /\ B < k => S[k].pc = Coming
    <3> SUFFICES ASSUME j <= B, B < k PROVE S[k].pc = Coming
      OBVIOUS
    <3>1. CASE k = B + 1 /\ mem_queue # <<>> /\ (Live(S[k]) <=> MemLive) /\ S[k].pc = mem_queue[1].pc
      BY <1>3, <3>1, Zenon DEF Coming
    <3>2. CASE k = B + M + 1 /\ excp_pipe # <<>> /\ (Live(S[k]) <=> ExcpLive) /\ S[k].pc = excp_pipe[1].pc
      <4>1. ~MemLive
        BY <1>1, <2>1, <2>3, <3>2
      <4> QED BY <1>3, <3>2, <4>1, Zenon DEF Coming, Behind
    <3>3. CASE k = Len(S) /\ S[k].pc = pc
      <4>1. ~MemLive /\ ~ExcpLive
        BY <1>1, <2>1, <2>2, <2>3, <3>3
      <4> QED BY <3>3, <4>1, Zenon DEF Coming, Behind
    <3>4. k \notin 1 .. B
      BY <1>1
    <3> QED BY <1>2, <3>1, <3>2, <3>3, <3>4
  <2>5. ASSUME j \in 1 .. B, S[j] = if2de[j] PROVE S[j].word = S[j].pc /\ S[k].pc = PcInc(S[j].pc)
    <3>1. Clear(j)
      <4>1. \A i \in 1 .. j : if2de[i] = S[i]
        BY <1>1, <2>5
      <4> QED BY <1>3, <4>1, Zenon DEF Clear, Live
    <3>2. CASE k \in 1 .. B
      <4>1. S[k] = if2de[k]
        BY <1>1, <3>2, Zenon
      <4>2. \A i \in j + 1 .. k - 1 : if2de[i].cancel
        <5>1. \A i \in j + 1 .. k - 1 : i \in 1 .. B
          BY <1>1, <2>5, <3>2
        <5> QED BY <1>1, <1>3, <5>1, Zenon DEF Live
      <4> QED BY <1>3, <2>5, <3>1, <3>2, <4>1, <4>2, Zenon DEF Ordered, InBuffer, B, Live
    <3>3. CASE k \notin 1 .. B
      <4>1. B < k /\ j <= B
        BY <1>1, <2>5, <3>3
      <4>2. \A i \in j + 1 .. B : if2de[i].cancel
        <5>1. \A i \in j + 1 .. B : i \in j + 1 .. k - 1 /\ i \in 1 .. B
          BY <1>1, <4>1
        <5> QED BY <1>1, <1>3, <5>1, Zenon DEF Live
      <4>3. if2de[j].word = if2de[j].pc /\ Coming = PcInc(if2de[j].pc)
        BY <1>3, <2>5, <3>1, <4>2, Zenon DEF Ordered, AfterBuffer, B, Live
      <4> QED BY <2>4, <2>5, <4>1, <4>3, Zenon
    <3> QED BY <3>2, <3>3, Zenon
  <2>6. ASSUME j = B + 1, mem_queue # <<>>, MemLive, S[j].pc = mem_queue[1].pc, S[j].word = mem_queue[1].pc
        PROVE  S[j].word = S[j].pc /\ S[k].pc = PcInc(S[j].pc)
    <3>1. NoneAhead
      <4>1. \A i \in 1 .. B : if2de[i] = S[i] /\ i \in 1 .. j
        BY <1>1, <2>6
      <4> QED BY <1>3, <4>1, Zenon DEF NoneAhead, Clear, Live, B
    <3>2. Behind = PcInc(mem_queue[1].pc)
      BY <2>6, <3>1, Zenon DEF Ordered, AfterQueue
    <3>3. CASE k = B + M + 1 /\ (Live(S[k]) <=> ExcpLive) /\ S[k].pc = excp_pipe[1].pc
      BY <1>3, <2>6, <3>2, <3>3, Zenon DEF Behind
    <3>4. CASE k = Len(S) /\ S[k].pc = pc
      <4>1. ~ExcpLive
        BY <1>1, <2>2, <2>3, <2>6, <3>4
      <4> QED BY <2>6, <3>2, <3>4, <4>1, Zenon DEF Behind
    <3>5. k \notin 1 .. B /\ k # B + 1
      BY <1>1, <1>3, <2>6
    <3> QED BY <1>2, <3>3, <3>4, <3>5, Zenon
  <2>7. ~S[j].excp
    <3>1. j \in 1 .. j
      BY <1>1
    <3> QED BY <1>3, <3>1, Zenon
  <2>8. j # Len(S)
    BY <1>1, <1>3
  <2> QED BY <1>2, <1>3, <2>5, <2>6, <2>7, <2>8, Zenon
<1>4. ASSUME NEW j \in 1 .. Len(S), NEW k \in 1 .. Len(S), j < k, Live(S[j]), ~Live(S[k])
      PROVE  S[k].excp
  <2>1. CASE k \in 1 .. B /\ S[k] = if2de[k]
    <3>1. j \in 1 .. B /\ S[j] = if2de[j]
      BY <1>1, <1>4, <2>1
    <3> QED BY <1>4, <2>1, <3>1, Zenon DEF Ordered, CancelledFirst, B, Live
  <2>2. CASE k = B + 1 /\ mem_queue # <<>> /\ S[k].cancel = mem_queue[1].cancel
    <3>1. j \in 1 .. B /\ S[j] = if2de[j]
      BY <1>1, <1>4, <2>2
    <3>2. mem_queue[1].cancel
      BY <1>4, <2>2 DEF Live
    <3> QED BY <1>4, <2>2, <3>1, <3>2, Zenon DEF Ordered, CancelledFirst, B, Live
  <2> QED BY <1>2, <1>4, <2>1, <2>2, Zenon
<1> QED BY <1>3, <1>4 DEF StreamOrder, S

(***************************************************************************)
(* What is on its way to decode is in program order, for every address     *)
(* space, depth of the buffers and sequence of redirections, as long as    *)
(* an exception is never followed by a word of the ITCM that could         *)
(* overtake it (RejoinsLate; HiCore_ifetch.v:56, 83, 98, 122-135).         *)
(***************************************************************************)
THEOREM StreamInOrder ==
  ASSUME RejoinsLate
  PROVE  FetchSpec => []StreamOrder
<1> QED BY AlwaysOrdered, OrderedStream, PTL

==========================================================================

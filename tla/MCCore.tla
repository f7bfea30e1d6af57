------------------------------ MODULE MCCore -----------------------------
(***************************************************************************)
(* Programs for model checking Core, of three words.                       *)
(***************************************************************************)
EXTENDS Core

I(op, rd, rs) == [op |-> op, rd |-> rd, rs |-> rs, mis |-> FALSE, taken |-> FALSE]
Load  == I("load", 1, 0)
Store == I("store", 0, 0)
Jump  == [I("branch", 0, 0) EXCEPT !.taken = TRUE]

CoreIns == {I("alu", 1, 1), Load, Store, [Load EXCEPT !.mis = TRUE], Jump,
            I("mret", 0, 0), Faults}
Words == {w \in [ins : CoreIns \ {Faults}, target : {0, 3}] : ~jumps(w.ins) => w.target = 0}
AllPrograms == [word : [Itcm -> Words], itcm : BOOLEAN]
\* Accesses to memory only, aligned loads and stores and a load that traps.
MemPrograms == {p \in AllPrograms : \A w \in Itcm :
                  p.word[w].ins \in {Load, Store, [Load EXCEPT !.mis = TRUE]}}
==========================================================================

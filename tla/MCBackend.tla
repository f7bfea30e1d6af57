---------------------------- MODULE MCBackend ----------------------------
(***************************************************************************)
(* Instruction sets for model checking Backend: each is small enough for   *)
(* its run and has the instructions whose interplay the run is about.      *)
(***************************************************************************)
EXTENDS Backend

I(op, rd, rs) == [op |-> op, rd |-> rd, rs |-> rs, mis |-> FALSE, taken |-> FALSE]

Alu   == I("alu", 1, 1)
Load  == I("load", 1, 0)
Store == I("store", 0, 1)
Csr   == I("csr", 1, 1)
MisalignedLoad  == [Load EXCEPT !.mis = TRUE]
MisalignedStore == [Store EXCEPT !.mis = TRUE]

DataIns == {Alu, Load, Store, Csr}
FlowIns == {Alu, Load, Store, MisalignedLoad, MisalignedStore, I("ecall", 0, 0),
            I("jalr", 1, 1), I("fence", 0, 0), I("fence_i", 0, 0)}
==========================================================================

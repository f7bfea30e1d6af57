---------------------------- MODULE MCDataPath ---------------------------
(***************************************************************************)
(* The units that compute data (Datapath), the bus that moves it, with the *)
(* timer (TimeRead), and the buffer that holds it (Bypbuf), for one run.   *)
(* They share no state and no property is about two of them, so one of     *)
(* them, "part", works and the others stay as they are after reset.        *)
(***************************************************************************)
EXTENDS TimeRead, Datapath, Bypbuf

VARIABLE part

DataPathInit ==
  /\ part \in {"units", "bus", "buffer"}
  /\ UnitsInit /\ TimeInit /\ BypInit
  /\ part # "buffer" => queue_ram = [i \in Idx |-> CHOOSE x \in Item : TRUE]
DataPathNext ==
  \/ part = "units" /\ UnitsNext /\ UNCHANGED <<part, time_vars, byp_vars>>
  \/ part = "bus" /\ TimeNext /\ UNCHANGED <<part, ex, byp_vars>>
  \/ part = "buffer" /\ BypNext /\ UNCHANGED <<part, ex, time_vars>>
DataPathSpec == DataPathInit /\ [][DataPathNext]_<<part, ex, time_vars, byp_vars>>
==========================================================================

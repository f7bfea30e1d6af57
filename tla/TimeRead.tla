----------------------------- MODULE TimeRead ----------------------------
(***************************************************************************)
(* Reading the 64-bit time over the bus, which is 32 bits wide: a program  *)
(* reads the high half, the low half and the high half again, and starts   *)
(* over if the two high halves differ.  The observer "seen" follows such a *)
(* program among all the other accesses, while time goes on.               *)
(***************************************************************************)
EXTENDS Bus

VARIABLE seen   \* [n: reads so far, h, l: the halves, ago: ticks since then]

time_vars == <<bus_vars, seen>>

Tick == IF sync_clk_edge THEN 1 ELSE 0
Later(ago) == IF ago + Tick < W * W THEN ago + Tick ELSE ago
NotSeen == [n |-> 0, h |-> 0, l |-> 0, ago |-> 0]
SeenHigh == [n |-> 1, h |-> mtime_H_r, l |-> 0, ago |-> Tick]

SeenNext(fire) ==
  CASE wr(fire, "mtime_L") \/ wr(fire, "mtime_H") -> NotSeen
    [] rd(fire, "mtime_H") ->
         IF seen.n = 2 /\ mtime_H_r = seen.h
         THEN [seen EXCEPT !.n = 3, !.ago = Later(@)] ELSE SeenHigh
    [] rd(fire, "mtime_L") /\ seen.n = 1 ->
         [seen EXCEPT !.n = 2, !.l = mtime_L_r, !.ago = Later(@)]
    [] seen.n \in {0, 3} /\ ~rd(fire, "mtime_H") -> NotSeen
    [] OTHER -> [seen EXCEPT !.ago = Later(@)]

TimeInit == BusInit /\ seen = NotSeen
TimeNext == \E in \in BusInputs : BusTick(in) /\ seen' = SeenNext(ToClint(in))
TimeSpec == TimeInit /\ [][TimeNext]_time_vars

(***************************************************************************)
(* The time put together from the three reads is a value that mtime had    *)
(* between the first and the last of them: the carry reaches the high half *)
(* in the cycle in which the low half wraps.  That is so unless the reads  *)
(* take as long as the high half needs to come round to its value again.   *)
(***************************************************************************)
TimeReadIsTrue == seen.n = 3 /\ seen.ago <= W * (W - 1)
                    => (mtime - (seen.h * W + seen.l)) % (W * W) <= seen.ago
==========================================================================

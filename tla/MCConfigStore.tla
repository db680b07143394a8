---------------------------- MODULE MCConfigStore ----------------------------
(* TLC instance of ConfigStore: two subscriptions whose seeds differ modulo  *)
(* every interval, and buckets that three kinds of interval divide.          *)
EXTENDS ConfigStore, TLC

CONSTANTS s1, s2, r1, r2, r3

MCSlotSeed == (s1 :> 5) @@ (s2 :> 10)
MCRegionSeed == (s1 :> 1) @@ (s2 :> 4)
MCRegionList == { <<>>, <<r2, r1>>, <<r1, r2, r3>> }
==============================================================================

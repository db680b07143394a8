--------------------------- MODULE MCConfigProvider ---------------------------
(* Two partitions, the second with one of the subscriptions only.             *)
EXTENDS ConfigProvider

MCPartition == { 0, 1 }
MCHome == [s \in Subscription |-> IF s = 1 THEN 1 ELSE 0]

==============================================================================

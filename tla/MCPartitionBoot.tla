--------------------------- MODULE MCPartitionBoot ---------------------------
(* TLC instances of PartitionBoot.                                           *)
EXTENDS PartitionBoot

==============================================================================

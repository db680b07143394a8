------------------------------ MODULE Partitions ------------------------------
(* What the modules of one checker process share.                             *)

CONSTANTS
    Partition,         \* the partitions this checker owns
    None               \* the None of an Option

===============================================================================

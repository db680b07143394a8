------------------------------- MODULE MCFleet -------------------------------
EXTENDS Fleet, TLC

CONSTANTS a, b, r

Symmetric == Permutations(Process \ Readers)

===============================================================================

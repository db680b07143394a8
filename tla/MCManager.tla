------------------------------ MODULE MCManager ------------------------------
(* TLC instances of Manager.                                                 *)
EXTENDS Manager

==============================================================================

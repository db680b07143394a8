--------------------------- MODULE MCVectorProducer ---------------------------
(* TLC instances of VectorProducer.                                          *)
EXTENDS VectorProducer

==============================================================================

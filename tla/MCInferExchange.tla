--------------------------- MODULE MCInferExchange ---------------------------
(* The instance of InferExchange for TLC. *)
EXTENDS InferExchange

CONSTANTS t1, t2

MCTensors == {t1, t2}
=============================================================================

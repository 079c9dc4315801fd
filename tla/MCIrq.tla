--------------------------------- MODULE MCIrq ---------------------------------
(***************************************************************************)
(* Constants for model checking Irq: one key.                                *)
(***************************************************************************)
EXTENDS Irq

MCKeys == [k \in {"backspace"} |-> "bs"]
=============================================================================

------------------------------ MODULE MCKeyboard ------------------------------
(***************************************************************************)
(* Constants for model checking Keyboard: a letter key and a shift key with  *)
(* its extended twin; what ends a line comes over the serial line.           *)
(***************************************************************************)
EXTENDS Keyboard

MCPlain == [k \in {"a"} |-> "a"]
MCShifted == [k \in {"a"} |-> "A"]
=============================================================================

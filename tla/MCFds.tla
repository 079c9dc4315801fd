-------------------------------- MODULE MCFds --------------------------------
(***************************************************************************)
(* Constants for model checking Fds: the root, the terminal and a file.  A   *)
(* call writes one byte, either of two, and the file takes two of them, so   *)
(* that a second write that overwrote the first would show; the slot of the  *)
(* terminal, which may come to hold a file as well, takes one.               *)
(***************************************************************************)
EXTENDS Fds, TLC

MCData == {<<b>> : b \in Byte}
MCOffs == {-1, 2}
MCFileCap == [s \in Slot |-> IF s = Tty THEN 1 ELSE 2]
ByteSymmetry == Permutations(Byte)
=============================================================================

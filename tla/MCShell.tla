-------------------------------- MODULE MCShell --------------------------------
(***************************************************************************)
(* Constants for model checking Shell: the shell stands in the root.         *)
(***************************************************************************)
EXTENDS Shell

MCPath == <<"/">>
MCTyped == {" ", "a", ">", "<", "\"", "tab"}
MCGlyph == {" ", "/", "$", "a", ">", "<", "\""}
=============================================================================

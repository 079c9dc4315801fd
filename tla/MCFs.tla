-------------------------------- MODULE MCFs --------------------------------
(***************************************************************************)
(* Constants for model checking Fs.  "long1" and "long2" are two names of   *)
(* more than 31 characters with the same first 31, which are "long".        *)
(***************************************************************************)
EXTENDS Fs

MCNames == BootNames \cup {"a", "long", "long1", "long2"}
MCStored == [n \in MCNames |-> IF n \in {"long1", "long2"} THEN "long" ELSE n]
MCPayloads == {<<>>, <<"y">>, <<"x", "y">>}
MCMessage == <<"y">>
MCImage == <<"x">>
MCBigImage == <<"x", "y", "x", "y", "x", "y">>
MCPaths == {[abs |-> TRUE, comps |-> <<>>],
            [abs |-> FALSE, comps |-> <<"a">>],
            [abs |-> FALSE, comps |-> <<"long1", "..">>],
            [abs |-> TRUE, comps |-> <<"home", ".", "a">>],
            [abs |-> TRUE, comps |-> <<"home">>]}
MCHomeOnly == {[abs |-> TRUE, comps |-> <<"home">>]}
=============================================================================

-------------------------------- MODULE MCEnv --------------------------------
(***************************************************************************)
(* Constants for model checking Env: the characters p, q and =.  Among the   *)
(* strings are names that begin with one another, empty values, values that *)
(* are cut, a value with an = in it, and strings that are refused.          *)
(***************************************************************************)
EXTENDS Env

p == 112
q == 113
MCChar == {p, q, Eq}
MCPathKv == <<p, Eq, q>>
MCKvs == {<<p, Eq>>, <<p, q, Eq, q>>, <<q, Eq, Eq, p, q, q, p>>, <<q, q, Eq, p, q, p>>,
          <<Eq, q>>, <<q, q, q, Eq>>, <<q>>}
MCNames == {<<p>>, <<q>>, <<p, q>>, <<q, q>>, <<q, Eq>>}
=============================================================================

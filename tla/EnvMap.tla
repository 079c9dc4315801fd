------------------------------- MODULE EnvMap -------------------------------
(***************************************************************************)
(* What the environment promises its clients: a map from names to values,   *)
(* one name changed at a time, of which a restart brings back what reached  *)
(* the disk.  How variables are kept, cut and encoded is left to Env, which *)
(* implements this module.                                                  *)
(***************************************************************************)
CONSTANTS Path, Dirs   \* the variable every boot sets first, and its value

VARIABLES env,    \* name -> value, for the names that are set
          kept,   \* what the disk has for the next restart
          due     \* what it will have, when the last save has reached it

mapVars == <<env, kept, due>>

Default == [n \in {Path} |-> Dirs]
MapInit == env = Default /\ kept = Default /\ due = Default

\* k is what a restart finds of m: values m has, and the default for Path.
ComesFrom(k, m) ==
  \A n \in DOMAIN k : \/ n \in DOMAIN m /\ k[n] = m[n]
                      \/ n = Path /\ k[n] = Dirs

\* The disk may refuse; then it keeps what it had.
Save == /\ due' = due \/ ComesFrom(due', env')
        /\ UNCHANGED kept

\* What is due reaches the disk, or is lost.
Arrive == kept' \in {kept, due} /\ due' = kept'

Put == /\ \E n \in DOMAIN env' :
             /\ DOMAIN env' = DOMAIN env \cup {n}
             /\ \A m \in DOMAIN env \ {n} : env'[m] = env[m]
       /\ Save

Drop == /\ \E n \in DOMAIN env : env' = [m \in DOMAIN env \ {n} |-> env[m]]
        /\ Save

Restart == Arrive /\ env' \in {kept', Default}

MapNext == Put \/ Drop \/ (Arrive /\ UNCHANGED env) \/ Restart

MapSpec == MapInit /\ [][MapNext]_mapVars
=============================================================================

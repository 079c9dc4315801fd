------------------------------ MODULE FileStore ------------------------------
(***************************************************************************)
(* What the file-system layer promises its clients: a fixed pool of slots,  *)
(* each of which becomes a directory, a file or a device once and stays it  *)
(* for ever, and for every file a byte string that changes only when that   *)
(* very file is written, to what the write asked for.  Names, the tree, the *)
(* arena and the shell are the business of the detailed specification Fs,   *)
(* which implements this one when it is built with the disk backend.        *)
(***************************************************************************)
EXTENDS Naturals, Sequences

CONSTANTS Slot,   \* the identities a client may hold on to
          Data    \* the byte strings one call may write

VARIABLES kind,     \* kind[s]: "free", "dir", "file" or "char"
          content   \* content[s]: the bytes of s, empty unless s is a file

storeVars == <<kind, content>>

StoreInit == /\ kind \in [Slot -> {"free", "dir"}]
             /\ content = [s \in Slot |-> <<>>]

\* A free slot is taken for good; whatever it becomes starts out empty.
Allocate(s, k) == /\ kind[s] = "free"
                  /\ kind' = [kind EXCEPT ![s] = k]
                  /\ UNCHANGED content

\* The whole content of one file is replaced.
Replace(s, b) == /\ kind[s] = "file"
                 /\ content' = [content EXCEPT ![s] = b]
                 /\ UNCHANGED kind

\* One file grows at its end.
Extend(s, b) == /\ kind[s] = "file"
                /\ content' = [content EXCEPT ![s] = @ \o b]
                /\ UNCHANGED kind

StoreNext == \E s \in Slot :
                \/ \E k \in {"dir", "file", "char"} : Allocate(s, k)
                \/ \E b \in Data : Replace(s, b) \/ Extend(s, b)

StoreSpec == StoreInit /\ [][StoreNext]_storeVars
==============================================================================

------------------------------- MODULE MCExec -------------------------------
(***************************************************************************)
(* Constants for model checking Exec: two-byte pages, seven entries to a    *)
(* table, four large pages; of the kernel's code in the page directory one  *)
(* entry leads out of memory, the others count as absent.  One program has  *)
(* its segments in ascending order, another the higher one first, and one   *)
(* lies under another entry of the first level; all three are beyond the    *)
(* page directory, and so is the stack, under an entry of its own.          *)
(* LowImage lies where linker_user.ld puts a program.                       *)
(***************************************************************************)
EXTENDS Exec

MCCode == [i \in Large..(Fan - 1) |-> IF i = Large THEN [to |-> Limit + 1, ps |-> TRUE] ELSE Absent]

Seg(vaddr, memsz) == [vaddr |-> vaddr, memsz |-> memsz]
MCImages == {<<Seg(98, 3)>>, <<Seg(104, 2), Seg(99, 1)>>, <<Seg(1372, 1)>>}
LowImage == {<<Seg(28, 3)>>}
MCBreaks == {0, 105, 107, 111, 1378}
LowBreaks == {0, 35, 37, 41}

\* Both meet the conditions of the theorems.
ASSUME MCPrograms == /\ Images = MCImages => ProgramsIn(Fan, VirtualEnd)
                     /\ Images = LowImage => ProgramsIn(2, Limit)
                     /\ SegmentsApart
=============================================================================

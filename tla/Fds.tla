--------------------------------- MODULE Fds ---------------------------------
(***************************************************************************)
(* The descriptor table of the one process (src/cpu/proc.c), the system     *)
(* calls on it (src/kernel/syscall.c), and the shell's run_external, which  *)
(* rebinds descriptors 0 and 1 around a program with those same calls.      *)
(*                                                                         *)
(* Files are those of FileStore.  Names and directories are left to Fs: a   *)
(* path finds some node or none, and whether a table or the arena has room  *)
(* is open.  Once a program has been entered only its system calls act:     *)
(* no path in the code leads from a running program back to run_external.   *)
(***************************************************************************)
EXTENDS Integers, FileStore, SequencesExt

CONSTANTS
  MaxFd,    \* 32 in the code: PROC_FD_MAX
  Word,     \* 2^64 in the code: the range of size_t
  Byte,
  Counts,   \* byte counts given to read
  Offs,     \* offsets given to lseek
  FileCap,  \* FileCap[s] bounds the length of the file s
  Root,     \* the root directory
  Tty,      \* the node that becomes /dev/tty0
  Nil       \* a null node pointer

FD == 0..(MaxFd - 1)
Std == 0..2
None == -1

ASSUME TableAssumption == /\ MaxFd \in Nat /\ MaxFd >= 3
                          /\ Root \in Slot /\ Tty \in Slot /\ Root # Tty /\ Nil \notin Slot
ASSUME SizeAssumption == /\ Word \in Nat \ {0}
                         /\ Counts \subseteq Nat /\ Offs \subseteq Int
                         /\ Data \subseteq Seq(Byte)
ASSUME CapAssumption == FileCap \in [Slot -> 0..(Word - 1)]

VARIABLES
  current,   \* current # 0: proc_init has run
  fds,       \* current->fds: used, node and ofs of each descriptor
  pc,        \* where kernel_main64 or run_external is; "user": in a program
  want,      \* the redirections of the command line being run
  savedIn, savedOut

runVars == <<want, savedIn, savedOut>>
vars == <<storeVars, current, fds, pc, runVars>>

Closed == [used |-> FALSE, node |-> Nil, ofs |-> 0]

Init ==
  /\ kind = [s \in Slot |-> IF s = Root THEN "dir" ELSE "free"]
  /\ content = [s \in Slot |-> <<>>]
  /\ current = FALSE
  /\ fds = [fd \in FD |-> Closed]      \* zeroed .bss
  /\ pc = "tty"
  /\ want = [in |-> FALSE, out |-> FALSE]
  /\ savedIn = None /\ savedOut = None

-----------------------------------------------------------------------------
\* The table operations; t is a descriptor table.

\* proc_get_fd
Valid(t, fd) == fd \in FD /\ t[fd].used

\* proc_alloc_fd: the lowest free descriptor from 3 on.
FreeFds(t) == {fd \in FD \ Std : ~t[fd].used}
Lowest(t) == IF FreeFds(t) = {} THEN None ELSE Min(FreeFds(t))
AllocFd(t, n) == IF FreeFds(t) = {} THEN t
                 ELSE [t EXCEPT ![Lowest(t)] = [used |-> TRUE, node |-> n, ofs |-> 0]]

\* A slip: the node pointer survives the close.
CloseKeepNode(t, fd) == IF fd \in Std \/ ~Valid(t, fd) THEN t
                        ELSE [t EXCEPT ![fd].used = FALSE]
Close(t, fd) == IF fd \in Std \/ ~Valid(t, fd) THEN t ELSE [t EXCEPT ![fd] = Closed]

\* A slip: the copy is not marked used.
DupUnused(t, old) == IF old \in FD /\ t[old].node # Nil /\ FreeFds(t) # {}
                     THEN [t EXCEPT ![Lowest(t)].node = t[old].node] ELSE t

CanDup(t, old) == old \in FD /\ t[old].node # Nil /\ FreeFds(t) # {}
DupFd(t, old) == IF CanDup(t, old) THEN Lowest(t) ELSE None
Dup(t, old) == IF CanDup(t, old) THEN [t EXCEPT ![Lowest(t)] = t[old]] ELSE t

\* sys_dup2 closes new before it copies old, also when they are the same.
Dup2(t, old, new) ==
  IF old \in FD /\ t[old].node # Nil /\ new \in FD
  THEN LET u == IF t[new].node # Nil THEN Close(t, new) ELSE t
       IN  [u EXCEPT ![new] = u[old]]
  ELSE t

\* How run_external binds std to the file open at fd, and undoes it.
Rebind(t, fd, std) == Close(Dup2(Dup(t, std), fd, std), fd)
RestoreLeaky(t, saved, std) ==   \* a slip: the saved copy is not closed
  IF saved = None THEN t ELSE Dup2(t, saved, std)
Restore(t, saved, std) == IF saved = None THEN t ELSE Close(Dup2(t, saved, std), saved)

-----------------------------------------------------------------------------
\* kernel_main64

\* tty_register_fs: only fs.c can make a device node.
RegisterTty == /\ pc = "tty" /\ pc' = "stdio"
               /\ \/ Allocate(Tty, "char")
                  \/ UNCHANGED storeVars
               /\ UNCHANGED <<current, fds, runVars>>

\* "Bind initial process stdio fds 0/1/2": skipped while proc_current() is null.
BindStdio == /\ pc = "stdio" /\ pc' = "proc"
             /\ fds' = IF kind[Tty] = "char" /\ current
                       THEN [fd \in FD |-> IF fd \in Std
                                           THEN [used |-> TRUE, node |-> Tty, ofs |-> 0]
                                           ELSE fds[fd]]
                       ELSE fds
             /\ UNCHANGED <<storeVars, current, runVars>>

ProcInit == /\ pc = "proc" /\ pc' = "prompt"
            /\ current' = TRUE
            /\ fds' = [fd \in FD |-> [used |-> fd \in Std, node |-> Nil, ofs |-> 0]]
            /\ UNCHANGED <<storeVars, runVars>>

-----------------------------------------------------------------------------
\* The shell

Bounded == \A s \in Slot : Len(content'[s]) <= FileCap[s]

\* Builtins change files and never the table.
Builtin == /\ pc = "prompt" /\ StoreNext /\ Bounded
           /\ UNCHANGED <<current, fds, pc, runVars>>

RunExternal(in, out) ==
  /\ pc = "prompt" /\ pc' = "in"
  /\ want' = [in |-> in, out |-> out] /\ savedIn' = None /\ savedOut' = None
  /\ UNCHANGED <<storeVars, current, fds>>

\* sys_open of a node that exists, and of a new file; when the table is full
\* the new file stays.
Opened(n) == kind[n] # "free" /\ UNCHANGED storeVars
Created(n) == Allocate(n, "file")

RedirectIn ==
  /\ pc = "in"
  /\ UNCHANGED <<current, want, savedOut>>
  /\ \/ ~want.in /\ pc' = "out" /\ UNCHANGED <<storeVars, fds, savedIn>>
     \/ want.in /\ pc' = "prompt" /\ UNCHANGED <<storeVars, fds, savedIn>>  \* not found
     \/ /\ want.in /\ FreeFds(fds) # {} /\ pc' = "out"
        /\ \E n \in Slot :
              LET t == AllocFd(fds, n) IN
              /\ Opened(n)
              /\ savedIn' = DupFd(t, 0)
              /\ fds' = Rebind(t, Lowest(fds), 0)

RedirectOut ==
  /\ pc = "out"
  /\ UNCHANGED <<current, want, savedIn>>
  /\ \/ ~want.out /\ pc' = "exec" /\ UNCHANGED <<storeVars, fds, savedOut>>
     \/ /\ want.out /\ pc' = "prompt"                               \* cannot open
        /\ fds' = Restore(fds, savedIn, 0)
        /\ UNCHANGED savedOut
        /\ \/ UNCHANGED storeVars
           \/ FreeFds(fds) = {} /\ \E n \in Slot : Created(n)
     \/ /\ want.out /\ FreeFds(fds) # {} /\ pc' = "exec"
        /\ \E n \in Slot :
              LET t == AllocFd(fds, n) IN
              /\ Opened(n) \/ Created(n)
              /\ savedOut' = DupFd(t, 1)
              /\ fds' = Rebind(t, Lowest(fds), 1)

\* sys_execve fails for every directory of PATH, or enters the program; the
\* frame of run_external is then never resumed.
ExecFails == /\ pc = "exec" /\ pc' = "restore"
             /\ UNCHANGED <<storeVars, current, fds, runVars>>
ExecRuns == /\ pc = "exec" /\ pc' = "user"
            /\ want' = [in |-> FALSE, out |-> FALSE] /\ savedIn' = None /\ savedOut' = None
            /\ UNCHANGED <<storeVars, current, fds>>

RestoreStd ==
  /\ pc = "restore" /\ pc' = "prompt"
  /\ fds' = Restore(Restore(fds, savedOut, 1), savedIn, 0)
  /\ UNCHANGED <<storeVars, current, runVars>>

-----------------------------------------------------------------------------
\* The program's system calls.  Those that change nothing have no action.

SysOpen(n) ==
  /\ Opened(n) \/ Created(n)
  /\ fds' = AllocFd(fds, n)

SysClose(fd) == fds' = Close(fds, fd) /\ UNCHANGED storeVars
SysDup(fd) == fds' = Dup(fds, fd) /\ UNCHANGED storeVars
SysDup2(old, new) == fds' = Dup2(fds, old, new) /\ UNCHANGED storeVars

HasFile(fd) == /\ fd \notin Std /\ Valid(fds, fd)
               /\ fds[fd].node # Nil /\ kind[fds[fd].node] = "file"
Size(n) == Len(content[n])

\* The offset moves by what was read; the bytes themselves come from the start
\* of the file whatever the offset is.
SysRead(fd, count) ==
  /\ HasFile(fd) /\ fds[fd].ofs < Size(fds[fd].node)
  /\ fds' = [fds EXCEPT ![fd].ofs = @ + Min({count, Size(fds[fd].node) - @})]
  /\ UNCHANGED storeVars

\* A slip: a write at the descriptor's offset, as POSIX without O_APPEND.
GrowAtOffset(fd, b) ==
  LET n == fds[fd].node IN
  content' = [content EXCEPT ![n] = SubSeq(@, 1, fds[fd].ofs) \o b]

Grow(fd, b) ==
  LET n == fds[fd].node IN
  content' = [content EXCEPT ![n] = @ \o b]

\* fs_write in append mode; a full arena leaves everything as it was.
SysWrite(fd, b) ==
  /\ HasFile(fd)
  /\ Grow(fd, b) /\ Bounded
  /\ fds' = [fds EXCEPT ![fd].ofs = Len(content'[fds[fd].node])]
  /\ UNCHANGED kind

\* A slip: a signed offset.
NewOffsetSigned(fd, off, whence) ==
  CASE whence = "set" -> off
    [] whence = "cur" -> fds[fd].ofs + off
    [] whence = "end" -> Size(fds[fd].node) + off

\* The offset asked for, in size_t.
NewOffset(fd, off, whence) ==
  CASE whence = "set" -> IF off < 0 THEN 0 ELSE off
    [] whence = "cur" -> (fds[fd].ofs + off) % Word
    [] whence = "end" -> (Size(fds[fd].node) + off) % Word

\* A slip: no clamp.
ClampNot(fd, o) == o
Clamp(fd, o) == Min({o, Size(fds[fd].node)})

SysLseek(fd, off, whence) ==
  /\ fd \notin Std /\ Valid(fds, fd) /\ fds[fd].node # Nil
  /\ fds' = [fds EXCEPT ![fd].ofs = Clamp(fd, NewOffset(fd, off, whence))]
  /\ UNCHANGED storeVars

Syscall ==
  /\ pc = "user" /\ UNCHANGED <<current, pc, runVars>>
  /\ \/ \E n \in Slot : SysOpen(n)
     \/ \E fd \in FD : SysClose(fd) \/ SysDup(fd)
     \/ \E old, new \in FD : SysDup2(old, new)
     \/ \E fd \in FD, count \in Counts : SysRead(fd, count)
     \/ \E fd \in FD, b \in Data : SysWrite(fd, b)
     \/ \E fd \in FD, off \in Offs, whence \in {"set", "cur", "end"} :
           SysLseek(fd, off, whence)

Next ==
  \/ RegisterTty \/ BindStdio \/ ProcInit
  \/ Builtin
  \/ \E in, out \in BOOLEAN : RunExternal(in, out)
  \/ RedirectIn \/ RedirectOut \/ ExecFails \/ ExecRuns \/ RestoreStd
  \/ Syscall

Spec == Init /\ [][Next]_vars

-----------------------------------------------------------------------------
\* Properties.

Entry == [used : BOOLEAN, node : Slot \cup {Nil}, ofs : Nat]
BootPcs == {"tty", "stdio", "proc"}

\* Every variable has its type; kinds and contents are those of FileStore.
TypeOK ==
  /\ kind \in [Slot -> {"free", "dir", "file", "char"}]
  /\ content \in [Slot -> Seq(Byte)]
  /\ current \in BOOLEAN
  /\ fds \in [FD -> Entry]
  /\ pc \in BootPcs \cup {"prompt", "in", "out", "exec", "restore", "user"}
  /\ want \in [in : BOOLEAN, out : BOOLEAN]
  /\ savedIn \in FD \cup {None} /\ savedOut \in FD \cup {None}

\* A descriptor from 3 on is in use exactly when it has a node, and its node
\* exists.  sys_lseek dereferences the node of a used descriptor untested, and
\* sys_dup and sys_dup2 look at the node and never at the used flag
\* (syscall.c:113-136, 379-395), so either half failing breaks a caller.
UsedIffOpen ==
  \A fd \in FD : /\ fd \notin Std => (fds[fd].used <=> fds[fd].node # Nil)
                 /\ fds[fd].node # Nil => kind[fds[fd].node] # "free"

\* No descriptor is lost or left behind by a command: whenever the shell is at
\* its prompt, whatever was redirected and whichever step of it failed, all of
\* 3.. are free again (run_external closes what it opened on every path).
NoFdLeak == pc = "prompt" => \A fd \in FD \ Std : ~fds[fd].used

\* While run_external holds a saved descriptor it stays the copy of what 0 or
\* 1 was bound to: a later open, dup or close of the prologue never takes the
\* slot over (syscall.c:113-122, shell.c:589-621).
SavedStaysOpen ==
  pc \in {"out", "exec", "restore"} =>
     \A s \in {savedIn, savedOut} \ {None} : s \notin Std /\ fds[s].used

\* An offset never lies beyond the end of its file: sys_read subtracts it from
\* the size unsigned, after a test that no sequence of sys_lseek, with negative
\* offsets that wrap, reads and appends through several descriptors may defeat.
OffsetInFile ==
  \A fd \in FD : fds[fd].node # Nil => fds[fd].ofs <= Size(fds[fd].node)

\* No system call ever takes bytes away from a file or changes one in place:
\* two descriptors of one file, or a dup of one, cannot overwrite each other's
\* output (sys_write always appends).
ProgramsOnlyAppend ==
  [][pc = "user" => \A s \in Slot : IsPrefix(content[s], content'[s])]_vars

\* What the comment at kernel64.c:319 says of the boot: "Bind initial process
\* stdio fds 0/1/2 to /dev/tty0".
StdioBound ==
  pc = "prompt" /\ kind[Tty] = "char" => \A fd \in Std : fds[fd].node = Tty

=============================================================================

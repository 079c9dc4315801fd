--------------------------------- MODULE Fs ---------------------------------
(***************************************************************************)
(* The file system of Snow Kernel (src/fs/fs.c and its twin fs_disk.c) with *)
(* everything in the kernel that changes it: the boot code, the builtins of *)
(* the shell, output redirection, and the two system calls that reach it.   *)
(*                                                                         *)
(* Both backends are a table of nodes handed out by a counter that never    *)
(* goes back and an arena of bytes handed out the same way.  They differ in *)
(* what a write does when the arena is full: the disk backend refuses it,   *)
(* the memory backend makes the file point at the caller's own buffer.      *)
(*                                                                         *)
(* The kernel runs one thread of shell code, so a step is a whole call; a   *)
(* redirected command and the line editor are several calls with arbitrary  *)
(* input between them and therefore several steps.                          *)
(***************************************************************************)
EXTENDS Integers, Sequences, SequencesExt

CONSTANTS
  Disk,        \* TRUE: fs_disk.c, FALSE: fs.c
  NumNodes,    \* 512 in the code: size of nodes[]
  ArenaSize,   \* 131072 in the code: bytes in arena[]
  BufSize,     \* 4096 in the code: bytes in redir_buf and in edit's tmpbuf
  Names,       \* the names that can be asked for
  UserNames,   \* those typed at the shell
  Stored,      \* what the 32-byte name field keeps of a name
  Byte,
  Payloads,    \* the byte strings that get written
  Message,     \* the text of an error message
  Image,       \* the embedded program installed at boot
  Paths        \* the arguments of cd: [abs, comps]

Root == 0
Nil == -1
Node == 0..NumNodes
Cells == 0..(ArenaSize - 1)
BootNames == {"home", "dev", "tty0", "bin", "hello"}

ASSUME SizesAssumption == /\ NumNodes \in Nat /\ NumNodes >= 5
                          /\ ArenaSize \in Nat /\ BufSize \in Nat
ASSUME NamesAssumption == /\ UserNames \subseteq Names
                          /\ BootNames \subseteq Names
                          /\ Stored \in [Names -> Names]
                          /\ \A n \in Names : Stored[Stored[n]] = Stored[n]
                          /\ \A n \in BootNames : Stored[n] = n
ASSUME BytesAssumption == /\ Byte # {}
                          /\ Payloads \subseteq Seq(Byte)
                          /\ \A p \in Payloads : Len(p) <= BufSize
                          /\ Message \in Payloads
                          /\ Image \in Seq(Byte)
ASSUME PathsAssumption == Paths \subseteq [abs : BOOLEAN, comps : Seq(Names \cup {".", ".."})]
ASSUME ModeAssumption == Disk \in BOOLEAN

VARIABLES
  ni,        \* nodes handed out; slot 0 is the static root
  type,      \* "free" for a slot not handed out yet
  name, parent,
  kids,      \* the child / sibling chain of a directory, head first
  at,        \* what data points into: nothing, the arena or a foreign buffer
  off,       \* where in the arena
  size, arena, aoff,
  cwd,
  pc,        \* boot stage, or where the shell is in run_builtin
  edit,      \* the node open in the line editor
  out,       \* target and mode of the redirection being executed
  redirBuf, redirLen

treeVars  == <<ni, type, name, parent, kids>>
dataVars  == <<at, off, size, arena, aoff>>
fsVars    == <<ni, type, name, parent, kids, at, off, size, arena, aoff>>
redirVars == <<out, redirBuf, redirLen>>
vars == <<treeVars, dataVars, cwd, pc, edit, redirVars>>

AnyByte == CHOOSE b \in Byte : TRUE

Init ==
  /\ ni = 0
  /\ type = [n \in Node |-> IF n = Root THEN "dir" ELSE "free"]
  /\ name = [n \in Node |-> "home"]      \* the root's own name is never compared
  /\ parent = [n \in Node |-> Nil]
  /\ kids = [n \in Node |-> <<>>]
  /\ at = [n \in Node |-> "none"]
  /\ off = [n \in Node |-> 0]
  /\ size = [n \in Node |-> 0]
  /\ arena = [c \in Cells |-> AnyByte]   \* zeroed .bss
  /\ aoff = 0
  /\ cwd = Root
  /\ pc = "home"
  /\ edit = Nil
  /\ out = [node |-> Nil, append |-> FALSE]
  /\ redirBuf = [i \in 1..BufSize |-> AnyByte]
  /\ redirLen = 0

-----------------------------------------------------------------------------
\* The operations of fs.h.

\* Does find_in return a node?
Exists(d, nm) == \E i \in DOMAIN kids[d] : name[kids[d][i]] = nm

\* The node find_in returns, as a set of at most one element.
FirstMatch(d, nm) ==
  {kids[d][i] : i \in {j \in DOMAIN kids[d] :
                         /\ name[kids[d][j]] = nm
                         /\ \A k \in 1..(j - 1) : name[kids[d][k]] # nm}}

\* fs_lookup: one component at a time, Nil once a component is missing.
Walk(node, comp) ==
  CASE node = Nil -> Nil
    [] node # Nil /\ comp = "." -> node
    [] node # Nil /\ comp = ".." -> IF parent[node] = Nil THEN node ELSE parent[node]
    [] OTHER -> IF Exists(node, comp) THEN CHOOSE n \in FirstMatch(node, comp) : TRUE
                                      ELSE Nil

Lookup(path) ==
  LET walk[i \in 0..Len(path.comps)] ==
        IF i = 0 THEN (IF path.abs THEN Root ELSE cwd)
                 ELSE Walk(walk[i - 1], path.comps[i])
  IN walk[Len(path.comps)]

\* A new node at the head of d's children.  Its data pointer and its size are
\* cleared by add_child whatever the caller had put there.
AddChild(d, nm, k) ==
  LET n == ni + 1 IN
  /\ ni' = n
  /\ type' = [type EXCEPT ![n] = k]
  /\ name' = [name EXCEPT ![n] = Stored[nm]]
  /\ parent' = [parent EXCEPT ![n] = d]
  /\ kids' = [kids EXCEPT ![d] = <<n>> \o @]
  /\ at' = [at EXCEPT ![n] = "none"]
  /\ size' = [size EXCEPT ![n] = 0]

\* Slips a change to this code could make; MC runs show each is caught.
CanAddPastEnd(d, nm) == /\ d # Nil /\ type[d] = "dir"
                        /\ ~Exists(d, nm)
CanAddTwice(d, nm) == /\ d # Nil /\ type[d] = "dir"
                      /\ ni < NumNodes

CanAdd(d, nm) == /\ d # Nil /\ type[d] = "dir"
                 /\ ~Exists(d, nm)
                 /\ ni < NumNodes

FsMkdir(d, nm) == AddChild(d, nm, "dir") /\ UNCHANGED <<off, arena, aoff>>

\* fs_create_file and fs_create_chardev return n (Nil for NULL): the entry
\* that is already there if it is of kind k, else a new one.
CreateNode(d, nm, k, n) ==
  \/ /\ d # Nil /\ type[d] = "dir"
     /\ n \in FirstMatch(d, nm) /\ type[n] = k
     /\ UNCHANGED fsVars
  \/ /\ CanAdd(d, nm)
     /\ n = ni + 1
     /\ AddChild(d, nm, k) /\ UNCHANGED <<off, arena, aoff>>
  \/ /\ ~CanAdd(d, nm)
     /\ d # Nil => \A m \in FirstMatch(d, nm) : type[m] # k
     /\ n = Nil
     /\ UNCHANGED fsVars

Fits(len) == aoff + len <= ArenaSize

\* Slips: giving the old extent back to the mark, not moving the mark.
PlaceCredit(f, b) ==
  /\ arena' = [c \in Cells |-> IF c \in aoff..(aoff + Len(b) - 1)
                               THEN b[c - aoff + 1] ELSE arena[c]]
  /\ aoff' = aoff + Len(b) - size[f]
  /\ at' = [at EXCEPT ![f] = "arena"]
  /\ off' = [off EXCEPT ![f] = aoff]
  /\ size' = [size EXCEPT ![f] = Len(b)]
PlaceUnmarked(f, b) ==
  /\ arena' = [c \in Cells |-> IF c \in aoff..(aoff + Len(b) - 1)
                               THEN b[c - aoff + 1] ELSE arena[c]]
  /\ at' = [at EXCEPT ![f] = "arena"]
  /\ off' = [off EXCEPT ![f] = aoff]
  /\ size' = [size EXCEPT ![f] = Len(b)]
  /\ UNCHANGED aoff

\* Copy b to fresh arena space and make it the extent of f.
Place(f, b) ==
  /\ arena' = [c \in Cells |-> IF c \in aoff..(aoff + Len(b) - 1)
                               THEN b[c - aoff + 1] ELSE arena[c]]
  /\ aoff' = aoff + Len(b)
  /\ at' = [at EXCEPT ![f] = "arena"]
  /\ off' = [off EXCEPT ![f] = aoff]
  /\ size' = [size EXCEPT ![f] = Len(b)]

\* The bytes behind f's data pointer.
Content(f) ==
  CASE at[f] = "arena" -> [i \in 1..size[f] |-> arena[off[f] + i - 1]]
    [] at[f] = "redir" -> [i \in 1..size[f] |-> redirBuf[i]]
    [] at[f] = "image" -> Image
    [] OTHER           -> <<>>

\* What a copy out of f can see.  "edit" is the frame of a function that has
\* returned: the bytes there are anything.
Readable(f) == IF at[f] = "edit" THEN [1..size[f] -> Byte] ELSE {Content(f)}

\* fs_write: src names the caller's buffer that holds b.
FsWrite(f, b, src, append) ==
  /\ UNCHANGED treeVars
  /\ \/ /\ type[f] = "file" /\ ~append /\ Fits(Len(b))
        /\ Place(f, b)
     \/ /\ type[f] = "file" /\ append /\ Fits(size[f] + Len(b))
        /\ \E old \in Readable(f) : Place(f, old \o b)
     \/ /\ type[f] = "file" /\ ~append /\ ~Fits(Len(b)) /\ ~Disk
        /\ at' = [at EXCEPT ![f] = src]
        /\ size' = [size EXCEPT ![f] = Len(b)]
        /\ UNCHANGED <<off, arena, aoff>>
     \/ /\ \/ type[f] # "file"
           \/ ~append /\ ~Fits(Len(b)) /\ Disk
           \/ append /\ ~Fits(size[f] + Len(b))
        /\ UNCHANGED dataVars

\* A slip: the parent pointer of the removed node is left as it was.
FsUnlinkKeepParent(d, c) ==
  /\ \E i \in DOMAIN kids[d] :
        /\ kids[d][i] = c
        /\ kids' = [kids EXCEPT ![d] = RemoveAt(@, i)]
  /\ UNCHANGED <<ni, type, name, parent, dataVars>>

\* fs_unlink of c, an entry of d: the slot is not given back.
FsUnlink(d, c) ==
  /\ parent' = [parent EXCEPT ![c] = Nil]
  /\ \E i \in DOMAIN kids[d] :
        /\ kids[d][i] = c
        /\ kids' = [kids EXCEPT ![d] = RemoveAt(@, i)]
  /\ UNCHANGED <<ni, type, name, dataVars>>

\* fs_clone_file of the file s.  The arena copy it makes is dropped again by
\* add_child; when the arena is full the slot it took stays taken.
FsClone(d, s, nm) ==
  LET n == ni + 1 IN
  IF size[s] > 0 /\ ~Fits(size[s])
  THEN /\ ni' = n
       /\ type' = [type EXCEPT ![n] = "file"]
       /\ name' = [name EXCEPT ![n] = Stored[nm]]
       /\ UNCHANGED <<parent, kids, dataVars>>
  ELSE /\ AddChild(d, nm, "file")
       /\ \E b \in Readable(s) :
             arena' = [c \in Cells |-> IF c \in aoff..(aoff + size[s] - 1)
                                       THEN b[c - aoff + 1] ELSE arena[c]]
       /\ aoff' = aoff + size[s]
       /\ UNCHANGED off

-----------------------------------------------------------------------------
\* Boot: the part of kernel_main64 that fills the tree, in its order.

AtBoot(stage, next) == /\ pc = stage /\ pc' = next
                       /\ UNCHANGED <<cwd, edit, redirVars>>

BootHome == AtBoot("home", "dev") /\ CanAdd(Root, "home") /\ FsMkdir(Root, "home")

\* tty_register_fs, in two steps because each call of fs.h is one.
BootDev == AtBoot("dev", "tty") /\ CanAdd(Root, "dev") /\ FsMkdir(Root, "dev")
\* fs_disk.c has no fs_create_chardev.
BootTty == /\ AtBoot("tty", "bin")
           /\ \/ /\ ~Disk
                 /\ \E d \in FirstMatch(Root, "dev"), n \in Node \cup {Nil} :
                       CreateNode(d, "tty0", "char", n)
              \/ Disk /\ UNCHANGED fsVars

BootBin == AtBoot("bin", "hello") /\ CanAdd(Root, "bin") /\ FsMkdir(Root, "bin")
BootCreate == /\ AtBoot("hello", "image")
              /\ \E d \in FirstMatch(Root, "bin"), n \in Node \cup {Nil} :
                    CreateNode(d, "hello", "file", n)
BootWrite == /\ AtBoot("image", "prompt")
             /\ \E d \in FirstMatch(Root, "bin") :
                   \E f \in FirstMatch(d, "hello") : FsWrite(f, Image, "image", FALSE)

-----------------------------------------------------------------------------
\* The builtins.  A builtin runs at the prompt or under a redirection.

Ready == pc \in {"prompt", "redir"} /\ edit = Nil
Finish == pc' = (IF pc = "redir" THEN "ran" ELSE "prompt")
Quiet == UNCHANGED redirVars

\* kputs while the sink is redir_sink_char: the text lands in redir_buf, over
\* whatever an earlier redirection left there.
Say(p) == IF pc = "redir"
          THEN /\ redirBuf' = [i \in 1..BufSize |-> IF i <= Len(p) THEN p[i] ELSE redirBuf[i]]
               /\ redirLen' = Len(p)
               /\ UNCHANGED out
          ELSE Quiet

Mkdir(nm) ==
  /\ Ready /\ Finish
  /\ \/ CanAdd(cwd, nm) /\ FsMkdir(cwd, nm) /\ Quiet
     \/ ~CanAdd(cwd, nm) /\ Say(Message) /\ UNCHANGED fsVars
  /\ UNCHANGED <<cwd, edit>>

Cd(path) ==
  /\ Ready /\ Finish
  /\ \/ \E n \in Node : /\ Lookup(path) = n /\ type[n] = "dir"
                        /\ cwd' = n /\ Quiet
     \/ /\ ~\E n \in Node : Lookup(path) = n /\ type[n] = "dir"
        /\ Say(Message) /\ UNCHANGED cwd
  /\ UNCHANGED <<fsVars, edit>>

Touch(nm) ==
  /\ Ready /\ Finish
  /\ \E n \in Node \cup {Nil} :
        /\ CreateNode(cwd, nm, "file", n)
        /\ IF n = Nil THEN Say(Message) ELSE Quiet
  /\ UNCHANGED <<cwd, edit>>

RemovableAlways(n) == n # Root   \* a slip: no test for entries
Removable(n) == ~(type[n] = "dir" /\ kids[n] # <<>>)

Rm(nm) ==
  /\ Ready /\ Finish
  /\ \/ /\ \/ ~Exists(cwd, nm)
           \/ \E n \in FirstMatch(cwd, nm) : ~Removable(n)
        /\ Say(Message) /\ UNCHANGED fsVars
     \/ \E n \in FirstMatch(cwd, nm) :
           /\ Removable(n)
           /\ FsUnlink(cwd, n) /\ Quiet
  /\ UNCHANGED <<cwd, edit>>

Mv(old, new) ==
  /\ Ready /\ Finish
  /\ \/ /\ ~Exists(cwd, old) \/ Exists(cwd, new)
        /\ Say(Message) /\ UNCHANGED name
     \/ \E n \in FirstMatch(cwd, old) :
           /\ ~Exists(cwd, new)
           /\ name' = [name EXCEPT ![n] = Stored[new]] /\ Quiet
  /\ UNCHANGED <<ni, type, parent, kids, dataVars, cwd, edit>>

Cp(src, dst) ==
  /\ Ready /\ Finish
  /\ \/ /\ \/ \A s \in FirstMatch(cwd, src) : type[s] # "file"
           \/ ~CanAdd(cwd, dst)
        /\ Say(Message) /\ UNCHANGED fsVars
     \/ \E s \in FirstMatch(cwd, src) :
           /\ type[s] = "file" /\ CanAdd(cwd, dst)
           /\ FsClone(cwd, s, dst)
           /\ IF size[s] > 0 /\ ~Fits(size[s]) THEN Say(Message) ELSE Quiet
  /\ UNCHANGED <<cwd, edit>>

\* echo, cat, ls, pwd, help, ...: output and nothing else.
Show(p) == Ready /\ Finish /\ Say(p) /\ UNCHANGED <<fsVars, cwd, edit>>

\* edit creates the file, reads lines from the keyboard and saves once.
EditOpen(nm) ==
  /\ Ready
  /\ \E n \in Node \cup {Nil} :
        /\ CreateNode(cwd, nm, "file", n)
        /\ edit' = n
        /\ IF n = Nil THEN Finish /\ Say(Message) ELSE UNCHANGED <<pc, redirVars>>
  /\ UNCHANGED cwd

\* '.' on a line of its own, or the buffer is full: both write what there is.
EditSave(p) ==
  /\ edit # Nil /\ edit' = Nil
  /\ FsWrite(edit, p, "edit", FALSE)
  /\ Finish /\ Say(Message) /\ UNCHANGED cwd

EditAbort == /\ edit # Nil /\ edit' = Nil
             /\ Finish /\ Say(Message) /\ UNCHANGED <<fsVars, cwd>>

-----------------------------------------------------------------------------
\* Redirection of a builtin: create the file, run the builtin with its output
\* captured, write what was captured.  The file may be gone by then.

RedirOpen(nm, append) ==
  /\ pc = "prompt" /\ edit = Nil
  /\ \E n \in Node \cup {Nil} :
        /\ CreateNode(cwd, nm, "file", n)
        /\ IF n = Nil
           THEN UNCHANGED <<pc, redirVars>>
           ELSE /\ pc' = "redir" /\ redirLen' = 0
                /\ out' = [node |-> n, append |-> append]
                /\ UNCHANGED redirBuf
  /\ UNCHANGED <<cwd, edit>>

RedirWrite ==
  /\ pc = "ran" /\ pc' = "prompt"
  /\ FsWrite(out.node, [i \in 1..redirLen |-> redirBuf[i]], "redir", out.append)
  /\ out' = [node |-> Nil, append |-> FALSE]
  /\ UNCHANGED <<cwd, edit, redirBuf, redirLen>>

\* The two system calls that change the file system.  sys_open creates in the
\* current directory; sys_write appends through a descriptor, which outlives
\* the name of the file.
SysOpen(nm) ==
  /\ pc = "prompt" /\ edit = Nil
  /\ CanAdd(cwd, nm)
  /\ AddChild(cwd, nm, "file") /\ UNCHANGED <<off, arena, aoff>>
  /\ UNCHANGED <<cwd, pc, edit, redirVars>>

SysWrite(n, p) ==
  /\ pc = "prompt" /\ edit = Nil /\ type[n] = "file"
  /\ FsWrite(n, p, "none", TRUE)
  /\ UNCHANGED <<cwd, pc, edit, redirVars>>

-----------------------------------------------------------------------------
Boot == BootHome \/ BootDev \/ BootTty \/ BootBin \/ BootCreate \/ BootWrite

Builtin ==
  \/ \E nm \in UserNames : Mkdir(nm) \/ Touch(nm) \/ Rm(nm) \/ EditOpen(nm)
  \/ \E old, new \in UserNames : Mv(old, new) \/ Cp(old, new)
  \/ \E path \in Paths : Cd(path)
  \/ \E p \in Payloads : Show(p) \/ EditSave(p)
  \/ EditAbort

Next ==
  \/ Boot
  \/ Builtin
  \/ \E nm \in UserNames, append \in BOOLEAN : RedirOpen(nm, append)
  \/ RedirWrite
  \/ \E nm \in UserNames : SysOpen(nm)
  \/ \E n \in Node, p \in Payloads : SysWrite(n, p)

Spec == Init /\ [][Next]_vars

-----------------------------------------------------------------------------
\* Properties.

Pointer == Node \cup {Nil}
Stages == {"home", "dev", "tty", "bin", "hello", "image"}

TreeType ==
  /\ ni \in Node
  /\ type \in [Node -> {"free", "dir", "file", "char"}]
  /\ name \in [Node -> Names]
  /\ parent \in [Node -> Pointer]
  /\ kids \in [Node -> Seq(Node)]
DataType ==
  /\ at \in [Node -> {"none", "arena", "redir", "edit", "image"}]
  /\ off \in [Node -> Nat] /\ size \in [Node -> Nat]
  /\ arena \in [Cells -> Byte] /\ aoff \in 0..ArenaSize
ShellType ==
  /\ cwd \in Node /\ edit \in Pointer
  /\ pc \in Stages \cup {"prompt", "redir", "ran"}
  /\ out \in [node : Pointer, append : BOOLEAN]
  /\ redirBuf \in [1..BufSize -> Byte] /\ redirLen \in 0..BufSize

\* Every variable has its type; the counters stay inside their tables (the
\* limits fs_mkdir, fs_create_file, fs_clone_file and fs_write test).
TypeOK == TreeType /\ DataType /\ ShellType

\* The parent pointers and the child / sibling chains describe the same tree:
\* a node is in exactly one place of exactly its parent's chain, only
\* directories have a chain, and every parent is older than its child, so the
\* walk to the root of get_cwd_path and of ".." ends (add_child, fs_mkdir and
\* fs_unlink keep the two in step by hand).
TreeOK ==
  /\ \A d \in Node : \A i \in DOMAIN kids[d] : parent[kids[d][i]] = d
  /\ \A n \in Node : parent[n] # Nil =>
        /\ parent[n] < n /\ n <= ni
        /\ type[parent[n]] = "dir"
        /\ \E i \in DOMAIN kids[parent[n]] : kids[parent[n]][i] = n
  /\ \A d \in Node : \A i, j \in DOMAIN kids[d] : kids[d][i] = kids[d][j] => i = j

\* The shell never stands in a removed directory, and nothing is left hanging
\* below one: rm refuses a directory with entries and reaches only the entries
\* of the current directory, and cd only follows chains and parent pointers.
Attached(n) == n = Root \/ parent[n] # Nil
NoOrphans == /\ Attached(cwd)
             /\ \A n \in Node : parent[n] # Nil => Attached(parent[n])

\* No two files share a byte of the arena and every extent lies below the
\* allocation mark, through appends (which move the file), copies, removed
\* files that are still open, and failed writes (fs_write, fs_clone_file).
Extent(n) == IF at[n] = "arena" THEN off[n]..(off[n] + size[n] - 1) ELSE {}
ExtentsDisjoint ==
  \A n \in Node : /\ \A c \in Extent(n) : c < aoff
                  /\ \A m \in Node \ {n} : Extent(n) \cap Extent(m) = {}

\* Two entries of a directory have the same name only when the 31 characters
\* the table keeps of a longer name made them equal: find_in compares the full
\* name that was asked for with what the table kept.
CutNames == {Stored[n] : n \in {m \in Names : Stored[m] # m}}
NamesUnique ==
  \A d \in Node : \A i, j \in DOMAIN kids[d] :
     i # j /\ name[kids[d][i]] = name[kids[d][j]] => name[kids[d][i]] \in CutNames

\* With the disk backend the whole module implements FileStore: whatever the
\* shell, the editor, redirections and system calls do in between, a file
\* holds what its own writes put there.
Strings == (UNION {[1..k -> Byte] : k \in 0..BufSize}) \cup {Image}
Store == INSTANCE FileStore WITH Slot <- Node, Data <- Strings, kind <- type,
                                 content <- [n \in Node |-> Content(n)]
ImplementsStore == Store!StoreSpec

\* With either backend, a step that leaves the extent of a file what it is (a
\* step that places another file's bytes among them) changes the bytes of that
\* file only if a write that found the arena full has left it pointing at a
\* buffer of the shell: no write into the arena lands on bytes another file holds.
BytesStayPut ==
  [][\A n \in Node :
       /\ <<at[n], off[n], size[n]>>' = <<at[n], off[n], size[n]>>
       /\ Content(n)' # Content(n)
       => at[n] \in {"redir", "edit"}]_vars

\* What the help text of the shell says of cp, "Copy file" (shell.c:100): when
\* cp has made a new entry, the entry has the bytes of the source.
CopyHoldsSource ==
  [][\A src, dst \in UserNames, s, n \in Node :
       /\ Cp(src, dst) /\ s \in FirstMatch(cwd, src)
       /\ n = ni' /\ n # ni /\ parent'[n] # Nil
       => Content(n)' = Content(s)]_vars

=============================================================================

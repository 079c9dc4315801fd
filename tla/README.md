# Snow Kernel in TLA+

Specifications, model-checking runs and machine-checked proofs for Snow Kernel,
the small x86-64 kernel in this repository: a shell that runs in kernel mode
over an in-memory file system, one process record with a descriptor table, and
interrupt handlers for the keyboard, the timer and the mouse. Paths below are
relative to the repository; line numbers are in `PROJECT.json`, entry `map`.

## 1. The system

There is one processor, one process record (`init_proc`) and no scheduler. All
concurrency comes from interrupt handlers; their gates turn interrupts off, so
a handler is interrupted by nothing but shares memory with whatever it
interrupted. The kernel is built without optimisation, so every access to a
shared variable in the source is an access at run time.

| Part | State | Operations | Talks to |
|---|---|---|---|
| File system (`src/fs/fs.c`, or `fs_disk.c`) | node table and its counter, child / sibling chains and parent pointers, byte arena and its mark, current directory | mkdir, create, chardev, lookup, write, read, unlink, rename, clone | shell, system calls, boot, terminal |
| Shell (`src/kernel/shell.c`) | line buffer, parsed command, capture buffer of a redirection, saved descriptors | builtins, editor, redirection of builtins and of programs, PATH search, environment builtins | everything |
| Process record (`src/cpu/proc.c`) | descriptor table, frame list, break, saved stack | alloc / get descriptor, add / drop frames, break | system calls, shell |
| System calls (`src/kernel/syscall.c`) | none of their own | open, close, dup, dup2, read, write, lseek, stat, execve, exit, brk | process record, file system, frames |
| Keyboard (`src/cpu/irq_kbd.c`, `src/drivers/keymap.c`, `keyboard.c`) | modifiers, prefix flag, character ring | handler, decoder, pop, drain, line readers | controller port, terminal, shell, editor, UI |
| Terminal (`src/kernel/tty.c`) | input ring per terminal | put, read, register `/dev/tty0` | keyboard handler, file system |
| Frames and address spaces (`pmm.c`, `vm.c`, `elf.c`) | bump pointer, free list, page tables, CR3 | allocate, free, map, clone, load | execve, exit, brk |
| Interrupts (`irq.c`, `pic.c`, `idt.c`, `irq_stubs.asm`, `irq_timer.c`) | masks, requests, lines in service, handlers, ticks | remap, mask, install, dispatch, acknowledge | keyboard, mouse, boot |
| Mouse (`mouse.c`) | packet buffer, position | initialise by polling, packet handler | keyboard controller, UI |
| Environment (`env.c`) | fixed array of fixed strings | set, unset, get, save, load | shell, PATH search, disk |
| Disk (`ata.c`) | none of its own; the drive's | read and write a sector | environment |
| Command line (`shell.c`) | line buffer, argument vector, argument buffer | type, erase, parse, join | console, builtins |
| Console (`kprint.c`, `serial.c`) | cells, cursor, output sink | put, scroll, clear | everything that prints |
| Graphics (`video.c`, `ui.c`) | mode, frame buffer, window | fill, draw, key loop | keyboard ring, mouse |

What is hard here, and therefore what the properties are about:

* **Sharing with interrupts.** The character ring has two consumers, the
  polling reader and the handler's own drain loop, and no lock.
* **Tables that only fill up.** Nodes and arena bytes are never given back, and
  every operation has a failure path that must leave the structures whole.
* **Redundant structures kept in step by hand.** Parent pointers and child
  chains; the `used` flag and the node pointer of a descriptor.
* **Long command sequences.** A redirected command is six descriptor calls with
  an early return after most of them; a descriptor outlives the name, the size
  and the extent of its file.
* **Boot order.** Several subsystems are used before they are initialised.
* **Devices with a mind of their own.** The controllers remember and forget
  requests, the keyboard's port also carries the mouse's bytes and the answers
  to commands, and the drive writes after the call has returned.
* **Two views of one thing.** The line in memory and the line on the screen;
  the line as typed and the command as parsed.

What makes each part correct:

* *File system*: one tree, described alike from both ends; extents of different
  files never overlap; a file's bytes are what its own writes put there.
* *Descriptors*: `used` and the node agree; commands leave none behind; the
  saved copies survive until restored; an offset never passes its file's end.
* *Keyboard*: decoder state follows the keys; no character is lost, doubled or
  reordered on the way through; the handler always returns.
* *Frames*: a frame has one owner; the kernel's own mappings never change.
* *Interrupts*: every line served is acknowledged, also one that came without a
  request; the interrupted code gets its registers back; a key that waits is
  served in the end.
* *Mouse*: setting it up does not turn the keyboard off.
* *Environment*: a name is set at most once; what was set is what is found; a
  restart finds what some save left.
* *Command line*: what is shown is what runs, and what is meant is what is
  parsed.
* *Console*: nothing is stored outside the screen; old text moves up or stays.
* *Graphics*: what is painted is the part of the shape that is on the screen.

`PROJECT.json` lists every part under `components` and every place that is hard
to test under `hazards`, with the property that watches it.

## 2. Modules

| Module | What it is |
|---|---|
| `FileStore` | abstract: slots that become a directory, file or device once, and files that change only when written |
| `Fs` | detailed: the file system with the boot code, builtins, editor, redirections and system calls that change it |
| `Fds` | the descriptor table, the calls on it, and `run_external`, over the files of `FileStore` |
| `Keyboard` | controller port, handler, decoder, rings and polling readers |
| `EnvMap` | abstract: a map from names to values, and what a restart finds of it |
| `Env` | the environment: array of strings, commands, disk sector, drive, restart |
| `Exec` | page frames, page tables, execve, brk and exit |
| `Irq` | interrupt controllers, stubs, dispatcher, boot order, timer and the mouse's initialisation, around the handler and the readers of `Keyboard` |
| `Console` | the text screen as a value and what each character makes of it |
| `Shell` | the command line over `Console`: prompt, typing, parser, arguments |
| `Video` | the frame buffer as a value, filling and windows |
| `MCFs`, `MCFds`, `MCKeyboard`, `MCEnv`, `MCExec`, `MCIrq`, `MCShell` | constants for TLC |
| `FsProofs`, `FdsProofs`, `KeyboardProofs`, `EnvProofs`, `ExecProofs`, `IrqProofs`, `VideoProofs` | theorems and proofs about the module of that name |
| `ConsoleProofs` | theorems and proofs about `Console` and `Shell` |

`Fds` does not know how the file system works: it uses the actions of
`FileStore`, and `Fs` is shown to implement `FileStore`. A result about
descriptors therefore rests on the promise and not on either backend.

### Fs

State is that of the C structures: `ni`, `type`, `name`, `parent`, `kids`
(the chain `child -> sibling -> ...` as a sequence), `at` / `off` / `size` for
`data` and `size` (where the pointer points: nowhere, into the arena, at the
shell's capture buffer, at the editor's stack frame, at an embedded image),
`arena`, `aoff`, `cwd`. The shell adds the capture buffer, the redirection in
progress and the node open in the editor. `Disk` chooses the backend; the two
sources differ in the full-arena case of `fs_write` and in
`fs_create_chardev`, which `fs_disk.c` does not have. `tty_register` calls it all
the same (`tty.c:55`), so that a build with `FS_BACKEND=disk` does not link as it
stands: with `Disk` the model is of `fs_disk.c` as it would be with that call
left out.

Each builtin is one action with all its error exits. A redirected builtin is
three steps (`RedirOpen`, the builtin, `RedirWrite`) because the builtin runs
between the opening and the writing of the target; the editor is two
(`EditOpen`, then `EditSave` or `EditAbort`) because lines are typed in
between. `FsClone` keeps the order of the code: contents are copied to the
arena first, and then `add_child` clears `data` and `size`. `Stored` is what
the 31-character name field keeps of a name. Error messages matter in one
respect: under a redirection they are captured and become file contents.

### Fds

`fds` is the table; the table operations are operators on a table value, since
`run_external` strings several of them together in one step of the model. The
stages of `run_external` are `RunExternal`, `RedirectIn`, `RedirectOut`,
`ExecFails` or `ExecRuns`, `RestoreStd`, with the early returns as disjuncts.
After `ExecRuns` only system calls act: nothing in the code resumes
`run_external` once a program was entered. The program is arbitrary: any calls
in any order. (On the tables the kernel builds, user code faults at its first
fetch, see section 6; the handlers are specified for the programs they were
written for.) Offsets are unsigned: `NewOffset` wraps at `Word`. `Builtin`
stands for everything the shell does to files between two commands, by way of
`StoreNext`.

### Keyboard

The handler is a state machine of its own (`IrqEnter`, `IrqRead`, `IrqNoMore`,
`IrqDrain`, `IrqReturn`) because the keyboard sends on while it runs. The
reader executes `buf_pop` as the unoptimised build does: load head, load tail,
load tail again to index, load the character, load tail to advance it, store.
It moves only while the handler is off; the handler may run between any two of
its steps, also when the port is empty: a request may be older than the run that
read its byte. The two loads of the emptiness test may therefore see an empty
ring as one with a character in it; the reader then returns a character that was
delivered before, against the comment of `keyboard.h:3`, and leaves the tail
beyond the head. `BurstReachesTty` holds in spite of that. Extended keys are two
bytes and two steps of the keyboard, `Prefix` and `Suffix` (`due` is the code that
is still owed), so that the handler may run, and return, with the prefix read and
its code not yet sent; `NoStuckModifier` says what `extended` must be there.
Scancodes are the keys they stand for; layouts, Caps Lock and the
Pause sequence are left out. Keys lost inside the controller are not modelled:
`port` holds what the controller holds. The terminal's ring has no reader:
`fs_create_chardev` hands its device pointer to `add_child`, which clears it,
so no descriptor reaches `tty_read`, and `in_tail` stays 0.

### Env

`store` is the array of strings `NAME=VALUE` up to `env_count`, `sector` is
sector 16 of the disk, both byte by byte, because matching, cutting and the
length-prefixed encoding are what can go wrong. `Set` stands for `set` and
`export`, which differ only in how they split their argument. Refused commands
change nothing and are the actions' guards. Every change saves at once and no
builtin looks at the result. `AtaWrite28` hands the bytes to the drive, which
writes them after the call has returned (`DriveDone`), refuses, or fails. The
code waits for nothing before a command, so one that is given while the drive
writes is ignored and the wait of `ata.c:33` never ends (`waiting`): the
kernel stands until somebody restarts it. The machine may stop and boot at any
time, also before the drive has written, and the boot may fail to read. `EnvMap`
is what clients see: one name changes at a time, what was saved reaches the disk
or does not, and a restart finds values that were there.

### Exec

`ram` is physical memory as far as tables are made of it: every frame can be
read as a table, `next` and `free` are the frame allocator. This is what lets
the model show what the walk really does: `Below` follows any entry that is
there, and a large page's entry is followed into the page. `Translate` is the
processor's own walk, which knows large pages.

The page directory of the boot tables has 64 entries; behind them, in the same
page, stands the code of `long_mode_entry` (`multiboot64.asm:85`). The constant `Code` is
what these instructions are, read as entries: any of them may be absent, lead to a
frame, or lead out of memory. For a page whose walk comes there (128 MB to 1 GB)
`vm_map_page_pml4` follows them or writes over them, and so does the model, as far
as memory goes (`Reached`): where an entry leads out of it there is no saying what
is written, and the step is not taken (`Inside`). The padding behind the single
entries of the other two tables reads as absent.

Only the first level is copied for a program, so that what hangs at the first entry
is shared. `USER_STACK_TOP` is under entry 15 of the first level, which the kernel's table
leaves absent: each address space gets stack tables of its own, which no list
holds and no exit gives back. `Tables` is what can be reached from any first
level in use (`Roots`), and these are among them while their program lives.

`execve` and `brk` are stepped through page by page, since each page may be the one for which no frame is
left: `Execve`, `LoadPage`, `NextSegment`, `LoadStack`, `EnterUser`, with
`LoadFails` from each allocation; `Brk`, `BrkPage`, `BrkEnds`. `Exit` frees the
list in order; the code then goes on behind a label in the dead frame of
`execve`, `AfterEnter`, and enters the program again on freed tables. The model
stops there, which is why `CHECK_DEADLOCK` is off in its two configurations.
Files that execve refuses change nothing and are left out, and permission bits
with them. As in `Fds`, a program that was entered makes any calls.

### Irq

The module extends `Keyboard`: a line is delivered, the stub pushes, and if the
line is the keyboard's the handler of that module runs, between steps of the
same polling reader. The two 8259 controllers are modelled as the code uses
them (fixed priority, non-specific end of interrupt, the second on line 2 of the
first); so are the keyboard controller's queue, from which a byte that moves to
the front raises its device's line, and the spurious request, when a byte was
read before the processor asked. `Boot` follows `kernel_main64` from `irq_init`
to `sti`, with keys pressed meanwhile. `mouse_init` runs between two polls, one
step for each exchange with the port, and the handler may take the answer away;
then the wait gives up and the port returns what was read last. Registers hold
the name of the one whose value they have. The pushes of the stub (`Saved`) and its
pops (`Popped`) are two lists, each as it stands in `irq_stubs.asm`; a pop takes the
word at its place (`PopAll`), and what is left is the stack of `iretq` (`Unwound`).

What the model shows beside its properties: a key pressed before `irq_init`
leaves a byte at the front whose request the controllers forget, and no later
key raises the line again (`KeyServed` excepts it); line 12 is unmasked but the
cascade is not, so that the mouse's handler is never served and its bytes stay
in front of the keys, which raise no line meanwhile; a key during
`mouse_init` may be written back as the configuration byte and turn the
keyboard off (`ConfigLostOnlyToKey` says: nothing else does).

### Console and Shell

`Console` is a module of operators on a screen value. `Shell` is the loop of
`shell_run`: the prompt, `TypeChar`, `Erase`, `Enter` with the parser, and a
command that prints or clears. `Parse` follows the code: the place of the cut,
the second sign of `>>`, quotes, the 31 words, the blanks around the file.
`Meant` is the reference, written without the code: one pass from left to right,
which also says for which lines the meaning is plain. Lines that are not plain
parse in ways nobody would expect: `echo a>f` without a blank before the sign
loses `a` and runs `echo`, `>>f` at the start of the line runs a command `>`,
words after the file become part of its name. `LineOnScreen` ends where the code
ends it: backspace does not go back over the end of a row, and removes one
column of a tab.

### Video

Definitions without a state machine, about which theorems are proved: no run is
needed to choose sizes. The mode is what the adapter reports; the code prints a
complaint if that is not what it asked for, and goes on. `PixelsMapped` needs 32
bits: with fewer, a call that draws at the bottom writes beyond what is mapped.

## 3. Runs

| Run | Question | Bounds |
|---|---|---|
| `fs_disk` | does everything hold over `fs_disk.c`, and does it implement `FileStore`? | 6 nodes besides the root, 3 arena bytes, 2-byte buffers, a short name and a long one whose cut name collides |
| `fs_mem` | do extents stay apart over `fs.c`, and which files can change under their owner? | 7 nodes, an embedded image larger than the arena, so that boot itself takes the fallback |
| `fs_cp` | is a copy a copy? (violated) | as `fs_mem` |
| `fds_table` | descriptors through every command and every program | 6 descriptors (three beyond the standard ones), word 4, a directory, a device of at most one byte and a file of at most two, two different bytes (symmetric) |
| `fds_stdio` | are 0 to 2 bound to the terminal at the prompt? (violated) | as `fds_table` |
| `kbd_rings` | decoder and rings under every interleaving | rings of 3, lines of 2, bursts of 2, one letter, one shift key with its extended twin |
| `kbd_reach` | does what is typed reach the reader? (violated) | rings of 2 |
| `irq_line` | is every line acknowledged and every register kept, does the mouse leave the keyboard alone, does every handler end and every waiting key get served? | rings and lines of 2, one key, one byte in the port before an answer; masks left by the firmware all set or all clear |
| `shell_line` | is what is shown what runs, and what is meant what is parsed? | 8 columns, 2 rows, lines of 5 characters, 3 words, both signs, a quote and a tab; 5 characters between two clearings of the screen |
| `env_store` | is the array a map, and what survives a restart? | 3 strings of at most 5 bytes, names of at most 2, a sector of 17 bytes that three long strings overflow; one character begins the name of another; values empty, cut, or with an `=` in them |
| `exec_frames` | frames, tables and heap through every order of execve, brk and exit | 28 frames, 23 of them free; tables of 7 entries, in the page directory four large pages and three of code, one leading out of memory; two-byte pages; three programs beyond the page directory, one with its segments out of order, one under another entry of the first level; the stack under a third one; a list of 9 |
| `exec_link` | is a program as `linker_user.ld` links it mapped? (violated) | as `exec_frames` |

Why the bounds are enough to meet the cases: boot takes four nodes (three
without the device), so the remaining ones are few enough for every operation
to meet the full table and enough for a directory in a directory with a file;
three arena bytes hold one full write and let the next append, copy or
redirection fail. Three descriptors are what two redirections with saved copies
need at most, so one open descriptor more makes every call of the prologue
fail in turn. A word of 4 makes `lseek` wrap in both directions over a file of
one byte. A ring of three is the smallest in which a full ring, an empty one and
one left inconsistent by a late store all differ; bursts longer than the ring
are excluded by `BurstCap`, because the code overwrites the oldest character by
design. For interrupts one key is enough, since what matters is when a byte
comes and not which; a port of one byte and the answers behind it make every
order of key, answer and mouse byte. Two bytes in a file let a second write land on,
behind or beside the first, and two values show it if it lands on it. Five characters hold a command, a sign and
a file, or a word in quotes; a prompt of four columns on rows of eight puts the
wrap and the scroll inside the line, and with three words two of them are joined by a
blank. The drive has one sector and at most one
write under way, as the code can have. A program takes seven to nine of
the frames: pages, stack, first level, three tables for the stack and those for its
place that are not shared or not there yet. So 23 are two programs, one called by
the other, and a heap, and they run out in every phase of a third load and of `brk`.

`CHECK_DEADLOCK` is turned off for `Exec` alone (section 2).

What the violated runs show:

* `fs_cp`: `cp` makes an empty file. `fs_clone_file` fills the node in and then
  links it with `add_child`, which clears what was filled in. The arena bytes of
  the copy are spent.
* `fds_stdio`: the boot code binds descriptors 0 to 2 before `proc_init` has
  made the process; the block is skipped and the descriptors have no node.
  `sys_dup(0)` and `sys_dup(1)` in the first redirected command therefore fail,
  and the standard descriptors stay bound to its files afterwards.
* `kbd_reach`: the handler drains the ring into the terminal before it returns,
  so the loops that poll the ring find it empty. Only the serial line reaches
  the shell.
* `exec_link`: the boot tables cover the first 128 MB with large pages, and
  `vm_map_page_pml4` takes such a page for a table. The program's pages stay
  mapped to whatever lies there, and eight bytes of it are overwritten for each.
  The kernel's stack page is mapped the same way on every successful execve.

**Fairness.** Safety runs assume none. `FairSpec` of `Keyboard` assumes that
the processor executes: a pending interrupt is taken and its handler goes on
(weak fairness of `Irq`), the port is read empty again and again because keys
come slower than instructions (`[]<>(port = <<>>)`, strong fairness of
`IrqNoMore`), and the reader gets on between interrupts (strong fairness of
`Poll`). `FairIrq` of `Irq` assumes no more than that of the processor: the boot
code and a handler that was entered go on (weak fairness of `Boot` and `Serve`),
a line the controllers offer is taken (weak fairness for the timer, which stays
offered; strong for the keyboard's, which others interrupt), the handler's loop
sees the port empty again and again, and a tick comes only after the handler of
the last one has returned. Nothing is assumed of keys, mouse or readers.

**Mutants.** Beside some definitions stands a slip a later change could make
(`PlaceUnmarked`, `RestoreLeaky`, `IrqReturnForgets`, ...), marked as such. Replacing
the definition by its slip makes the property named in `PROJECT.json` fail in
its run, which shows that the run would notice.

## 4. Proofs

All constants are arbitrary within the named `ASSUME`s of the modules: any
table, arena and buffer size, any names, any payloads that fit the buffer, any
word size.

**FsProofs.** The invariant `IInv` is `TypeOK`, `ExtentsDisjoint` and what they
need to be inductive: exactly the slots beyond the counter are free, only files
have contents, each within the bounds of what it points into (`DataOK`), and a
redirection in progress has a target (`RedirOK`). Types alone are not inductive because a write uses the
size of what is there. One lemma says what each call of `fs.h` does to the
invariant; a builtin is then a case split over the calls it makes. Proved from
it: `TypeCorrect`, `ExtentsApart`, and `DiskImplementsStore`, the refinement:
initial states map to initial states, and every action maps to `Allocate`,
`Replace`, `Extend` or a stutter. The last needs `Disk`, and fails without it:
over `fs.c` the contents of a file that points at the capture buffer change
with the next redirected command. When they do is `BytesStay`, proved for both and
for each file by itself: a step that leaves its extent what it is, and places whatever
others it likes, changes its bytes only if the file points at a buffer of the shell.
For a step that writes into the arena this is that the new extent, or the bytes
appended, are disjoint from every extent that stays. The tree (`TreeInv`: `TreeOK`, `NoOrphans`, `NamesUnique`) is inductive
with `IInv`. Two lemmas carry it: linking a fresh slot, and taking a node out of a
chain, which must be empty or a file and not where the shell stands. What
a walk along a path returns is in the tree because it starts there and one
component keeps it there; the walk is a recursive function, and the claim is
proved for a given path by its least counterexample. The names of two entries may
be equal only as cut forms, since a lookup compares the whole name with what the
field kept.

**FdsProofs.** `IInv` adds to `TypeOK` that `used` and node agree from 3 on,
that nodes are not free, that offsets lie in their files (`Good`), and, for each
stage of `run_external`, which descriptors beyond 2 are open: none at the prompt,
exactly the saved copies in between (`Held`). The last part is why nothing
leaks: each early return is reached with a known set of open descriptors.
`Rewound` covers
files that the shell cuts short under a bound descriptor: nothing but a program
moves an offset, so until one runs all offsets are 0. Proved: `TypeCorrect`, `NodesAreOpen`,
`CommandsLeakNothing`, `SavedCopies`, `OffsetsInside`, `OnlyAppends`.

**KeyboardProofs.** `TypeCorrect` needs nothing besides. For `ModifiersTrue` the
decoder is a function of what was sent and not yet read: `Tracked` says of each
modifier that, if the last byte in the port that is about it turns it on, or there
is none and it is on, one of its keys is down, and `Paired` that a prefix is always followed by its
byte, in the port or still owed by the keyboard (`due`). `BurstInv` follows the characters of one run from the decoder through the
ring, whose tail a reader may have left anywhere, into the terminal
(`BurstComplete`). It uses that a run is no longer than the ring (`BurstCap`).

**EnvProofs.** `IInv`: every string of the array is a name, one `=` at least and a
value, no two have one name, and the sector and what the drive was given are zero
or what some good array encodes to (`Saved`). Most of the proof is about bytes:
where the strings begin in the sector, that they do not overlap, and
that the loading loop finds them at these places, for which the loop of
`env_load` is followed string by string (a claim of the first round and of each
next one, by its least counterexample). From it: `TypeCorrect`, `VariablesOnce`,
`RestartRestores` (decoding undoes encoding, but for the place of `PATH`), and
`StoreImplementsMap`, the refinement of `EnvMap`, action by action.

**ExecProofs.** `HeapInv` says that `image_hi` is no lower than the end of any
segment in place (`HiCovers`), that there is no heap between `execve` and the
entry of the program (`NoHeapYet`), and that a heap begins at a page boundary
beyond the running image (`HeapBeyond`). `HiCovers` must also hold of the image
being loaded, part by part, because a load can fail half-way: `image_hi` then
keeps what it was raised to, and it is never lowered. The rest is
arithmetic of pages. Proved from it: `HeapApart`. It speaks of addresses that
do not wrap.

The other theorems speak of memory, for whatever `Code` is. `ApartInv` says that there is a level for
every frame (4 for a first table, 0 for what is no table) with which the tables are
trees: an entry of a table of one level leads to one of the next, a table
below the first level hangs at one entry (`Single`; the first levels share what
they lead to, as the shallow copy of `vm_clone_current_pml4` makes them), tables are not on the free list
nor in the process's list, and a frame is in these lists once (`Owned`). From it,
by what each allocation, mapping and freeing does to it: `FramesKeptApart` and
`KernelMapped`. `BackedInv` adds the part of the heap mapped so far
(`HeapBacked`), `LoadedInv` the part of the image loaded so far (`ImageInPlace`);
both use that mapping one page changes the translation of no other
(`Translate` before and after `Below`). `ExitComplete` follows from `Owned`.

The hypotheses of these five are conditions under which the code does what it means
to do, and each holds in the states that `exec_frames` reaches:

* `[]LargePagesSpared`: no page about to be mapped goes through the code in the page
  directory, nor through an entry of a boot large page while the frame it begins with
  is a table or was handed out. `vm_map_page_pml4` takes the large page for a table and
  writes into that frame, and takes instructions for entries; what it then
  overwrites may be anything. The condition holds for programs beyond the page directory
  (from 1 GB on), and for those at the address of `linker_user.ld` until the allocator
  reaches that memory; `exec_link` shows what happens to the program itself. It does
  not hold of a program between 128 MB and 1 GB, of which nothing is claimed.
* `Proper(image)`, of `ImageInPlace`: no page is in two segments, none has the
  indices of another or of the stack, and none is where the page directory of the boot
  tables stands. A page in two segments is loaded twice, and the first of its frames is
  no longer mapped.
* `PagesBeyond`, of `ExitComplete`: the pages looked at are beyond the page directory.
  Under a large page they are frames of the kernel's mapping, which nobody gives back.

Three theorems put conditions on the constants in their place. `ProgramsIn(k, high)` says
that images and breaks lie between the first `k` large pages and page `high`, and
that this place is under the large pages or beyond the page directory; that an image has a
segment; that the stack is beyond the page directory, as `USER_STACK_TOP` is; and that the large page of
the kernel's stack does not begin with a boot table. `SegmentsApart` says that no page is in two
segments or in one and the stack. TLC evaluates them for the programs of both
runs (`MCPrograms` in `MCExec`): the place is `Fan` and `VirtualEnd` for those of
`exec_frames`, and 2 and `Limit` for the one of `exec_link`, which is where
`linker_user.ld` puts a program (0x400000).

* `LargePagesLeft` and `BelowPrograms`, for any place: the large pages are spared, and
  `FramesApart`, `KernelStays` and `BreakBacked` hold, as long as `pmm_cur` has not
  passed the `k`-th large page. What remains assumed is the memory in use: a
  program of `linker_user.ld` may use no more than what lies between the kernel
  and 4 MB.
* `BeyondKernel`, for the place beyond the page directory: `Spec` alone gives these three,
  `ImageMapped` and `ExitGivesBack`.

Their invariant, `SpareInv`, is what a call carries over to the next step about where it
will map: the image being loaded is one of `Images`, a break that was moved is one of
`Breaks` and ends in their place (`BreakOK`), and `brk` is at or beyond the page where the heap began, which
`HeapBeyond` puts after the image (`HeapFrom`). That the walk tells all pages below
`VirtualEnd` apart (`PlacesDiffer`), and takes those from `Fan * Fan` on past the page
directory (`BeyondBoot`), is the uniqueness of digits in base `Fan` (`Digits`).

**IrqProofs.** Five theorems, each with the strengthening it needs. The line
being served is the only one in service and of the first controller (`PicInv`),
which makes one non-specific end of interrupt enough: `NothingStaysInService`.
The stack holds the registers in the order of the pushes (`StackInv`); the i-th pop takes
the i-th word from the top, and the list of the pops names the registers in the
order that needs, eleven of them, so that the line's number alone is left to drop:
`InterruptsKeepRegisters`, which also says that the stack is empty afterwards. The stage of the boot order
determines which handlers are installed (`BootInv`): `HandlersInTime`. While the
question for the configuration is open and no key came, its answer is alone in
the queue or is what was read last, so that the byte written back is the
configuration (`AnswerInv`): `OnlyAKeyLosesConfig`.
With the types of `Keyboard` (`TypeInv`): `TypeCorrect`. The behaviour of the
keyboard's handler enters only through what its actions leave alone.

**ConsoleProofs.** `Putc` maps screens to screens (`PutcStaysOnScreen`) and keeps
the text before the cursor (`PutcKeepsText`), for every size. They rest on one
lemma about the place of a cell in the array. The invariant of the loop,
`ShellInv`, adds to `ShellTypeOK` what the phases mean: no line at the prompt, and
while a command runs it is the parsed line and not empty. From it:

* `TypeCorrect`.
* `LineTrue` (`LineOnScreen`). A line that has not reached the end of its row must
  also begin in the row the cursor is in, or a correction at column 0 would find
  nothing to go back to: `LineShown` says so (`Len(line) <= cx`).
* `ArgsKept` (`ArgsWhole`): the buffer of `run_builtin` is no larger than the line
  and drops what does not fit, but never has to. The words of a line lie in it one after
  another, each at least one place after the end of the one before (`Spaced`, for
  the parser's loop); joining them with single blanks therefore ends at least
  two places before the end of the line (`TextFits`), and the loops that copy
  never meet their bounds.
* `ParsesTrue` (`ParsesAsWritten`): the parser looks for the sign, then for the blank
  before it, then for the words of what it cut off; `Meant` reads the line once,
  character by character. What relates them after each character is
  `ReadSoFar`: the words read followed by the words the parser finds from here on
  are the words of the line, and the word that is open began where the
  parser's search stops; after a sign, `AfterSign` says where it stands and how
  much of its file is read. What was read before the sign is what would be read
  of the command alone (`CommandRead`), so that both halves meet in `PlainParsed`.
* `TextStays` (`OldTextStays`), for rows that a tab and the prompt fit into and
  prompts without control characters (`PromptFits`): otherwise one step moves the
  rows more than once. A character moves the cursor
  by one along the array, and every row that moves takes the cursor back by a
  row; so many characters as fit into a row can do that once.

The loops (`kputs`, the parser, the arguments) are recursive functions. What each
round does is an ordinary lemma, and `Rounds` says that what holds at first and
after every round holds after all; it is proved by the least round that fails.

**VideoProofs.** One side of a rectangle is clipped to what of it is on the
screen (`SpanExact`); from it `FillExact` for both, and `WindowRepaints` by
following one pixel through the border and the two fills. `PixelsMapped` is the
arithmetic of rows.

**With TLC only**: `HandlerEnds` and `KeyServed`, because liveness under fairness is
beyond the prover; every other property of the passing runs is stated by a theorem. The
properties that a run shows violated are counterexamples and have nothing to
prove.

## 5. Plan

Every safety property that a passing run checks has a theorem. What would say more: a
model of the framebuffer console's own text state next to `Video`; the two
hazards of `execve` and `exit` that no property covers, once the code says what should
happen there; and `BelowPrograms` with a bound on the memory in use, computed from
the sizes of the images and the breaks, in place of its condition on `pmm_cur`.

## 6. Not modelled, and why

* User mode itself. The boot tables and every table made by `vm.c` lack the
  user bit above the last level, so the first fetch of a program faults and the
  page-fault handler halts. What a program would do through the system calls
  is modelled; that it is entered is taken from `sys_execve`.
* Reads that change nothing (`stat`, `fstat`, `isatty`, `ls`, `pwd`, `cat`
  beyond the bytes it prints).
* Conversions without state: number formatting, glyphs, keyboard layouts, mode
  switches, the probing of the adapter.
* The key loop of the graphical interface (`ui.c`). It polls the ring as the line
  readers do, through the same `kbd_getc_nonblock`; its mouse branch sees no
  movement because the mouse's handler is never served, and `t` starts a shell
  that never returns. Its clock counts hundreds of ticks as seconds, as its
  comment assumes; the timer is never programmed.
* Traps. `default_isr` is a C function that returns without `iretq`; the
  other handlers print and halt.
* `kstrncpy` in `fs_lookup` with paths of 127 characters and more, where the
  local copy is not terminated; paths are taken to be shorter.

-------------------------------- MODULE Exec --------------------------------
(***************************************************************************)
(* Page frames (src/kernel/pmm.c), page tables (src/kernel/vm.c), and the   *)
(* calls of src/kernel/syscall.c that use them: execve, brk and exit.       *)
(*                                                                         *)
(* Memory is what the tables are made of: any frame can be read as a table, *)
(* and the code does not look at the bit that marks a large page.  A frame  *)
(* has the number of its address; a virtual page too.  The calls run with   *)
(* interrupts off or touch nothing an interrupt does; loops are stepped     *)
(* through page by page.                                                    *)
(***************************************************************************)
EXTENDS Integers, Sequences, SequencesExt, FiniteSetsExt

CONSTANTS
  PageSize,   \* 4096 in the code
  Fan,        \* 512: entries in a table
  Large,      \* 64: large pages in the boot tables
  KernelEnd,  \* the first frame after the kernel, its data and its stack
  KStack,     \* the page of the kernel's stack
  Pml4, Pdpt, Pd,  \* the frames of the boot tables
  Code,       \* what long_mode_entry's instructions are, read as the rest of Pd's entries
  StackPage,  \* the page below USER_STACK_TOP
  Guard,      \* 1 MB: between an image and its heap
  DefaultHi,  \* 16 MB: an image's end if image_hi is 0
  MaxPages,   \* 256: PROC_MAX_PAGES
  Images,     \* the files that pass execve's tests: sequences of segments
  Breaks      \* what programs give to brk

Null == -1
Limit == Large * Fan       \* PMM_LIMIT, the end of what the boot tables map
Frames == 0..(Limit - 1)
Idx == 0..(Fan - 1)
Entry == [to : Nat, ps : BOOLEAN]
Absent == [to |-> 0, ps |-> FALSE]
Ptr(f) == [to |-> f, ps |-> FALSE]
Zeroed == [i \in Idx |-> Absent]

\* The pages of a segment: those any of its bytes lies in (elf_inspect).
FirstPage(seg) == seg.vaddr \div PageSize
PageUp(addr) == (addr + PageSize - 1) \div PageSize    \* as a page number
NumPages(seg) == PageUp(seg.memsz + (seg.vaddr % PageSize))
SegPages(seg) == FirstPage(seg)..(FirstPage(seg) + NumPages(seg) - 1)
End(seg) == seg.vaddr + seg.memsz
PagesOf(im) == UNION {SegPages(im[i]) : i \in DOMAIN im}

ASSUME LayoutAssumption ==
  /\ PageSize \in Nat \ {0} /\ Fan \in Nat \ {0} /\ Large \in 1..Fan
  /\ KernelEnd \in 1..Limit /\ {KStack, Pml4, Pdpt, Pd} \subseteq 1..(KernelEnd - 1)
  /\ Pml4 # Pdpt /\ Pml4 # Pd /\ Pdpt # Pd
  /\ StackPage \in Nat /\ Guard \in Nat /\ DefaultHi \in Nat
  /\ MaxPages \in Nat /\ Breaks \subseteq Nat
\* Instructions may be absent, lead to any frame, or out of memory.
ASSUME CodeAssumption == Code \in [Large..(Fan - 1) -> Entry]
\* An image may have no segment; ends that wrap an address are left out.
Segment == [vaddr : Nat, memsz : Nat]
ASSUME ImagesAssumption == Images \subseteq Seq(Segment)

VARIABLES
  ram,      \* mem: the frames as tables; next: pmm_cur; free: pmm_free_list
  cr3,      \* the table in use
  proc,     \* init_proc: pml4, pages, brkStart, brk, hi
  stage,    \* where the kernel is; "user": in a program
  running,  \* the image of that program
  caller,   \* where execve returns to if it fails
  image, root, si, page, \* execve: n->data, new_pml4, si and p; in brk, page is va
  loaded,   \* the pages execve has filled, each with its frame
  newBrk    \* brk's new_brk

load == <<caller, image, root, si, loaded>>
vars == <<ram, cr3, proc, stage, running, page, newBrk, load>>

-----------------------------------------------------------------------------
\* pmm_alloc_page and pmm_free_page.  The link a free frame holds is aligned,
\* so that read as an entry it is absent.

Room(r) == r.free # <<>> \/ r.next < Limit
Fresh(r) == IF r.free # <<>> THEN Head(r.free) ELSE r.next
Taken(r) == [mem  |-> [r.mem EXCEPT ![Fresh(r)] = Zeroed],
             next |-> IF r.free # <<>> THEN r.next ELSE r.next + 1,
             free |-> IF r.free # <<>> THEN Tail(r.free) ELSE r.free]
FreeAll(r, fs) ==
  [r EXCEPT !.mem = [f \in Frames |-> IF Contains(fs, f) THEN [@[f] EXCEPT ![0] = Absent] ELSE @[f]],
            !.free = Reverse(fs) \o @]

-----------------------------------------------------------------------------
\* vm_map_page_pml4.  s is where the walk has come to: memory and a table.

Span == <<1, Fan, Fan * Fan, Fan * Fan * Fan>>     \* pages under an entry of a level
Index(v, level) == (v \div Span[level]) % Fan

\* A slip: the entry is not looked at.
BelowAnew(s, v, level) ==
  IF s.t # Null /\ Room(s.r)
  THEN [r |-> [Taken(s.r) EXCEPT !.mem[s.t][Index(v, level)] = Ptr(Fresh(s.r))], t |-> Fresh(s.r)]
  ELSE [s EXCEPT !.t = Null]

\* Where a walk has come to: out of memory it is lost.
Reached(f) == IF f \in Frames THEN f ELSE Null

\* An entry that is there is followed, whatever kind it is; a missing one gets
\* a new table.
Below(s, v, level) ==
  LET entry == s.r.mem[s.t][Index(v, level)]
  IN CASE s.t = Null -> s
       [] s.t # Null /\ entry # Absent -> [s EXCEPT !.t = Reached(entry.to)]
       [] s.t # Null /\ entry = Absent /\ ~Room(s.r) -> [s EXCEPT !.t = Null]
       [] OTHER -> [r |-> [Taken(s.r) EXCEPT !.mem[s.t][Index(v, level)] = Ptr(Fresh(s.r))],
                    t |-> Fresh(s.r)]

VmMap(r, top, v, f) ==
  LET s == Below(Below(Below([r |-> r, t |-> top], v, 4), v, 3), v, 2)
  IN IF s.t = Null THEN s.r ELSE [s.r EXCEPT !.mem[s.t][Index(v, 1)] = Ptr(f)]

\* The entries on the way to a page; outside of memory there are none.
Table(m, f) == IF f \in Frames THEN m[f] ELSE Zeroed
Entry3(m, top, v) == m[top][Index(v, 4)]
Entry2(m, top, v) == Table(m, Entry3(m, top, v).to)[Index(v, 3)]
Entry1(m, top, v) == Table(m, Entry2(m, top, v).to)[Index(v, 2)]

\* The walk stays in memory.  Where an instruction of Code is read as an entry
\* that leads out of it, what vm_map_page_pml4 then touches is beyond the model,
\* and the model makes no step.
Inside(m, top, v) == {Entry3(m, top, v).to, Entry2(m, top, v).to, Entry1(m, top, v).to} \subseteq Frames

\* What the processor makes of a page, with the large pages of the boot tables.
Translate(m, top, v) ==
  LET e3 == Entry3(m, top, v)
      e2 == Entry2(m, top, v)
      e1 == Entry1(m, top, v)
      e0 == Table(m, e1.to)[Index(v, 1)]
  IN CASE Absent \in {e3, e2, e1} -> Null
       [] Absent \notin {e3, e2, e1} /\ e1.ps -> e1.to + Index(v, 1)
       [] OTHER -> IF e0 = Absent THEN Null ELSE e0.to

\* A slip: the new address space starts empty.
CloneEmpty(r, top) == Taken(r)
\* vm_clone_current_pml4: only the first level is copied.
Clone(r, top) == [Taken(r) EXCEPT !.mem[Fresh(r)] = r.mem[top]]

\* A slip: the last place in the list is never used.
AddPageEarly(p, f) == IF Len(p.pages) < MaxPages - 1 THEN [p EXCEPT !.pages = Append(@, f)] ELSE p
\* A slip: one place more than there is.
AddPageOneMore(p, f) == IF Len(p.pages) <= MaxPages THEN [p EXCEPT !.pages = Append(@, f)] ELSE p
\* proc_add_allocated_page: a full list drops the frame.
AddPage(p, f) == IF Len(p.pages) < MaxPages THEN [p EXCEPT !.pages = Append(@, f)] ELSE p

-----------------------------------------------------------------------------
\* multiboot64.asm, pmm_init, proc_init
Init ==
  /\ ram = [mem  |-> [f \in Frames |->
                        CASE f = Pml4 -> [Zeroed EXCEPT ![0] = Ptr(Pdpt)]
                          [] f = Pdpt -> [Zeroed EXCEPT ![0] = Ptr(Pd)]
                          [] f = Pd   -> [i \in Idx |-> IF i < Large THEN [to |-> i * Fan, ps |-> TRUE]
                                                                     ELSE Code[i]]
                          [] OTHER    -> Zeroed],
            next |-> KernelEnd,
            free |-> <<>>]
  /\ cr3 = Pml4
  /\ proc = [pml4 |-> 0, pages |-> <<>>, brkStart |-> 0, brk |-> 0, hi |-> 0]
  /\ stage = "prompt" /\ caller = "prompt"
  /\ running = <<>> /\ image = <<>> /\ root = 0 /\ si = 0 /\ page = 0
  /\ loaded = {} /\ newBrk = 0

\* sys_execve up to the cloned table.  A file its tests refuse changes nothing.
\* A program's call comes through int80_entry64, which switches to the
\* kernel's table and never back.
Execve(im) ==
  /\ stage \in {"prompt", "user"}
  /\ cr3' = Pml4
  /\ proc' = [proc EXCEPT !.brkStart = 0, !.brk = 0]
  /\ \/ /\ Room(ram)
        /\ ram' = Clone(ram, cr3')
        /\ stage' = "load"
        /\ caller' = stage /\ image' = im /\ root' = Fresh(ram)
        /\ si' = 1 /\ page' = 0 /\ loaded' = {}
     \/ /\ ~Room(ram)
        /\ UNCHANGED <<ram, stage, page, load>>
  /\ UNCHANGED <<running, newBrk>>

\* One page of a segment.  vm_map_page_pml4 does not say when it fails.
LoadPage ==
  /\ stage = "load" /\ si \in DOMAIN image /\ page < NumPages(image[si])
  /\ Room(ram)
  /\ LET v == FirstPage(image[si]) + page IN
     /\ Inside(ram.mem, root, v)
     /\ ram' = VmMap(Taken(ram), root, v, Fresh(ram))
     /\ loaded' = loaded \cup {<<v, Fresh(ram)>>}
  /\ proc' = AddPage(proc, Fresh(ram))
  /\ page' = page + 1
  /\ UNCHANGED <<cr3, stage, running, newBrk, caller, image, root, si>>

\* A slip: where the last segment ends, not where the highest does.
RaisedToLast(p, seg) == [p EXCEPT !.hi = End(seg)]
Raised(p, seg) == [p EXCEPT !.hi = Max({@, End(seg)})]

NextSegment ==
  /\ stage = "load" /\ si \in DOMAIN image /\ page = NumPages(image[si])
  /\ proc' = Raised(proc, image[si])
  /\ si' = si + 1 /\ page' = 0
  /\ UNCHANGED <<ram, cr3, stage, running, newBrk, caller, image, root, loaded>>

\* The stack, then the kernel's stack page, then what the process owns.
LoadStack ==
  /\ stage = "load" /\ si \notin DOMAIN image
  /\ Room(ram) /\ Inside(ram.mem, root, StackPage)
  /\ ram' = VmMap(VmMap(Taken(ram), root, StackPage, Fresh(ram)), root, KStack, KStack)
  /\ proc' = [AddPage(AddPage(proc, Fresh(ram)), root) EXCEPT !.pml4 = root]
  /\ stage' = "entering"
  /\ UNCHANGED <<cr3, running, page, newBrk, load>>

\* No frame left: execve returns -1 as it stands.
LoadFails ==
  /\ stage = "load" /\ ~Room(ram)
  /\ si \in DOMAIN image => page < NumPages(image[si])
  /\ stage' = caller
  /\ UNCHANGED <<ram, cr3, proc, running, page, newBrk, load>>

EnterUser ==
  /\ stage = "entering"
  /\ cr3' = root /\ running' = image /\ stage' = "user"
  /\ UNCHANGED <<ram, proc, page, newBrk, load>>

\* sys_brk: the heap begins where the first call finds the image's end.
Brk(addr) ==
  /\ stage = "user"
  /\ cr3' = Pml4
  /\ LET base == PageUp((IF proc.hi # 0 THEN proc.hi ELSE DefaultHi) + Guard) * PageSize
         p == IF proc.brkStart = 0 THEN [proc EXCEPT !.brkStart = base, !.brk = base] ELSE proc
     IN /\ proc' = p
        /\ \/ addr = 0 /\ UNCHANGED <<stage, page, newBrk>>
           \/ /\ addr # 0
              /\ stage' = "brk"
              /\ newBrk' = Max({addr, p.brkStart})
              /\ page' = PageUp(p.brk)
  /\ UNCHANGED <<ram, running, load>>

\* A slip: the last page only if the break covers it.
LastPageFloor(addr) == addr \div PageSize
LastPage(addr) == PageUp(addr)

BrkPage ==
  /\ stage = "brk" /\ page < LastPage(newBrk)
  /\ Room(ram) /\ Inside(ram.mem, proc.pml4, page)
  /\ ram' = VmMap(Taken(ram), proc.pml4, page, Fresh(ram))
  /\ proc' = AddPage(proc, Fresh(ram))
  /\ page' = page + 1
  /\ UNCHANGED <<cr3, stage, running, newBrk, load>>

BrkEnds ==
  /\ stage = "brk" /\ (page >= LastPage(newBrk) \/ ~Room(ram))
  /\ proc' = [proc EXCEPT !.brk = newBrk]
  /\ stage' = "user"
  /\ UNCHANGED <<ram, cr3, running, page, newBrk, load>>

\* A slip: the list is not emptied.
GivenBackKeepList(p) == [p EXCEPT !.pml4 = 0]
GivenBack(p) == [p EXCEPT !.pml4 = 0, !.pages = <<>>]

\* sys_exit of a program, also for an invalid opcode.  At the prompt there is
\* no table to give up and no saved context, and nothing happens.
Exit ==
  /\ stage = "user"
  /\ ram' = FreeAll(ram, proc.pages)
  /\ proc' = GivenBack(proc)
  /\ cr3' = Pml4
  /\ stage' = "back"
  /\ UNCHANGED <<running, page, newBrk, load>>

\* context_restore to the label before enter_user: the program is entered
\* again, on frames that are free.  The model ends there, as the machine does.
AfterEnter ==
  /\ stage = "back"
  /\ cr3' = root /\ stage' = "lost"
  /\ UNCHANGED <<ram, proc, running, page, newBrk, load>>

Next == \/ \E im \in Images : Execve(im)
        \/ LoadPage \/ NextSegment \/ LoadStack \/ LoadFails \/ EnterUser
        \/ \E addr \in Breaks : Brk(addr)
        \/ BrkPage \/ BrkEnds
        \/ Exit \/ AfterEnter

Spec == Init /\ [][Next]_vars

-----------------------------------------------------------------------------
\* Properties.

\* Entries lead to frames, but for the kernel's code in the page directory, and
\* frames to be handed out are where the kernel is not (vm.c, pmm.c).
InCode(f, i) == f = Pd /\ i >= Large
MemOK(m) ==
  \A f \in Frames, i \in Idx : m[f][i].to \in Frames \/ (InCode(f, i) /\ m[f][i] = Code[i])
TypeOK ==
  /\ ram.mem \in [Frames -> [Idx -> Entry]] /\ MemOK(ram.mem)
  /\ ram.next \in KernelEnd..Limit /\ ram.free \in Seq(KernelEnd..(Limit - 1))
  /\ cr3 \in Frames /\ root \in Frames
  /\ proc.pml4 \in Frames /\ proc.pages \in Seq(KernelEnd..(Limit - 1))
  /\ Len(proc.pages) <= MaxPages
  /\ proc.brkStart \in Nat /\ proc.brk \in Nat /\ proc.hi \in Nat

\* The tables of the first level in use: the kernel's, the one switched to, the
\* process's, and the one execve fills.
Roots == {Pml4, cr3} \cup ({proc.pml4} \ {0}) \cup {f \in {root} : stage \in {"load", "entering"}}

\* The tables below the first level.  Address spaces share those of the boot
\* tables' first entry; those of the stack each has for itself, and no exit
\* gives them back.
Tables ==
  LET entries(ts) == (UNION {{ram.mem[t][i] : i \in {i \in Idx : ~InCode(t, i)}} : t \in ts}) \ {Absent}
      next(ts) == {e.to : e \in {e \in entries(ts) : ~e.ps}}
      t3 == next(Roots)
      t2 == next(t3)
  IN t3 \cup t2 \cup next(t2)

\* A frame is free, or a page of the process, or a table, and only one of
\* them, and once, through every order of failed and successful calls
\* (pmm_alloc_page, pmm_free_page, sys_exit).
FramesApart ==
  LET owned == Range(proc.pages)
      free == Range(ram.free)
  IN stage # "lost" =>
       /\ IsInjective(proc.pages) /\ IsInjective(ram.free)
       /\ owned \cap free = {} /\ Tables \cap (owned \cup free) = {}
       /\ \A f \in owned \cup free \cup Tables : f < ram.next
       /\ proc.pml4 # 0 => proc.pml4 \notin free \cup Tables

\* The kernel's memory is where it was under the table in use and under the
\* process's own, and its code in the page directory is what it was
\* (vm_clone_current_pml4; syscall.c: "Preserve kernel mappings so syscalls/IRQs
\* can function after user entry").
KernelStays ==
  stage # "lost" =>
    /\ \A top \in {cr3} \cup ({proc.pml4} \ {0}) :
         \A v \in Frames : Translate(ram.mem, top, v) = v
    /\ \A i \in DOMAIN Code : ram.mem[Pd][i] = Code[i]

HeapPages == IF proc.brkStart = 0 THEN {}
             ELSE (proc.brkStart \div PageSize)..(PageUp(proc.brk) - 1)

\* The heap of a program keeps clear of its image, whatever programs and
\* failed calls of execve came before (image_hi in sys_execve, sys_brk).
HeapMissesImage ==
  stage \in {"user", "brk"} => HeapPages \cap PagesOf(running) = {}

\* A page below the break has a frame, unless the frames have run out
\* (sys_brk, which moves the break all the same).
BreakBacked ==
  stage = "user" =>
    \A v \in HeapPages : Translate(ram.mem, proc.pml4, v) # Null \/ ~Room(ram)

\* When a program is entered, every page of it that was loaded is mapped to
\* the frame it was loaded into (sys_execve: "Map & load segments explicitly
\* using inspected metadata").
ImageMapped ==
  stage = "entering" =>
    /\ {pair[1] : pair \in loaded} = PagesOf(image)
    /\ \A pair \in loaded : Translate(ram.mem, root, pair[1]) = pair[2]

\* What an exit gives back is all the frames the program can see, as long as
\* the list of its frames did not overflow (proc_add_allocated_page).
ExitGivesBack ==
  stage = "user" /\ Len(proc.pages) < MaxPages =>
    \A v \in PagesOf(running) \cup {StackPage} \cup HeapPages :
      Translate(ram.mem, proc.pml4, v) \in {Null} \cup Range(proc.pages)

-----------------------------------------------------------------------------
\* Conditions on the programs, under which the theorems hold.

VirtualEnd == Fan * Span[4]     \* the pages that four levels tell apart

\* Programs and their breaks lie between the first k large pages and page high:
\* where the boot tables have large pages, as linker_user.ld puts programs at
\* k = 2, or beyond all that Pd stands for (1 GB), k = Fan.  The stack does
\* the latter.  The large page of the kernel's stack does not begin with a boot
\* table.
ProgramsIn(k, high) ==
  LET place == (k * Fan)..(high - 1)
  IN /\ high <= Limit \/ (k >= Fan /\ high <= VirtualEnd)
     /\ \A im \in Images : /\ im # <<>> /\ PagesOf(im) \subseteq place
                           /\ \A i \in DOMAIN im : im[i].vaddr >= PageSize * (k * Fan)
     /\ \A addr \in Breaks : PageUp(addr) <= high
     /\ StackPage \in (Fan * Fan)..(VirtualEnd - 1)
     /\ Index(KStack, 2) * Fan \notin {Pml4, Pdpt, Pd}

\* No page is in two segments, nor in a segment and the stack.
SegmentsApart ==
  \A im \in Images :
    /\ \A i, j \in DOMAIN im : i # j => SegPages(im[i]) \cap SegPages(im[j]) = {}
    /\ StackPage \notin PagesOf(im)
=============================================================================

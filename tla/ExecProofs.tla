----------------------------- MODULE ExecProofs -----------------------------
(***************************************************************************)
(* Proofs about Exec: the heap keeps clear of the image, the types, the     *)
(* frames apart, the kernel where it was, the heap and the image backed by  *)
(* frames, and what an exit gives back.                                     *)
(***************************************************************************)
EXTENDS Exec, SequenceTheorems, TLAPS

\* What a sequence of segments holds (the segments elf_inspect records).
LEMMA SegmentOf ==
  ASSUME NEW im \in Seq(Segment), NEW i \in DOMAIN im
  PROVE  im[i] \in Segment /\ End(im[i]) \in Nat
<1>1. im[i] \in Segment
  OBVIOUS
<1>2. QED
  BY <1>1 DEF End, Segment

USE DEF Segment

\* Rounding up to a page reaches the address, and a page number times the size
\* of a page is the page's address.
LEMMA Division ==
  ASSUME NEW a \in Nat
  PROVE  /\ a \div PageSize \in Nat /\ a % PageSize \in 0..(PageSize - 1)
         /\ a = PageSize * (a \div PageSize) + (a % PageSize)
BY LayoutAssumption, SMTT(30)

LEMMA RoundsUp ==
  ASSUME NEW a \in Nat
  PROVE  PageUp(a) \in Nat /\ PageSize * PageUp(a) >= a /\ PageSize * PageUp(a) < a + PageSize
<1>1. a + PageSize - 1 \in Nat
  BY LayoutAssumption
<1>2. QED
  BY <1>1, Division, LayoutAssumption, SMTT(30) DEF PageUp

\* Page addresses are in the order of the pages.
LEMMA Multiples ==
  ASSUME NEW a \in Nat, NEW b \in Nat, PageSize * a < PageSize * b
  PROVE  a < b
BY LayoutAssumption, SMTT(30)

\* The larger of two, as image_hi and new_brk are raised.
LEMMA MaxOfTwo ==
  ASSUME NEW a \in Nat, NEW b \in Nat
  PROVE  Max({a, b}) \in Nat /\ Max({a, b}) >= a /\ Max({a, b}) >= b
<1>1. \E x \in {a, b} : \A y \in {a, b} : x >= y
  OBVIOUS
<1>2. QED
  BY <1>1 DEF Max

\* The address of a page: what the arithmetic below needs of a product.
LEMMA Products ==
  ASSUME NEW a \in Nat, NEW b \in Nat
  PROVE  /\ PageSize * a \in Nat
         /\ PageSize * (a + b) = PageSize * a + PageSize * b
         /\ a <= b => PageSize * a <= PageSize * b
         /\ PageSize \in Nat /\ PageSize * (a + 1) = PageSize * a + PageSize
BY LayoutAssumption, SMTT(30)

\* Every page of a segment that ends at or below a page boundary is below it.
LEMMA PagesBelow ==
  ASSUME NEW seg \in Segment, NEW k \in Nat, End(seg) <= PageSize * k,
         NEW v \in SegPages(seg)
  PROVE  v < k
<1> DEFINE first == seg.vaddr \div PageSize
           delta == seg.vaddr % PageSize
<1>1. /\ first \in Nat /\ delta \in 0..(PageSize - 1)
      /\ seg.vaddr = PageSize * first + delta
  BY Division
<1>2. seg.memsz + delta \in Nat /\ seg.memsz \in Nat
  <2>1. seg.memsz \in Nat
    BY DEF Segment
  <2>2. delta \in Nat
    BY <1>1, Products
  <2> HIDE DEF delta
  <2>3. QED
    BY <2>1, <2>2
<1>3. /\ PageUp(seg.memsz + delta) \in Nat
      /\ PageSize * PageUp(seg.memsz + delta) < seg.memsz + delta + PageSize
  BY <1>2, RoundsUp
<1> DEFINE num == PageUp(seg.memsz + delta)
<1>4. v \in Nat /\ num \in Nat /\ v + 1 <= first + num
  BY <1>1, <1>3 DEF SegPages, FirstPage, NumPages
<1>5. PageSize * (v + 1) <= PageSize * (first + num)
  BY <1>1, <1>4, Products
<1>6. /\ PageSize * (first + num) = PageSize * first + PageSize * num
      /\ PageSize * (v + 1) = PageSize * v + PageSize
      /\ PageSize * first \in Nat /\ PageSize * num \in Nat
      /\ PageSize * v \in Nat /\ PageSize * k \in Nat /\ PageSize \in Nat
  BY <1>1, <1>4, Products
<1>7. PageSize * v < PageSize * k
  <2> DEFINE F == PageSize * first
             U == PageSize * num
             V == PageSize * v
             K == PageSize * k
  <2>1. F \in Nat /\ U \in Nat /\ V \in Nat /\ K \in Nat /\ PageSize \in Nat
    BY <1>6
  <2>2. V + PageSize <= F + U /\ U < seg.memsz + delta + PageSize
    BY <1>3, <1>5, <1>6
  <2>3. F + delta + seg.memsz <= K
    BY <1>1 DEF End
  <2>4. delta \in Nat
    BY <1>1, LayoutAssumption
  <2> HIDE DEF F, U, V, K, delta
  <2>5. V < K
    BY <1>2, <2>1, <2>2, <2>3, <2>4
  <2> QED
    BY <2>5 DEF V, K
<1>8. QED
  BY <1>4, <1>7, Multiples

-----------------------------------------------------------------------------
\* The fields of the process that matter here, and the images.
FieldsOK ==
  /\ proc = [pml4 |-> proc.pml4, pages |-> proc.pages, brkStart |-> proc.brkStart,
             brk |-> proc.brk, hi |-> proc.hi]
  /\ proc.hi \in Nat /\ proc.brkStart \in Nat /\ proc.brk \in Nat /\ newBrk \in Nat
  /\ image \in Seq(Segment) /\ running \in Seq(Segment)
  /\ si \in Nat /\ (stage = "load" => si \in 1..(Len(image) + 1))

\* image_hi is no lower than the end of any segment that is in place.
HiCovers ==
  /\ \A i \in DOMAIN running : End(running[i]) <= proc.hi
  /\ stage = "load" => \A i \in DOMAIN image : i < si => End(image[i]) <= proc.hi
  /\ stage = "entering" => \A i \in DOMAIN image : End(image[i]) <= proc.hi

\* While another image is loaded there is no heap.
NoHeapYet == stage \in {"load", "entering"} => proc.brkStart = 0

\* A heap begins at a page beyond the running image.
HeapBeyond ==
  proc.brkStart # 0 =>
    \E k \in Nat : /\ proc.brkStart = PageSize * k
                   /\ \A i \in DOMAIN running : End(running[i]) <= PageSize * k

\* execve never fails back into itself.
CallerOK == caller \in {"prompt", "user"}

HeapInv == CallerOK /\ FieldsOK /\ HiCovers /\ NoHeapYet /\ HeapBeyond

\* Before the first program there is no heap and no image (proc_init).
LEMMA HeapInvInit == Init => HeapInv
BY DEF Init, HeapInv, CallerOK, FieldsOK, HiCovers, NoHeapYet, HeapBeyond

\* proc_add_allocated_page touches the list of pages and nothing else.
LEMMA AddPageKeeps ==
  ASSUME FieldsOK, NEW f
  PROVE  /\ AddPage(proc, f) = [pml4 |-> proc.pml4, pages |-> AddPage(proc, f).pages,
                                brkStart |-> proc.brkStart, brk |-> proc.brk, hi |-> proc.hi]
         /\ AddPage(proc, f).hi = proc.hi /\ AddPage(proc, f).brkStart = proc.brkStart
         /\ AddPage(proc, f).brk = proc.brk /\ AddPage(proc, f).pml4 = proc.pml4
BY DEF FieldsOK, AddPage

\* Every call keeps the heap beyond the image, the failing ones included.
LEMMA HeapInvNext == HeapInv /\ [Next]_vars => HeapInv'
<1> SUFFICES ASSUME HeapInv, [Next]_vars PROVE HeapInv'
  OBVIOUS
<1> USE DEF HeapInv
<1>1. ASSUME NEW im \in Images, Execve(im) PROVE HeapInv'
  <2>1. im \in Seq(Segment)
    BY ImagesAssumption
  <2>2. /\ proc'.hi = proc.hi /\ proc'.brkStart = 0 /\ proc'.brk = 0
        /\ proc' = [pml4 |-> proc'.pml4, pages |-> proc'.pages, brkStart |-> 0, brk |-> 0,
                    hi |-> proc.hi]
        /\ running' = running /\ newBrk' = newBrk /\ CallerOK'
    BY <1>1 DEF Execve, FieldsOK, CallerOK, load
  <2>3. CASE stage' = "load" /\ image' = im /\ si' = 1
    <3>1. \A i \in DOMAIN im : ~(i < 1)
      BY <2>1
    <3>2. QED
      BY <2>1, <2>2, <2>3, <3>1 DEF FieldsOK, HiCovers, NoHeapYet, HeapBeyond, CallerOK
  <2>4. CASE stage' = stage /\ image' = image /\ si' = si
    BY <1>1, <2>2, <2>4 DEF Execve, FieldsOK, HiCovers, NoHeapYet, HeapBeyond, CallerOK
  <2>5. QED
    BY <1>1, <2>3, <2>4 DEF Execve, load
<1>2. CASE LoadPage
  <2>1. proc' = AddPage(proc, Fresh(ram)) /\ UNCHANGED <<stage, running, newBrk, image, si, caller>>
    BY <1>2 DEF LoadPage
  <2>2. QED
    BY <2>1, AddPageKeeps DEF FieldsOK, HiCovers, NoHeapYet, HeapBeyond, CallerOK
<1>3. CASE NextSegment
  <2> DEFINE seg == image[si]
  <2>1. /\ stage = "load" /\ si \in DOMAIN image /\ si' = si + 1
        /\ proc' = [proc EXCEPT !.hi = Max({proc.hi, End(seg)})]
        /\ UNCHANGED <<stage, running, newBrk, image, caller>>
    BY <1>3 DEF NextSegment, Raised
  <2>2. seg \in Segment /\ End(seg) \in Nat
    BY <2>1, SegmentOf DEF FieldsOK
  <2>3. /\ proc'.hi = Max({proc.hi, End(seg)}) /\ proc'.hi \in Nat
        /\ proc'.hi >= proc.hi /\ proc'.hi >= End(seg)
    BY <2>1, <2>2, MaxOfTwo DEF FieldsOK
  <2>4. proc' = [pml4 |-> proc.pml4, pages |-> proc.pages, brkStart |-> proc.brkStart,
                 brk |-> proc.brk, hi |-> proc'.hi]
    BY <2>1, <2>3 DEF FieldsOK
  <2>8. si' \in 1..(Len(image) + 1)
    BY <2>1 DEF FieldsOK
  <2>9. FieldsOK' /\ proc'.brkStart = proc.brkStart
    BY <2>1, <2>3, <2>4, <2>8 DEF FieldsOK
  <2>5. \A i \in DOMAIN running : End(running[i]) <= proc'.hi
    <3> SUFFICES ASSUME NEW i \in DOMAIN running PROVE End(running[i]) <= proc'.hi
      OBVIOUS
    <3>1. End(running[i]) \in Nat /\ End(running[i]) <= proc.hi
      BY SegmentOf DEF FieldsOK, HiCovers
    <3>2. QED
      BY <2>3, <3>1 DEF FieldsOK
  <2>6. \A i \in DOMAIN image : i < si + 1 => End(image[i]) <= proc'.hi
    <3> SUFFICES ASSUME NEW i \in DOMAIN image, i < si + 1 PROVE End(image[i]) <= proc'.hi
      OBVIOUS
    <3>1. CASE i = si
      BY <2>3, <3>1
    <3>2. CASE i < si
      <4>1. End(image[i]) \in Nat /\ End(image[i]) <= proc.hi
        BY <2>1, <3>2, SegmentOf DEF FieldsOK, HiCovers
      <4>2. QED
        BY <2>3, <4>1 DEF FieldsOK
    <3>3. QED
      BY <3>1, <3>2 DEF FieldsOK
  <2>7. QED
    BY <2>1, <2>9, <2>5, <2>6 DEF HiCovers, NoHeapYet, HeapBeyond, CallerOK
<1>4. CASE LoadStack
  <2> DEFINE p == AddPage(proc, Fresh(ram))
             q == AddPage(p, root)
  <2>1. /\ stage = "load" /\ si \notin DOMAIN image /\ stage' = "entering"
        /\ proc' = [q EXCEPT !.pml4 = root]
        /\ UNCHANGED <<running, newBrk, image, si, caller>>
    BY <1>4 DEF LoadStack, load
  <2>2. /\ p = [pml4 |-> proc.pml4, pages |-> p.pages, brkStart |-> proc.brkStart,
                brk |-> proc.brk, hi |-> proc.hi]
    BY AddPageKeeps
  <2>3. q = [pml4 |-> proc.pml4, pages |-> q.pages, brkStart |-> proc.brkStart,
             brk |-> proc.brk, hi |-> proc.hi]
    <3> HIDE DEF p
    <3> QED
      BY <2>2 DEF AddPage
  <2> HIDE DEF q
  <2>4. proc' = [pml4 |-> root, pages |-> q.pages, brkStart |-> proc.brkStart,
                 brk |-> proc.brk, hi |-> proc.hi]
    BY <2>1, <2>3
  <2>7. /\ proc'.hi = proc.hi /\ proc'.brkStart = proc.brkStart
        /\ FieldsOK'
    <3>1. /\ proc'.hi = proc.hi /\ proc'.brkStart = proc.brkStart /\ proc'.brk = proc.brk
          /\ proc'.pml4 = root /\ proc'.pages = q.pages
      BY <2>4
    <3>2. proc' = [pml4 |-> proc'.pml4, pages |-> proc'.pages, brkStart |-> proc'.brkStart,
                   brk |-> proc'.brk, hi |-> proc'.hi]
      BY <2>4, <3>1
    <3>3. stage' # "load"
      BY <2>1
    <3> HIDE DEF p
    <3>4. QED
      BY <2>1, <3>1, <3>2, <3>3 DEF FieldsOK
  <2>5. \A i \in DOMAIN image : End(image[i]) <= proc.hi
    <3>1. \A i \in DOMAIN image : i < si
      BY <2>1 DEF FieldsOK
    <3>2. QED
      BY <2>1, <3>1 DEF HiCovers
  <2>6. QED
    BY <2>1, <2>7, <2>5 DEF HiCovers, NoHeapYet, HeapBeyond, CallerOK
<1>5. CASE LoadFails
  BY <1>5 DEF LoadFails, load, FieldsOK, HiCovers, NoHeapYet, HeapBeyond, CallerOK
<1>6. CASE EnterUser
  BY <1>6 DEF EnterUser, load, FieldsOK, HiCovers, NoHeapYet, HeapBeyond, CallerOK
<1>7. ASSUME NEW addr \in Breaks, Brk(addr) PROVE HeapInv'
  <2> DEFINE h == IF proc.hi # 0 THEN proc.hi ELSE DefaultHi
             base == PageUp(h + Guard) * PageSize
             p == IF proc.brkStart = 0 THEN [proc EXCEPT !.brkStart = base, !.brk = base] ELSE proc
  <2>0. h \in Nat /\ h >= proc.hi
    <3>1. proc.hi \in Nat /\ DefaultHi \in Nat
      BY LayoutAssumption DEF FieldsOK
    <3>2. QED
      BY <3>1
  <2>1. /\ proc' = p /\ addr \in Nat /\ Guard \in Nat
        /\ stage = "user" /\ stage' \in {"user", "brk"}
        /\ newBrk' = newBrk \/ newBrk' = Max({addr, p.brkStart})
        /\ UNCHANGED <<running, image, si, caller>>
    BY <1>7, LayoutAssumption DEF Brk, load
  <2> HIDE DEF h
  <2>2. h + Guard \in Nat
    BY <2>0, <2>1
  <2>3. /\ PageUp(h + Guard) \in Nat
        /\ PageSize * PageUp(h + Guard) >= h + Guard
        /\ PageSize * PageUp(h + Guard) \in Nat
    BY <2>2, RoundsUp, Products
  <2>4. base = PageSize * PageUp(h + Guard) /\ base \in Nat /\ base >= proc.hi
    <3>1. base = PageSize * PageUp(h + Guard)
      BY <2>3, LayoutAssumption, SMTT(30)
    <3>2. QED
      BY <2>0, <2>1, <2>2, <2>3, <3>1 DEF FieldsOK
  <2> HIDE DEF base
  <2>5. CASE proc.brkStart = 0
    <3>1. p = [pml4 |-> proc.pml4, pages |-> proc.pages, brkStart |-> base, brk |-> base,
               hi |-> proc.hi]
      BY <2>5 DEF FieldsOK
    <3>2. newBrk' \in Nat
      <4>1. p.brkStart = base
        BY <3>1
      <4>2. Max({addr, base}) \in Nat
        BY <2>1, <2>4, MaxOfTwo
      <4>3. newBrk' = newBrk \/ newBrk' = Max({addr, base})
        BY <2>1, <4>1
      <4> HIDE DEF p
      <4>4. QED
        BY <4>2, <4>3 DEF FieldsOK
    <3>3. \A i \in DOMAIN running : End(running[i]) <= base
      <4> SUFFICES ASSUME NEW i \in DOMAIN running PROVE End(running[i]) <= base
        OBVIOUS
      <4>1. End(running[i]) \in Nat /\ End(running[i]) <= proc.hi /\ proc.hi \in Nat
        BY SegmentOf DEF FieldsOK, HiCovers
      <4>2. QED
        BY <2>4, <4>1
    <3>4. FieldsOK' /\ proc'.hi = proc.hi /\ proc'.brkStart = base
      BY <2>1, <2>4, <3>1, <3>2 DEF FieldsOK
    <3>5. HeapBeyond'
      BY <2>1, <2>3, <2>4, <3>3, <3>4 DEF HeapBeyond
    <3>6. QED
      BY <2>1, <3>4, <3>5 DEF HiCovers, NoHeapYet, CallerOK
  <2>6. CASE proc.brkStart # 0
    <3>1. newBrk' \in Nat
      BY <2>1, <2>6, MaxOfTwo DEF FieldsOK
    <3>2. QED
      BY <2>1, <2>6, <3>1 DEF FieldsOK, HiCovers, NoHeapYet, HeapBeyond, CallerOK
  <2>7. QED
    BY <2>5, <2>6
<1>8. CASE BrkPage
  <2>1. proc' = AddPage(proc, Fresh(ram)) /\ UNCHANGED <<stage, running, newBrk, image, si, caller>>
    BY <1>8 DEF BrkPage, load
  <2>2. QED
    BY <2>1, AddPageKeeps DEF FieldsOK, HiCovers, NoHeapYet, HeapBeyond, CallerOK
<1>9. CASE BrkEnds
  BY <1>9 DEF BrkEnds, load, FieldsOK, HiCovers, NoHeapYet, HeapBeyond, CallerOK
<1>10. CASE Exit
  BY <1>10 DEF Exit, GivenBack, load, FieldsOK, HiCovers, NoHeapYet, HeapBeyond, CallerOK
<1>11. CASE AfterEnter
  BY <1>11 DEF AfterEnter, load, FieldsOK, HiCovers, NoHeapYet, HeapBeyond, CallerOK
<1>12. CASE UNCHANGED vars
  BY <1>12 DEF vars, load, FieldsOK, HiCovers, NoHeapYet, HeapBeyond, CallerOK
<1>13. QED
  BY <1>1, <1>2, <1>3, <1>4, <1>5, <1>6, <1>7, <1>8, <1>9, <1>10, <1>11, <1>12 DEF Next

\* A heap page is not a page of a program whose segments all end at or below
\* the start of the heap.
LEMMA HeapInvApart == HeapInv => HeapMissesImage
<1> SUFFICES ASSUME HeapInv, NEW v \in HeapPages, v \in PagesOf(running) PROVE FALSE
  BY DEF HeapMissesImage
<1>1. proc.brkStart # 0 /\ v \in (proc.brkStart \div PageSize)..(PageUp(proc.brk) - 1)
  BY DEF HeapPages
<1>2. PICK k \in Nat : /\ proc.brkStart = PageSize * k
                      /\ \A i \in DOMAIN running : End(running[i]) <= PageSize * k
  BY <1>1 DEF HeapInv, HeapBeyond
<1>3. PICK i \in DOMAIN running : v \in SegPages(running[i])
  BY DEF PagesOf
<1>4. running[i] \in Segment
  BY SegmentOf DEF HeapInv, FieldsOK
<1>5. v < k
  BY <1>2, <1>3, <1>4, PagesBelow
<1>6. proc.brkStart \div PageSize = k
  BY <1>2, LayoutAssumption, SMTT(30)
<1>7. PageUp(proc.brk) \in Nat
  BY RoundsUp DEF HeapInv, FieldsOK
<1>8. v >= k
  BY <1>1, <1>6, <1>7
<1>9. v \in Nat
  BY <1>1, <1>2, <1>6, <1>7
<1>10. QED
  BY <1>2, <1>5, <1>8, <1>9

\* The heap sys_brk hands out never meets the image sys_execve loaded, for any
\* programs, page size and guard, through every order of calls that fail or not.
THEOREM HeapApart == Spec => []HeapMissesImage
<1>1. HeapInv /\ [Next]_vars => HeapInv'
  BY HeapInvNext
<1>2. QED
  BY <1>1, HeapInvInit, HeapInvApart, PTL DEF Spec

-----------------------------------------------------------------------------
\* What memory may hold: entries that lead to frames, but for the kernel's code.
Memory == {m \in [Frames -> [Idx -> Entry]] : MemOK(m)}
RamType == [mem : Memory, next : KernelEnd..Limit, free : Seq(KernelEnd..(Limit - 1))]

\* Where the kernel's frames are, and what the widths of the levels are.
LEMMA Layout ==
  /\ Limit \in Nat /\ KernelEnd \in Nat \ {0} /\ KernelEnd <= Limit
  /\ {KStack, Pml4, Pdpt, Pd} \subseteq Frames /\ 0 \in Frames /\ 0 \in Idx
  /\ KernelEnd..(Limit - 1) \subseteq Frames
  /\ \A level \in 1..4 : Span[level] \in Nat \ {0}
<1>1. Limit \in Nat
  BY LayoutAssumption DEF Limit
<1>2. Fan * Fan \in Nat \ {0} /\ Fan * Fan * Fan \in Nat \ {0}
  BY LayoutAssumption
<1>3. \A level \in 1..4 : Span[level] \in Nat \ {0}
  BY <1>2, LayoutAssumption DEF Span
<1>4. QED
  BY <1>1, <1>3, LayoutAssumption DEF Frames, Idx

\* A large page of the boot tables begins with a frame.
LEMMA LargeFrame ==
  ASSUME NEW i \in Idx, i < Large
  PROVE  i * Fan \in Frames
<1>1. i \in Nat /\ i + 1 <= Large /\ Large \in Nat /\ Fan \in Nat \ {0}
  BY LayoutAssumption DEF Idx
<1>2. (i + 1) * Fan <= Large * Fan /\ (i + 1) * Fan = i * Fan + Fan /\ i * Fan \in Nat
  BY <1>1, SMTT(30)
<1>3. QED
  BY <1>1, <1>2, Layout DEF Frames, Limit

\* PML4_INDEX to PT_INDEX give a place in a table.
LEMMA IndexInTable ==
  ASSUME NEW v \in Nat, NEW level \in 1..4
  PROVE  Index(v, level) \in Idx
<1>1. Span[level] \in Nat \ {0}
  BY Layout
<1> DEFINE s == Span[level]
<1>2. v \div s \in Nat
  BY <1>1
<1>3. QED
  BY <1>2, LayoutAssumption DEF Index, Idx

\* What is written in a table is an entry.
LEMMA EntryValues ==
  /\ Absent \in Entry /\ Absent.to \in Frames /\ Zeroed \in [Idx -> Entry]
  /\ \A i \in Idx : Zeroed[i] = Absent
  /\ \A f \in Frames : Ptr(f) \in Entry /\ Ptr(f).to = f
BY Layout DEF Absent, Zeroed, Ptr, Entry, Frames

\* Entries lead to frames, but for the code.
LEMMA LeadsToFrame ==
  ASSUME NEW m \in Memory, NEW t \in Frames, NEW i \in Idx, ~InCode(t, i)
  PROVE  m[t][i] \in Entry /\ m[t][i].to \in Frames
BY DEF Memory, MemOK

\* Memory stays memory when its entries are old ones or lead to frames.
LEMMA MemoryFrom ==
  ASSUME NEW m \in Memory, NEW m2 \in [Frames -> [Idx -> Entry]],
         \A t \in Frames, i \in Idx : m2[t][i] = m[t][i] \/ m2[t][i].to \in Frames
  PROVE  m2 \in Memory
BY DEF Memory, MemOK

\* A cleared frame, and an entry written in a table.
LEMMA MemoryCleared ==
  ASSUME NEW m \in Memory, NEW f \in Frames
  PROVE  [m EXCEPT ![f] = Zeroed] \in Memory
<1> DEFINE m2 == [m EXCEPT ![f] = Zeroed]
<1>1. m2 \in [Frames -> [Idx -> Entry]]
  BY EntryValues DEF Memory
<1>2. \A t \in Frames, i \in Idx : m2[t][i] = m[t][i] \/ m2[t][i] = Absent
  BY EntryValues DEF Memory
<1>3. QED
  BY <1>1, <1>2, EntryValues, MemoryFrom

LEMMA MemoryWritten ==
  ASSUME NEW m \in Memory, NEW t \in Frames, NEW i \in Idx, NEW f \in Frames
  PROVE  [m EXCEPT ![t][i] = Ptr(f)] \in Memory
<1> DEFINE m2 == [m EXCEPT ![t][i] = Ptr(f)]
<1>1. m2 \in [Frames -> [Idx -> Entry]]
  BY EntryValues DEF Memory
<1>2. \A u \in Frames, j \in Idx : m2[u][j] = m[u][j] \/ m2[u][j] = Ptr(f)
  BY DEF Memory
<1> HIDE DEF m2
<1>3. \A u \in Frames, j \in Idx : m2[u][j] = m[u][j] \/ m2[u][j].to \in Frames
  BY <1>2, EntryValues
<1>4. m2 \in Memory
  BY <1>1, <1>3, MemoryFrom
<1>5. QED
  BY <1>4 DEF m2

\* pmm_alloc_page
LEMMA TakenTyped ==
  ASSUME NEW r \in RamType, Room(r)
  PROVE  Fresh(r) \in KernelEnd..(Limit - 1) /\ Fresh(r) \in Frames /\ Taken(r) \in RamType
<1>1. Fresh(r) \in KernelEnd..(Limit - 1)
  <2>1. r.free \in Seq(KernelEnd..(Limit - 1)) /\ r.next \in KernelEnd..Limit
    BY DEF RamType
  <2>2. CASE r.free # <<>>
    <3>1. \A S : r.free \in Seq(S) => Head(r.free) \in S
      BY <2>2
    <3>2. QED
      BY <2>1, <2>2, <3>1 DEF Fresh
  <2>3. CASE r.free = <<>>
    BY <2>1, <2>3, Layout DEF Room, Fresh
  <2>4. QED
    BY <2>2, <2>3
<1>2. CASE r.free # <<>>
  <2>1. Tail(r.free) \in Seq(KernelEnd..(Limit - 1))
    BY <1>2 DEF RamType
  <2>2. QED
    BY <1>1, <1>2, <2>1, MemoryCleared, Layout DEF RamType, Taken
<1>3. CASE r.free = <<>>
  <2>1. r.next + 1 \in KernelEnd..Limit
    BY <1>3, Layout DEF RamType, Room
  <2>2. QED
    BY <1>1, <1>3, <2>1, MemoryCleared, Layout DEF RamType, Taken
<1>4. QED
  BY <1>2, <1>3

\* An entry written in a table.
LEMMA WriteTyped ==
  ASSUME NEW r \in RamType, NEW t \in Frames, NEW i \in Idx, NEW f \in Frames
  PROVE  [r EXCEPT !.mem[t][i] = Ptr(f)] \in RamType
<1>1. [r.mem EXCEPT ![t][i] = Ptr(f)] \in Memory
  BY MemoryWritten DEF RamType
<1>2. [r EXCEPT !.mem[t][i] = Ptr(f)] = [r EXCEPT !.mem = [r.mem EXCEPT ![t][i] = Ptr(f)]]
  BY DEF RamType
<1>3. QED
  BY <1>1, <1>2 DEF RamType

WalkType == [r : RamType, t : Frames \cup {Null}]

\* Below, case by case.
LEMMA BelowIs ==
  ASSUME NEW s, NEW v, NEW level
  PROVE  Below(s, v, level) =
           IF s.t = Null THEN s
           ELSE IF s.r.mem[s.t][Index(v, level)] # Absent
                THEN [s EXCEPT !.t = Reached(s.r.mem[s.t][Index(v, level)].to)]
           ELSE IF ~Room(s.r) THEN [s EXCEPT !.t = Null]
           ELSE [r |-> [Taken(s.r) EXCEPT !.mem[s.t][Index(v, level)] = Ptr(Fresh(s.r))], t |-> Fresh(s.r)]
<1> DEFINE t == s.t
           e == s.r.mem[s.t][Index(v, level)]
           room == Room(s.r)
           on == [s EXCEPT !.t = Reached(e.to)]
           off == [s EXCEPT !.t = Null]
           new == [r |-> [Taken(s.r) EXCEPT !.mem[s.t][Index(v, level)] = Ptr(Fresh(s.r))], t |-> Fresh(s.r)]
           null == Null
           absent == Absent
<1>1. Below(s, v, level) = CASE t = null -> s
                             [] t # null /\ e # absent -> on
                             [] t # null /\ e = absent /\ ~room -> off
                             [] OTHER -> new
  BY Zenon DEF Below
<1> HIDE DEF t, e, room, on, off, new, null, absent
<1>2. Below(s, v, level) = IF t = null THEN s ELSE IF e # absent THEN on ELSE IF ~room THEN off ELSE new
  <2>1. CASE t = null
    BY <1>1, <2>1
  <2>2. CASE t # null /\ e # absent
    BY <1>1, <2>2
  <2>3. CASE t # null /\ e = absent /\ ~room
    BY <1>1, <2>3
  <2>4. CASE t # null /\ e = absent /\ room
    BY <1>1, <2>4
  <2>5. QED
    BY <2>1, <2>2, <2>3, <2>4
<1>3. QED
  BY <1>2 DEF t, e, room, on, off, new, null, absent

\* One step of the walk stays in memory or gives up.
LEMMA BelowTyped ==
  ASSUME NEW s \in WalkType, NEW v \in Nat, NEW level \in 1..4
  PROVE  Below(s, v, level) \in WalkType
<1> DEFINE i == Index(v, level)
           e == s.r.mem[s.t][i]
           new == [Taken(s.r) EXCEPT !.mem[s.t][i] = Ptr(Fresh(s.r))]
<1>1. i \in Idx
  BY IndexInTable
<1>b. Below(s, v, level) = IF s.t = Null THEN s
                           ELSE IF e # Absent THEN [s EXCEPT !.t = Reached(e.to)]
                           ELSE IF ~Room(s.r) THEN [s EXCEPT !.t = Null] ELSE [r |-> new, t |-> Fresh(s.r)]
  BY BelowIs
<1>2. CASE s.t = Null
  BY <1>2, <1>b
<1>3. CASE s.t # Null
  <2>1. s.t \in Frames /\ s.r \in RamType
    BY <1>3 DEF WalkType
  <2>2. CASE e # Absent
    <3>1. \E t \in Frames \cup {Null} : Below(s, v, level) = [s EXCEPT !.t = t]
      BY <1>3, <1>b, <2>2 DEF Reached
    <3> HIDE DEF e
    <3>2. QED
      BY <3>1 DEF WalkType
  <2>3. CASE e = Absent /\ ~Room(s.r)
    <3>1. Below(s, v, level) = [s EXCEPT !.t = Null]
      BY <1>3, <1>b, <2>3
    <3>2. QED
      BY <3>1 DEF WalkType
  <2>4. CASE e = Absent /\ Room(s.r)
    <3>1. Fresh(s.r) \in Frames /\ Taken(s.r) \in RamType
      BY <2>1, <2>4, TakenTyped
    <3>2. new \in RamType
      BY <1>1, <2>1, <3>1, WriteTyped
    <3>3. Below(s, v, level) = [r |-> new, t |-> Fresh(s.r)]
      BY <1>3, <1>b, <2>4
    <3> HIDE DEF new
    <3>4. QED
      BY <3>1, <3>2, <3>3 DEF WalkType
  <2>5. QED
    BY <2>2, <2>3, <2>4
<1>4. QED
  BY <1>2, <1>3

\* vm_map_page_pml4
LEMMA VmMapTyped ==
  ASSUME NEW r \in RamType, NEW top \in Frames, NEW v \in Nat, NEW f \in Frames
  PROVE  VmMap(r, top, v, f) \in RamType
<1> DEFINE s4 == [r |-> r, t |-> top]
           s3 == Below(s4, v, 4)
           s2 == Below(s3, v, 3)
           s1 == Below(s2, v, 2)
<1>1. s1 \in WalkType
  <2>1. s4 \in WalkType
    BY DEF WalkType
  <2>2. s3 \in WalkType
    BY <2>1, BelowTyped
  <2>3. s2 \in WalkType
    <3> HIDE DEF s3
    <3> QED
      BY <2>2, BelowTyped
  <2>4. QED
    <3> HIDE DEF s2
    <3> QED
      BY <2>3, BelowTyped
<1>2. VmMap(r, top, v, f) = IF s1.t = Null THEN s1.r ELSE [s1.r EXCEPT !.mem[s1.t][Index(v, 1)] = Ptr(f)]
  BY DEF VmMap
<1> HIDE DEF s1
<1>3. QED
  BY <1>1, <1>2, WriteTyped, IndexInTable DEF WalkType

\* vm_clone_current_pml4
LEMMA CloneTyped ==
  ASSUME NEW r \in RamType, NEW top \in Frames \ {Pd}, Room(r)
  PROVE  Clone(r, top) \in RamType
<1> DEFINE n == Taken(r)
           m2 == [n.mem EXCEPT ![Fresh(r)] = r.mem[top]]
<1>1. Fresh(r) \in Frames /\ n \in RamType
  BY TakenTyped
<1>2. r.mem[top] \in [Idx -> Entry] /\ \A i \in Idx : r.mem[top][i].to \in Frames
  BY LeadsToFrame DEF RamType, Memory, InCode
<1>3. Clone(r, top) = [n EXCEPT !.mem = m2]
  BY <1>1 DEF Clone, RamType
<1> HIDE DEF n
<1>4. m2 \in [Frames -> [Idx -> Entry]]
  BY <1>1, <1>2 DEF RamType, Memory
<1>5. \A t \in Frames, i \in Idx : m2[t][i] = n.mem[t][i] \/ m2[t][i].to \in Frames
  BY <1>1, <1>2 DEF RamType, Memory
<1> HIDE DEF m2
<1>6. m2 \in Memory
  BY <1>1, <1>4, <1>5, MemoryFrom DEF RamType
<1>7. QED
  BY <1>1, <1>3, <1>6 DEF RamType

\* sys_exit's loop over the frames of the process.
LEMMA FreeAllTyped ==
  ASSUME NEW r \in RamType, NEW fs \in Seq(KernelEnd..(Limit - 1))
  PROVE  FreeAll(r, fs) \in RamType
<1> DEFINE mem == [f \in Frames |-> IF Contains(fs, f) THEN [r.mem[f] EXCEPT ![0] = Absent] ELSE r.mem[f]]
           free == Reverse(fs) \o r.free
<1>1. mem \in Memory
  <2>1. mem \in [Frames -> [Idx -> Entry]]
    BY EntryValues, Layout DEF RamType, Memory
  <2>2. \A f \in Frames, i \in Idx : mem[f][i] = r.mem[f][i] \/ mem[f][i] = Absent
    BY Layout DEF RamType, Memory
  <2> HIDE DEF mem
  <2>3. QED
    BY <2>1, <2>2, EntryValues, MemoryFrom DEF RamType
<1>2. free \in Seq(KernelEnd..(Limit - 1))
  <2>1. Reverse(fs) \in Seq(KernelEnd..(Limit - 1))
    <3> DEFINE S == KernelEnd..(Limit - 1)
    <3>1. \A i \in 1..Len(fs) : fs[(Len(fs) - i) + 1] \in S
      <4> HIDE DEF S
      <4> SUFFICES ASSUME NEW i \in 1..Len(fs) PROVE fs[(Len(fs) - i) + 1] \in S
        OBVIOUS
      <4>1. fs \in Seq(S) /\ (Len(fs) - i) + 1 \in 1..Len(fs)
        BY DEF S
      <4>2. QED
        BY <4>1, ElementOfSeq
    <3>2. QED
      BY <3>1, IsASeq DEF Reverse
  <2>2. QED
    BY <2>1 DEF RamType
<1>3. FreeAll(r, fs) = [r EXCEPT !.mem = mem, !.free = free]
  BY DEF FreeAll, RamType
<1> HIDE DEF mem, free
<1>4. QED
  BY <1>1, <1>2, <1>3 DEF RamType

ProcType == [pml4 : Frames, pages : Seq(KernelEnd..(Limit - 1)),
             brkStart : Nat, brk : Nat, hi : Nat]

\* proc_add_allocated_page keeps to the size of the list.
LEMMA AddPageTyped ==
  ASSUME NEW p \in ProcType, Len(p.pages) <= MaxPages, NEW f \in KernelEnd..(Limit - 1)
  PROVE  AddPage(p, f) \in ProcType /\ Len(AddPage(p, f).pages) <= MaxPages
<1>1. CASE Len(p.pages) < MaxPages
  <2>1. /\ Append(p.pages, f) \in Seq(KernelEnd..(Limit - 1))
        /\ Len(Append(p.pages, f)) = Len(p.pages) + 1
    BY DEF ProcType
  <2>2. AddPage(p, f) = [p EXCEPT !.pages = Append(p.pages, f)] /\ Len(p.pages) \in Nat
    BY <1>1 DEF AddPage, ProcType
  <2>3. AddPage(p, f) \in ProcType /\ AddPage(p, f).pages = Append(p.pages, f)
    <3> DEFINE new == Append(p.pages, f)
    <3> HIDE DEF new
    <3>1. AddPage(p, f) = [p EXCEPT !.pages = new] /\ new \in Seq(KernelEnd..(Limit - 1))
      BY <2>1, <2>2 DEF new
    <3>2. AddPage(p, f) \in ProcType /\ AddPage(p, f).pages = new
      BY <3>1 DEF ProcType
    <3>3. QED
      BY <3>2 DEF new
  <2>4. QED
    BY <1>1, <2>1, <2>2, <2>3, LayoutAssumption
<1>2. CASE ~(Len(p.pages) < MaxPages)
  BY <1>2 DEF AddPage
<1>3. QED
  BY <1>1, <1>2

-----------------------------------------------------------------------------
\* The root execve loads under is a frame it was given, never one of the kernel.
TypeInv ==
  /\ ram \in RamType /\ cr3 \in Frames /\ root \in Frames
  /\ proc \in ProcType /\ Len(proc.pages) <= MaxPages
  /\ page \in Nat
  /\ stage = "load" => root \in KernelEnd..(Limit - 1)

\* The type invariant that is checked follows.
LEMMA TypeInvTyped == TypeInv => TypeOK
BY DEF TypeInv, TypeOK, RamType, ProcType, Memory

\* The boot tables (multiboot64.asm).
LEMMA TypeInvInit == Init => TypeInv
<1> SUFFICES ASSUME Init PROVE TypeInv
  OBVIOUS
<1>0. ASSUME NEW i \in Idx, i < Large PROVE i * Fan \in Frames
  BY <1>0, LargeFrame
<1>1. /\ Ptr(Pdpt) \in Entry /\ Ptr(Pd) \in Entry
      /\ \A i \in Idx : i < Large => [to |-> i * Fan, ps |-> TRUE] \in Entry
  BY <1>0, EntryValues, Layout DEF Entry, Frames
<1>2. ram.mem \in Memory
  <2> DEFINE boot == [i \in Idx |-> IF i < Large THEN [to |-> i * Fan, ps |-> TRUE] ELSE Code[i]]
  <2>1. \A i \in Idx : ~(i < Large) => i \in Large..(Fan - 1) /\ Code[i] \in Entry
    BY LayoutAssumption, CodeAssumption DEF Idx
  <2>2. boot \in [Idx -> Entry]
    BY <1>1, <2>1
  <2> HIDE DEF boot
  <2>3. ram.mem = [f \in Frames |-> CASE f = Pml4 -> [Zeroed EXCEPT ![0] = Ptr(Pdpt)]
                                     [] f = Pdpt -> [Zeroed EXCEPT ![0] = Ptr(Pd)]
                                     [] f = Pd   -> boot
                                     [] OTHER    -> Zeroed]
    BY DEF Init, boot
  <2>4. \A f \in Frames : ram.mem[f] \in {[Zeroed EXCEPT ![0] = Ptr(Pdpt)], [Zeroed EXCEPT ![0] = Ptr(Pd)], Zeroed}
                           \/ (f = Pd /\ ram.mem[f] = boot)
    BY <2>3, Zenon
  <2>5. ram.mem \in [Frames -> [Idx -> Entry]]
    <3>1. [Zeroed EXCEPT ![0] = Ptr(Pdpt)] \in [Idx -> Entry] /\ [Zeroed EXCEPT ![0] = Ptr(Pd)] \in [Idx -> Entry]
      BY <1>1, EntryValues, Layout
    <3>2. \A f \in Frames : ram.mem[f] \in [Idx -> Entry]
      BY <2>2, <2>4, <3>1, EntryValues
    <3>3. QED
      BY <2>3, <3>2
  <2>6. ASSUME NEW f \in Frames, NEW i \in Idx
        PROVE  ram.mem[f][i].to \in Frames \/ (InCode(f, i) /\ ram.mem[f][i] = Code[i])
    <3>1. CASE f = Pd /\ ram.mem[f] = boot
      <4>1. CASE i < Large
        <5>1. ram.mem[f][i] = [to |-> i * Fan, ps |-> TRUE] /\ i * Fan \in Frames
          BY <1>0, <3>1, <4>1 DEF boot
        <5>2. QED
          BY <5>1
      <4>2. CASE ~(i < Large)
        BY <3>1, <4>2, LayoutAssumption DEF boot, InCode, Idx
      <4>3. QED
        BY <4>1, <4>2
    <3>2. CASE ram.mem[f] \in {[Zeroed EXCEPT ![0] = Ptr(Pdpt)], [Zeroed EXCEPT ![0] = Ptr(Pd)], Zeroed}
      <4>1. ram.mem[f][i] \in {Absent, Ptr(Pdpt), Ptr(Pd)}
        BY <3>2, EntryValues
      <4>2. QED
        BY <4>1, EntryValues, Layout
    <3>3. QED
      BY <2>4, <3>1, <3>2
  <2>7. QED
    BY <2>5, <2>6 DEF Memory, MemOK
<1>3. <<>> \in Seq(KernelEnd..(Limit - 1)) /\ Len(<<>>) = 0
  OBVIOUS
<1>4. ram \in RamType
  BY <1>2, <1>3, Layout DEF Init, RamType
<1>5. proc \in ProcType /\ proc.pages = <<>>
  BY <1>3, Layout DEF Init, ProcType
<1>6. QED
  BY <1>3, <1>4, <1>5, Layout, LayoutAssumption DEF Init, TypeInv

\* Every call keeps the memory, the list of pages and the addresses in bounds.
LEMMA TypeInvNext == HeapInv /\ TypeInv /\ [Next]_vars => TypeInv'
<1> SUFFICES ASSUME HeapInv, TypeInv, [Next]_vars PROVE TypeInv'
  OBVIOUS
<1> USE DEF TypeInv
<1>1. ASSUME NEW im \in Images, Execve(im) PROVE TypeInv'
  <2>1. cr3' = Pml4 /\ Pml4 \in Frames /\ proc' \in ProcType /\ proc'.pages = proc.pages
    BY <1>1, Layout DEF Execve, ProcType
  <2>2. CASE Room(ram) /\ ram' = Clone(ram, cr3') /\ root' = Fresh(ram) /\ page' = 0
    <3>1. ram' \in RamType
      BY <2>1, <2>2, CloneTyped, LayoutAssumption
    <3>2. root' \in KernelEnd..(Limit - 1) /\ root' \in Frames
      BY <2>2, TakenTyped
    <3>3. QED
      BY <2>1, <2>2, <3>1, <3>2
  <2>3. CASE UNCHANGED <<ram, stage, page, load>>
    BY <2>1, <2>3 DEF load
  <2>4. QED
    BY <1>1, <2>2, <2>3 DEF Execve
<1>2. CASE LoadPage
  <2> DEFINE v == FirstPage(image[si]) + page
  <2>1. /\ stage = "load" /\ si \in DOMAIN image /\ Room(ram)
        /\ ram' = VmMap(Taken(ram), root, v, Fresh(ram))
        /\ proc' = AddPage(proc, Fresh(ram)) /\ page' = page + 1
        /\ UNCHANGED <<cr3, root, stage>>
    BY <1>2 DEF LoadPage
  <2>2. v \in Nat
    <3>1. image[si] \in Segment
      BY <2>1, SegmentOf DEF HeapInv, FieldsOK
    <3>2. FirstPage(image[si]) \in Nat
      BY <3>1, Division DEF FirstPage, Segment
    <3>3. QED
      BY <3>2
  <2>3. Fresh(ram) \in KernelEnd..(Limit - 1) /\ Fresh(ram) \in Frames /\ Taken(ram) \in RamType
    BY <2>1, TakenTyped
  <2>4. ram' \in RamType
    BY <2>1, <2>2, <2>3, VmMapTyped
  <2>5. proc' \in ProcType /\ Len(proc'.pages) <= MaxPages
    BY <2>1, <2>3, AddPageTyped
  <2>6. QED
    BY <2>1, <2>4, <2>5
<1>3. CASE NextSegment
  <2>1. /\ si \in DOMAIN image /\ proc' = [proc EXCEPT !.hi = Max({proc.hi, End(image[si])})]
        /\ UNCHANGED <<ram, cr3, root, stage>> /\ page' = 0
    BY <1>3 DEF NextSegment, Raised
  <2>2. Max({proc.hi, End(image[si])}) \in Nat
    <3>1. End(image[si]) \in Nat
      BY <2>1, SegmentOf DEF HeapInv, FieldsOK
    <3>2. QED
      BY <3>1, MaxOfTwo DEF ProcType
  <2>3. proc' \in ProcType /\ proc'.pages = proc.pages
    BY <2>1, <2>2 DEF ProcType
  <2>4. QED
    BY <2>1, <2>3
<1>4. CASE LoadStack
  <2> DEFINE p == AddPage(proc, Fresh(ram))
             q == AddPage(p, root)
             r == VmMap(Taken(ram), root, StackPage, Fresh(ram))
  <2>1. /\ stage = "load" /\ Room(ram) /\ stage' = "entering"
        /\ ram' = VmMap(r, root, KStack, KStack)
        /\ proc' = [q EXCEPT !.pml4 = root]
        /\ UNCHANGED <<cr3, root, page>>
    BY <1>4 DEF LoadStack, load
  <2>2. Fresh(ram) \in KernelEnd..(Limit - 1) /\ Fresh(ram) \in Frames /\ Taken(ram) \in RamType
    BY <2>1, TakenTyped
  <2>3. r \in RamType
    BY <2>2, VmMapTyped, LayoutAssumption
  <2>4. ram' \in RamType
    <3> HIDE DEF r
    <3>1. KStack \in Nat /\ KStack \in Frames
      BY Layout DEF Frames
    <3>2. QED
      BY <2>1, <2>3, <3>1, VmMapTyped
  <2>5. p \in ProcType /\ Len(p.pages) <= MaxPages
    BY <2>2, AddPageTyped
  <2>6. q \in ProcType /\ Len(q.pages) <= MaxPages
    <3> HIDE DEF p
    <3> QED
      BY <2>1, <2>5, AddPageTyped
  <2>7. proc' \in ProcType /\ Len(proc'.pages) <= MaxPages
    <3> HIDE DEF q
    <3> QED
      BY <2>1, <2>6 DEF ProcType
  <2>8. QED
    BY <2>1, <2>4, <2>7
<1>5. CASE LoadFails
  BY <1>5 DEF LoadFails, load, HeapInv, CallerOK
<1>6. CASE EnterUser
  BY <1>6 DEF EnterUser, load
<1>7. ASSUME NEW addr \in Breaks, Brk(addr) PROVE TypeInv'
  <2> DEFINE h == IF proc.hi # 0 THEN proc.hi ELSE DefaultHi
             base == PageUp(h + Guard) * PageSize
             p == IF proc.brkStart = 0 THEN [proc EXCEPT !.brkStart = base, !.brk = base] ELSE proc
  <2>1. /\ cr3' = Pml4 /\ proc' = p /\ (page' = page \/ page' = PageUp(p.brk))
        /\ stage' \in {"user", "brk"} /\ UNCHANGED <<ram, root>>
    BY <1>7 DEF Brk, load
  <2>2. base \in Nat
    <3>1. h + Guard \in Nat
      BY LayoutAssumption DEF ProcType
    <3> HIDE DEF h
    <3>2. PageUp(h + Guard) \in Nat
      BY <3>1, RoundsUp
    <3>3. QED
      BY <3>2, LayoutAssumption
  <2> HIDE DEF base
  <2>3. p \in ProcType /\ p.pages = proc.pages
    BY <2>2 DEF ProcType
  <2> HIDE DEF p
  <2>4. PageUp(p.brk) \in Nat
    BY <2>3, RoundsUp DEF ProcType
  <2>5. QED
    BY <2>1, <2>3, <2>4, Layout
<1>8. CASE BrkPage
  <2>1. /\ stage = "brk" /\ Room(ram) /\ stage' = stage
        /\ ram' = VmMap(Taken(ram), proc.pml4, page, Fresh(ram))
        /\ proc' = AddPage(proc, Fresh(ram)) /\ page' = page + 1
        /\ UNCHANGED <<cr3, root>>
    BY <1>8 DEF BrkPage, load
  <2>2. Fresh(ram) \in KernelEnd..(Limit - 1) /\ Fresh(ram) \in Frames /\ Taken(ram) \in RamType
    BY <2>1, TakenTyped
  <2>3. ram' \in RamType
    BY <2>1, <2>2, VmMapTyped DEF ProcType
  <2>4. proc' \in ProcType /\ Len(proc'.pages) <= MaxPages
    BY <2>1, <2>2, AddPageTyped
  <2>5. QED
    BY <2>1, <2>3, <2>4
<1>9. CASE BrkEnds
  BY <1>9 DEF BrkEnds, load, ProcType, HeapInv, FieldsOK
<1>10. CASE Exit
  <2>1. /\ ram' = FreeAll(ram, proc.pages) /\ proc' = [proc EXCEPT !.pml4 = 0, !.pages = <<>>]
        /\ cr3' = Pml4 /\ stage' = "back" /\ UNCHANGED <<root, page>>
    BY <1>10 DEF Exit, GivenBack, load
  <2>2. ram' \in RamType
    BY <2>1, FreeAllTyped DEF ProcType
  <2>3. proc' \in ProcType /\ Len(proc'.pages) <= MaxPages
    <3>1. <<>> \in Seq(KernelEnd..(Limit - 1)) /\ Len(<<>>) = 0
      OBVIOUS
    <3>2. proc'.pages = <<>> /\ proc' = [pml4 |-> 0, pages |-> <<>>, brkStart |-> proc.brkStart,
                                        brk |-> proc.brk, hi |-> proc.hi]
      BY <2>1 DEF ProcType
    <3>3. proc' \in ProcType
      BY <3>1, <3>2, Layout DEF ProcType
    <3>4. QED
      BY <3>1, <3>2, <3>3, LayoutAssumption
  <2>4. QED
    BY <2>1, <2>2, <2>3, Layout
<1>11. CASE AfterEnter
  BY <1>11 DEF AfterEnter, load
<1>12. CASE UNCHANGED vars
  BY <1>12 DEF vars, load
<1>13. QED
  BY <1>1, <1>2, <1>3, <1>4, <1>5, <1>6, <1>7, <1>8, <1>9, <1>10, <1>11, <1>12 DEF Next

\* Page tables lead to frames, and what pmm_alloc_page hands out is never the
\* kernel's memory nor beyond what the boot tables map, for any sizes and images.
THEOREM TypeCorrect == Spec => []TypeOK
<1>1. Init => HeapInv /\ TypeInv
  BY HeapInvInit, TypeInvInit
<1>2. (HeapInv /\ TypeInv) /\ [Next]_vars => (HeapInv /\ TypeInv)'
  BY HeapInvNext, TypeInvNext
<1>3. QED
  BY <1>1, <1>2, TypeInvTyped, PTL DEF Spec

-----------------------------------------------------------------------------
\* What keeps tables, pages and free frames apart.

\* The walk to v meets a large page of the boot tables, and goes on in the
\* first frame it maps as if that were a table (vm_map_page_pml4).
UnderBoot(v) == Index(v, 4) = 0 /\ Index(v, 3) = 0
UnderLarge(v) == UnderBoot(v) /\ Index(v, 2) < Large

\* It meets an instruction of the kernel's.
UnderCode(v) == UnderBoot(v) /\ Index(v, 2) >= Large

\* The first frame of the large page is neither a boot table nor one that was
\* handed out.
Harmless(v) ==
  /\ ~UnderCode(v)
  /\ UnderLarge(v) => Index(v, 2) * Fan \notin {Pml4, Pdpt, Pd} \cup (KernelEnd..(ram.next - 1))

\* Every page about to be mapped is harmless in this sense.  It holds while
\* programs lie beyond the page directory of the boot tables, and of a program at
\* linker_user.ld's address as long as the frames handed out end below it.
LargePagesSpared ==
  /\ stage = "load" =>
       IF si \in DOMAIN image
       THEN page < NumPages(image[si]) => Harmless(FirstPage(image[si]) + page)
       ELSE Harmless(StackPage) /\ Harmless(KStack)
  /\ stage = "brk" /\ page < LastPage(newBrk) => Harmless(page)

\* lev gives a table the number of its level, 4 for the first, and other frames
\* 0.  Tables of the first level begin with the boot tables' large pages.
BootTables(m, lev) ==
  /\ lev[Pml4] = 4 /\ lev[Pdpt] = 3 /\ lev[Pd] = 2
  /\ \A t \in Frames : lev[t] = 4 => m[t][0] = Ptr(Pdpt)
  /\ m[Pdpt][0] = Ptr(Pd)
  /\ \A i \in Idx : m[Pd][i] = IF i < Large THEN [to |-> i * Fan, ps |-> TRUE] ELSE Code[i]

\* An entry leads one level down; large pages are only in the boot tables, and
\* no other entry leads to these.  The code in the page directory is no entry.
EntryOK(e, lev, t, i) ==
  /\ lev[t] \in 2..4 /\ e # Absent /\ ~InCode(t, i) =>
       IF e.ps THEN t = Pd /\ i < Large ELSE lev[e.to] = lev[t] - 1
  /\ lev[t] = 4 /\ e = Ptr(Pdpt) => i = 0
  /\ lev[t] = 3 /\ e = Ptr(Pd) => t = Pdpt /\ i = 0

Levels == [Frames -> 0..4]

\* A table below the first level hangs at one entry, but that the first levels
\* share what they lead to, at the same place.
Single(m, lev) ==
  \A t, u \in Frames, i, j \in Idx :
    lev[t] \in 2..4 /\ lev[u] = lev[t] /\ m[t][i] # Absent /\ ~m[t][i].ps /\ m[u][j] = m[t][i]
    /\ ~InCode(t, i) /\ ~InCode(u, j)
      => i = j /\ (t = u \/ lev[t] = 4)

\* No frame is a table on two levels, none before it is handed out.
Tree(m, next, lev) ==
  /\ BootTables(m, lev)
  /\ \A f \in Frames : lev[f] # 0 => f < next /\ (f \in {Pml4, Pdpt, Pd} \/ f >= KernelEnd)
  /\ \A t \in Frames, i \in Idx : EntryOK(m[t][i], lev, t, i)
  /\ Single(m, lev)

\* What had been handed out keeps its level.
Extends(lev2, lev, next) == \A f \in Frames : f < next => lev2[f] = lev[f]

\* What a walk does to the tables: those that are there keep their levels and
\* entries, a new one of the lowest level is empty.
Grown(m, m2, lev, lev2) ==
  \A t \in Frames :
    /\ lev[t] # 0 => lev2[t] = lev[t]
    /\ \A i \in Idx : lev[t] # 0 /\ (m[t][i] # Absent \/ lev[t] = 1) => m2[t][i] = m[t][i]
    /\ lev2[t] = 1 /\ lev[t] # 1 => \A i \in Idx : m2[t][i] = Absent

LEMMA GrownTwice ==
  ASSUME NEW m, NEW m2, NEW m3, NEW lev, NEW lev2, NEW lev3,
         Grown(m, m2, lev, lev2), Grown(m2, m3, lev2, lev3)
  PROVE  Grown(m, m3, lev, lev3)
BY DEF Grown

\* An entry that leads to a frame is there, and not a large page.
LEMMA NoEntry == \A f \in Frames : f # 0 => Ptr(f) # Absent /\ ~Ptr(f).ps /\ Ptr(f).to = f
BY DEF Ptr, Absent

\* pmm_alloc_page clears a frame that no table leads to.
LEMMA TreeFresh ==
  ASSUME NEW m \in Memory, NEW m2 \in Memory, NEW next \in KernelEnd..(Limit - 1),
         NEW lev \in Levels, Tree(m, next, lev),
         \A t \in Frames : m2[t] = IF t = next THEN Zeroed ELSE m[t]
  PROVE  Tree(m2, next + 1, lev) /\ lev[next] = 0 /\ Grown(m, m2, lev, lev)
<1>0. next \in Frames /\ next >= KernelEnd /\ next \in Nat
  BY Layout DEF Frames
<1>1. lev[next] = 0
  BY <1>0 DEF Tree, Frames, Levels
<1>2. BootTables(m2, lev)
  BY <1>1, Layout DEF Tree, BootTables
<1>3. \A f \in Frames : lev[f] # 0 => f < next + 1 /\ (f \in {Pml4, Pdpt, Pd} \/ f >= KernelEnd)
  BY <1>0 DEF Tree, Frames
<1>4. ASSUME NEW t \in Frames, NEW i \in Idx PROVE EntryOK(m2[t][i], lev, t, i)
  BY <1>1 DEF Tree, EntryOK
<1>5. Single(m2, lev) /\ Grown(m, m2, lev, lev)
  <2>1. \A t \in Frames : lev[t] # 0 => m2[t] = m[t]
    BY <1>1
  <2>2. QED
    BY <2>1 DEF Tree, Single, Grown
<1>6. QED
  BY <1>1, <1>2, <1>3, <1>4, <1>5 DEF Tree

\* A new table below table t.
LEMMA TreeNewTable ==
  ASSUME NEW m \in Memory, NEW m2 \in Memory, NEW next \in KernelEnd..(Limit - 1),
         NEW lev \in Levels, Tree(m, next, lev),
         NEW u \in Frames, lev[u] \in 2..4, NEW j \in Idx, m[u][j] = Absent, ~InCode(u, j),
         \A t \in Frames, i \in Idx :
           m2[t][i] = IF t = u /\ i = j THEN Ptr(next) ELSE IF t = next THEN Absent ELSE m[t][i]
  PROVE  LET lev2 == [lev EXCEPT ![next] = lev[u] - 1]
         IN /\ lev2 \in Levels /\ Tree(m2, next + 1, lev2) /\ Extends(lev2, lev, next)
            /\ lev2[next] = lev[u] - 1 /\ next # Pd /\ next # Pdpt
            /\ Grown(m, m2, lev, lev2)
<1> DEFINE lev2 == [lev EXCEPT ![next] = lev[u] - 1]
<1>0. /\ next \in Frames /\ next >= KernelEnd /\ next \in Nat /\ next # Pd /\ next # Pdpt /\ next # Pml4
      /\ next # 0
  BY Layout, LayoutAssumption DEF Frames
<1>1. lev[next] = 0 /\ u # next
  BY <1>0 DEF Tree, Frames, Levels
<1>2. lev2 \in Levels /\ lev2[next] = lev[u] - 1 /\ \A f \in Frames : f # next => lev2[f] = lev[f]
  BY <1>0 DEF Levels
<1>3. lev[u] - 1 \in 1..3
  OBVIOUS
<1> HIDE DEF lev2
<1>4. BootTables(m2, lev2)
  <2>1. Absent # Ptr(Pdpt) /\ Absent # Ptr(Pd) /\ \A i \in Idx : [to |-> i * Fan, ps |-> TRUE] # Absent
    BY LayoutAssumption DEF Absent, Ptr
  <2>2. lev2[Pml4] = 4 /\ lev2[Pdpt] = 3 /\ lev2[Pd] = 2
    BY <1>0, <1>2, Layout DEF Tree, BootTables
  <2>3. ASSUME NEW t \in Frames, lev2[t] = 4 PROVE m2[t][0] = Ptr(Pdpt)
    <3>1. lev[t] = 4
      BY <1>1, <1>2, <1>3, <2>3
    <3>2. m[t][0] = Ptr(Pdpt) /\ 0 \in Idx
      BY <3>1, Layout DEF Tree, BootTables
    <3>3. QED
      BY <1>1, <1>2, <2>1, <3>1, <3>2
  <2>4. m2[Pdpt][0] = Ptr(Pd)
    <3>1. m[Pdpt][0] = Ptr(Pd) /\ Pdpt \in Frames /\ 0 \in Idx
      BY Layout DEF Tree, BootTables
    <3>2. QED
      BY <1>0, <2>1, <3>1
  <2>5. ASSUME NEW i \in Idx PROVE m2[Pd][i] = IF i < Large THEN [to |-> i * Fan, ps |-> TRUE] ELSE Code[i]
    <3>1. m[Pd][i] = (IF i < Large THEN [to |-> i * Fan, ps |-> TRUE] ELSE Code[i]) /\ Pd \in Frames
      BY Layout DEF Tree, BootTables
    <3>2. ~(Pd = u /\ i = j)
      <4>1. Pd = u /\ i = j => i < Large
        BY LayoutAssumption DEF InCode, Idx
      <4>2. QED
        BY <2>1, <3>1, <4>1
    <3>3. QED
      BY <1>0, <3>1, <3>2
  <2>6. QED
    BY <2>2, <2>3, <2>4, <2>5 DEF BootTables
<1>5. \A f \in Frames : lev2[f] # 0 => f < next + 1 /\ (f \in {Pml4, Pdpt, Pd} \/ f >= KernelEnd)
  BY <1>0, <1>2 DEF Tree, Frames
<1>6. ASSUME NEW t \in Frames, NEW i \in Idx PROVE EntryOK(m2[t][i], lev2, t, i)
  <2>1. CASE t = u /\ i = j
    <3>1. m2[t][i] = Ptr(next) /\ Ptr(next).to = next /\ ~Ptr(next).ps
      BY <2>1 DEF Ptr
    <3>2. Ptr(next) # Ptr(Pdpt) /\ Ptr(next) # Ptr(Pd)
      BY <1>0 DEF Ptr
    <3>3. QED
      BY <1>1, <1>2, <2>1, <3>1, <3>2 DEF EntryOK
  <2>2. CASE t = next
    <3>1. m2[t][i] = Absent /\ Absent # Ptr(Pdpt) /\ Absent # Ptr(Pd)
      BY <1>1, <2>2, LayoutAssumption DEF Absent, Ptr
    <3>2. QED
      BY <3>1 DEF EntryOK
  <2>3. CASE t # next /\ ~(t = u /\ i = j)
    <3>1. m2[t][i] = m[t][i] /\ lev2[t] = lev[t] /\ EntryOK(m[t][i], lev, t, i)
      BY <1>2, <2>3 DEF Tree
    <3>2. lev[t] \in 2..4 /\ m[t][i] # Absent /\ ~m[t][i].ps /\ ~InCode(t, i) =>
            lev2[m[t][i].to] = lev[m[t][i].to]
      <4>1. ~InCode(t, i) => m[t][i].to \in Frames
        BY LeadsToFrame
      <4>2. QED
        BY <1>1, <1>2, <3>1, <4>1 DEF EntryOK
    <3>3. QED
      BY <3>1, <3>2 DEF EntryOK
  <2>4. QED
    BY <2>1, <2>2, <2>3
<1>7. Extends(lev2, lev, next)
  BY <1>2 DEF Extends, Frames
<1>8. Single(m2, lev2)
  <2> SUFFICES ASSUME NEW t \in Frames, NEW w \in Frames, NEW i \in Idx, NEW k \in Idx,
                      lev2[t] \in 2..4, lev2[w] = lev2[t], m2[t][i] # Absent, ~m2[t][i].ps,
                      m2[w][k] = m2[t][i], ~InCode(t, i), ~InCode(w, k)
               PROVE  i = k /\ (t = w \/ lev2[t] = 4)
    BY DEF Single
  <2>1. ASSUME NEW x \in Frames, NEW y \in Idx, lev2[x] \in 2..4, m2[x][y] # Absent, ~(x = u /\ y = j),
               ~InCode(x, y)
        PROVE  m2[x][y] = m[x][y] /\ lev2[x] = lev[x] /\ m[x][y] # Ptr(next)
    <3>1. x # next /\ m2[x][y] = m[x][y] /\ lev2[x] = lev[x]
      BY <1>1, <1>2, <2>1
    <3>2. m[x][y] = Ptr(next) => lev[next] = lev[x] - 1
      <4>1. EntryOK(m[x][y], lev, x, y)
        BY DEF Tree
      <4>2. Ptr(next) # Absent /\ ~Ptr(next).ps /\ Ptr(next).to = next
        BY <1>0, NoEntry
      <4>3. QED
        BY <2>1, <3>1, <4>1, <4>2 DEF EntryOK
    <3>3. QED
      BY <1>1, <2>1, <3>1, <3>2
  <2>2. CASE t = u /\ i = j
    <3>1. m2[t][i] = Ptr(next)
      BY <2>2
    <3>2. w = u /\ k = j
      BY <2>1, <3>1
    <3>3. QED
      BY <2>2, <3>2
  <2>3. CASE ~(t = u /\ i = j)
    <3>1. m2[t][i] = m[t][i] /\ lev2[t] = lev[t] /\ m[t][i] # Ptr(next)
      BY <2>1, <2>3
    <3>2. ~(w = u /\ k = j)
      BY <3>1
    <3>3. m2[w][k] = m[w][k] /\ lev2[w] = lev[w]
      BY <2>1, <3>2
    <3>4. QED
      BY <3>1, <3>3 DEF Tree, Single
  <2>4. QED
    BY <2>2, <2>3
<1>9. Grown(m, m2, lev, lev2)
  <2> SUFFICES ASSUME NEW t \in Frames
               PROVE  /\ lev[t] # 0 => lev2[t] = lev[t]
                      /\ \A i \in Idx : lev[t] # 0 /\ (m[t][i] # Absent \/ lev[t] = 1) => m2[t][i] = m[t][i]
                      /\ lev2[t] = 1 /\ lev[t] # 1 => \A i \in Idx : m2[t][i] = Absent
    BY DEF Grown
  <2>1. lev[t] # 0 => t # next /\ lev2[t] = lev[t]
    BY <1>1, <1>2
  <2>2. lev2[t] = 1 /\ lev[t] # 1 => t = next
    BY <1>2
  <2>3. QED
    BY <1>1, <2>1, <2>2
<1>10. QED
  BY <1>0, <1>2, <1>4, <1>5, <1>6, <1>7, <1>8, <1>9 DEF Tree, lev2

\* An entry written where it leads to a page, or in a frame that is no table.
LEMMA TreeLeaf ==
  ASSUME NEW m \in Memory, NEW m2 \in Memory, NEW next, NEW lev \in Levels, Tree(m, next, lev),
         NEW u \in Frames, lev[u] \in {0, 1},
         \A t \in Frames : t # u => m2[t] = m[t]
  PROVE  Tree(m2, next, lev)
<1>1. BootTables(m2, lev)
  BY Layout DEF Tree, BootTables
<1>2. ASSUME NEW t \in Frames, NEW i \in Idx PROVE EntryOK(m2[t][i], lev, t, i)
  BY DEF Tree, EntryOK
<1>3. Single(m2, lev)
  BY DEF Tree, Single
<1>4. QED
  BY <1>1, <1>2, <1>3 DEF Tree

\* A walk that has come to a table of this level.
Walk(s, lev, level) ==
  /\ s \in WalkType /\ s.r.free = <<>>
  /\ Tree(s.r.mem, s.r.next, lev)
  /\ s.t # Null => lev[s.t] = level
  /\ s.t = Null => ~Room(s.r)

\* The entry by which a step of the walk to v goes from s to n.
Leads(s, n, v, level) ==
  n.t # Null => s.t # Null /\ n.r.mem[s.t][Index(v, level)] = Ptr(n.t)

\* The walk's failure is no frame.
LEMMA FrameNotNull == Null \notin Frames
BY DEF Null, Frames

\* A step of the walk goes down one level, making the table if it must.
LEMMA BelowShape ==
  ASSUME NEW s, NEW lev \in Levels, NEW level \in 2..4, NEW v \in Nat, Walk(s, lev, level),
         s.t # Pd
  PROVE  LET n == Below(s, v, level)
         IN \E lev2 \in Levels :
              /\ Walk(n, lev2, level - 1)
              /\ Extends(lev2, lev, s.r.next) /\ s.r.next <= n.r.next
              /\ level = 4 /\ n.t = Pdpt => Index(v, 4) = 0
              /\ level = 3 /\ n.t = Pd => s.t = Pdpt /\ Index(v, 3) = 0
              /\ Grown(s.r.mem, n.r.mem, lev, lev2) /\ Leads(s, n, v, level)
<1> DEFINE n == Below(s, v, level)
           i == Index(v, level)
           r == s.r
           e == r.mem[s.t][i]
           G(lev2) == /\ Walk(n, lev2, level - 1)
                      /\ Extends(lev2, lev, r.next) /\ r.next <= n.r.next
                      /\ level = 4 /\ n.t = Pdpt => Index(v, 4) = 0
                      /\ level = 3 /\ n.t = Pd => s.t = Pdpt /\ Index(v, 3) = 0
                      /\ Grown(r.mem, n.r.mem, lev, lev2) /\ Leads(s, n, v, level)
<1> SUFFICES \E lev2 \in Levels : G(lev2)
  OBVIOUS
<1>1. i \in Idx
  BY IndexInTable
<1>2. n \in WalkType /\ s \in WalkType /\ r \in RamType /\ r.next \in Nat
  <2>1. s \in WalkType /\ level \in 1..4
    BY DEF Walk
  <2>2. n \in WalkType
    BY <2>1, BelowTyped
  <2>3. r \in RamType /\ r.next \in Nat
    BY <2>1, Layout DEF WalkType, RamType
  <2>4. QED
    BY <2>1, <2>2, <2>3
<1>3. Extends(lev, lev, r.next) /\ Pdpt # Null /\ Pd # Null /\ Grown(r.mem, r.mem, lev, lev)
  BY FrameNotNull, Layout DEF Extends, Grown
<1>4. CASE s.t = Null
  <2>1. n = s
    BY <1>4, BelowIs
  <2>2. G(lev)
    BY <1>2, <1>3, <1>4, <2>1 DEF Walk, Leads
  <2>3. QED
    BY <2>2
<1>5. CASE s.t # Null /\ e = Absent /\ ~Room(r)
  <2>1. n = [s EXCEPT !.t = Null]
    BY <1>5, BelowIs
  <2>2. n.r = s.r /\ n.t = Null
    BY <1>2, <2>1 DEF WalkType
  <2>3. G(lev)
    BY <1>2, <1>3, <1>5, <2>2 DEF Walk, Leads
  <2>4. QED
    BY <2>3
<1>6. CASE s.t # Null /\ e # Absent
  <2>2. s.t \in Frames /\ lev[s.t] = level /\ e \in Entry /\ e.to \in Frames /\ ~InCode(s.t, i)
    <3>1. s.t \in Frames /\ lev[s.t] = level /\ ~InCode(s.t, i) /\ r.mem \in Memory
      BY <1>2, <1>6 DEF Walk, WalkType, RamType, InCode
    <3>2. QED
      BY <1>1, <3>1, LeadsToFrame
  <2>1. n = [s EXCEPT !.t = e.to]
    <3>1. n = [s EXCEPT !.t = Reached(e.to)]
      BY <1>6, BelowIs
    <3>2. Reached(e.to) = e.to
      BY <2>2 DEF Reached
    <3>3. QED
      BY <3>1, <3>2
  <2>3. n.r = s.r /\ n.t = e.to
    BY <1>2, <2>1 DEF WalkType
  <2>4. EntryOK(e, lev, s.t, i)
    BY <1>1, <2>2 DEF Walk, Tree
  <2>5. ~e.ps
    BY <1>6, <2>2, <2>4 DEF EntryOK
  <2>6. lev[e.to] = level - 1
    BY <1>6, <2>2, <2>4, <2>5 DEF EntryOK
  <2>7. e = Ptr(e.to)
    BY <2>2, <2>5 DEF Entry, Ptr
  <2>8. /\ level = 4 /\ n.t = Pdpt => Index(v, 4) = 0
        /\ level = 3 /\ n.t = Pd => s.t = Pdpt /\ Index(v, 3) = 0
    BY <2>2, <2>3, <2>4, <2>7 DEF EntryOK
  <2>9. n.t # Null /\ Leads(s, n, v, level)
    BY <1>6, <2>2, <2>3, <2>7, FrameNotNull DEF Leads
  <2>a. Walk(n, lev, level - 1)
    BY <1>2, <2>3, <2>6, <2>8, <2>9 DEF Walk
  <2>10. G(lev)
    <3>1. r.next <= n.r.next /\ Grown(r.mem, n.r.mem, lev, lev)
      BY <1>2, <1>3, <2>3
    <3>2. /\ level = 4 /\ n.t = Pdpt => Index(v, 4) = 0
          /\ level = 3 /\ n.t = Pd => s.t = Pdpt /\ Index(v, 3) = 0
      BY <2>3, <2>8
    <3> HIDE DEF n, e, r
    <3>3. QED
      BY <1>3, <2>9, <2>a, <3>1, <3>2
  <2>11. QED
    BY <2>10
<1>7. CASE s.t # Null /\ e = Absent /\ Room(r)
  <2> DEFINE next == r.next
             m2 == n.r.mem
             lev2 == [lev EXCEPT ![next] = lev[s.t] - 1]
  <2>1. n = [r |-> [Taken(r) EXCEPT !.mem[s.t][i] = Ptr(Fresh(r))], t |-> Fresh(r)]
    BY <1>7, BelowIs
  <2>2. s.t \in Frames /\ lev[s.t] = level
    BY <1>2, <1>7 DEF Walk, WalkType
  <2>3. r.free = <<>> /\ Tree(r.mem, next, lev)
    BY DEF Walk
  <2>4. /\ Fresh(r) = next /\ next \in KernelEnd..(Limit - 1) /\ next \in Frames
        /\ Taken(r) = [mem |-> [r.mem EXCEPT ![next] = Zeroed], next |-> next + 1, free |-> <<>>]
    BY <1>2, <1>7, <2>3, Layout DEF Fresh, Room, Taken, RamType
  <2>5. n.t = next /\ n.r.next = next + 1 /\ n.r.free = <<>>
    BY <2>1, <2>4
  <2>6. \A t \in Frames, j \in Idx :
          m2[t][j] = IF t = s.t /\ j = i THEN Ptr(next) ELSE IF t = next THEN Absent ELSE r.mem[t][j]
    <3>1. m2 = [[r.mem EXCEPT ![next] = Zeroed] EXCEPT ![s.t][i] = Ptr(next)]
      BY <2>1, <2>4
    <3>2. r.mem \in [Frames -> [Idx -> Entry]] /\ Zeroed \in [Idx -> Entry]
      BY <1>2, EntryValues DEF RamType, Memory
    <3>3. \A j \in Idx : Zeroed[j] = Absent
      BY DEF Zeroed
    <3> HIDE DEF m2, next
    <3>4. QED
      BY <1>1, <2>2, <2>4, <3>1, <3>2, <3>3
  <2>7. m2 \in Memory /\ r.mem \in Memory
    BY <1>2 DEF WalkType, RamType
  <2>8. /\ lev2 \in Levels /\ Tree(m2, next + 1, lev2) /\ Extends(lev2, lev, next)
        /\ lev2[next] = lev[s.t] - 1 /\ next # Pd /\ next # Pdpt
        /\ Grown(r.mem, m2, lev, lev2)
    <3> DEFINE m == r.mem
               u == s.t
    <3>1. /\ lev[u] \in 2..4 /\ m[u][i] = Absent /\ m \in Memory /\ u \in Frames /\ ~InCode(u, i)
          /\ Tree(m, next, lev) /\ next \in KernelEnd..(Limit - 1)
          /\ \A t \in Frames, j \in Idx :
               m2[t][j] = IF t = u /\ j = i THEN Ptr(next) ELSE IF t = next THEN Absent ELSE m[t][j]
      BY <1>7, <2>2, <2>3, <2>4, <2>6, <2>7 DEF InCode
    <3> HIDE DEF m2, next, m, u, i
    <3>2. QED
      BY <1>1, <2>7, <3>1, TreeNewTable DEF u, m
  <2>9. n.t # Null /\ Leads(s, n, v, level)
    BY <1>1, <1>7, <2>2, <2>4, <2>5, <2>6, FrameNotNull DEF Leads
  <2>10. G(lev2)
    BY <1>2, <2>2, <2>5, <2>8, <2>9 DEF Walk
  <2>11. QED
    BY <2>8, <2>10
<1>8. QED
  BY <1>4, <1>5, <1>6, <1>7

\* vm_map_page_pml4's last assignment.
Written(r, t, i, f) == [r EXCEPT !.mem[t][i] = Ptr(f)]

\* Through a large page the walk comes to the first frame the page maps.
LEMMA LargeWalk ==
  ASSUME NEW r \in RamType, NEW lev \in Levels, Tree(r.mem, r.next, lev), NEW top \in Frames, lev[top] = 4,
         NEW v \in Nat, UnderLarge(v), NEW f \in Frames
  PROVE  VmMap(r, top, v, f) = Written(r, Index(v, 2) * Fan, Index(v, 1), f)
<1> DEFINE u == Index(v, 2) * Fan
           s4 == [r |-> r, t |-> top]
           s3 == [r |-> r, t |-> Pdpt]
           s2 == [r |-> r, t |-> Pd]
           s1 == [r |-> r, t |-> u]
<1>1. /\ r.mem[top][0] = Ptr(Pdpt) /\ r.mem[Pdpt][0] = Ptr(Pd)
      /\ r.mem[Pd][Index(v, 2)] = [to |-> u, ps |-> TRUE]
  BY IndexInTable DEF Tree, BootTables, UnderLarge, UnderBoot
<1>2. top # Null /\ Pdpt # Null /\ Pd # Null /\ Pdpt # 0 /\ Pd # 0 /\ u # Null /\ u \in Frames
  <2>1. u \in Frames
    BY IndexInTable, LargeFrame DEF UnderLarge
  <2> HIDE DEF u
  <2>2. QED
    BY <2>1, FrameNotNull, Layout, LayoutAssumption
<1>b. Reached(Pdpt) = Pdpt /\ Reached(Pd) = Pd /\ Reached(u) = u
  BY <1>2, Layout DEF Reached
<1>a. /\ Ptr(Pdpt) # Absent /\ Ptr(Pdpt).to = Pdpt /\ Ptr(Pd) # Absent /\ Ptr(Pd).to = Pd
      /\ Index(v, 4) = 0 /\ Index(v, 3) = 0
  BY <1>2, NoEntry, Layout DEF UnderLarge, UnderBoot
<1>3. Below(s4, v, 4) = s3
  <2> HIDE DEF u
  <2>1. Below(s4, v, 4) = [s4 EXCEPT !.t = Pdpt]
    BY <1>1, <1>2, <1>a, <1>b, BelowIs
  <2>2. QED
    BY <2>1
<1>4. Below(s3, v, 3) = s2
  <2> HIDE DEF u
  <2>1. Below(s3, v, 3) = [s3 EXCEPT !.t = Pd]
    BY <1>1, <1>2, <1>a, <1>b, BelowIs
  <2>2. QED
    BY <2>1
<1>5. Below(s2, v, 2) = s1
  <2>1. [to |-> u, ps |-> TRUE] # Absent
    BY DEF Absent
  <2> HIDE DEF u
  <2>2. Below(s2, v, 2) = [s2 EXCEPT !.t = u]
    <3>1. s2.r = r /\ s2.t = Pd
      OBVIOUS
    <3>2. r.mem[Pd][Index(v, 2)] # Absent /\ r.mem[Pd][Index(v, 2)].to = u
      BY <1>1, <2>1
    <3> HIDE DEF s2
    <3>3. QED
      BY <1>2, <1>b, <3>1, <3>2, BelowIs
  <2>3. QED
    BY <2>2
<1>6. Below(Below(Below(s4, v, 4), v, 3), v, 2) = s1
  BY <1>3, <1>4, <1>5
<1> HIDE DEF u
<1>7. QED
  BY <1>2, <1>6 DEF VmMap, Written, u

-----------------------------------------------------------------------------
\* What the processor makes of a page before and after it is mapped.

\* The walk to v goes by these tables to one of the lowest level.
Path(m, lev, top, v, t3, t2, t1) ==
  /\ {top, t3, t2, t1} \subseteq Frames \ {0}
  /\ lev[top] = 4 /\ lev[t3] = 3 /\ lev[t2] = 2 /\ lev[t1] = 1 /\ t2 # Pd
  /\ m[top][Index(v, 4)] = Ptr(t3) /\ m[t3][Index(v, 3)] = Ptr(t2) /\ m[t2][Index(v, 2)] = Ptr(t1)

\* Two pages that the walk does not tell apart.
SamePlace(v, w) == \A level \in 1..4 : Index(v, level) = Index(w, level)

\* Above the lowest level an entry that is there stays.
Above(m, m2, lev, lev2) ==
  \A t \in Frames :
    /\ lev[t] # 0 => lev2[t] = lev[t]
    /\ lev[t] \in 2..4 => \A i \in Idx : m[t][i] # Absent => m2[t][i] = m[t][i]

\* vm_map_page_pml4 adds no other entry to the lowest level than the page's.
Entered(m, m2, lev, lev2, f) ==
  /\ Above(m, m2, lev, lev2)
  /\ \A t \in Frames, i \in Idx :
       lev2[t] = 1 => m2[t][i] = Ptr(f) \/ m2[t][i] = (IF lev[t] = 1 THEN m[t][i] ELSE Absent)

\* It moves no other page, where the walk does not meet the code.
OthersStay(m, m2, top, v) ==
  \A w \in Nat : ~SamePlace(v, w) /\ ~UnderCode(w) /\ Translate(m, top, w) # Null
                   => Translate(m2, top, w) = Translate(m, top, w)

\* The page is there, unless the frames have run out on the way.
Mapped(n, top, v, f) ==
  /\ Translate(n.mem, top, v) # Null \/ ~Room(n)
  /\ ~UnderBoot(v) => Translate(n.mem, top, v) = f \/ ~Room(n)

LEMMA GrownAbove ==
  ASSUME NEW m, NEW m2, NEW lev, NEW lev2, Grown(m, m2, lev, lev2)
  PROVE  Above(m, m2, lev, lev2)
BY DEF Grown, Above

\* At the end of a path is the page's own entry.
LEMMA PathTranslates ==
  ASSUME NEW m, NEW lev, NEW top, NEW v, NEW t3, NEW t2, NEW t1, Path(m, lev, top, v, t3, t2, t1)
  PROVE  Translate(m, top, v) = IF m[t1][Index(v, 1)] = Absent THEN Null ELSE m[t1][Index(v, 1)].to
<1>1. \A f \in {t3, t2, t1} : Ptr(f) # Absent /\ ~Ptr(f).ps /\ Ptr(f).to = f
  BY NoEntry DEF Path
<1>2. /\ Entry3(m, top, v) = Ptr(t3) /\ Entry2(m, top, v) = Ptr(t2) /\ Entry1(m, top, v) = Ptr(t1)
      /\ Table(m, t1) = m[t1]
  BY <1>1 DEF Path, Entry3, Entry2, Entry1, Table
<1>3. QED
  BY <1>1, <1>2 DEF Translate

\* A path stays when the entries above the lowest level do.
LEMMA PathStays ==
  ASSUME NEW m, NEW m2, NEW lev, NEW lev2, Above(m, m2, lev, lev2), NEW top, NEW v \in Nat,
         NEW t3, NEW t2, NEW t1, Path(m, lev, top, v, t3, t2, t1)
  PROVE  Path(m2, lev2, top, v, t3, t2, t1)
<1>1. \A f \in {t3, t2, t1} : Ptr(f) # Absent
  BY NoEntry DEF Path
<1>2. \A level \in 1..4 : Index(v, level) \in Idx
  BY IndexInTable
<1>3. QED
  BY <1>1, <1>2 DEF Path, Above

\* A large page leads to itself.
LEMMA LargeTranslates ==
  ASSUME NEW m, NEW next, NEW lev, Tree(m, next, lev), NEW top \in Frames, lev[top] = 4,
         NEW v \in Nat, UnderLarge(v)
  PROVE  /\ Translate(m, top, v) = Index(v, 2) * Fan + Index(v, 1)
         /\ Translate(m, top, v) # Null
<1> DEFINE e3 == Entry3(m, top, v)
           e2 == Entry2(m, top, v)
           e1 == Entry1(m, top, v)
<1>1. e3 = Ptr(Pdpt) /\ e3.to = Pdpt /\ e3 # Absent
  <2>1. e3 = Ptr(Pdpt)
    BY DEF Tree, BootTables, UnderLarge, UnderBoot, Entry3
  <2>2. QED
    BY <2>1, NoEntry, Layout, LayoutAssumption
<1>2. e2 = Ptr(Pd) /\ e2.to = Pd /\ e2 # Absent
  <2>1. e2 = Ptr(Pd)
    BY <1>1, Layout DEF Tree, BootTables, UnderLarge, UnderBoot, Entry2, Table
  <2>2. QED
    BY <2>1, NoEntry, Layout, LayoutAssumption
<1>3. e1 = [to |-> Index(v, 2) * Fan, ps |-> TRUE] /\ e1 # Absent
  <2>a. Index(v, 2) \in Idx /\ Index(v, 2) < Large
    BY IndexInTable DEF UnderLarge
  <2>1. e1 = [to |-> Index(v, 2) * Fan, ps |-> TRUE]
    BY <1>2, <2>a, Layout DEF Tree, BootTables, Entry1, Table
  <2> HIDE DEF e1
  <2>2. QED
    BY <2>1 DEF Absent
<1>4. e1.ps /\ e1.to = Index(v, 2) * Fan
  <2> HIDE DEF e1
  <2>1. QED
    BY <1>3
<1> HIDE DEF e3, e2, e1
<1>5. Absent \notin {e3, e2, e1}
  BY <1>1, <1>2, <1>3
<1>6. Translate(m, top, v) = e1.to + Index(v, 1)
  BY <1>4, <1>5 DEF Translate, e3, e2, e1
<1>7. Index(v, 2) * Fan + Index(v, 1) \in Nat
  <2>1. Index(v, 2) \in Nat /\ Index(v, 1) \in Nat
    BY IndexInTable DEF Idx
  <2>2. QED
    BY <2>1, LayoutAssumption
<1>8. QED
  BY <1>4, <1>6, <1>7 DEF Null

\* An entry of an upper level that is there leads to a table of the next.
LEMMA EntryLeads ==
  ASSUME NEW m \in Memory, NEW next, NEW lev \in Levels, Tree(m, next, lev), NEW t \in Frames,
         NEW i \in Idx, lev[t] \in 2..4, t # Pd, m[t][i] # Absent
  PROVE  ~m[t][i].ps /\ m[t][i] = Ptr(m[t][i].to) /\ m[t][i].to \in Frames /\ lev[m[t][i].to] = lev[t] - 1
<1>1. ~InCode(t, i) /\ EntryOK(m[t][i], lev, t, i)
  BY DEF InCode, Tree
<1>2. m[t][i] \in Entry /\ m[t][i].to \in Frames
  BY <1>1, LeadsToFrame
<1>3. ~m[t][i].ps /\ lev[m[t][i].to] = lev[t] - 1
  BY <1>1 DEF EntryOK
<1>4. QED
  BY <1>2, <1>3 DEF Entry, Ptr

\* Another page is found by a path of tables.
LEMMA PathFound ==
  ASSUME NEW m \in Memory, NEW next, NEW lev \in Levels, Tree(m, next, lev), NEW top \in Frames, lev[top] = 4,
         NEW v \in Nat, ~UnderBoot(v), Translate(m, top, v) # Null
  PROVE  \E t3, t2, t1 \in Frames : Path(m, lev, top, v, t3, t2, t1)
<1> DEFINE e3 == Entry3(m, top, v)
           e2 == Entry2(m, top, v)
           e1 == Entry1(m, top, v)
<1>0. /\ Index(v, 4) \in Idx /\ Index(v, 3) \in Idx /\ Index(v, 2) \in Idx
      /\ lev[Pd] = 2 /\ \A f \in Frames : lev[f] # 0 => f # 0
  BY IndexInTable, Layout, LayoutAssumption DEF Tree, BootTables
<1>1. Absent \notin {e3, e2, e1}
  BY DEF Translate
<1>2. e3 = m[top][Index(v, 4)] /\ e3 = Ptr(e3.to) /\ e3.to \in Frames /\ lev[e3.to] = 3
  <2>1. e3 = m[top][Index(v, 4)] /\ top # Pd
    BY <1>0 DEF Entry3
  <2>2. QED
    BY <1>0, <1>1, <2>1, EntryLeads
<1>3. e2 = m[e3.to][Index(v, 3)] /\ e2 = Ptr(e2.to) /\ e2.to \in Frames /\ lev[e2.to] = 2
  <2>1. e2 = m[e3.to][Index(v, 3)] /\ e3.to # Pd
    BY <1>0, <1>2 DEF Entry2, Table
  <2>2. QED
    BY <1>0, <1>1, <1>2, <2>1, EntryLeads
<1>4. e2.to # Pd
  <2> SUFFICES ASSUME e2.to = Pd PROVE FALSE
    OBVIOUS
  <2>1. EntryOK(m[e3.to][Index(v, 3)], lev, e3.to, Index(v, 3))
    BY <1>0, <1>2 DEF Tree
  <2>2. m[e3.to][Index(v, 3)] = Ptr(Pd)
    BY <1>3
  <2>3. e3.to = Pdpt /\ Index(v, 3) = 0
    BY <1>2, <2>1, <2>2 DEF EntryOK
  <2>4. EntryOK(m[top][Index(v, 4)], lev, top, Index(v, 4))
    BY <1>0 DEF Tree
  <2>5. m[top][Index(v, 4)] = Ptr(Pdpt)
    BY <1>2, <2>3
  <2>6. Index(v, 4) = 0
    BY <2>4, <2>5 DEF EntryOK
  <2>7. QED
    BY <2>3, <2>6 DEF UnderBoot
<1>5. e1 = m[e2.to][Index(v, 2)] /\ e1 = Ptr(e1.to) /\ e1.to \in Frames /\ lev[e1.to] = 1
  <2>1. e1 = m[e2.to][Index(v, 2)]
    BY <1>3 DEF Entry1, Table
  <2> DEFINE t == e2.to
             i == Index(v, 2)
  <2>2. t \in Frames /\ i \in Idx /\ lev[t] \in 2..4 /\ t # Pd /\ m[t][i] # Absent /\ e1 = m[t][i] /\ lev[t] = 2
    BY <1>0, <1>1, <1>3, <1>4, <2>1
  <2> HIDE DEF t, i, e1
  <2>3. m[t][i] = Ptr(m[t][i].to) /\ m[t][i].to \in Frames /\ lev[m[t][i].to] = lev[t] - 1
    BY <2>2, EntryLeads
  <2>4. QED
    BY <2>1, <2>2, <2>3 DEF t, i
<1> HIDE DEF e1, e2, e3
<1>6. Path(m, lev, top, v, e3.to, e2.to, e1.to)
  <2>1. \A f \in Frames : lev[f] \in 1..4 => f # 0
    BY <1>0
  <2>2. lev[top] \in 1..4 /\ lev[e3.to] \in 1..4 /\ lev[e2.to] \in 1..4 /\ lev[e1.to] \in 1..4
    <3>1. lev[top] = 4 /\ lev[e3.to] = 3 /\ lev[e2.to] = 2 /\ lev[e1.to] = 1
      BY <1>2, <1>3, <1>5, Zenon
    <3>2. QED
      BY <3>1
  <2>3. top # 0 /\ e3.to # 0 /\ e2.to # 0 /\ e1.to # 0
    BY <1>2, <1>3, <1>5, <2>1, <2>2
  <2>4. QED
    BY <1>2, <1>3, <1>4, <1>5, <2>3 DEF Path
<1>7. QED
  BY <1>2, <1>3, <1>5, <1>6

\* Where the walk meets neither a large page nor code, it does not go by Pd.
LEMMA NoCode ==
  ASSUME NEW v \in Nat, ~UnderCode(v), ~UnderLarge(v)
  PROVE  ~UnderBoot(v)
BY IndexInTable, LayoutAssumption DEF UnderCode, UnderLarge, Idx

\* Only the last write of a mapping can move a page.
LEMMA GrownTranslates ==
  ASSUME NEW m \in Memory, NEW m2 \in Memory, NEW next, NEW next2, NEW lev \in Levels, NEW lev2 \in Levels,
         Tree(m, next, lev), Tree(m2, next2, lev2), Grown(m, m2, lev, lev2),
         NEW top \in Frames, lev[top] = 4, NEW w \in Nat, ~UnderCode(w), Translate(m, top, w) # Null
  PROVE  Translate(m2, top, w) = Translate(m, top, w)
<1>1. lev2[top] = 4
  BY DEF Grown
<1>2. CASE UnderLarge(w)
  <2>1. /\ Translate(m, top, w) = Index(w, 2) * Fan + Index(w, 1)
        /\ Translate(m2, top, w) = Index(w, 2) * Fan + Index(w, 1)
    BY <1>1, <1>2, LargeTranslates
  <2>2. QED
    BY <2>1
<1>3. CASE ~UnderLarge(w)
  <2>0. ~UnderBoot(w)
    BY <1>3, NoCode
  <2>1. PICK t3, t2, t1 \in Frames : Path(m, lev, top, w, t3, t2, t1)
    BY <2>0, PathFound
  <2>2. Path(m2, lev2, top, w, t3, t2, t1)
    BY <2>1, GrownAbove, PathStays
  <2>3. m2[t1][Index(w, 1)] = m[t1][Index(w, 1)]
    BY <2>1, IndexInTable DEF Path, Grown
  <2>4. QED
    BY <2>1, <2>2, <2>3, PathTranslates
<1>4. QED
  BY <1>2, <1>3

\* One entry is written.
OneWritten(m, m2, t, i, f) ==
  \A u \in Frames, j \in Idx : m2[u][j] = IF u = t /\ j = i THEN Ptr(f) ELSE m[u][j]

\* The last write moves no page but its own: no other walk ends there.
LEMMA WrittenTranslates ==
  ASSUME NEW m \in Memory, NEW m2 \in Memory, NEW next, NEW next2, NEW lev \in Levels,
         Tree(m, next, lev), Tree(m2, next2, lev), NEW top \in Frames, NEW v \in Nat,
         NEW t3 \in Frames, NEW t2 \in Frames, NEW t1 \in Frames, Path(m, lev, top, v, t3, t2, t1),
         NEW f \in Frames \ {0}, OneWritten(m, m2, t1, Index(v, 1), f)
  PROVE  Translate(m2, top, v) = f /\ OthersStay(m, m2, top, v)
<1>0. /\ \A w \in Nat, level \in 1..4 : Index(w, level) \in Idx
      /\ \A g \in Frames \ {0} : Ptr(g) # Absent /\ ~Ptr(g).ps /\ Ptr(g).to = g
  BY IndexInTable, NoEntry
<1>1. Above(m, m2, lev, lev)
  BY DEF Above, Path, OneWritten
<1>2. Translate(m2, top, v) = f
  <2>1. Path(m2, lev, top, v, t3, t2, t1)
    BY <1>1, PathStays
  <2>2. m2[t1][Index(v, 1)] = Ptr(f)
    BY <1>0 DEF OneWritten
  <2>3. QED
    BY <1>0, <2>1, <2>2, PathTranslates
<1>3. ASSUME NEW w \in Nat, ~SamePlace(v, w), ~UnderCode(w), Translate(m, top, w) # Null
      PROVE  Translate(m2, top, w) = Translate(m, top, w)
  <2>1. CASE UnderLarge(w)
    <3>1. lev[top] = 4
      BY DEF Path
    <3>2. /\ Translate(m, top, w) = Index(w, 2) * Fan + Index(w, 1)
          /\ Translate(m2, top, w) = Index(w, 2) * Fan + Index(w, 1)
      BY <2>1, <3>1, LargeTranslates
    <3>3. QED
      BY <3>2
  <2>2. CASE ~UnderLarge(w)
    <3>1. PICK u3, u2, u1 \in Frames : Path(m, lev, top, w, u3, u2, u1)
      <4>1. lev[top] = 4
        BY DEF Path
      <4>2. QED
        BY <1>3, <2>2, <4>1, NoCode, PathFound
    <3>2. Path(m2, lev, top, w, u3, u2, u1)
      BY <1>1, <3>1, PathStays
    <3>3. ~(u1 = t1 /\ Index(w, 1) = Index(v, 1))
      <4> SUFFICES ASSUME u1 = t1, Index(w, 1) = Index(v, 1) PROVE FALSE
        OBVIOUS
      <4>a. Single(m, lev) /\ \A t \in Frames \ {0} : Ptr(t) # Absent /\ ~Ptr(t).ps
        BY NoEntry DEF Tree
      <4>b. /\ {top, t3, t2, t1, u3, u2} \subseteq Frames \ {0} /\ lev[top] = 4
            /\ lev[t3] = 3 /\ lev[u3] = 3 /\ lev[t2] = 2 /\ lev[u2] = 2
            /\ \A i \in Idx : \A t \in {top, t3, t2, u3, u2} : ~InCode(t, i)
        <5>1. lev[Pd] = 2
          BY DEF Tree, BootTables
        <5>2. QED
          BY <3>1, <5>1 DEF Path, InCode
      <4>c. /\ m[top][Index(v, 4)] = Ptr(t3) /\ m[t3][Index(v, 3)] = Ptr(t2) /\ m[t2][Index(v, 2)] = Ptr(t1)
            /\ m[top][Index(w, 4)] = Ptr(u3) /\ m[u3][Index(w, 3)] = Ptr(u2) /\ m[u2][Index(w, 2)] = Ptr(t1)
        BY <3>1 DEF Path
      <4>1. u2 = t2 /\ Index(w, 2) = Index(v, 2)
        BY <1>0, <4>a, <4>b, <4>c DEF Single
      <4>2. u3 = t3 /\ Index(w, 3) = Index(v, 3)
        BY <1>0, <4>a, <4>b, <4>c, <4>1 DEF Single
      <4>3. Index(w, 4) = Index(v, 4)
        BY <1>0, <4>a, <4>b, <4>c, <4>2 DEF Single
      <4>4. QED
        <5>1. \A level \in 1..4 : level \in {1, 2, 3, 4}
          OBVIOUS
        <5>2. QED
          BY <1>3, <4>1, <4>2, <4>3, <5>1 DEF SamePlace
    <3>4. m2[u1][Index(w, 1)] = m[u1][Index(w, 1)]
      BY <1>0, <3>3 DEF OneWritten
    <3>5. QED
      BY <3>1, <3>2, <3>4, PathTranslates
  <2>3. QED
    BY <2>1, <2>2
<1>4. QED
  BY <1>2, <1>3 DEF OthersStay

\* A page that is there stays there, in every address space.
LEMMA EnteredTranslates ==
  ASSUME NEW m \in Memory, NEW m2 \in Memory, NEW next, NEW next2, NEW lev \in Levels, NEW lev2 \in Levels,
         Tree(m, next, lev), Tree(m2, next2, lev2), NEW f \in Frames \ {0}, Entered(m, m2, lev, lev2, f),
         NEW top \in Frames, lev[top] = 4, NEW w \in Nat, ~UnderCode(w), Translate(m, top, w) # Null
  PROVE  Translate(m2, top, w) # Null
<1>1. lev2[top] = 4
  BY DEF Entered, Above
<1>2. CASE UnderLarge(w)
  BY <1>1, <1>2, LargeTranslates
<1>3. CASE ~UnderLarge(w)
  <2>0. ~UnderBoot(w)
    BY <1>3, NoCode
  <2>1. PICK t3, t2, t1 \in Frames : Path(m, lev, top, w, t3, t2, t1)
    BY <2>0, PathFound
  <2>2. Path(m2, lev2, top, w, t3, t2, t1)
    BY <2>1, PathStays DEF Entered
  <2>3. m[t1][Index(w, 1)] # Absent /\ Index(w, 1) \in Idx
    BY <2>1, PathTranslates, IndexInTable
  <2>4. m2[t1][Index(w, 1)] # Absent /\ m2[t1][Index(w, 1)].to \in Frames
    <3>1. m2[t1][Index(w, 1)] \in {Ptr(f), m[t1][Index(w, 1)]}
      BY <2>1, <2>2, <2>3 DEF Entered, Path
    <3>2. Ptr(f) # Absent
      BY NoEntry
    <3>3. ~InCode(t1, Index(w, 1))
      <4>1. lev[Pd] = 2 /\ lev[t1] = 1
        BY <2>1 DEF Tree, BootTables, Path
      <4>2. QED
        BY <4>1 DEF InCode
    <3>4. QED
      BY <2>3, <3>1, <3>2, <3>3, LeadsToFrame
  <2>5. QED
    BY <2>2, <2>4, PathTranslates, FrameNotNull
<1>4. QED
  BY <1>2, <1>3

\* A walk alone enters nothing.
LEMMA GrownEntered ==
  ASSUME NEW m, NEW m2, NEW lev, NEW lev2, Grown(m, m2, lev, lev2), NEW f
  PROVE  Entered(m, m2, lev, lev2, f)
<1>1. Above(m, m2, lev, lev2)
  BY GrownAbove
<1>2. ASSUME NEW t \in Frames, NEW i \in Idx, lev2[t] = 1
      PROVE  m2[t][i] = (IF lev[t] = 1 THEN m[t][i] ELSE Absent)
  BY <1>2 DEF Grown
<1>3. QED
  BY <1>1, <1>2 DEF Entered

\* Tables are no boot memory below the kernel, least of all the first frame.
LEMMA TableNotZero ==
  ASSUME NEW m, NEW next, NEW lev, Tree(m, next, lev), NEW f \in Frames, lev[f] # 0
  PROVE  f # 0
BY Layout, LayoutAssumption DEF Tree

\* vm_map_page_pml4 keeps the tables a tree, maps its page unless the frames run
\* out, and moves no other page.
LEMMA VmMapShape ==
  ASSUME NEW r \in RamType, r.free = <<>>, NEW lev \in Levels, Tree(r.mem, r.next, lev),
         NEW top \in Frames, lev[top] = 4, NEW v \in Nat, ~UnderCode(v), NEW f \in Frames \ {0},
         UnderLarge(v) => lev[Index(v, 2) * Fan] = 0
  PROVE  LET n == VmMap(r, top, v, f)
         IN /\ \E lev2 \in Levels : /\ Tree(n.mem, n.next, lev2) /\ Extends(lev2, lev, r.next)
                                    /\ r.next <= n.next /\ n.free = <<>>
                                    /\ Entered(r.mem, n.mem, lev, lev2, f)
                                    /\ UnderLarge(v) => Grown(r.mem, n.mem, lev, lev2)
            /\ Mapped(n, top, v, f) /\ OthersStay(r.mem, n.mem, top, v)
<1> DEFINE n == VmMap(r, top, v, f)
<1>0. r.next \in Nat /\ r.mem \in Memory /\ Extends(lev, lev, r.next)
  BY Layout DEF RamType, Extends
<1>4. n \in RamType /\ n.mem \in Memory
  BY VmMapTyped DEF RamType
<1>1. CASE UnderLarge(v)
  <2> DEFINE u == Index(v, 2) * Fan
  <2>1. u \in Frames
    BY <1>1, IndexInTable, LargeFrame DEF UnderLarge
  <2>2. n = [r EXCEPT !.mem[u][Index(v, 1)] = Ptr(f)]
    <3> HIDE DEF n, u
    <3>1. VmMap(r, top, v, f) = Written(r, Index(v, 2) * Fan, Index(v, 1), f)
      BY <1>1, LargeWalk
    <3>2. QED
      BY <3>1 DEF n, u, Written
  <2>3. lev[u] = 0
    BY <1>1
  <2> HIDE DEF u, n
  <2>4. n.next = r.next /\ n.free = <<>> /\ n.mem \in Memory /\ \A t \in Frames : t # u => n.mem[t] = r.mem[t]
    BY <1>0, <1>4, <2>1, <2>2 DEF RamType, Memory
  <2>5. Tree(n.mem, n.next, lev)
    BY <1>0, <2>1, <2>3, <2>4, TreeLeaf
  <2>6. Grown(r.mem, n.mem, lev, lev)
    BY <2>3, <2>4 DEF Grown
  <2>7. Mapped(n, top, v, f)
    BY <1>1, <2>5, LargeTranslates DEF Mapped, UnderLarge
  <2>8. OthersStay(r.mem, n.mem, top, v)
    BY <1>0, <2>4, <2>5, <2>6, GrownTranslates DEF OthersStay
  <2>9. Entered(r.mem, n.mem, lev, lev, f)
    BY <2>6, GrownEntered
  <2>10. QED
    BY <1>0, <2>4, <2>5, <2>6, <2>7, <2>8, <2>9 DEF n
<1>2. CASE ~UnderLarge(v)
  <2> DEFINE s4 == [r |-> r, t |-> top]
             s3 == Below(s4, v, 4)
             s2 == Below(s3, v, 3)
             s1 == Below(s2, v, 2)
  <2>1. Walk(s4, lev, 4) /\ s4.t # Pd
    <3>1. top # Pd
      BY DEF Tree, BootTables
    <3>2. QED
      BY <3>1, FrameNotNull DEF Walk, WalkType
  <2>2. PICK l3 \in Levels : /\ Walk(s3, l3, 3) /\ Extends(l3, lev, r.next) /\ r.next <= s3.r.next
                             /\ s3.t = Pdpt => Index(v, 4) = 0
                             /\ Grown(r.mem, s3.r.mem, lev, l3)
                             /\ s3.t # Null => s3.r.mem[top][Index(v, 4)] = Ptr(s3.t)
    <3>1. s4.r = r /\ s4.t = top
      OBVIOUS
    <3> HIDE DEF s4
    <3>2. QED
      BY <2>1, <3>1, BelowShape DEF Leads
  <2> HIDE DEF s3
  <2>3. PICK l2 \in Levels : /\ Walk(s2, l2, 2) /\ Extends(l2, l3, s3.r.next) /\ s3.r.next <= s2.r.next
                             /\ s2.t = Pd => s3.t = Pdpt /\ Index(v, 3) = 0
                             /\ Grown(s3.r.mem, s2.r.mem, l3, l2)
                             /\ s2.t # Null => s3.t # Null /\ s2.r.mem[s3.t][Index(v, 3)] = Ptr(s2.t)
    <3>1. s3.t # Pd
      <4>1. l3[Pd] = 2 /\ Pd # Null
        BY <2>2, FrameNotNull, Layout DEF Walk, Tree, BootTables
      <4>2. QED
        BY <2>2, <4>1 DEF Walk
    <3>2. QED
      BY <2>2, <3>1, BelowShape DEF Leads
  <2> HIDE DEF s2
  <2>4. s2.t # Pd
    BY <1>2, <2>2, <2>3, NoCode DEF UnderBoot
  <2>5. PICK l1 \in Levels : /\ Walk(s1, l1, 1) /\ Extends(l1, l2, s2.r.next) /\ s2.r.next <= s1.r.next
                             /\ Grown(s2.r.mem, s1.r.mem, l2, l1)
                             /\ s1.t # Null => s2.t # Null /\ s1.r.mem[s2.t][Index(v, 2)] = Ptr(s1.t)
    BY <2>3, <2>4, BelowShape DEF Leads
  <2>6. n = IF s1.t = Null THEN s1.r ELSE [s1.r EXCEPT !.mem[s1.t][Index(v, 1)] = Ptr(f)]
    BY DEF VmMap, s3, s2
  <2> HIDE DEF s1
  <2>7. /\ s3.r.next \in Nat /\ s2.r.next \in Nat /\ s1.r.next \in Nat
        /\ s1.r \in RamType /\ s1.t \in Frames \cup {Null} /\ s1.r.mem \in Memory
        /\ s2.t \in Frames \cup {Null} /\ s3.t \in Frames \cup {Null}
    <3>1. s3 \in WalkType /\ s2 \in WalkType /\ s1 \in WalkType
      BY <2>2, <2>3, <2>5 DEF Walk
    <3>2. \A s \in WalkType : s.r \in RamType /\ s.t \in Frames \cup {Null}
      BY DEF WalkType
    <3>3. \A m \in RamType : m.next \in Nat /\ m.mem \in Memory
      BY Layout DEF RamType, Memory
    <3>4. QED
      BY <3>1, <3>2, <3>3
  <2>a. r.next <= s3.r.next /\ s3.r.next <= s2.r.next /\ s2.r.next <= s1.r.next /\ r.next \in Nat
    BY <1>0, <2>2, <2>3, <2>5
  <2>8. Extends(l1, lev, r.next) /\ r.next <= s1.r.next
    <3>1. r.next <= s1.r.next /\ r.next <= s2.r.next
      BY <2>7, <2>a
    <3>2. Extends(l1, l2, r.next)
      BY <2>5, <2>7, <2>a, <3>1 DEF Extends, Frames
    <3>3. Extends(l2, l3, r.next)
      BY <2>3, <2>7, <2>a DEF Extends, Frames
    <3>4. Extends(l1, lev, r.next)
      BY <2>2, <3>2, <3>3 DEF Extends
    <3>5. QED
      BY <3>1, <3>4
  <2>12. Grown(s3.r.mem, s1.r.mem, l3, l1) /\ Grown(r.mem, s1.r.mem, lev, l1)
    BY <2>2, <2>3, <2>5, GrownTwice
  <2>13. Tree(s1.r.mem, s1.r.next, l1)
    BY <2>5 DEF Walk
  <2>14. OthersStay(r.mem, s1.r.mem, top, v)
    BY <1>0, <2>7, <2>12, <2>13, GrownTranslates DEF OthersStay
  <2>9. CASE s1.t = Null
    <3>1. n = s1.r /\ ~Room(n)
      BY <2>5, <2>6, <2>9 DEF Walk
    <3> HIDE DEF n
    <3>2. Entered(r.mem, n.mem, lev, l1, f) /\ Mapped(n, top, v, f)
      BY <2>12, <3>1, GrownEntered DEF Mapped
    <3>3. QED
      BY <1>2, <2>5, <2>8, <2>14, <3>1, <3>2 DEF Walk, n
  <2>10. CASE s1.t # Null
    <3>1. s1.t \in Frames /\ l1[s1.t] = 1 /\ s1.r.mem \in Memory
      BY <2>5, <2>7, <2>10 DEF Walk, Memory, RamType
    <3>2. n = [s1.r EXCEPT !.mem[s1.t][Index(v, 1)] = Ptr(f)] /\ n \in RamType
      BY <2>6, <2>10, VmMapTyped
    <3> HIDE DEF n
    <3>3. n.next = s1.r.next /\ n.free = s1.r.free /\ n.mem \in Memory
          /\ \A t \in Frames : t # s1.t => n.mem[t] = s1.r.mem[t]
      BY <2>7, <3>1, <3>2 DEF RamType, Memory
    <3>4. Tree(n.mem, n.next, l1)
      BY <2>5, <3>1, <3>3, TreeLeaf DEF Walk
    <3>5. /\ \A t \in Frames, i \in Idx :
               n.mem[t][i] = IF t = s1.t /\ i = Index(v, 1) THEN Ptr(f) ELSE s1.r.mem[t][i]
      BY <2>7, <3>1, <3>2, IndexInTable DEF RamType, Memory
    <3>6. Path(s1.r.mem, l1, top, v, s3.t, s2.t, s1.t)
      <4>1. /\ s3.t \in Frames /\ s2.t \in Frames
            /\ s3.r.mem[top][Index(v, 4)] = Ptr(s3.t) /\ s2.r.mem[s3.t][Index(v, 3)] = Ptr(s2.t)
            /\ s1.r.mem[s2.t][Index(v, 2)] = Ptr(s1.t)
        BY <2>2, <2>3, <2>5, <2>7, <2>10
      <4>2. l3[top] = 4 /\ l3[s3.t] = 3 /\ l2[s2.t] = 2
        BY <2>2, <2>3, <2>5, <2>10, <4>1, FrameNotNull DEF Walk, Grown
      <4>3. l1[top] = 4 /\ l1[s3.t] = 3 /\ l1[s2.t] = 2
        BY <2>5, <2>12, <4>1, <4>2 DEF Grown
      <4>4. top # 0 /\ s3.t # 0 /\ s2.t # 0 /\ s1.t # 0
        BY <2>13, <3>1, <4>1, <4>3, TableNotZero
      <4>5. Ptr(s3.t) # Absent /\ Ptr(s2.t) # Absent
        BY <4>1, <4>4, NoEntry
      <4>6. s1.r.mem[top][Index(v, 4)] = Ptr(s3.t)
        BY <2>12, <4>1, <4>2, <4>5, IndexInTable DEF Grown
      <4>7. s1.r.mem[s3.t][Index(v, 3)] = Ptr(s2.t)
        <5>1. l2[s3.t] = 3
          BY <2>3, <4>1, <4>2 DEF Grown
        <5>2. QED
          BY <2>5, <4>1, <4>5, <5>1, IndexInTable DEF Grown
      <4>8. QED
        BY <2>4, <3>1, <4>1, <4>3, <4>4, <4>6, <4>7 DEF Path
    <3>7. Translate(n.mem, top, v) = f /\ OthersStay(s1.r.mem, n.mem, top, v)
      <4> DEFINE m == s1.r.mem
                 t3 == s3.t
                 t2 == s2.t
                 t1 == s1.t
      <4>1. Path(m, l1, top, v, t3, t2, t1) /\ t3 \in Frames /\ t2 \in Frames /\ t1 \in Frames
        BY <3>6 DEF Path
      <4>2. /\ m \in Memory /\ n.mem \in Memory /\ Tree(m, s1.r.next, l1) /\ Tree(n.mem, n.next, l1)
            /\ \A t \in Frames, i \in Idx : n.mem[t][i] = IF t = t1 /\ i = Index(v, 1) THEN Ptr(f) ELSE m[t][i]
        BY <2>7, <2>13, <3>3, <3>4, <3>5
      <4> HIDE DEF m, t3, t2, t1
      <4> DEFINE N == n.mem
                 k == s1.r.next
                 k2 == n.next
      <4>5. /\ N \in Memory /\ Tree(m, k, l1) /\ Tree(N, k2, l1)
            /\ OneWritten(m, N, t1, Index(v, 1), f)
        BY <4>2 DEF OneWritten
      <4> HIDE DEF N, k, k2
      <4>3. Translate(N, top, v) = f /\ OthersStay(m, N, top, v)
        BY <4>1, <4>2, <4>5, WrittenTranslates
      <4>4. QED
        BY <4>3 DEF m, N
    <3>8. OthersStay(r.mem, n.mem, top, v)
      BY <2>14, <3>7 DEF OthersStay
    <3>9. Mapped(n, top, v, f)
      BY <3>7, FrameNotNull DEF Mapped
    <3>10. Entered(r.mem, n.mem, lev, l1, f)
      <4>1. Entered(r.mem, s1.r.mem, lev, l1, f)
        BY <2>12, GrownEntered
      <4>2. Above(r.mem, n.mem, lev, l1)
        <5>1. \A t \in Frames : lev[t] # 0 => l1[t] = lev[t]
          BY <4>1 DEF Entered, Above
        <5>2. \A t \in Frames : lev[t] \in 2..4 => t # s1.t
          BY <3>1, <5>1
        <5>3. QED
          BY <3>3, <4>1, <5>2 DEF Entered, Above
      <4>3. QED
        BY <3>5, <4>1, <4>2 DEF Entered
    <3>11. QED
      BY <1>2, <2>5, <2>8, <3>3, <3>4, <3>8, <3>9, <3>10 DEF Walk, n
  <2>11. QED
    BY <2>9, <2>10
<1>3. QED
  BY <1>1, <1>2

\* The entries of the lowest level lead to these frames.
Leaves(m, lev, S) ==
  \A t \in Frames, i \in Idx : lev[t] = 1 => m[t][i] = Absent \/ m[t][i].to \in S

LEMMA LeavesEntered ==
  ASSUME NEW m, NEW m2, NEW lev, NEW lev2, NEW f \in Frames, NEW S, NEW S2,
         Entered(m, m2, lev, lev2, f), Leaves(m, lev, S), S \cup {f} \subseteq S2
  PROVE  Leaves(m2, lev2, S2)
BY DEF Entered, Leaves, Ptr

LEMMA LeavesGrown ==
  ASSUME NEW m, NEW m2, NEW lev, NEW lev2, NEW S, Grown(m, m2, lev, lev2), Leaves(m, lev, S)
  PROVE  Leaves(m2, lev2, S)
BY DEF Grown, Leaves

\* With a level for every frame: what is reached, what is owned, what is free.
\* As long as the list of pages has not been full it holds all that is mapped.
Apart(lev) ==
  /\ Tree(ram.mem, ram.next, lev)
  /\ lev[cr3] = 4
  /\ proc.pml4 # 0 => lev[proc.pml4] = 4
  /\ stage \in {"load", "entering"} => lev[root] = 4
  /\ \A f \in Range(proc.pages) : f < ram.next /\ lev[f] \in {0, 4}
  /\ \A f \in Range(ram.free) : f < ram.next /\ lev[f] = 0
  /\ stage # "back" /\ Len(proc.pages) < MaxPages => Leaves(ram.mem, lev, Range(proc.pages))

\* The list of the process and the free list; nothing is free before an exit.
Owned ==
  /\ IsInjective(proc.pages) /\ IsInjective(ram.free)
  /\ stage = "load" => root \notin Range(proc.pages)
  /\ stage # "back" => ram.free = <<>>
  /\ stage = "back" => proc.pages = <<>> /\ proc.pml4 = 0
  /\ stage \in {"entering", "user", "brk"} \/ (stage = "load" /\ caller = "user") => proc.pml4 # 0

ApartInv == stage # "lost" => Owned /\ \E lev \in Levels : Apart(lev)

\* Pages are frames.
LEMMA PagesAreFrames ==
  ASSUME NEW fs \in Seq(KernelEnd..(Limit - 1))
  PROVE  \A f \in Range(fs) : f \in KernelEnd..(Limit - 1) /\ f \in Frames
BY Layout DEF Range

\* proc_add_allocated_page lists a frame once.
LEMMA AddPageOwned ==
  ASSUME NEW p \in ProcType, NEW f \in KernelEnd..(Limit - 1),
         IsInjective(p.pages), f \notin Range(p.pages)
  PROVE  /\ IsInjective(AddPage(p, f).pages)
         /\ Range(AddPage(p, f).pages) \subseteq Range(p.pages) \cup {f}
         /\ AddPage(p, f).pml4 = p.pml4
         /\ Len(AddPage(p, f).pages) < MaxPages =>
              Len(p.pages) < MaxPages /\ Range(p.pages) \cup {f} \subseteq Range(AddPage(p, f).pages)
<1>1. CASE Len(p.pages) < MaxPages
  <2> DEFINE s == p.pages
             n == Append(s, f)
  <2>1. s \in Seq(KernelEnd..(Limit - 1))
    BY DEF ProcType
  <2>2. AddPage(p, f).pages = n /\ AddPage(p, f).pml4 = p.pml4
    BY <1>1 DEF AddPage, ProcType
  <2>3. /\ Len(s) \in Nat /\ DOMAIN s = 1..Len(s) /\ DOMAIN n = 1..(Len(s) + 1)
        /\ \A i \in 1..(Len(s) + 1) : n[i] = IF i = Len(s) + 1 THEN f ELSE s[i]
    BY <2>1
  <2>4. IsInjective(s) /\ f \notin Range(s)
    OBVIOUS
  <2> HIDE DEF s, n
  <2>5. IsInjective(n)
    BY <2>3, <2>4 DEF IsInjective, Range
  <2>6. Range(n) = Range(s) \cup {f}
    <3>1. Range(n) \subseteq Range(s) \cup {f}
      BY <2>3 DEF Range
    <3>2. f \in Range(n)
      <4>1. Len(s) + 1 \in DOMAIN n /\ n[Len(s) + 1] = f
        BY <2>3
      <4>2. QED
        BY <4>1 DEF Range
    <3>3. Range(s) \subseteq Range(n)
      BY <2>3 DEF Range
    <3>4. QED
      BY <3>1, <3>2, <3>3
  <2>7. QED
    BY <1>1, <2>2, <2>5, <2>6 DEF s
<1>2. CASE ~(Len(p.pages) < MaxPages)
  BY <1>2 DEF AddPage
<1>3. QED
  BY <1>1, <1>2

\* A frame for a page and the page's place in the tables.
LEMMA MapFresh ==
  ASSUME ram \in RamType, ram.free = <<>>, Room(ram), NEW lev \in Levels,
         Tree(ram.mem, ram.next, lev), NEW top \in Frames, lev[top] = 4,
         NEW v \in Nat, Harmless(v)
  PROVE  LET n == VmMap(Taken(ram), top, v, Fresh(ram))
         IN /\ Fresh(ram) = ram.next /\ lev[ram.next] = 0
            /\ \E lev2 \in Levels :
                 /\ Tree(n.mem, n.next, lev2) /\ Extends(lev2, lev, ram.next + 1)
                 /\ ram.next + 1 <= n.next /\ n.free = <<>>
                 /\ Entered(ram.mem, n.mem, lev, lev2, Fresh(ram))
            /\ Mapped(n, top, v, Fresh(ram)) /\ OthersStay(ram.mem, n.mem, top, v)
<1> DEFINE r == Taken(ram)
           next == ram.next
<1>1. Fresh(ram) \in Frames /\ r \in RamType
  BY TakenTyped
<1>2. /\ Fresh(ram) = next /\ next \in KernelEnd..(Limit - 1) /\ next \in Frames
      /\ r = [mem |-> [ram.mem EXCEPT ![next] = Zeroed], next |-> next + 1, free |-> <<>>]
  BY Layout DEF Fresh, Room, Taken, RamType
<1>3. r.next = next + 1 /\ r.free = <<>> /\ \A t \in Frames : r.mem[t] = IF t = next THEN Zeroed ELSE ram.mem[t]
  BY <1>2 DEF RamType, Memory
<1>4. ram.mem \in Memory /\ r.mem \in Memory
  BY <1>1 DEF RamType
<1> HIDE DEF r
<1>5. Tree(r.mem, next + 1, lev) /\ lev[next] = 0 /\ Grown(ram.mem, r.mem, lev, lev)
  BY <1>2, <1>3, <1>4, TreeFresh
<1>6. UnderLarge(v) => lev[Index(v, 2) * Fan] = 0
  <2> DEFINE u == Index(v, 2) * Fan
  <2> SUFFICES ASSUME UnderLarge(v) PROVE lev[u] = 0
    OBVIOUS
  <2>1. u \notin {Pml4, Pdpt, Pd} \cup (KernelEnd..(next - 1))
    BY DEF Harmless
  <2>2. u \in Frames
    BY IndexInTable, LargeFrame DEF UnderLarge
  <2> HIDE DEF u
  <2>3. QED
    BY <1>2, <2>1, <2>2 DEF Tree, Frames, Levels
<1> DEFINE n == VmMap(r, top, v, Fresh(ram))
<1>7. /\ \E lev2 \in Levels :
           /\ Tree(n.mem, n.next, lev2) /\ Extends(lev2, lev, r.next)
           /\ r.next <= n.next /\ n.free = <<>>
           /\ Entered(r.mem, n.mem, lev, lev2, Fresh(ram))
      /\ Mapped(n, top, v, Fresh(ram)) /\ OthersStay(r.mem, n.mem, top, v)
  <2>1. Fresh(ram) \in Frames \ {0} /\ ~UnderCode(v)
    BY <1>2, Layout DEF Harmless
  <2> HIDE DEF n
  <2>2. QED
    BY <1>1, <1>3, <1>5, <1>6, <2>1, VmMapShape DEF n
<1> HIDE DEF n
<1>8. PICK lev2 \in Levels :
           /\ Tree(n.mem, n.next, lev2) /\ Extends(lev2, lev, r.next)
           /\ r.next <= n.next /\ n.free = <<>>
           /\ Entered(r.mem, n.mem, lev, lev2, Fresh(ram))
  BY <1>7
<1>9. Entered(ram.mem, n.mem, lev, lev2, Fresh(ram))
  <2>1. \A t \in Frames : lev[t] # 0 => r.mem[t] = ram.mem[t]
    BY <1>3, <1>5
  <2>2. QED
    BY <1>8, <2>1 DEF Entered, Above
<1>10. OthersStay(ram.mem, n.mem, top, v)
  <2> SUFFICES ASSUME NEW w \in Nat, ~SamePlace(v, w), ~UnderCode(w), Translate(ram.mem, top, w) # Null
               PROVE  Translate(n.mem, top, w) = Translate(ram.mem, top, w)
    BY DEF OthersStay
  <2>1. Translate(r.mem, top, w) = Translate(ram.mem, top, w)
    BY <1>4, <1>5, GrownTranslates
  <2>2. QED
    BY <1>7, <2>1 DEF OthersStay
<1>11. QED
  BY <1>2, <1>3, <1>5, <1>7, <1>8, <1>9, <1>10 DEF r, n

\* A frame with a level keeps it when the levels are extended.
LEMMA Kept ==
  ASSUME ram \in RamType, NEW lev \in Levels, NEW lev2 \in Levels, Tree(ram.mem, ram.next, lev),
         NEW k \in Nat, ram.next <= k, Extends(lev2, lev, k)
  PROVE  /\ \A f \in Frames : lev[f] # 0 => lev2[f] = lev[f]
         /\ \A f \in Frames : f < ram.next => lev2[f] = lev[f]
<1>1. ram.next \in Nat
  BY Layout DEF RamType
<1>2. QED
  BY <1>1 DEF Tree, Extends, Frames

\* The boot tables are apart (multiboot64.asm).
LEMMA ApartInit == Init => ApartInv
<1> SUFFICES ASSUME Init PROVE ApartInv
  OBVIOUS
<1> DEFINE lev == [f \in Frames |-> IF f = Pml4 THEN 4 ELSE IF f = Pdpt THEN 3 ELSE IF f = Pd THEN 2 ELSE 0]
           m == ram.mem
<1>1. lev \in Levels
  BY DEF Levels
<1>2. /\ \A f \in Frames : lev[f] = IF f = Pml4 THEN 4 ELSE IF f = Pdpt THEN 3 ELSE IF f = Pd THEN 2 ELSE 0
      /\ Pml4 # Pdpt /\ Pml4 # Pd /\ Pdpt # Pd
  BY LayoutAssumption
<1> HIDE DEF lev
<1>3. /\ m[Pml4] = [Zeroed EXCEPT ![0] = Ptr(Pdpt)] /\ m[Pdpt] = [Zeroed EXCEPT ![0] = Ptr(Pd)]
      /\ m[Pd] = [i \in Idx |-> IF i < Large THEN [to |-> i * Fan, ps |-> TRUE] ELSE Code[i]]
  BY <1>2, Layout DEF Init
<1>4. \A i \in Idx : /\ m[Pml4][i] = IF i = 0 THEN Ptr(Pdpt) ELSE Absent
                     /\ m[Pdpt][i] = IF i = 0 THEN Ptr(Pd) ELSE Absent
                     /\ m[Pd][i] = IF i < Large THEN [to |-> i * Fan, ps |-> TRUE] ELSE Code[i]
  BY <1>3, Layout DEF Zeroed
<1> HIDE DEF m
<1>5. /\ Ptr(Pdpt).to = Pdpt /\ ~Ptr(Pdpt).ps /\ Ptr(Pd).to = Pd /\ ~Ptr(Pd).ps
      /\ Ptr(Pdpt) # Absent /\ Ptr(Pd) # Absent
      /\ \A x : [to |-> x, ps |-> TRUE].ps /\ [to |-> x, ps |-> TRUE] # Ptr(Pd)
  BY LayoutAssumption DEF Ptr, Absent
<1>14. \A k \in Idx : ~(k < Large) => InCode(Pd, k)
  BY LayoutAssumption DEF InCode, Idx
<1>6. BootTables(m, lev)
  <2>1. lev[Pml4] = 4 /\ lev[Pdpt] = 3 /\ lev[Pd] = 2 /\ \A t \in Frames : lev[t] = 4 => t = Pml4
    BY <1>2, Layout
  <2>2. m[Pml4][0] = Ptr(Pdpt) /\ m[Pdpt][0] = Ptr(Pd)
    BY <1>4, Layout
  <2>3. QED
    BY <1>4, <2>1, <2>2 DEF BootTables
<1>7. ASSUME NEW t \in Frames, NEW i \in Idx PROVE EntryOK(m[t][i], lev, t, i)
  <2>1. lev[Pdpt] = 3 /\ lev[Pd] = 2
    BY <1>2, Layout
  <2>2. CASE t = Pml4
    <3>1. lev[t] = 4 /\ (m[t][i] = Absent \/ (i = 0 /\ m[t][i] = Ptr(Pdpt)))
      BY <1>2, <1>4, <2>2
    <3>2. QED
      BY <1>5, <2>1, <3>1 DEF EntryOK
  <2>3. CASE t = Pdpt
    <3>1. lev[t] = 3 /\ (m[t][i] = Absent \/ (i = 0 /\ m[t][i] = Ptr(Pd)))
      BY <1>2, <1>4, <2>3
    <3>2. QED
      BY <1>5, <2>1, <2>3, <3>1 DEF EntryOK
  <2>4. CASE t = Pd
    <3>1. lev[t] = 2
      BY <1>2, <2>4
    <3>2. CASE i < Large
      <4>1. m[t][i].ps
        BY <1>4, <1>5, <2>4, <3>2
      <4>2. QED
        BY <2>4, <3>1, <3>2, <4>1 DEF EntryOK
    <3>3. CASE ~(i < Large)
      <4>1. InCode(t, i)
        BY <1>14, <2>4, <3>3
      <4>2. QED
        BY <2>4, <3>1, <4>1 DEF EntryOK
    <3>4. QED
      BY <3>2, <3>3
  <2>5. CASE t \notin {Pml4, Pdpt, Pd}
    BY <1>2, <2>5 DEF EntryOK
  <2>6. QED
    BY <2>2, <2>3, <2>4, <2>5
<1>12. Single(m, lev)
  <2> SUFFICES ASSUME NEW t \in Frames, NEW u \in Frames, NEW i \in Idx, NEW j \in Idx,
                      lev[t] \in 2..4, lev[u] = lev[t], m[t][i] # Absent, ~m[t][i].ps, m[u][j] = m[t][i],
                      ~InCode(t, i), ~InCode(u, j)
               PROVE  i = j /\ t = u
    BY DEF Single
  <2>1. t \in {Pml4, Pdpt, Pd} /\ u = t
    BY <1>2
  <2>2. \A k \in Idx : m[t][k] # Absent /\ ~m[t][k].ps /\ ~InCode(t, k) => k = 0
    <3>1. CASE t = Pd
      <4> SUFFICES ASSUME NEW k \in Idx, ~m[t][k].ps, ~InCode(t, k) PROVE FALSE
        BY <3>1
      <4>1. k < Large
        BY <1>14, <3>1
      <4>2. m[t][k].ps
        BY <1>4, <1>5, <3>1, <4>1
      <4>3. QED
        BY <4>2
    <3>2. CASE t # Pd
      BY <1>4, <2>1, <3>2
    <3>3. QED
      BY <3>1, <3>2
  <2>3. QED
    BY <2>1, <2>2
<1>8. Tree(m, KernelEnd, lev)
  BY <1>2, <1>6, <1>7, <1>12, LayoutAssumption, Layout DEF Tree
<1>9. /\ Range(proc.pages) = {} /\ Range(ram.free) = {}
      /\ IsInjective(proc.pages) /\ IsInjective(ram.free)
  BY DEF Init, Range, IsInjective
<1>13. Leaves(m, lev, Range(proc.pages))
  BY <1>2 DEF Leaves
<1>10. Apart(lev)
  BY <1>2, <1>8, <1>9, <1>13, Layout DEF Init, Apart, m
<1>11. QED
  BY <1>1, <1>9, <1>10 DEF ApartInv, Owned, Init

\* vm_clone_current_pml4: another table of the first level.
LEMMA TreeRoot ==
  ASSUME NEW m \in Memory, NEW m2 \in Memory, NEW next \in KernelEnd..(Limit - 1),
         NEW lev \in Levels, Tree(m, next, lev),
         \A t \in Frames : m2[t] = IF t = next THEN m[Pml4] ELSE m[t]
  PROVE  LET lev2 == [lev EXCEPT ![next] = 4]
         IN /\ lev2 \in Levels /\ Tree(m2, next + 1, lev2) /\ Extends(lev2, lev, next)
            /\ lev2[next] = 4
<1> DEFINE lev2 == [lev EXCEPT ![next] = 4]
<1>0. /\ next \in Frames /\ next >= KernelEnd /\ next \in Nat /\ next # Pd /\ next # Pdpt /\ next # Pml4
  BY Layout, LayoutAssumption DEF Frames
<1>1. lev[next] = 0
  BY <1>0 DEF Tree, Frames, Levels
<1>2. lev2 \in Levels /\ lev2[next] = 4 /\ \A f \in Frames : f # next => lev2[f] = lev[f]
  BY <1>0 DEF Levels
<1> HIDE DEF lev2
<1>3. BootTables(m2, lev2)
  <2>1. lev2[Pml4] = 4 /\ lev2[Pdpt] = 3 /\ lev2[Pd] = 2
    BY <1>0, <1>2, Layout DEF Tree, BootTables
  <2>2. \A t \in Frames : lev2[t] = 4 => m2[t][0] = Ptr(Pdpt)
    BY <1>2, Layout DEF Tree, BootTables
  <2>3. m2[Pdpt] = m[Pdpt] /\ m2[Pd] = m[Pd]
    BY <1>0, Layout
  <2>4. QED
    BY <2>1, <2>2, <2>3 DEF Tree, BootTables
<1>4. \A f \in Frames : lev2[f] # 0 => f < next + 1 /\ (f \in {Pml4, Pdpt, Pd} \/ f >= KernelEnd)
  BY <1>0, <1>2 DEF Tree, Frames
<1>5. ASSUME NEW t \in Frames, NEW i \in Idx PROVE EntryOK(m2[t][i], lev2, t, i)
  <2> DEFINE e == m2[t][i]
             u == IF t = next THEN Pml4 ELSE t
  <2>1. e = m[u][i] /\ u \in Frames /\ lev2[t] = lev[u] /\ EntryOK(m[u][i], lev, u, i)
    BY <1>0, <1>2, Layout DEF Tree, BootTables
  <2>2. InCode(u, i) <=> InCode(t, i)
    BY <1>0, LayoutAssumption DEF InCode
  <2>4. ~InCode(u, i) /\ lev[e.to] # 0 => lev2[e.to] = lev[e.to]
    <3>1. ~InCode(u, i) => e.to \in Frames
      BY <2>1, LeadsToFrame
    <3> HIDE DEF e, u
    <3>2. QED
      BY <1>1, <1>2, <3>1
  <2>5. lev[Pml4] = 4
    BY DEF Tree, BootTables
  <2>6. CASE t = next
    <3>1. u = Pml4 /\ lev[u] = 4 /\ lev2[t] = 4 /\ u # Pd
      BY <2>1, <2>5, <2>6 DEF Tree, BootTables
    <3>2. EntryOK(e, lev, u, i)
      BY <2>1
    <3> HIDE DEF e, u
    <3>3. EntryOK(e, lev2, t, i)
      BY <2>2, <2>4, <3>1, <3>2 DEF EntryOK
    <3>4. QED
      BY <3>3 DEF e
  <2>7. CASE t # next
    <3>1. u = t /\ lev2[t] = lev[t] /\ EntryOK(e, lev, t, i)
      BY <2>1, <2>7
    <3> HIDE DEF e, u
    <3>2. EntryOK(e, lev2, t, i)
      BY <2>4, <3>1 DEF EntryOK
    <3>3. QED
      BY <3>2 DEF e
  <2>8. QED
    BY <2>6, <2>7
<1>6. Extends(lev2, lev, next)
  BY <1>2 DEF Extends, Frames
<1>7. Single(m2, lev2)
  <2> SUFFICES ASSUME NEW t \in Frames, NEW u \in Frames, NEW i \in Idx, NEW j \in Idx,
                      lev2[t] \in 2..4, lev2[u] = lev2[t], m2[t][i] # Absent, ~m2[t][i].ps, m2[u][j] = m2[t][i],
                      ~InCode(t, i), ~InCode(u, j)
               PROVE  i = j /\ (t = u \/ lev2[t] = 4)
    BY DEF Single
  <2>1. lev[Pml4] = 4 /\ Pml4 \in Frames
    BY Layout DEF Tree, BootTables
  <2>a. Pml4 # Pd
    BY LayoutAssumption
  <2>2. PICK a \in Frames : /\ m2[t] = m[a] /\ lev[a] = lev2[t] /\ (lev2[t] # 4 => a = t) /\ ~InCode(a, i)
    BY <1>2, <2>1, <2>a DEF InCode
  <2>3. PICK b \in Frames : /\ m2[u] = m[b] /\ lev[b] = lev2[u] /\ (lev2[u] # 4 => b = u) /\ ~InCode(b, j)
    BY <1>2, <2>1, <2>a DEF InCode
  <2>4. i = j /\ (a = b \/ lev[a] = 4)
    BY <2>2, <2>3 DEF Tree, Single
  <2>5. QED
    BY <2>2, <2>3, <2>4
<1>8. QED
  BY <1>2, <1>3, <1>4, <1>5, <1>6, <1>7 DEF Tree, lev2

\* Frames that are freed are no tables any more, and no entry led to one.
LEMMA TreeFreed ==
  ASSUME NEW m \in Memory, NEW m2 \in Memory, NEW next, NEW lev \in Levels, Tree(m, next, lev),
         NEW fs \in SUBSET (KernelEnd..(Limit - 1)), \A f \in fs : lev[f] \in {0, 4},
         \A t \in Frames : t \notin fs => m2[t] = m[t]
  PROVE  LET lev2 == [f \in Frames |-> IF f \in fs THEN 0 ELSE lev[f]]
         IN lev2 \in Levels /\ Tree(m2, next, lev2)
<1> DEFINE lev2 == [f \in Frames |-> IF f \in fs THEN 0 ELSE lev[f]]
<1>1. lev2 \in Levels /\ \A f \in Frames : lev2[f] = IF f \in fs THEN 0 ELSE lev[f]
  BY DEF Levels
<1> HIDE DEF lev2
<1>7. ASSUME NEW f \in Frames, lev[f] \in 1..3 PROVE lev2[f] = lev[f]
  <2>1. CASE f \in fs
    <3>1. lev[f] \in {0, 4}
      BY <2>1
    <3>2. QED
      BY <1>7, <3>1
  <2>2. CASE f \notin fs
    BY <1>1, <2>2
  <2>3. QED
    BY <2>1, <2>2
<1>2. Pml4 \notin fs /\ Pdpt \notin fs /\ Pd \notin fs
  BY LayoutAssumption
<1>3. BootTables(m2, lev2)
  <2>1. lev2[Pml4] = 4 /\ lev2[Pdpt] = 3 /\ lev2[Pd] = 2
    BY <1>1, <1>2, Layout DEF Tree, BootTables
  <2>2. \A t \in Frames : lev2[t] = 4 => m2[t][0] = Ptr(Pdpt)
    BY <1>1 DEF Tree, BootTables
  <2>3. m2[Pdpt] = m[Pdpt] /\ m2[Pd] = m[Pd]
    BY <1>2, Layout
  <2>4. QED
    BY <2>1, <2>2, <2>3 DEF Tree, BootTables
<1>4. \A f \in Frames : lev2[f] # 0 => f < next /\ (f \in {Pml4, Pdpt, Pd} \/ f >= KernelEnd)
  BY <1>1 DEF Tree
<1>5. ASSUME NEW t \in Frames, NEW i \in Idx PROVE EntryOK(m2[t][i], lev2, t, i)
  <2>1. CASE t \in fs
    BY <1>1, <2>1 DEF EntryOK
  <2>2. CASE t \notin fs
    <3> DEFINE e == m[t][i]
    <3>1. m2[t][i] = e /\ lev2[t] = lev[t] /\ EntryOK(e, lev, t, i)
      BY <1>1, <2>2 DEF Tree
    <3>2. ~InCode(t, i) => e.to \in Frames
      BY LeadsToFrame
    <3> HIDE DEF e
    <3>3. ~InCode(t, i) /\ lev[e.to] \in 1..3 => lev2[e.to] = lev[e.to]
      BY <1>7, <3>2
    <3>4. QED
      BY <3>1, <3>3 DEF EntryOK
  <2>3. QED
    BY <2>1, <2>2
<1>6. Single(m2, lev2)
  <2>1. \A t \in Frames : lev2[t] \in 2..4 => m2[t] = m[t] /\ lev[t] = lev2[t]
    BY <1>1
  <2>2. QED
    BY <2>1 DEF Tree, Single
<1>8. QED
  BY <1>1, <1>3, <1>4, <1>5, <1>6 DEF Tree, lev2

\* A freed list keeps its frames, each once.
LEMMA Reversed ==
  ASSUME NEW fs \in Seq(KernelEnd..(Limit - 1)), IsInjective(fs)
  PROVE  IsInjective(Reverse(fs) \o <<>>) /\ Range(Reverse(fs) \o <<>>) \subseteq Range(fs)
<1> DEFINE n == Len(fs)
           rs == [i \in 1..n |-> fs[(n - i) + 1]]
<1>1. n \in Nat /\ DOMAIN fs = 1..n
  OBVIOUS
<1>2. \A i \in 1..n : (n - i) + 1 \in 1..n
  BY <1>1
<1>3. rs \in Seq(KernelEnd..(Limit - 1))
  <2> DEFINE S == KernelEnd..(Limit - 1)
  <2>1. fs \in Seq(S)
    OBVIOUS
  <2> HIDE DEF S
  <2>2. \A i \in 1..n : fs[(n - i) + 1] \in S
    BY <1>2, <2>1, ElementOfSeq
  <2>3. rs \in Seq(S)
    BY <1>1, <2>2, IsASeq
  <2>4. QED
    BY <2>3 DEF S
<1>4. Reverse(fs) \o <<>> = rs
  BY <1>3, ConcatEmptySeq DEF Reverse
<1>5. IsInjective(rs) /\ Range(rs) \subseteq Range(fs)
  <2> HIDE DEF n
  <2>1. DOMAIN rs = 1..n
    OBVIOUS
  <2>2. IsInjective(rs)
    <3> SUFFICES ASSUME NEW a \in 1..n, NEW b \in 1..n, rs[a] = rs[b] PROVE a = b
      BY <2>1 DEF IsInjective
    <3>1. fs[(n - a) + 1] = fs[(n - b) + 1]
      OBVIOUS
    <3>2. (n - a) + 1 = (n - b) + 1
      BY <1>1, <1>2, <3>1 DEF IsInjective
    <3>3. QED
      BY <1>1, <3>2
  <2>3. Range(rs) \subseteq Range(fs)
    BY <1>1, <1>2 DEF Range
  <2>4. QED
    BY <2>2, <2>3
<1>6. QED
  BY <1>4, <1>5

\* The first frame of a page's large page is not above the page's own.
LEMMA ScratchBelow ==
  ASSUME NEW v \in Nat
  PROVE  Index(v, 2) * Fan <= v
<1> DEFINE q == v \div Fan
<1>1. Index(v, 2) = q % Fan
  BY DEF Index, Span
<1>2. q \in Nat /\ q * Fan <= v
  BY LayoutAssumption, SMTT(30)
<1> HIDE DEF q
<1>3. q % Fan \in Nat /\ q % Fan <= q
  BY <1>2, LayoutAssumption, SMTT(30)
<1>4. (q % Fan) * Fan <= q * Fan
  <2> DEFINE a == q % Fan
  <2>1. a \in Nat /\ a <= q
    BY <1>3
  <2> HIDE DEF a
  <2>2. a * Fan <= q * Fan
    BY <1>2, <2>1, LayoutAssumption, SMTT(30)
  <2>3. QED
    BY <2>2 DEF a
<1>5. (q % Fan) * Fan \in Nat /\ q * Fan \in Nat
  BY <1>2, <1>3, LayoutAssumption
<1>6. QED
  BY <1>1, <1>2, <1>4, <1>5

\* Frame v is the v-th of what the boot tables map.
LEMMA FrameIndex ==
  ASSUME NEW v \in Frames
  PROVE  /\ v \in Nat /\ UnderLarge(v)
         /\ Index(v, 2) * Fan + Index(v, 1) = v
<1>1. /\ v \in Nat /\ v < Large * Fan /\ Large \in Nat /\ Large <= Fan /\ Fan \in Nat \ {0}
  BY LayoutAssumption, Layout DEF Frames, Limit
<1>2. Span[1] = 1 /\ Span[2] = Fan /\ Span[3] = Fan * Fan /\ Span[4] = Fan * Fan * Fan
  BY DEF Span
<1>3. Large * Fan <= Fan * Fan /\ Fan * Fan <= Fan * Fan * Fan
  BY <1>1, SMTT(30)
<1>4. v \div (Fan * Fan) = 0 /\ v \div (Fan * Fan * Fan) = 0
  <2>1. /\ v < Fan * Fan /\ Fan * Fan \in Nat \ {0}
        /\ v < Fan * Fan * Fan /\ Fan * Fan * Fan \in Nat \ {0}
    <3>1. Fan * Fan \in Nat \ {0} /\ Fan * Fan * Fan \in Nat \ {0} /\ Large * Fan \in Nat
      BY <1>1
    <3>2. QED
      BY <1>1, <1>3, <3>1
  <2>2. \A b \in Nat \ {0} : v < b => v \div b = 0
    BY <1>1, SMTT(30)
  <2>3. QED
    BY <2>1, <2>2
<1>5. Index(v, 4) = 0 /\ Index(v, 3) = 0
  <2>1. 0 % Fan = 0
    BY <1>1
  <2>2. QED
    BY <1>2, <1>4, <2>1 DEF Index
<1>6. v \div Fan \in Nat /\ v \div Fan < Large
  BY <1>1, SMTT(30)
<1>7. Index(v, 2) = v \div Fan
  BY <1>1, <1>2, <1>6, SMTT(30) DEF Index
<1>8. Index(v, 1) = v % Fan
  <2>1. v \div 1 = v
    BY <1>1
  <2>2. QED
    BY <1>2, <2>1 DEF Index
<1>9. (v \div Fan) * Fan + (v % Fan) = v
  BY <1>1, SMTT(30)
<1>10. UnderLarge(v)
  BY <1>1, <1>5, <1>6, <1>7 DEF UnderLarge, UnderBoot
<1>11. QED
  BY <1>1, <1>7, <1>8, <1>9, <1>10

\* A page mapped and put on the list of the process's pages (sys_execve's loop
\* over a segment, sys_brk's loop).
LEMMA MappedApart ==
  ASSUME TypeInv, stage \in {"load", "brk"}, ApartInv, NEW top \in Frames, NEW v \in Nat,
         top = (IF stage = "load" THEN root ELSE proc.pml4), Harmless(v), Room(ram),
         ram' = VmMap(Taken(ram), top, v, Fresh(ram)), proc' = AddPage(proc, Fresh(ram)),
         UNCHANGED <<cr3, root, stage, caller>>
  PROVE  ApartInv'
<1> DEFINE fr == Fresh(ram)
           n == VmMap(Taken(ram), top, v, fr)
<1>1. /\ ram \in RamType /\ ram.next \in Nat /\ proc \in ProcType /\ fr \in KernelEnd..(Limit - 1)
      /\ root \in Frames /\ cr3 \in Frames /\ proc.pml4 \in Frames
      /\ proc.pages \in Seq(KernelEnd..(Limit - 1))
  <2>1. ram \in RamType /\ proc \in ProcType /\ root \in Frames /\ cr3 \in Frames
    BY DEF TypeInv
  <2>2. fr \in KernelEnd..(Limit - 1)
    BY <2>1, TakenTyped
  <2> HIDE DEF fr
  <2>3. ram.next \in Nat
    BY <2>1, Layout DEF RamType
  <2>4. proc.pml4 \in Frames /\ proc.pages \in Seq(KernelEnd..(Limit - 1))
    BY <2>1, Layout DEF ProcType, TypeInv
  <2>5. QED
    BY <2>1, <2>2, <2>3, <2>4
<1>2. \A f \in Range(proc.pages) : f \in KernelEnd..(Limit - 1) /\ f \in Frames
  BY <1>1, PagesAreFrames
<1>3. Owned /\ ram.free = <<>>
  BY DEF ApartInv, Owned
<1>4. PICK lev \in Levels : Apart(lev)
  BY DEF ApartInv
<1>5. lev[top] = 4 /\ Tree(ram.mem, ram.next, lev)
  BY <1>3, <1>4 DEF Apart, Owned
<1>6. /\ fr = ram.next /\ lev[ram.next] = 0
      /\ \E lev2 \in Levels : /\ Tree(n.mem, n.next, lev2) /\ Extends(lev2, lev, ram.next + 1)
                              /\ ram.next + 1 <= n.next /\ n.free = <<>>
                              /\ Entered(ram.mem, n.mem, lev, lev2, fr)
  BY <1>1, <1>3, <1>5, MapFresh
<1>7. PICK lev2 \in Levels : /\ Tree(ram'.mem, ram'.next, lev2) /\ Extends(lev2, lev, ram.next + 1)
                             /\ ram.next + 1 <= ram'.next /\ ram'.free = <<>>
                             /\ Entered(ram.mem, ram'.mem, lev, lev2, fr)
  BY <1>6
<1>8. /\ \A f \in Frames : lev[f] # 0 => lev2[f] = lev[f]
      /\ \A f \in Frames : f < ram.next => lev2[f] = lev[f]
  BY <1>1, <1>5, <1>7, Kept
<1>9. lev2[fr] = 0 /\ fr \in Frames /\ fr < ram'.next /\ ram'.next \in Int
  <2>1. fr \in Frames
    BY <1>1, Layout
  <2>2. Taken(ram) \in RamType
    BY <1>1, TakenTyped
  <2>3. ram' \in RamType
    BY <2>1, <2>2, VmMapTyped
  <2>4. ram'.next \in Nat
    BY <2>3, Layout DEF RamType
  <2>5. QED
    BY <1>1, <1>6, <1>7, <2>1, <2>4 DEF Extends
<1>10. \A f \in Range(proc.pages) : f < ram.next /\ lev[f] \in {0, 4}
  BY <1>4 DEF Apart
<1>11. fr \notin Range(proc.pages)
  BY <1>1, <1>6, <1>10
<1>12. /\ IsInjective(proc'.pages) /\ Range(proc'.pages) \subseteq Range(proc.pages) \cup {fr}
       /\ proc'.pml4 = proc.pml4
       /\ Len(proc'.pages) < MaxPages =>
            Len(proc.pages) < MaxPages /\ Range(proc.pages) \cup {fr} \subseteq Range(proc'.pages)
  BY <1>1, <1>3, <1>11, AddPageOwned DEF Owned
<1> HIDE DEF fr
<1>13. Apart(lev2)'
  <2>1. lev2[cr3] = 4 /\ (proc.pml4 # 0 => lev2[proc.pml4] = 4) /\ (stage = "load" => lev2[root] = 4)
    BY <1>1, <1>4, <1>8 DEF Apart
  <2>2. ASSUME NEW f \in Range(proc'.pages) PROVE f < ram'.next /\ lev2[f] \in {0, 4}
    <3>1. CASE f = fr
      BY <1>1, <1>7, <1>8, <1>9, <3>1
    <3>2. CASE f \in Range(proc.pages)
      <4>1. f \in Frames /\ f < ram.next /\ lev[f] \in {0, 4}
        BY <1>2, <1>10, <3>2
      <4>2. lev2[f] = lev[f]
        BY <1>8, <4>1
      <4>3. f < ram'.next
        BY <1>1, <1>7, <1>9, <4>1 DEF Frames
      <4>4. QED
        BY <4>1, <4>2, <4>3
    <3>3. QED
      BY <1>12, <3>1, <3>2
  <2>3. Range(ram'.free) = {}
    BY <1>7 DEF Range
  <2>4. Len(proc'.pages) < MaxPages => Leaves(ram'.mem, lev2, Range(proc'.pages))
    <3> SUFFICES ASSUME Len(proc'.pages) < MaxPages PROVE Leaves(ram'.mem, lev2, Range(proc'.pages))
      OBVIOUS
    <3>1. Leaves(ram.mem, lev, Range(proc.pages))
      BY <1>4, <1>12 DEF Apart
    <3>2. QED
      BY <1>7, <1>9, <1>12, <3>1, LeavesEntered
  <2>5. QED
    BY <1>7, <1>12, <2>1, <2>2, <2>3, <2>4 DEF Apart
<1>14. Owned'
  <2>1. IsInjective(ram'.free)
    BY <1>7 DEF IsInjective
  <2>2. stage = "load" => root \notin Range(proc'.pages)
    <3>1. stage = "load" => lev[root] = 4 /\ root # fr
      BY <1>4, <1>6 DEF Apart
    <3>2. QED
      BY <1>3, <1>12, <3>1 DEF Owned
  <2>3. QED
    BY <1>3, <1>7, <1>12, <2>1, <2>2 DEF Owned
<1>15. QED
  BY <1>13, <1>14 DEF ApartInv

\* The last step of a load: the program's stack and the kernel's, and what the
\* process owns now (sys_execve).
LEMMA StackApart ==
  ASSUME HeapInv, TypeInv, ApartInv, LargePagesSpared, LoadStack
  PROVE  /\ ApartInv'
         /\ OthersStay(ram.mem, ram'.mem, root, StackPage)
<1>a. /\ ram \in RamType /\ ram.next \in Nat /\ ram.mem \in Memory /\ proc \in ProcType
      /\ root \in Frames /\ cr3 \in Frames /\ proc.pml4 \in Frames /\ page \in Nat
      /\ proc.pages \in Seq(KernelEnd..(Limit - 1))
  <2>1. ram \in RamType /\ proc \in ProcType /\ root \in Frames /\ cr3 \in Frames /\ page \in Nat
    BY DEF TypeInv
  <2>2. ram.next \in Nat /\ ram.mem \in Memory
    BY <2>1, Layout DEF RamType
  <2>3. proc.pml4 \in Frames /\ proc.pages \in Seq(KernelEnd..(Limit - 1))
    BY <2>1, Layout DEF ProcType, TypeInv
  <2>4. QED
    BY <2>1, <2>2, <2>3
<1>b. \A f \in Range(proc.pages) : f \in KernelEnd..(Limit - 1) /\ f \in Frames
  BY <1>a, PagesAreFrames
<1> DEFINE fr == Fresh(ram)
           p == AddPage(proc, fr)
           q == AddPage(p, root)
           r == VmMap(Taken(ram), root, StackPage, fr)
<1>1. /\ stage = "load" /\ Room(ram) /\ si \notin DOMAIN image /\ stage' = "entering"
      /\ ram' = VmMap(r, root, KStack, KStack) /\ proc' = [q EXCEPT !.pml4 = root]
      /\ UNCHANGED <<cr3, root, caller>>
  BY DEF LoadStack, load
<1>2. Owned /\ ram.free = <<>>
  BY <1>1 DEF ApartInv, Owned
<1>3. PICK lev \in Levels : Apart(lev)
  BY <1>1 DEF ApartInv
<1>4. Harmless(StackPage) /\ Harmless(KStack) /\ KStack \in Nat /\ KStack \in Frames \ {0} /\ StackPage \in Nat
  <2>1. KStack \in Nat /\ KStack \in Frames \ {0} /\ StackPage \in Nat
    BY LayoutAssumption, Layout DEF Frames
  <2>2. QED
    BY <1>1, <2>1 DEF LargePagesSpared
<1>5. lev[root] = 4 /\ Tree(ram.mem, ram.next, lev)
  BY <1>1, <1>3 DEF Apart
<1>6. /\ fr = ram.next /\ lev[ram.next] = 0
      /\ \E l \in Levels : /\ Tree(r.mem, r.next, l) /\ Extends(l, lev, ram.next + 1)
                           /\ ram.next + 1 <= r.next /\ r.free = <<>>
                           /\ Entered(ram.mem, r.mem, lev, l, fr)
      /\ OthersStay(ram.mem, r.mem, root, StackPage)
  BY <1>a, <1>1, <1>2, <1>4, <1>5, MapFresh
<1>7. PICK l \in Levels : /\ Tree(r.mem, r.next, l) /\ Extends(l, lev, ram.next + 1)
                          /\ ram.next + 1 <= r.next /\ r.free = <<>>
                          /\ Entered(ram.mem, r.mem, lev, l, fr)
  BY <1>6
<1>8. /\ \A f \in Frames : lev[f] # 0 => l[f] = lev[f]
      /\ \A f \in Frames : f < ram.next => l[f] = lev[f]
  BY <1>a, <1>5, <1>7, Kept
<1>9. /\ fr \in KernelEnd..(Limit - 1) /\ fr \in Frames /\ r \in RamType /\ r.next \in Nat
      /\ root \in KernelEnd..(Limit - 1)
  <2>1. fr \in Frames /\ fr \in KernelEnd..(Limit - 1) /\ Taken(ram) \in RamType
    BY <1>a, <1>1, TakenTyped
  <2>2. r \in RamType
    BY <1>a, <1>4, <2>1, VmMapTyped
  <2> HIDE DEF r
  <2>3. r.next \in Nat
    BY <2>2, Layout DEF RamType
  <2> HIDE DEF fr
  <2>4. root \in KernelEnd..(Limit - 1)
    BY <1>1 DEF TypeInv
  <2>5. QED
    BY <2>1, <2>2, <2>3, <2>4
<1> HIDE DEF r
<1>10. UnderLarge(KStack) => l[Index(KStack, 2) * Fan] = 0
  <2> DEFINE u == Index(KStack, 2) * Fan
  <2> SUFFICES ASSUME UnderLarge(KStack) PROVE l[u] = 0
    OBVIOUS
  <2>1. u \notin {Pml4, Pdpt, Pd} /\ ~(u \in KernelEnd..(ram.next - 1))
    BY <1>4 DEF Harmless
  <2>2. u \in Frames
    BY <1>4, IndexInTable, LargeFrame DEF UnderLarge
  <2>3. u < KernelEnd
    <3>1. u <= KStack /\ KStack < KernelEnd /\ KernelEnd \in Nat /\ KStack \in Nat
      BY <1>4, ScratchBelow, LayoutAssumption, Layout
    <3>2. u \in Nat
      BY <2>2 DEF Frames
    <3> HIDE DEF u
    <3>3. QED
      BY <3>1, <3>2
  <2>4. u \in Nat /\ KernelEnd \in Nat
    BY <2>2, Layout DEF Frames
  <2> HIDE DEF u
  <2>5. l[u] # 0 => u \in {Pml4, Pdpt, Pd} \/ u >= KernelEnd
    BY <1>7, <2>2 DEF Tree
  <2>6. QED
    BY <2>1, <2>3, <2>4, <2>5
<1>11. PICK l2 \in Levels : /\ Tree(ram'.mem, ram'.next, l2) /\ Extends(l2, l, r.next)
                            /\ r.next <= ram'.next /\ ram'.free = <<>>
                            /\ Grown(r.mem, ram'.mem, l, l2)
  <2>1. l[root] = 4
    BY <1>a, <1>5, <1>8
  <2>2. UnderLarge(KStack) /\ ~UnderCode(KStack)
    BY <1>4, FrameIndex DEF Harmless
  <2>3. QED
    BY <1>a, <1>1, <1>4, <1>7, <1>9, <1>10, <2>1, <2>2, VmMapShape
<1>12. ram' \in RamType /\ ram'.next \in Nat
  <2>1. ram' \in RamType
    BY <1>a, <1>1, <1>4, <1>9, VmMapTyped
  <2>2. QED
    BY <2>1, Layout DEF RamType
<1>13. /\ \A f \in Frames : lev[f] # 0 => l2[f] = lev[f]
       /\ \A f \in Frames : f < ram.next + 1 => l2[f] = lev[f]
  <2>1. \A f \in Frames : f < ram.next + 1 => l[f] = lev[f] /\ f < r.next
    BY <1>a, <1>7, <1>9 DEF Extends, Frames
  <2>2. \A f \in Frames : f < ram.next + 1 => l2[f] = lev[f]
    BY <1>11, <2>1 DEF Extends
  <2>3. \A f \in Frames : lev[f] # 0 => f < ram.next + 1
    BY <1>a, <1>5 DEF Tree, Frames
  <2>4. QED
    BY <2>2, <2>3
<1>14. \A f \in Range(proc.pages) : f < ram.next /\ lev[f] \in {0, 4}
  BY <1>3 DEF Apart
<1>15. fr \notin Range(proc.pages) /\ root # fr /\ root \notin Range(proc.pages)
  BY <1>a, <1>1, <1>2, <1>5, <1>6, <1>14 DEF Owned
<1>16. /\ p \in ProcType /\ IsInjective(p.pages) /\ Range(p.pages) \subseteq Range(proc.pages) \cup {fr}
       /\ Len(p.pages) < MaxPages =>
            Len(proc.pages) < MaxPages /\ Range(proc.pages) \cup {fr} \subseteq Range(p.pages)
  <2>1. Len(proc.pages) <= MaxPages
    BY DEF TypeInv
  <2>2. p \in ProcType
    BY <1>a, <1>9, <2>1, AddPageTyped
  <2>3. QED
    BY <1>a, <1>2, <1>9, <1>15, <2>2, AddPageOwned DEF Owned
<1> HIDE DEF p, fr
<1>17. /\ IsInjective(q.pages) /\ Range(q.pages) \subseteq Range(p.pages) \cup {root}
       /\ proc'.pages = q.pages /\ proc'.pml4 = root
       /\ Len(q.pages) < MaxPages => Len(p.pages) < MaxPages /\ Range(p.pages) \subseteq Range(q.pages)
  <2>1. Len(p.pages) <= MaxPages
    <3>1. Len(proc.pages) <= MaxPages
      BY DEF TypeInv
    <3>2. QED
      BY <1>a, <1>9, <3>1, AddPageTyped DEF p
  <2>2. q \in ProcType
    BY <1>9, <1>16, <2>1, AddPageTyped
  <2>3. /\ IsInjective(q.pages) /\ Range(q.pages) \subseteq Range(p.pages) \cup {root}
        /\ Len(q.pages) < MaxPages => Len(p.pages) < MaxPages /\ Range(p.pages) \subseteq Range(q.pages)
    BY <1>9, <1>15, <1>16, AddPageOwned
  <2> HIDE DEF q
  <2>4. QED
    BY <1>1, <2>2, <2>3 DEF ProcType
<1> HIDE DEF q
<1>18. Apart(l2)'
  <2>1. l2[cr3] = 4 /\ l2[root] = 4
    BY <1>a, <1>3, <1>5, <1>13 DEF Apart
  <2>2. \A f \in Range(proc'.pages) : f < ram'.next /\ l2[f] \in {0, 4}
    <3> SUFFICES ASSUME NEW f \in Range(proc'.pages) PROVE f < ram'.next /\ l2[f] \in {0, 4}
      OBVIOUS
    <3>1. f \in Range(proc.pages) \/ f = fr \/ f = root
      BY <1>16, <1>17
    <3>2. f \in Frames /\ f < ram.next + 1 /\ lev[f] \in {0, 4}
      <4>1. root < ram.next
        BY <1>a, <1>5 DEF Tree
      <4>2. QED
        BY <1>a, <1>b, <1>5, <1>6, <1>9, <1>14, <3>1, <4>1 DEF Frames
    <3>3. f < ram'.next
      BY <1>a, <1>7, <1>9, <1>11, <1>12, <3>2 DEF Frames
    <3>4. QED
      BY <1>13, <3>2, <3>3
  <2>3. Range(ram'.free) = {}
    BY <1>11 DEF Range
  <2>4. Len(proc'.pages) < MaxPages => Leaves(ram'.mem, l2, Range(proc'.pages))
    <3> SUFFICES ASSUME Len(proc'.pages) < MaxPages PROVE Leaves(ram'.mem, l2, Range(proc'.pages))
      OBVIOUS
    <3>1. Leaves(ram.mem, lev, Range(proc.pages)) /\ Range(proc.pages) \cup {fr} \subseteq Range(proc'.pages)
      BY <1>1, <1>3, <1>16, <1>17 DEF Apart
    <3>2. Leaves(r.mem, l, Range(proc'.pages))
      BY <1>7, <1>9, <3>1, LeavesEntered
    <3>3. QED
      BY <1>11, <3>2, LeavesGrown
  <2>5. QED
    BY <1>1, <1>11, <1>17, <2>1, <2>2, <2>3, <2>4 DEF Apart
<1>19. Owned'
  <2>1. IsInjective(ram'.free)
    BY <1>11 DEF IsInjective
  <2>2. root # 0
    BY <1>9, Layout
  <2>3. QED
    BY <1>1, <1>11, <1>17, <2>1, <2>2 DEF Owned
<1>20. OthersStay(ram.mem, ram'.mem, root, StackPage)
  <2>1. l[root] = 4
    BY <1>a, <1>5, <1>8
  <2>5. r.mem \in Memory
    BY <1>9 DEF RamType, Memory
  <2>6. ram'.mem \in Memory
    BY <1>12 DEF RamType, Memory
  <2> SUFFICES ASSUME NEW w \in Nat, ~SamePlace(StackPage, w), ~UnderCode(w), Translate(ram.mem, root, w) # Null
               PROVE  Translate(ram'.mem, root, w) = Translate(ram.mem, root, w)
    BY DEF OthersStay
  <2>2. Translate(r.mem, root, w) = Translate(ram.mem, root, w)
    BY <1>6 DEF OthersStay
  <2>3. Translate(ram'.mem, root, w) = Translate(r.mem, root, w)
    <3> DEFINE m == r.mem
               m2 == ram'.mem
               k == r.next
               k2 == ram'.next
    <3>1. /\ m \in Memory /\ m2 \in Memory /\ Tree(m, k, l) /\ Tree(m2, k2, l2) /\ Grown(m, m2, l, l2)
          /\ Translate(m, root, w) # Null
      BY <1>7, <1>11, <2>2, <2>5, <2>6
    <3> HIDE DEF m, m2, k, k2
    <3>2. Translate(m2, root, w) = Translate(m, root, w)
      BY <1>a, <2>1, <3>1, GrownTranslates
    <3>3. QED
      BY <3>2 DEF m, m2
  <2>4. QED
    BY <2>2, <2>3
<1>21. QED
  BY <1>18, <1>19, <1>20 DEF ApartInv

\* Every call keeps free frames, pages and tables apart.
LEMMA ApartNext ==
  HeapInv /\ TypeInv /\ ApartInv /\ LargePagesSpared /\ [Next]_vars => ApartInv'
<1> SUFFICES ASSUME HeapInv, TypeInv, ApartInv, LargePagesSpared, [Next]_vars PROVE ApartInv'
  OBVIOUS
<1>a. /\ ram \in RamType /\ ram.next \in Nat /\ ram.mem \in Memory /\ proc \in ProcType
      /\ root \in Frames /\ cr3 \in Frames /\ proc.pml4 \in Frames /\ page \in Nat
      /\ proc.pages \in Seq(KernelEnd..(Limit - 1))
  <2>1. ram \in RamType /\ proc \in ProcType /\ root \in Frames /\ cr3 \in Frames /\ page \in Nat
    BY DEF TypeInv
  <2>2. ram.next \in Nat /\ ram.mem \in Memory
    BY <2>1, Layout DEF RamType
  <2>3. proc.pml4 \in Frames /\ proc.pages \in Seq(KernelEnd..(Limit - 1))
    BY <2>1, Layout DEF ProcType, TypeInv
  <2>4. QED
    BY <2>1, <2>2, <2>3
<1>b. \A f \in Range(proc.pages) : f \in KernelEnd..(Limit - 1) /\ f \in Frames
  BY <1>a, PagesAreFrames
<1>1. ASSUME NEW im \in Images, Execve(im) PROVE ApartInv'
  <2>1. /\ stage \in {"prompt", "user"} /\ cr3' = Pml4
        /\ proc' = [proc EXCEPT !.brkStart = 0, !.brk = 0]
    BY <1>1 DEF Execve
  <2>2. /\ proc'.pages = proc.pages /\ proc'.pml4 = proc.pml4
    BY <1>a, <2>1 DEF ProcType
  <2>3. Owned /\ ram.free = <<>>
    BY <2>1 DEF ApartInv, Owned
  <2>4. PICK lev \in Levels : Apart(lev)
    BY <2>1 DEF ApartInv
  <2>5. lev[Pml4] = 4
    BY <2>4 DEF Apart, Tree, BootTables
  <2>6. CASE Room(ram) /\ ram' = Clone(ram, Pml4) /\ stage' = "load" /\ caller' = stage /\ root' = Fresh(ram)
    <3> DEFINE next == ram.next
               m == ram.mem
               m2 == ram'.mem
    <3>1. /\ Fresh(ram) = next /\ next \in KernelEnd..(Limit - 1) /\ next \in Frames
          /\ Taken(ram) = [mem |-> [m EXCEPT ![next] = Zeroed], next |-> next + 1, free |-> <<>>]
      BY <1>a, <2>3, <2>6, Layout DEF Fresh, Room, Taken, RamType
    <3>2. ram' = [Taken(ram) EXCEPT !.mem[next] = m[Pml4]]
      BY <2>6, <3>1 DEF Clone
    <3>3. /\ ram'.next = next + 1 /\ ram'.free = <<>>
          /\ \A t \in Frames : m2[t] = IF t = next THEN m[Pml4] ELSE m[t]
      BY <1>a, <3>1, <3>2 DEF Memory
    <3>11. m2 \in Memory
      BY <1>a, <2>6, CloneTyped, Layout, LayoutAssumption DEF RamType
    <3>4. PICK lev2 \in Levels :
            /\ Tree(m2, next + 1, lev2) /\ Extends(lev2, lev, next) /\ lev2[next] = 4
      <4>1. Tree(m, next, lev)
        BY <2>4 DEF Apart
      <4>2. m \in Memory /\ next \in KernelEnd..(Limit - 1)
        BY <1>a, <3>1
      <4>3. \A t \in Frames : m2[t] = IF t = next THEN m[Pml4] ELSE m[t]
        BY <3>3
      <4> DEFINE l == [lev EXCEPT ![next] = 4]
      <4> HIDE DEF m, m2, next
      <4>4. l \in Levels /\ Tree(m2, next + 1, l) /\ Extends(l, lev, next) /\ l[next] = 4
        BY <3>11, <4>1, <4>2, <4>3, TreeRoot
      <4> HIDE DEF l
      <4>5. QED
        BY <4>4
    <3>5. /\ \A f \in Frames : lev[f] # 0 => lev2[f] = lev[f]
          /\ \A f \in Frames : f < next => lev2[f] = lev[f]
      BY <1>a, <2>4, <3>4, Kept DEF Apart
    <3>6. \A f \in Range(proc.pages) : f < next /\ lev[f] \in {0, 4}
      BY <2>4 DEF Apart
    <3>7. root' = next /\ next \notin Range(proc.pages)
      BY <1>a, <2>6, <3>1, <3>6
    <3>8. Apart(lev2)'
      <4>1. lev2[cr3'] = 4
        BY <2>1, <2>5, <3>5, Layout
      <4>2. proc'.pml4 # 0 => lev2[proc'.pml4] = 4
        BY <1>a, <2>2, <2>4, <3>5 DEF Apart
      <4>3. \A f \in Range(proc'.pages) : f < ram'.next /\ lev2[f] \in {0, 4}
        BY <1>a, <1>b, <2>2, <3>3, <3>5, <3>6 DEF Frames
      <4>4. \A f \in Range(ram'.free) : FALSE
        BY <3>3 DEF Range
      <4>5. Len(proc'.pages) < MaxPages => Leaves(ram'.mem, lev2, Range(proc'.pages))
        <5>1. \A t \in Frames : lev2[t] = 1 => t < next /\ lev[t] = 1 /\ m2[t] = m[t]
          BY <1>a, <3>1, <3>3, <3>4, <3>5 DEF Tree, Frames
        <5>2. QED
          BY <2>1, <2>2, <2>4, <5>1 DEF Apart, Leaves
      <4>6. QED
        BY <3>3, <3>4, <3>7, <4>1, <4>2, <4>3, <4>4, <4>5 DEF Apart
    <3>9. Owned'
      <4>1. IsInjective(ram'.free)
        BY <3>3 DEF IsInjective
      <4>2. IsInjective(proc'.pages)
        BY <2>2, <2>3 DEF Owned
      <4>3. caller' = "user" => proc'.pml4 # 0
        BY <2>2, <2>3, <2>6 DEF Owned
      <4>4. QED
        BY <2>2, <2>6, <3>3, <3>7, <4>1, <4>2, <4>3 DEF Owned
    <3>10. QED
      BY <3>4, <3>8, <3>9 DEF ApartInv
  <2>7. CASE UNCHANGED <<ram, stage, page, load>>
    <3>1. Apart(lev)'
      BY <2>1, <2>2, <2>4, <2>5, <2>7 DEF Apart, load
    <3>2. Owned'
      BY <2>1, <2>2, <2>3, <2>7 DEF Owned, load
    <3>3. QED
      BY <3>1, <3>2 DEF ApartInv
  <2>8. QED
    BY <1>1, <2>1, <2>6, <2>7 DEF Execve
<1>2. CASE LoadPage
  <2> DEFINE v == FirstPage(image[si]) + page
  <2>1. /\ stage = "load" /\ si \in DOMAIN image /\ page < NumPages(image[si]) /\ Room(ram)
        /\ ram' = VmMap(Taken(ram), root, v, Fresh(ram)) /\ proc' = AddPage(proc, Fresh(ram))
        /\ UNCHANGED <<cr3, root, stage, caller>>
    BY <1>2 DEF LoadPage
  <2>2. v \in Nat
    <3>1. image[si] \in Segment
      BY <2>1, SegmentOf DEF HeapInv, FieldsOK
    <3>2. FirstPage(image[si]) \in Nat
      BY <3>1, Division DEF FirstPage, Segment
    <3>3. QED
      BY <1>a, <3>2
  <2>3. Harmless(v)
    BY <2>1 DEF LargePagesSpared
  <2> HIDE DEF v
  <2>4. QED
    BY <1>a, <2>1, <2>2, <2>3, MappedApart
<1>3. CASE NextSegment
  <2>1. /\ stage = "load" /\ proc' = [proc EXCEPT !.hi = Max({proc.hi, End(image[si])})]
        /\ UNCHANGED <<ram, cr3, root, stage, caller>>
    BY <1>3 DEF NextSegment, Raised
  <2>2. proc'.pages = proc.pages /\ proc'.pml4 = proc.pml4
    BY <1>a, <2>1 DEF ProcType
  <2>3. PICK lev \in Levels : Apart(lev)
    BY <2>1 DEF ApartInv
  <2>4. Apart(lev)' /\ Owned'
    BY <2>1, <2>2, <2>3 DEF Apart, ApartInv, Owned
  <2>5. QED
    BY <2>4 DEF ApartInv
<1>4. CASE LoadStack
  BY <1>4, StackApart
<1>5. CASE LoadFails
  <2>1. stage = "load" /\ stage' = caller /\ caller \in {"prompt", "user"} /\ UNCHANGED <<ram, cr3, proc, root, caller>>
    BY <1>5 DEF LoadFails, load, HeapInv, CallerOK
  <2>2. PICK lev \in Levels : Apart(lev)
    BY <2>1 DEF ApartInv
  <2>3. Apart(lev)' /\ Owned'
    BY <2>1, <2>2 DEF Apart, ApartInv, Owned
  <2>4. QED
    BY <2>3 DEF ApartInv
<1>6. CASE EnterUser
  <2>1. stage = "entering" /\ stage' = "user" /\ cr3' = root /\ UNCHANGED <<ram, proc, root, caller>>
    BY <1>6 DEF EnterUser, load
  <2>2. PICK lev \in Levels : Apart(lev)
    BY <2>1 DEF ApartInv
  <2>3. Apart(lev)' /\ Owned'
    BY <2>1, <2>2 DEF Apart, ApartInv, Owned
  <2>4. QED
    BY <2>3 DEF ApartInv
<1>7. ASSUME NEW addr \in Breaks, Brk(addr) PROVE ApartInv'
  <2>1. /\ stage = "user" /\ stage' \in {"user", "brk"} /\ cr3' = Pml4 /\ UNCHANGED <<ram, root, caller>>
    BY <1>7 DEF Brk, load
  <2>2. proc'.pages = proc.pages /\ proc'.pml4 = proc.pml4
    BY <1>7, <1>a DEF Brk, ProcType
  <2>3. PICK lev \in Levels : Apart(lev)
    BY <2>1 DEF ApartInv
  <2>4. lev[Pml4] = 4
    BY <2>3 DEF Apart, Tree, BootTables
  <2>5. Apart(lev)' /\ Owned'
    BY <2>1, <2>2, <2>3, <2>4 DEF Apart, ApartInv, Owned
  <2>6. QED
    BY <2>5 DEF ApartInv
<1>8. CASE BrkPage
  <2>1. /\ stage = "brk" /\ page < LastPage(newBrk) /\ Room(ram)
        /\ ram' = VmMap(Taken(ram), proc.pml4, page, Fresh(ram)) /\ proc' = AddPage(proc, Fresh(ram))
        /\ UNCHANGED <<cr3, root, stage, caller>>
    BY <1>8 DEF BrkPage, load
  <2>2. Harmless(page)
    BY <2>1 DEF LargePagesSpared
  <2>3. QED
    BY <1>a, <2>1, <2>2, MappedApart
<1>9. CASE BrkEnds
  <2>1. /\ stage = "brk" /\ stage' = "user" /\ UNCHANGED <<ram, cr3, root, caller>>
        /\ proc' = [proc EXCEPT !.brk = newBrk]
    BY <1>9 DEF BrkEnds, load
  <2>2. proc'.pages = proc.pages /\ proc'.pml4 = proc.pml4
    BY <1>a, <2>1 DEF ProcType
  <2>3. PICK lev \in Levels : Apart(lev)
    BY <2>1 DEF ApartInv
  <2>4. Apart(lev)' /\ Owned'
    BY <2>1, <2>2, <2>3 DEF Apart, ApartInv, Owned
  <2>5. QED
    BY <2>4 DEF ApartInv
<1>10. CASE Exit
  <2> DEFINE fs == Range(proc.pages)
             m == ram.mem
             m2 == ram'.mem
  <2>1. /\ stage = "user" /\ stage' = "back" /\ cr3' = Pml4 /\ UNCHANGED <<root, caller>>
        /\ ram' = FreeAll(ram, proc.pages) /\ proc' = [proc EXCEPT !.pml4 = 0, !.pages = <<>>]
    BY <1>10 DEF Exit, GivenBack, load
  <2>2. Owned /\ ram.free = <<>>
    BY <2>1 DEF ApartInv, Owned
  <2>3. PICK lev \in Levels : Apart(lev)
    BY <2>1 DEF ApartInv
  <2>4. proc'.pages = <<>> /\ proc'.pml4 = 0
    BY <1>a, <2>1 DEF ProcType
  <2>5. /\ ram'.next = ram.next /\ ram'.free = Reverse(proc.pages) \o <<>>
        /\ \A t \in Frames : t \notin fs => m2[t] = m[t]
    <3>1. \A f : Contains(proc.pages, f) => f \in fs
      BY <1>a DEF Contains, Range
    <3>2. QED
      BY <1>a, <2>1, <2>2, <3>1 DEF FreeAll, RamType, Memory
  <2>6. ram' \in RamType /\ m2 \in Memory
    <3>1. ram' \in RamType
      BY <1>a, <2>1, FreeAllTyped
    <3>2. QED
      BY <3>1 DEF RamType
  <2>7. /\ IsInjective(ram'.free) /\ Range(ram'.free) \subseteq fs
    BY <1>a, <2>2, <2>5, Reversed DEF Owned
  <2>8. \A f \in fs : f < ram.next /\ lev[f] \in {0, 4}
    BY <2>3 DEF Apart
  <2>9. PICK l \in Levels : Tree(m2, ram.next, l) /\ \A f \in fs : l[f] = 0
    <3>1. Tree(m, ram.next, lev)
      BY <2>3 DEF Apart
    <3>2. fs \in SUBSET (KernelEnd..(Limit - 1)) /\ m \in Memory /\ fs \subseteq Frames
      BY <1>a, <1>b
    <3> DEFINE l == [f \in Frames |-> IF f \in fs THEN 0 ELSE lev[f]]
    <3>3. \A t \in Frames : t \notin fs => m2[t] = m[t]
      BY <2>5
    <3> HIDE DEF fs, m, m2
    <3>4. l \in Levels /\ Tree(m2, ram.next, l)
      BY <2>6, <2>8, <3>1, <3>2, <3>3, TreeFreed
    <3>5. \A f \in fs : l[f] = 0
      BY <3>2
    <3> HIDE DEF l
    <3>6. QED
      BY <3>4, <3>5
  <2>10. Apart(l)'
    <3>1. l[Pml4] = 4
      BY <2>9 DEF Tree, BootTables
    <3>2. Range(proc'.pages) = {}
      BY <2>4 DEF Range
    <3>3. \A f \in Range(ram'.free) : f < ram'.next /\ l[f] = 0
      BY <2>5, <2>7, <2>8, <2>9
    <3>4. QED
      BY <2>1, <2>4, <2>5, <2>9, <3>1, <3>2, <3>3 DEF Apart
  <2>11. Owned'
    <3>1. IsInjective(proc'.pages)
      BY <2>4 DEF IsInjective
    <3>2. QED
      BY <2>1, <2>4, <2>7, <3>1 DEF Owned
  <2>12. QED
    BY <2>10, <2>11 DEF ApartInv
<1>11. CASE AfterEnter
  BY <1>11 DEF AfterEnter, ApartInv
<1>12. CASE UNCHANGED vars
  BY <1>12 DEF vars, load, ApartInv, Owned, Apart
<1>13. QED
  BY <1>1, <1>2, <1>3, <1>4, <1>5, <1>6, <1>7, <1>8, <1>9, <1>10, <1>11, <1>12 DEF Next

\* The tables found from the first have levels.
LEMMA TablesHaveLevels ==
  ASSUME TypeInv, NEW lev \in Levels, Apart(lev)
  PROVE  \A f \in Tables : f \in Frames /\ lev[f] \in 1..3
<1> DEFINE m == ram.mem
           row(t) == {m[t][i] : i \in {i \in Idx : ~InCode(t, i)}}
           entries(ts) == (UNION {row(t) : t \in ts}) \ {Absent}
           next(ts) == {e.to : e \in {e \in entries(ts) : ~e.ps}}
           At(k) == {f \in Frames : lev[f] = k}
<1>1. m \in Memory /\ Tree(m, ram.next, lev)
  BY DEF TypeInv, RamType, Apart
<1> HIDE DEF m
<1>2. ASSUME NEW k \in 2..4, NEW ts \in SUBSET At(k) PROVE next(ts) \subseteq At(k - 1)
  <2> SUFFICES ASSUME NEW f \in next(ts) PROVE f \in At(k - 1)
    OBVIOUS
  <2>1. PICK e \in entries(ts) : ~e.ps /\ f = e.to
    <3> HIDE DEF entries
    <3>1. QED
      OBVIOUS
  <2>2. PICK t \in ts : e \in row(t) /\ e # Absent
    <3> HIDE DEF row
    <3>1. e \in UNION {row(t) : t \in ts} /\ e # Absent
      BY <2>1
    <3>2. QED
      BY <3>1
  <2>3. t \in Frames /\ lev[t] = k
    OBVIOUS
  <2>4. PICK i \in Idx : e = m[t][i] /\ ~InCode(t, i)
    BY <2>2
  <2>5. e.to \in Frames /\ EntryOK(e, lev, t, i)
    BY <1>1, <2>3, <2>4, LeadsToFrame DEF Tree
  <2>6. QED
    BY <2>1, <2>2, <2>3, <2>4, <2>5 DEF EntryOK
<1>3. Roots \subseteq At(4)
  <2>1. Pml4 \in At(4) /\ cr3 \in At(4) /\ (proc.pml4 # 0 => proc.pml4 \in At(4))
        /\ (stage \in {"load", "entering"} => root \in At(4))
    BY <1>1, Layout DEF Tree, BootTables, Apart, TypeInv, ProcType
  <2> HIDE DEF At
  <2>2. QED
    BY <2>1 DEF Roots
<1>4. Tables = next(Roots) \cup next(next(Roots)) \cup next(next(next(Roots)))
  BY Zenon DEF Tables, m
<1> HIDE DEF next
<1>5. next(Roots) \subseteq At(3)
  <2>1. 4 \in 2..4 /\ 4 - 1 = 3
    OBVIOUS
  <2> HIDE DEF At
  <2>2. QED
    BY <1>2, <1>3, <2>1
<1>6. next(next(Roots)) \subseteq At(2)
  <2>1. 3 \in 2..4 /\ 3 - 1 = 2
    OBVIOUS
  <2> HIDE DEF At
  <2>2. QED
    BY <1>2, <1>5, <2>1
<1>7. next(next(next(Roots))) \subseteq At(1)
  <2>1. 2 \in 2..4 /\ 2 - 1 = 1
    OBVIOUS
  <2> HIDE DEF At
  <2>2. QED
    BY <1>2, <1>6, <2>1
<1>8. QED
  BY <1>4, <1>5, <1>6, <1>7

\* So a frame is free, or a page, or a table.
LEMMA ApartInvFrames == TypeInv /\ ApartInv => FramesApart
<1> SUFFICES ASSUME TypeInv, ApartInv, stage # "lost"
             PROVE  /\ IsInjective(proc.pages) /\ IsInjective(ram.free)
                    /\ Range(proc.pages) \cap Range(ram.free) = {}
                    /\ Tables \cap (Range(proc.pages) \cup Range(ram.free)) = {}
                    /\ \A f \in Range(proc.pages) \cup Range(ram.free) \cup Tables : f < ram.next
                    /\ proc.pml4 # 0 => proc.pml4 \notin Range(ram.free) \cup Tables
  BY DEF FramesApart
<1>1. Owned
  BY DEF ApartInv
<1>2. PICK lev \in Levels : Apart(lev)
  BY DEF ApartInv
<1>3. \A f \in Tables : f \in Frames /\ lev[f] \in 1..3
  BY <1>2, TablesHaveLevels
<1>4. \A f \in Tables : f < ram.next
  BY <1>2, <1>3 DEF Apart, Tree
<1>5. /\ \A f \in Range(proc.pages) : f < ram.next /\ lev[f] \in {0, 4}
      /\ \A f \in Range(ram.free) : f < ram.next /\ lev[f] = 0
      /\ proc.pml4 # 0 => lev[proc.pml4] = 4
  BY <1>2 DEF Apart
<1>6. Range(proc.pages) \cap Range(ram.free) = {}
  <2>1. CASE stage = "back"
    BY <1>1, <2>1 DEF Owned, Range
  <2>2. CASE stage # "back"
    BY <1>1, <2>2 DEF Owned, Range
  <2>3. QED
    BY <2>1, <2>2
<1>7. Tables \cap (Range(proc.pages) \cup Range(ram.free)) = {}
  <2>1. \A f \in Tables : lev[f] # 0 /\ lev[f] # 4
    BY <1>3
  <2>2. QED
    BY <1>5, <2>1
<1>8. proc.pml4 # 0 => proc.pml4 \notin Range(ram.free) \cup Tables
  <2>1. \A f \in Tables : lev[f] # 4
    BY <1>3
  <2>2. QED
    BY <1>5, <2>1
<1>9. QED
  BY <1>1, <1>4, <1>5, <1>6, <1>7, <1>8 DEF Owned

\* Every table of the first level leads to the boot tables' large pages.
LEMMA ApartInvKernel == TypeInv /\ ApartInv => KernelStays
<1> SUFFICES ASSUME TypeInv, ApartInv, stage # "lost" PROVE KernelStays
  BY DEF KernelStays
<1>1. PICK lev \in Levels : Apart(lev)
  BY DEF ApartInv
<1>2. Tree(ram.mem, ram.next, lev)
  BY <1>1 DEF Apart
<1>3. ASSUME NEW top \in {cr3} \cup ({proc.pml4} \ {0}), NEW v \in Frames
      PROVE  Translate(ram.mem, top, v) = v
  <2>1. lev[top] = 4 /\ top \in Frames
    BY <1>1 DEF Apart, TypeInv, ProcType
  <2>2. v \in Nat /\ UnderLarge(v) /\ Index(v, 2) * Fan + Index(v, 1) = v
    BY FrameIndex
  <2>3. QED
    BY <1>2, <2>1, <2>2, LargeTranslates
<1>4. ASSUME NEW i \in DOMAIN Code PROVE ram.mem[Pd][i] = Code[i]
  <2>1. i \in Idx /\ ~(i < Large)
    BY CodeAssumption, LayoutAssumption DEF Idx
  <2>2. QED
    BY <1>2, <2>1 DEF Tree, BootTables
<1>5. QED
  BY <1>3, <1>4 DEF KernelStays

\* Nothing that is looked at is under the page directory of the boot tables.
PagesBeyond ==
  \A v \in PagesOf(running) \cup {StackPage} \cup HeapPages : ~UnderBoot(v)

\* Pages are numbers.
LEMMA SegmentNumbers ==
  ASSUME NEW im \in Seq(Segment), NEW i \in DOMAIN im
  PROVE  FirstPage(im[i]) \in Nat /\ NumPages(im[i]) \in Nat
<1> DEFINE a == im[i].vaddr
           z == im[i].memsz
<1>1. a \in Nat /\ z \in Nat
  BY SegmentOf
<1> HIDE DEF a, z
<1>2. a \div PageSize \in Nat /\ a % PageSize \in Nat
  <2>1. a \div PageSize \in Nat /\ a % PageSize \in 0..(PageSize - 1)
    BY <1>1, Division
  <2>2. QED
    BY <2>1, LayoutAssumption
<1>3. z + (a % PageSize) \in Nat
  BY <1>1, <1>2
<1>4. PageUp(z + (a % PageSize)) \in Nat
  BY <1>3, RoundsUp
<1>5. QED
  BY <1>2, <1>4 DEF FirstPage, NumPages, a, z

LEMMA PageNumbers ==
  ASSUME NEW im \in Seq(Segment), NEW v \in PagesOf(im)
  PROVE  v \in Nat
<1>1. PICK i \in DOMAIN im : v \in SegPages(im[i])
  BY DEF PagesOf
<1>2. FirstPage(im[i]) \in Nat /\ NumPages(im[i]) \in Nat
  BY SegmentNumbers
<1>3. QED
  BY <1>1, <1>2 DEF SegPages

LEMMA HeapNumbers ==
  ASSUME TypeInv, NEW v \in HeapPages
  PROVE  v \in Nat
<1>1. proc.brkStart \in Nat /\ proc.brk \in Nat
  BY DEF TypeInv, ProcType
<1>2. proc.brkStart \div PageSize \in Nat /\ PageUp(proc.brk) \in Nat
  BY <1>1, Division, RoundsUp
<1>3. QED
  BY <1>2 DEF HeapPages

\* What a program can see is on the list.
LEMMA ApartInvExit == HeapInv /\ TypeInv /\ ApartInv => (PagesBeyond => ExitGivesBack)
<1> SUFFICES ASSUME HeapInv, TypeInv, ApartInv, PagesBeyond, stage = "user", Len(proc.pages) < MaxPages,
                    NEW v \in PagesOf(running) \cup {StackPage} \cup HeapPages,
                    Translate(ram.mem, proc.pml4, v) # Null
             PROVE  Translate(ram.mem, proc.pml4, v) \in Range(proc.pages)
  BY DEF ExitGivesBack
<1>1. PICK lev \in Levels : Apart(lev)
  BY DEF ApartInv
<1>2. /\ Tree(ram.mem, ram.next, lev) /\ lev[proc.pml4] = 4 /\ proc.pml4 \in Frames /\ ram.mem \in Memory
      /\ Leaves(ram.mem, lev, Range(proc.pages))
  BY <1>1 DEF Apart, ApartInv, Owned, TypeInv, ProcType, RamType
<1>3. v \in Nat /\ ~UnderBoot(v)
  <2>1. running \in Seq(Segment)
    BY DEF HeapInv, FieldsOK
  <2>2. QED
    BY <2>1, PageNumbers, HeapNumbers, LayoutAssumption DEF PagesBeyond
<1>4. PICK t3, t2, t1 \in Frames : Path(ram.mem, lev, proc.pml4, v, t3, t2, t1)
  BY <1>2, <1>3, PathFound
<1>5. Translate(ram.mem, proc.pml4, v) = ram.mem[t1][Index(v, 1)].to /\ ram.mem[t1][Index(v, 1)] # Absent
  BY <1>4, PathTranslates
<1>6. QED
  BY <1>2, <1>3, <1>4, <1>5, IndexInTable DEF Leaves, Path

-----------------------------------------------------------------------------
\* What is mapped for a program: its heap below the break, and its image.

\* One page of a load or of brk.
LEMMA PageMapped ==
  ASSUME TypeInv, stage \in {"load", "brk"}, ApartInv, NEW top \in Frames, NEW v \in Nat,
         top = (IF stage = "load" THEN root ELSE proc.pml4), Harmless(v), Room(ram),
         ram' = VmMap(Taken(ram), top, v, Fresh(ram))
  PROVE  /\ Fresh(ram) \in Frames
         /\ Mapped(ram', top, v, Fresh(ram)) /\ OthersStay(ram.mem, ram'.mem, top, v)
         /\ \A w \in Nat : ~UnderCode(w) /\ Translate(ram.mem, top, w) # Null
                            => Translate(ram'.mem, top, w) # Null
<1> DEFINE fr == Fresh(ram)
           n == VmMap(Taken(ram), top, v, fr)
<1>1. ram \in RamType /\ fr \in Frames \ {0} /\ Taken(ram) \in RamType
  BY TakenTyped, Layout DEF TypeInv
<1>2. ram.free = <<>>
  BY DEF ApartInv, Owned
<1>3. PICK lev \in Levels : Apart(lev)
  BY DEF ApartInv
<1>4. lev[top] = 4 /\ Tree(ram.mem, ram.next, lev)
  BY <1>3 DEF Apart, ApartInv, Owned
<1>5. /\ Mapped(n, top, v, fr) /\ OthersStay(ram.mem, n.mem, top, v)
      /\ \E lev2 \in Levels : Tree(n.mem, n.next, lev2) /\ Entered(ram.mem, n.mem, lev, lev2, fr)
  BY <1>1, <1>2, <1>4, MapFresh
<1>6. ram.mem \in Memory /\ ram'.mem \in Memory
  <2>1. ram' \in RamType
    BY <1>1, VmMapTyped
  <2>2. QED
    BY <1>1, <2>1 DEF RamType
<1>7. ram' = n
  OBVIOUS
<1> HIDE DEF n, fr
<1>8. PICK lev2 \in Levels : Tree(n.mem, n.next, lev2) /\ Entered(ram.mem, n.mem, lev, lev2, fr)
  BY <1>5
<1>9. ASSUME NEW w \in Nat, ~UnderCode(w), Translate(ram.mem, top, w) # Null PROVE Translate(n.mem, top, w) # Null
  <2> DEFINE m == ram.mem
             m2 == n.mem
             k == ram.next
             k2 == n.next
  <2>1. /\ m \in Memory /\ m2 \in Memory /\ Tree(m, k, lev) /\ Tree(m2, k2, lev2) /\ Entered(m, m2, lev, lev2, fr)
        /\ Translate(m, top, w) # Null
    BY <1>4, <1>6, <1>7, <1>8, <1>9
  <2> HIDE DEF m, m2, k, k2
  <2>2. Translate(m2, top, w) # Null
    BY <1>1, <1>4, <1>9, <2>1, EnteredTranslates
  <2>3. QED
    BY <2>2 DEF m2
<1>10. QED
  BY <1>1, <1>5, <1>7, <1>9 DEF fr

\* The pages of the heap below page k have a frame, unless the frames have run out.
Backed(v) == (~UnderCode(v) /\ Translate(ram.mem, proc.pml4, v) # Null) \/ ~Room(ram)
BackedTo(k) == \A v \in (proc.brkStart \div PageSize)..(k - 1) : Backed(v)

\* brk has backed the heap up to the break, or up to the page it has come to.
BackedInv ==
  proc.brkStart # 0 => /\ stage = "user" => BackedTo(PageUp(proc.brk))
                       /\ stage = "brk" => BackedTo(page)

\* The address of page k is on page k, and its end is page k's beginning.
LEMMA PageAddress ==
  ASSUME NEW k \in Nat
  PROVE  (k * PageSize) \div PageSize = k /\ PageUp(k * PageSize) = k
<1>1. (k * PageSize) \div PageSize = k
  BY LayoutAssumption, SMTT(30)
<1>2. (k * PageSize + PageSize - 1) \div PageSize = k
  <2> DEFINE a == k * PageSize + PageSize - 1
             d == a \div PageSize
  <2>1. a \in Nat /\ PageSize \in Nat \ {0} /\ k * PageSize \in Nat
    BY LayoutAssumption
  <2>2. d \in Nat /\ PageSize * d <= a /\ a < PageSize * d + PageSize
    <3> HIDE DEF a
    <3>1. /\ a \div PageSize \in Nat /\ a % PageSize \in 0..(PageSize - 1)
          /\ a = PageSize * (a \div PageSize) + (a % PageSize)
      BY <2>1, Division
    <3>2. PageSize * d \in Nat
      BY <2>1, <3>1
    <3>3. QED
      BY <2>1, <3>1, <3>2
  <2> HIDE DEF d
  <2>3. PageSize * d <= PageSize * k + PageSize - 1 /\ PageSize * k + PageSize - 1 < PageSize * d + PageSize
    <3>1. k * PageSize = PageSize * k
      BY <2>1
    <3>2. QED
      BY <2>2, <3>1
  <2>4. PageSize * d < PageSize * (k + 1) /\ PageSize * k < PageSize * (d + 1)
    BY <2>1, <2>2, <2>3, Products
  <2>5. d < k + 1 /\ k < d + 1
    BY <2>2, <2>4, Multiples
  <2>6. QED
    BY <2>2, <2>5 DEF d
<1>3. QED
  BY <1>1, <1>2 DEF PageUp

\* Every call keeps the heap backed.
LEMMA BackedNext ==
  HeapInv /\ TypeInv /\ ApartInv /\ LargePagesSpared /\ BackedInv /\ [Next]_vars => BackedInv'
<1> SUFFICES ASSUME HeapInv, TypeInv, ApartInv, LargePagesSpared, BackedInv, [Next]_vars PROVE BackedInv'
  OBVIOUS
<1>a. /\ ram \in RamType /\ proc \in ProcType /\ page \in Nat
      /\ proc.pml4 \in Frames /\ proc.brkStart \in Nat /\ proc.brk \in Nat
  BY DEF TypeInv, ProcType
<1>b. stage \in {"load", "entering"} => proc.brkStart = 0
  BY DEF HeapInv, NoHeapYet
<1>1. ASSUME NEW im \in Images, Execve(im) PROVE BackedInv'
  <2>1. proc'.brkStart = 0
    BY <1>1, <1>a DEF Execve, ProcType
  <2>2. QED
    BY <2>1 DEF BackedInv
<1>2. CASE LoadPage
  BY <1>2 DEF LoadPage, BackedInv
<1>3. CASE NextSegment
  BY <1>3 DEF NextSegment, BackedInv
<1>4. CASE LoadStack
  BY <1>4 DEF LoadStack, BackedInv
<1>5. CASE LoadFails
  BY <1>5, <1>b DEF LoadFails, BackedInv
<1>6. CASE EnterUser
  BY <1>6, <1>b DEF EnterUser, BackedInv
<1>7. ASSUME NEW addr \in Breaks, Brk(addr) PROVE BackedInv'
  <2> DEFINE h == IF proc.hi # 0 THEN proc.hi ELSE DefaultHi
             k == PageUp(h + Guard)
             p == IF proc.brkStart = 0 THEN [proc EXCEPT !.brkStart = k * PageSize, !.brk = k * PageSize] ELSE proc
  <2>1. /\ stage = "user" /\ ram' = ram /\ proc' = p
        /\ \/ stage' = "user"
           \/ stage' = "brk" /\ page' = PageUp(p.brk)
    BY <1>7 DEF Brk, load
  <2>2. k \in Nat
    <3>1. h + Guard \in Nat
      BY <1>a, LayoutAssumption DEF ProcType
    <3> HIDE DEF h
    <3>2. QED
      BY <3>1, RoundsUp
  <2>3. CASE proc.brkStart = 0
    <3>1. proc'.brkStart = k * PageSize /\ proc'.brk = k * PageSize /\ p.brk = k * PageSize
      BY <1>a, <2>1, <2>3 DEF ProcType
    <3> HIDE DEF k, p
    <3>2. proc'.brkStart \div PageSize = k /\ PageUp(proc'.brk) = k /\ PageUp(p.brk) = k
      BY <2>2, <3>1, PageAddress
    <3>3. k..(k - 1) = {}
      BY <2>2
    <3>4. QED
      BY <2>1, <3>2, <3>3 DEF BackedInv, BackedTo
  <2>4. CASE proc.brkStart # 0
    <3>1. proc' = proc /\ p = proc
      BY <2>1, <2>4
    <3>2. BackedTo(PageUp(proc.brk))
      BY <2>1, <2>4 DEF BackedInv
    <3> HIDE DEF p
    <3>3. QED
      BY <2>1, <3>1, <3>2 DEF BackedInv, BackedTo, Backed
  <2>5. QED
    BY <2>3, <2>4
<1>8. CASE BrkPage
  <2>1. /\ stage = "brk" /\ page < LastPage(newBrk) /\ stage' = "brk" /\ Room(ram)
        /\ ram' = VmMap(Taken(ram), proc.pml4, page, Fresh(ram)) /\ proc' = AddPage(proc, Fresh(ram))
        /\ page' = page + 1
    BY <1>8 DEF BrkPage, load
  <2>2. proc'.brkStart = proc.brkStart /\ proc'.pml4 = proc.pml4
    BY <1>a, <2>1 DEF AddPage, ProcType
  <2>3. Harmless(page)
    BY <2>1 DEF LargePagesSpared
  <2>4. /\ Mapped(ram', proc.pml4, page, Fresh(ram))
        /\ \A w \in Nat : ~UnderCode(w) /\ Translate(ram.mem, proc.pml4, w) # Null
                           => Translate(ram'.mem, proc.pml4, w) # Null
    BY <1>a, <2>1, <2>3, PageMapped
  <2>5. ASSUME proc.brkStart # 0 PROVE BackedTo(page)'
    <3> DEFINE first == proc.brkStart \div PageSize
    <3>1. first \in Nat
      BY <1>a, Division
    <3>2. \A v \in first..(page - 1) : ~UnderCode(v) /\ Translate(ram.mem, proc.pml4, v) # Null
      BY <2>1, <2>5 DEF BackedInv, BackedTo, Backed
    <3> HIDE DEF first
    <3>3. ASSUME NEW v \in first..page
          PROVE  (~UnderCode(v) /\ Translate(ram'.mem, proc.pml4, v) # Null) \/ ~Room(ram')
      <4>1. CASE v = page
        BY <2>3, <2>4, <4>1 DEF Mapped, Harmless
      <4>2. CASE v # page
        <5>1. v \in Nat /\ v \in first..(page - 1)
          BY <1>a, <3>1, <4>2
        <5>2. QED
          BY <2>4, <3>2, <5>1
      <4>3. QED
        BY <4>1, <4>2
    <3>4. page' - 1 = page
      BY <1>a, <2>1
    <3>5. \A v \in first..(page' - 1) :
            (~UnderCode(v) /\ Translate(ram'.mem, proc.pml4, v) # Null) \/ ~Room(ram')
      BY <3>3, <3>4
    <3>6. QED
      BY <2>2, <3>5 DEF BackedTo, Backed, first
  <2>6. QED
    BY <2>1, <2>2, <2>5 DEF BackedInv
<1>9. CASE BrkEnds
  <2>1. /\ stage = "brk" /\ stage' = "user" /\ ram' = ram /\ proc' = [proc EXCEPT !.brk = newBrk]
        /\ page >= PageUp(newBrk) \/ ~Room(ram)
    BY <1>9 DEF BrkEnds, LastPage
  <2>2. proc'.brkStart = proc.brkStart /\ proc'.pml4 = proc.pml4 /\ proc'.brk = newBrk
    BY <1>a, <2>1 DEF ProcType
  <2>3. PageUp(newBrk) \in Nat /\ proc.brkStart \div PageSize \in Nat
    BY <1>a, RoundsUp, Division DEF HeapInv, FieldsOK
  <2>4. ASSUME proc.brkStart # 0
        PROVE  \A v \in (proc.brkStart \div PageSize)..(PageUp(newBrk) - 1) : Backed(v)
    <3>1. BackedTo(page)
      BY <2>1, <2>4 DEF BackedInv
    <3> DEFINE first == proc.brkStart \div PageSize
               end == PageUp(newBrk)
    <3>2. first \in Nat /\ end \in Nat /\ (page >= end \/ ~Room(ram))
      BY <2>1, <2>3
    <3>3. \A v \in first..(page - 1) : Backed(v)
      BY <3>1 DEF BackedTo
    <3> HIDE DEF first, end
    <3>4. ASSUME NEW v \in first..(end - 1) PROVE Backed(v)
      <4>1. page >= end => v \in first..(page - 1)
        BY <1>a, <3>2
      <4>2. QED
        BY <3>2, <3>3, <4>1 DEF Backed
    <3>5. QED
      BY <3>4 DEF first, end
  <2>5. QED
    BY <2>1, <2>2, <2>4 DEF BackedInv, BackedTo, Backed
<1>10. CASE Exit
  BY <1>10 DEF Exit, BackedInv
<1>11. CASE AfterEnter
  BY <1>11 DEF AfterEnter, BackedInv
<1>12. CASE UNCHANGED vars
  BY <1>12 DEF vars, load, BackedInv, BackedTo, Backed
<1>13. QED
  BY <1>1, <1>2, <1>3, <1>4, <1>5, <1>6, <1>7, <1>8, <1>9, <1>10, <1>11, <1>12 DEF Next

\* The heap is the pages up to the break.
LEMMA BackedInvHeap == BackedInv => BreakBacked
BY DEF BackedInv, BackedTo, Backed, BreakBacked, HeapPages

-----------------------------------------------------------------------------
\* An image whose pages can each have a frame of its own: no page lies in two
\* segments, the walk tells the pages apart from each other and from the stack,
\* and none is under the boot tables' page directory.  (A page in two segments is loaded twice,
\* and the second frame hides the first.)
Proper(im) ==
  /\ \A i, j \in DOMAIN im : i # j => SegPages(im[i]) \cap SegPages(im[j]) = {}
  /\ \A v, w \in PagesOf(im) : SamePlace(v, w) => v = w
  /\ \A v \in PagesOf(im) : ~UnderBoot(v) /\ ~SamePlace(StackPage, v)

\* The pages of segment i that are loaded by now.
LoadedOf(i) ==
  CASE i < si -> SegPages(image[i])
    [] i = si -> FirstPage(image[i])..(FirstPage(image[i]) + page - 1)
    [] OTHER  -> {}

Firsts == {pair[1] : pair \in loaded}

InPlace ==
  \A pair \in loaded : Translate(ram.mem, root, pair[1]) = pair[2] \/ (stage = "load" /\ ~Room(ram))

\* execve has loaded the pages up to where it is, and they are in place.
LoadedInv ==
  /\ stage \in {"load", "entering"} => loaded \subseteq Nat \X Frames /\ (Proper(image) => InPlace)
  /\ stage = "load" => /\ Firsts = UNION {LoadedOf(i) : i \in DOMAIN image}
                       /\ si \in DOMAIN image => page <= NumPages(image[si])
  /\ stage = "entering" => Firsts = PagesOf(image)

LEMMA LoadedInvPlaced == LoadedInv => (Proper(image) => ImageMapped)
BY DEF LoadedInv, ImageMapped, InPlace, Firsts

\* One more page of a segment.
LEMMA PageLoaded ==
  ASSUME HeapInv, TypeInv, ApartInv, LargePagesSpared, LoadedInv, LoadPage
  PROVE  LoadedInv'
<1> DEFINE v == FirstPage(image[si]) + page
           fr == Fresh(ram)
<1>1. /\ stage = "load" /\ stage' = "load" /\ si \in DOMAIN image /\ page < NumPages(image[si]) /\ Room(ram)
      /\ ram' = VmMap(Taken(ram), root, v, fr) /\ loaded' = loaded \cup {<<v, fr>>}
      /\ page' = page + 1 /\ UNCHANGED <<image, root, si>>
  BY DEF LoadPage
<1>2. image \in Seq(Segment) /\ page \in Nat /\ root \in Frames /\ si \in 1..(Len(image) + 1) /\ ram \in RamType
  BY <1>1 DEF HeapInv, FieldsOK, TypeInv
<1>3. FirstPage(image[si]) \in Nat /\ NumPages(image[si]) \in Nat
  BY <1>1, <1>2, SegmentNumbers
<1>4. v \in Nat
  BY <1>2, <1>3
<1>5. v \in SegPages(image[si]) /\ v \in PagesOf(image)
  <2>1. v \in SegPages(image[si])
    BY <1>1, <1>2, <1>3 DEF SegPages
  <2>2. QED
    BY <1>1, <2>1 DEF PagesOf
<1>6. Harmless(v)
  BY <1>1 DEF LargePagesSpared
<1>7. fr \in Frames /\ Mapped(ram', root, v, fr) /\ OthersStay(ram.mem, ram'.mem, root, v)
  BY <1>1, <1>2, <1>4, <1>6, PageMapped
<1>8. /\ loaded \subseteq Nat \X Frames /\ (Proper(image) => InPlace)
      /\ Firsts = UNION {LoadedOf(i) : i \in DOMAIN image}
  BY <1>1 DEF LoadedInv
<1>9. loaded' \subseteq Nat \X Frames
  BY <1>1, <1>4, <1>7, <1>8
<1>10. /\ LoadedOf(si)' = LoadedOf(si) \cup {v} /\ v \notin LoadedOf(si) /\ LoadedOf(si) \subseteq SegPages(image[si])
       /\ \A i \in DOMAIN image : i # si => LoadedOf(i)' = LoadedOf(i) /\ LoadedOf(i) \subseteq SegPages(image[i])
  <2> DEFINE first == FirstPage(image[si])
  <2>1. LoadedOf(si)' = first..(first + (page + 1) - 1) /\ LoadedOf(si) = first..(first + page - 1)
    BY <1>1, <1>2 DEF LoadedOf
  <2>2. SegPages(image[si]) = first..(first + NumPages(image[si]) - 1)
    BY DEF SegPages
  <2>3. \A i \in DOMAIN image : i # si => LoadedOf(i)' = LoadedOf(i) /\ LoadedOf(i) \subseteq SegPages(image[i])
    BY <1>1, <1>2 DEF LoadedOf
  <2> HIDE DEF first
  <2>4. first \in Nat /\ v = first + page
    BY <1>3 DEF first
  <2>5. PICK num \in Nat : num = NumPages(image[si]) /\ page \in Nat /\ page < num
    BY <1>1, <1>2, <1>3
  <2> HIDE DEF v
  <2>6. LoadedOf(si)' = LoadedOf(si) \cup {v}
    BY <2>1, <2>4, <2>5
  <2>7. v \notin LoadedOf(si)
    BY <2>1, <2>4, <2>5
  <2>8. LoadedOf(si) \subseteq SegPages(image[si])
    BY <2>1, <2>2, <2>4, <2>5
  <2>9. QED
    BY <2>3, <2>6, <2>7, <2>8
<1> HIDE DEF v, fr
<1>11. Firsts' = Firsts \cup {v}
  <2> DEFINE new == loaded \cup {<<v, fr>>}
  <2>1. Firsts' = {pair[1] : pair \in new}
    BY <1>1 DEF Firsts
  <2>2. ASSUME NEW x PROVE x \in {pair[1] : pair \in new} <=> x \in {pair[1] : pair \in loaded} \cup {v}
    <3>1. x \in {pair[1] : pair \in new} <=> \E pair \in new : x = pair[1]
      OBVIOUS
    <3>2. x \in {pair[1] : pair \in loaded} <=> \E pair \in loaded : x = pair[1]
      OBVIOUS
    <3>3. (\E pair \in new : x = pair[1]) <=> (\E pair \in loaded : x = pair[1]) \/ x = <<v, fr>>[1]
      <4> DEFINE q == <<v, fr>>
      <4>1. new = loaded \cup {q}
        OBVIOUS
      <4> HIDE DEF q, new
      <4>2. (\E pair \in new : x = pair[1]) <=> (\E pair \in loaded : x = pair[1]) \/ x = q[1]
        BY <4>1
      <4>3. QED
        BY <4>2 DEF q
    <3>4. QED
      BY <3>1, <3>2, <3>3
  <2>3. QED
    BY <2>1, <2>2 DEF Firsts
<1>12. Firsts' = (UNION {LoadedOf(i) : i \in DOMAIN image})'
  <2>1. ASSUME NEW x PROVE x \in Firsts' <=> \E i \in DOMAIN image : x \in LoadedOf(i)'
    <3>1. x \in Firsts' <=> x = v \/ \E i \in DOMAIN image : x \in LoadedOf(i)
      BY <1>8, <1>11
    <3>2. QED
      BY <1>1, <1>10, <3>1
  <2>2. DOMAIN image' = DOMAIN image
    BY <1>1
  <2>3. QED
    BY <2>1, <2>2
<1>13. ASSUME Proper(image) PROVE InPlace'
  <2>1. InPlace
    BY <1>8, <1>13
  <2> SUFFICES ASSUME NEW pair \in loaded' PROVE Translate(ram'.mem, root, pair[1]) = pair[2] \/ ~Room(ram')
    BY <1>1 DEF InPlace
  <2>2. CASE pair = <<v, fr>>
    <3>1. ~UnderBoot(v)
      BY <1>5, <1>13 DEF Proper
    <3>2. QED
      BY <1>7, <2>2, <3>1 DEF Mapped
  <2>3. CASE pair \in loaded
    <3>1. pair[1] \in Nat /\ pair[2] \in Frames /\ Translate(ram.mem, root, pair[1]) = pair[2]
      BY <1>1, <1>8, <2>1, <2>3 DEF InPlace
    <3>2. pair[1] \in Firsts
      BY <2>3 DEF Firsts
    <3>3. PICK i \in DOMAIN image : pair[1] \in LoadedOf(i)
      BY <1>8, <3>2
    <3>4. pair[1] # v
      <4>1. CASE i = si
        BY <1>10, <3>3, <4>1
      <4>2. CASE i # si
        <5>1. SegPages(image[i]) \cap SegPages(image[si]) = {}
          BY <1>1, <1>13, <4>2 DEF Proper
        <5>2. QED
          BY <1>5, <1>10, <3>3, <4>2, <5>1
      <4>3. QED
        BY <4>1, <4>2
    <3>5. pair[1] \in PagesOf(image)
      BY <1>1, <1>10, <3>3 DEF PagesOf
    <3>6. ~SamePlace(v, pair[1])
      BY <1>5, <1>13, <3>4, <3>5 DEF Proper
    <3>7. ~UnderCode(pair[1])
      BY <1>13, <3>5 DEF Proper, UnderCode
    <3>8. QED
      BY <1>7, <3>1, <3>6, <3>7, FrameNotNull DEF OthersStay
  <2>4. QED
    BY <1>1, <2>2, <2>3
<1>14. page' <= NumPages(image[si])
  BY <1>1, <1>2, <1>3
<1>15. Proper(image)' => InPlace'
  BY <1>1, <1>13 DEF Proper, PagesOf
<1>16. QED
  BY <1>1, <1>9, <1>12, <1>14, <1>15 DEF LoadedInv

\* Every call keeps the pages in place.
LEMMA LoadedNext ==
  HeapInv /\ TypeInv /\ ApartInv /\ LargePagesSpared /\ LoadedInv /\ [Next]_vars => LoadedInv'
<1> SUFFICES ASSUME HeapInv, TypeInv, ApartInv, LargePagesSpared, LoadedInv, [Next]_vars PROVE LoadedInv'
  OBVIOUS
<1>a. caller \in {"prompt", "user"}
  BY DEF HeapInv, CallerOK
<1>1. ASSUME NEW im \in Images, Execve(im) PROVE LoadedInv'
  <2>1. CASE stage' = "load"
    <3>1. image' = im /\ si' = 1 /\ page' = 0 /\ loaded' = {} /\ im \in Seq(Segment)
      BY <1>1, <2>1, ImagesAssumption DEF Execve
    <3>2. ASSUME NEW i \in DOMAIN im PROVE LoadedOf(i)' = {} /\ NumPages(im[i]) \in Nat
      <4>1. FirstPage(im[i]) \in Nat /\ NumPages(im[i]) \in Nat /\ i \in Nat /\ i >= 1
        BY <3>1, SegmentNumbers
      <4>2. CASE i = 1
        <5>1. LoadedOf(i)' = FirstPage(im[i])..(FirstPage(im[i]) + 0 - 1)
          BY <3>1, <4>2 DEF LoadedOf
        <5>2. QED
          BY <4>1, <5>1
      <4>3. CASE i # 1
        BY <3>1, <4>1, <4>3 DEF LoadedOf
      <4>4. QED
        BY <4>2, <4>3
    <3>3. Firsts' = {}
      BY <3>1 DEF Firsts
    <3>4. UNION {LoadedOf(i)' : i \in DOMAIN im} = {}
      BY <3>2
    <3>5. 1 \in DOMAIN im => 0 <= NumPages(im[1])
      BY <3>2
    <3>6. InPlace'
      BY <3>1 DEF InPlace
    <3>7. QED
      BY <2>1, <3>1, <3>3, <3>4, <3>5, <3>6 DEF LoadedInv
  <2>2. CASE stage' # "load"
    BY <1>1, <2>2 DEF Execve, LoadedInv
  <2>3. QED
    BY <2>1, <2>2
<1>2. CASE LoadPage
  BY <1>2, PageLoaded
<1>3. CASE NextSegment
  <2>1. /\ stage = "load" /\ stage' = "load" /\ si \in DOMAIN image /\ page = NumPages(image[si])
        /\ si' = si + 1 /\ page' = 0 /\ UNCHANGED <<ram, image, root, loaded>>
    BY <1>3 DEF NextSegment
  <2>2. image \in Seq(Segment) /\ si \in Nat
    BY DEF HeapInv, FieldsOK
  <2>3. ASSUME NEW i \in DOMAIN image PROVE LoadedOf(i)' = LoadedOf(i) /\ NumPages(image[i]) \in Nat
    <3>1. FirstPage(image[i]) \in Nat /\ NumPages(image[i]) \in Nat /\ i \in Nat
      BY <2>2, SegmentNumbers
    <3>2. CASE i < si
      BY <2>1, <2>2, <3>1, <3>2 DEF LoadedOf
    <3>3. CASE i = si
      BY <2>1, <2>2, <3>1, <3>3 DEF LoadedOf, SegPages
    <3>4. CASE i = si + 1
      <4>1. LoadedOf(i)' = FirstPage(image[i])..(FirstPage(image[i]) + 0 - 1)
        BY <2>1, <2>2, <3>4 DEF LoadedOf
      <4>2. LoadedOf(i) = {}
        BY <2>2, <3>4 DEF LoadedOf
      <4>3. QED
        BY <3>1, <4>1, <4>2
    <3>5. CASE i > si + 1
      BY <2>1, <2>2, <3>1, <3>5 DEF LoadedOf
    <3>6. QED
      BY <2>2, <3>1, <3>2, <3>3, <3>4, <3>5
  <2>4. (UNION {LoadedOf(i) : i \in DOMAIN image})' = UNION {LoadedOf(i) : i \in DOMAIN image}
    BY <2>1, <2>3
  <2>5. si' \in DOMAIN image => 0 <= NumPages(image[si'])
    BY <2>3
  <2>6. Firsts' = Firsts /\ InPlace' = InPlace /\ Proper(image)' = Proper(image)
    BY <2>1 DEF Firsts, InPlace, Proper, PagesOf
  <2>7. QED
    BY <2>1, <2>4, <2>5, <2>6 DEF LoadedInv
<1>4. CASE LoadStack
  <2>1. /\ stage = "load" /\ stage' = "entering" /\ si \notin DOMAIN image /\ Room(ram)
        /\ UNCHANGED <<image, root, si, page, loaded>>
    BY <1>4 DEF LoadStack, load
  <2>2. image \in Seq(Segment) /\ si \in 1..(Len(image) + 1)
    BY <2>1 DEF HeapInv, FieldsOK
  <2>3. OthersStay(ram.mem, ram'.mem, root, StackPage)
    BY <1>4, StackApart
  <2>4. Firsts = PagesOf(image)
    <3>1. Firsts = UNION {LoadedOf(i) : i \in DOMAIN image}
      BY <2>1 DEF LoadedInv
    <3>2. \A i \in DOMAIN image : LoadedOf(i) = SegPages(image[i])
      BY <2>1, <2>2 DEF LoadedOf
    <3>3. QED
      BY <3>1, <3>2 DEF PagesOf
  <2>5. loaded \subseteq Nat \X Frames
    BY <2>1 DEF LoadedInv
  <2>6. ASSUME Proper(image) PROVE InPlace'
    <3> SUFFICES ASSUME NEW pair \in loaded PROVE Translate(ram'.mem, root, pair[1]) = pair[2]
      BY <2>1 DEF InPlace
    <3>1. Translate(ram.mem, root, pair[1]) = pair[2] /\ pair[1] \in Nat /\ pair[2] \in Frames
      BY <2>1, <2>5, <2>6 DEF LoadedInv, InPlace
    <3>2. pair[1] \in PagesOf(image)
      BY <2>4 DEF Firsts
    <3>3. ~SamePlace(StackPage, pair[1]) /\ ~UnderCode(pair[1])
      BY <2>6, <3>2 DEF Proper, UnderCode
    <3>4. QED
      BY <2>3, <3>1, <3>3, FrameNotNull DEF OthersStay
  <2>7. Firsts' = Firsts /\ Proper(image)' = Proper(image) /\ PagesOf(image)' = PagesOf(image)
    BY <2>1 DEF Firsts, Proper, PagesOf
  <2>8. QED
    BY <2>1, <2>4, <2>5, <2>6, <2>7 DEF LoadedInv
<1>5. CASE LoadFails
  BY <1>5, <1>a DEF LoadFails, LoadedInv
<1>6. CASE EnterUser
  BY <1>6 DEF EnterUser, LoadedInv
<1>7. ASSUME NEW addr \in Breaks, Brk(addr) PROVE LoadedInv'
  BY <1>7 DEF Brk, LoadedInv
<1>8. CASE BrkPage
  BY <1>8 DEF BrkPage, LoadedInv
<1>9. CASE BrkEnds
  BY <1>9 DEF BrkEnds, LoadedInv
<1>10. CASE Exit
  BY <1>10 DEF Exit, LoadedInv
<1>11. CASE AfterEnter
  BY <1>11 DEF AfterEnter, LoadedInv
<1>12. CASE UNCHANGED vars
  BY <1>12 DEF vars, load, LoadedInv, Firsts, InPlace, LoadedOf
<1>13. QED
  BY <1>1, <1>2, <1>3, <1>4, <1>5, <1>6, <1>7, <1>8, <1>9, <1>10, <1>11, <1>12 DEF Next

-----------------------------------------------------------------------------
\* The invariants together.
AllInv == HeapInv /\ TypeInv /\ ApartInv /\ BackedInv /\ LoadedInv

LEMMA AllAlways == Spec /\ []LargePagesSpared => []AllInv
<1>1. Init => AllInv
  BY HeapInvInit, TypeInvInit, ApartInit DEF AllInv, Init, BackedInv, LoadedInv
<1>2. AllInv /\ LargePagesSpared /\ [Next]_vars => AllInv'
  BY HeapInvNext, TypeInvNext, ApartNext, BackedNext, LoadedNext DEF AllInv
<1>3. QED
  BY <1>1, <1>2, PTL DEF Spec

\* A frame is free, or a page of the process, or a table, only one of them and
\* once, through every order of execve, brk and exit that succeed or fail, for
\* any sizes and images, as long as the large pages are spared
\* (pmm_alloc_page, vm_map_page_pml4, sys_exit).
THEOREM FramesKeptApart == Spec /\ []LargePagesSpared => []FramesApart
<1>1. AllInv => FramesApart
  BY ApartInvFrames DEF AllInv
<1>2. QED
  BY <1>1, AllAlways, PTL

\* The kernel's memory is mapped where it was under every table in use, again
\* as long as the large pages are spared (vm_clone_current_pml4).
THEOREM KernelMapped == Spec /\ []LargePagesSpared => []KernelStays
<1>1. AllInv => KernelStays
  BY ApartInvKernel DEF AllInv
<1>2. QED
  BY <1>1, AllAlways, PTL

\* Every page below the break has a frame whenever the program runs, unless the
\* frames have run out, through every order of growing, failing and execve
\* (sys_brk).
THEOREM HeapBacked == Spec /\ []LargePagesSpared => []BreakBacked
<1>1. AllInv => BreakBacked
  BY BackedInvHeap DEF AllInv
<1>2. QED
  BY <1>1, AllAlways, PTL

\* A program whose pages can each have a frame of their own is entered with every
\* page mapped to the frame it was loaded into (sys_execve, vm_map_page_pml4).
THEOREM ImageInPlace == Spec /\ []LargePagesSpared => [](Proper(image) => ImageMapped)
<1>1. AllInv => (Proper(image) => ImageMapped)
  BY LoadedInvPlaced DEF AllInv
<1>2. QED
  BY <1>1, AllAlways, PTL

\* An exit gives back every frame the program can see in its image, its stack and
\* its heap, as long as these are beyond the boot tables' page directory and the
\* list of its frames did not overflow (sys_exit, proc_add_allocated_page).
THEOREM ExitComplete == Spec /\ []LargePagesSpared => [](PagesBeyond => ExitGivesBack)
<1>1. AllInv => (PagesBeyond => ExitGivesBack)
  BY ApartInvExit DEF AllInv
<1>2. QED
  BY <1>1, AllAlways, PTL

-----------------------------------------------------------------------------
\* Where the large pages are spared: conditions on the programs alone.

\* A quotient is known by its remainder.
LEMMA Quotient ==
  ASSUME NEW d \in Nat \ {0}, NEW q \in Nat, NEW r \in 0..(d - 1)
  PROVE  (d * q + r) \div d = q
<1> DEFINE n == d * q + r
           p == n \div d
           s == n % d
<1>1. d * q \in Nat /\ n \in Nat
  BY SMTT(30)
<1>2. p \in Nat /\ s \in 0..(d - 1) /\ n = d * p + s
  BY <1>1, SMTT(30)
<1> HIDE DEF p, s
<1>3. ~(p < q)
  <2> SUFFICES ASSUME p + 1 <= q PROVE FALSE
    BY <1>2
  <2>1. d * (p + 1) <= d * q /\ d * (p + 1) = d * p + d /\ d * p \in Nat
    BY <1>2, SMTT(30)
  <2>2. QED
    BY <1>1, <1>2, <2>1
<1>4. ~(q < p)
  <2> SUFFICES ASSUME q + 1 <= p PROVE FALSE
    BY <1>2
  <2>1. d * (q + 1) <= d * p /\ d * (q + 1) = d * q + d /\ d * p \in Nat
    BY <1>2, SMTT(30)
  <2>2. QED
    BY <1>1, <1>2, <2>1
<1>5. QED
  BY <1>2, <1>3, <1>4 DEF p

\* Division in two steps.
LEMMA QuotientTwice ==
  ASSUME NEW v \in Nat, NEW b \in Nat \ {0}, NEW c \in Nat \ {0}
  PROVE  v \div (b * c) = (v \div b) \div c
<1> DEFINE q == v \div b
           r == v % b
           s == q \div c
           t == q % c
<1>1. q \in Nat /\ r \in 0..(b - 1) /\ v = b * q + r
  BY SMTT(30)
<1>2. s \in Nat /\ t \in 0..(c - 1) /\ q = c * s + t
  BY <1>1, SMTT(30)
<1> HIDE DEF q, r, s, t
<1>3. b * c \in Nat \ {0} /\ b * t \in Nat /\ b * t <= b * (c - 1) /\ b * (c - 1) = b * c - b
  BY <1>2, SMTT(30)
<1>4. v = (b * c) * s + (b * t + r)
  <2>1. b * q = (b * c) * s + b * t
    BY <1>2, SMTT(30)
  <2>2. (b * c) * s \in Nat /\ b * q \in Nat
    BY <1>1, <1>2, <1>3, SMTT(30)
  <2>3. PICK x \in Nat, y \in Nat, z \in Nat : x = b * q /\ y = (b * c) * s /\ z = b * t
    BY <1>3, <2>2
  <2>4. x = y + z /\ v = x + r
    BY <1>1, <2>1, <2>3
  <2>5. v = y + (z + r)
    BY <1>1, <2>4
  <2>6. QED
    BY <2>3, <2>5
<1>5. b * t + r \in 0..(b * c - 1)
  <2>1. PICK x \in Nat, y \in Nat : x = b * t /\ y = b * c /\ x <= y - b
    BY <1>3
  <2>2. x + r \in 0..(y - 1)
    BY <1>1, <2>1
  <2>3. QED
    BY <2>1, <2>2
<1>6. v \div (b * c) = s
  <2> DEFINE d == b * c
             x == b * t + r
  <2>1. d \in Nat \ {0} /\ x \in 0..(d - 1) /\ v = d * s + x
    BY <1>3, <1>4, <1>5
  <2> HIDE DEF d, x
  <2>2. v \div d = s
    BY <1>2, <2>1, Quotient
  <2>3. QED
    BY <2>2 DEF d
<1>7. QED
  BY <1>6 DEF s, q

\* The four indices of a page are its number in base Fan.
LEMMA Digits ==
  ASSUME NEW v \in Nat, v < VirtualEnd
  PROVE  \E a, b \in Nat : /\ v = Fan * a + Index(v, 1) /\ a = Fan * b + Index(v, 2)
                           /\ b = Fan * Index(v, 4) + Index(v, 3)
<1> DEFINE a == v \div Fan
           b == a \div Fan
           c == b \div Fan
<1>0. Fan \in Nat \ {0} /\ Fan * Fan \in Nat \ {0} /\ Fan * Fan * Fan \in Nat \ {0}
  BY LayoutAssumption
<1>s. Span[1] = 1 /\ Span[2] = Fan /\ Span[3] = Fan * Fan /\ Span[4] = Fan * Fan * Fan
  BY DEF Span
<1>d. \A n \in Nat : n \div Fan \in Nat /\ n % Fan \in 0..(Fan - 1) /\ n = (Fan * (n \div Fan)) + (n % Fan)
  BY <1>0
<1>1. a \in Nat /\ v = (Fan * a) + (v % Fan)
  BY <1>d
<1> HIDE DEF a
<1>2. b \in Nat /\ a = (Fan * b) + (a % Fan)
  BY <1>1, <1>d
<1> HIDE DEF b
<1>3. c \in Nat /\ b = (Fan * c) + (b % Fan)
  BY <1>2, <1>d
<1>4. v \div (Fan * Fan) = b
  BY <1>0, QuotientTwice DEF a, b
<1>5. v \div (Fan * Fan * Fan) = c
  BY <1>0, <1>4, QuotientTwice DEF c
<1> HIDE DEF c
<1>6. c < Fan
  <2> DEFINE w == Fan * Fan * Fan
  <2>1. w \in Nat \ {0} /\ v < Fan * w /\ c = v \div w
    BY <1>0, <1>5, <1>s DEF VirtualEnd
  <2> HIDE DEF w
  <2>2. w * c <= v
    BY <2>1, SMTT(30)
  <2>3. w * c < w * Fan
    BY <1>0, <1>3, <2>1, <2>2, SMTT(30)
  <2>4. QED
    BY <1>0, <1>3, <2>1, <2>3, SMTT(30)
<1>7. Index(v, 1) = v % Fan
  <2>1. v \div 1 = v
    OBVIOUS
  <2>2. QED
    BY <1>s, <2>1 DEF Index
<1>8. Index(v, 2) = a % Fan
  BY <1>s DEF Index, a
<1>9. Index(v, 3) = b % Fan
  BY <1>s, <1>4 DEF Index
<1>10. Index(v, 4) = c
  <2>1. \A n \in Nat : n < Fan => n % Fan = n
    BY <1>0
  <2>2. QED
    BY <1>s, <1>3, <1>5, <1>6, <2>1 DEF Index
<1>11. QED
  BY <1>1, <1>2, <1>3, <1>7, <1>8, <1>9, <1>10

\* So they tell any two pages apart,
LEMMA PlacesDiffer ==
  ASSUME NEW v \in Nat, v < VirtualEnd, NEW w \in Nat, w < VirtualEnd, SamePlace(v, w)
  PROVE  v = w
<1>1. PICK a, b \in Nat : /\ v = Fan * a + Index(v, 1) /\ a = Fan * b + Index(v, 2)
                          /\ b = Fan * Index(v, 4) + Index(v, 3)
  BY Digits
<1>2. PICK c, d \in Nat : /\ w = Fan * c + Index(w, 1) /\ c = Fan * d + Index(w, 2)
                          /\ d = Fan * Index(w, 4) + Index(w, 3)
  BY Digits
<1>3. /\ Index(v, 1) = Index(w, 1) /\ Index(v, 2) = Index(w, 2)
      /\ Index(v, 3) = Index(w, 3) /\ Index(v, 4) = Index(w, 4)
  BY DEF SamePlace
<1>4. QED
  BY <1>1, <1>2, <1>3

\* and a page that the boot tables' directory stands for is in its place there.
LEMMA UnderBootIs ==
  ASSUME NEW v \in Nat, v < VirtualEnd, UnderBoot(v)
  PROVE  v = Fan * Index(v, 2) + Index(v, 1)
<1>1. PICK a, b \in Nat : /\ v = Fan * a + Index(v, 1) /\ a = Fan * b + Index(v, 2)
                          /\ b = Fan * Index(v, 4) + Index(v, 3)
  BY Digits
<1>2. Index(v, 4) = 0 /\ Index(v, 3) = 0 /\ Fan \in Nat /\ Index(v, 2) \in Nat
  BY IndexInTable, LayoutAssumption DEF UnderBoot, Idx
<1>3. b = 0
  BY <1>1, <1>2
<1>4. a = Index(v, 2)
  BY <1>1, <1>2, <1>3
<1>5. QED
  BY <1>1, <1>4

\* Beyond the page directory (1 GB) it stands for none,
LEMMA BeyondBoot ==
  ASSUME NEW v \in Nat, Fan * Fan <= v, v < VirtualEnd
  PROVE  ~UnderBoot(v)
<1> SUFFICES ASSUME UnderBoot(v) PROVE FALSE
  OBVIOUS
<1>1. PICK i \in Nat, j \in Nat : i = Index(v, 2) /\ j = Index(v, 1) /\ i + 1 <= Fan /\ j < Fan
  BY IndexInTable, LayoutAssumption DEF Idx
<1>2. v = Fan * i + j
  BY <1>1, UnderBootIs
<1>3. Fan * (i + 1) <= Fan * Fan /\ Fan * (i + 1) = Fan * i + Fan
  BY <1>1, LayoutAssumption, SMTT(30)
<1>4. PICK x \in Nat, y \in Nat : x = Fan * i /\ y = Fan * Fan
  BY <1>1, LayoutAssumption
<1>5. QED
  BY <1>1, <1>2, <1>3, <1>4, LayoutAssumption

\* What execve and brk are about to do is with an image of the file system, and a
\* break, once it is moved, is an address a program gave: its pages end where the
\* place of the programs does.  brk starts at or beyond the first page of the heap.
BreakOK(high, addr) == addr >= proc.brkStart /\ (addr = proc.brkStart \/ PageUp(addr) <= high)
HeapFrom(low, v) == \E m \in Nat : proc.brkStart = PageSize * m /\ low <= m /\ m <= v

SpareInv(k, high) ==
  /\ stage \in {"load", "entering"} => image \in Images
  /\ stage \in {"user", "brk"} \/ caller = "user" => running \in Images
  /\ proc.brkStart # 0 => BreakOK(high, proc.brk)
  /\ stage = "brk" => BreakOK(high, newBrk) /\ HeapFrom(k * Fan, page)

\* Where the numbers of the tables are.
LEMMA Place ==
  ASSUME NEW k \in Nat
  PROVE  /\ k * Fan \in Nat /\ k * Fan = Fan * k /\ VirtualEnd \in Nat /\ Fan \in Nat \ {0}
         /\ Limit \in Nat /\ Limit <= Fan * Fan /\ Fan * Fan <= VirtualEnd
<1>1. Fan \in Nat \ {0}
  BY LayoutAssumption
<1>2. PICK n \in Nat : n = Fan * Fan /\ n >= 1
  BY <1>1
<1>3. n * n \in Nat /\ n * n >= n
  BY <1>2, SMTT(30)
<1>4. VirtualEnd = n * n
  <2>1. Span[4] = Fan * Fan * Fan
    BY DEF Span
  <2>2. Fan * (Fan * Fan * Fan) = (Fan * Fan) * (Fan * Fan)
    BY <1>1, SMTT(30)
  <2>3. QED
    BY <1>2, <2>1, <2>2 DEF VirtualEnd
<1>5. Limit \in Nat /\ Limit <= Fan * Fan
  <2>1. Large \in Nat /\ Large <= Fan
    BY <1>1, LayoutAssumption
  <2>2. QED
    BY <1>1, <2>1, SMTT(30) DEF Limit
<1>6. k * Fan \in Nat /\ k * Fan = Fan * k
  BY <1>1
<1>7. QED
  BY <1>1, <1>2, <1>3, <1>4, <1>5, <1>6

\* A page in the programs' place meets none of the kernel's code.
LEMMA InPlaceFrom ==
  ASSUME NEW k \in Nat, NEW high \in Nat, ProgramsIn(k, high), NEW v \in Nat, k * Fan <= v, v < high
  PROVE  v < VirtualEnd /\ ~UnderCode(v)
<1>1. VirtualEnd \in Nat /\ Limit \in Nat /\ Limit <= VirtualEnd /\ Fan \in Nat /\ Fan * Fan \in Nat
  BY Place
<1>2. CASE high <= Limit
  <2>1. v < Limit /\ v \in Frames
    BY <1>1, <1>2 DEF Frames
  <2>2. UnderLarge(v)
    BY <2>1, FrameIndex
  <2>3. Index(v, 2) \in Nat /\ Large \in Nat
    BY IndexInTable, LayoutAssumption DEF Idx
  <2>4. QED
    BY <1>1, <2>1, <2>2, <2>3 DEF UnderLarge, UnderCode
<1>3. CASE k >= Fan /\ high <= VirtualEnd
  <2>1. v < VirtualEnd
    BY <1>1, <1>3
  <2>2. Fan * Fan <= k * Fan /\ k * Fan \in Nat
    BY <1>1, <1>3, SMTT(30)
  <2>3. Fan * Fan <= v
    BY <1>1, <2>2
  <2>4. QED
    BY <2>1, <2>3, BeyondBoot DEF UnderCode
<1>4. QED
  BY <1>2, <1>3 DEF ProgramsIn

\* A page at or beyond the k-th large page lies under no earlier one.
LEMMA LargeFrom ==
  ASSUME NEW k \in Nat, NEW v \in Nat, k * Fan <= v, v < VirtualEnd, UnderLarge(v)
  PROVE  Index(v, 2) >= k /\ Index(v, 2) * Fan >= k * Fan /\ Index(v, 2) * Fan \in Nat
<1>1. v = Fan * Index(v, 2) + Index(v, 1)
  BY UnderBootIs DEF UnderLarge
<1>2. PICK i \in Nat : i = Index(v, 2)
  BY IndexInTable, LayoutAssumption DEF Idx
<1>3. PICK j \in Nat : j = Index(v, 1) /\ j < Fan
  BY IndexInTable, LayoutAssumption DEF Idx
<1>4. Fan \in Nat \ {0} /\ k * Fan = Fan * k
  BY Place
<1>5. i >= k
  <2> SUFFICES ASSUME i + 1 <= k PROVE FALSE
    BY <1>2
  <2>1. Fan * (i + 1) <= Fan * k /\ Fan * (i + 1) = Fan * i + Fan /\ Fan * i \in Nat /\ Fan * k \in Nat
    BY <1>4, SMTT(30)
  <2>2. v = Fan * i + j
    BY <1>1, <1>2, <1>3
  <2>3. QED
    BY <1>3, <1>4, <2>1, <2>2
<1>6. i * Fan >= k * Fan /\ i * Fan \in Nat
  BY <1>4, <1>5, SMTT(30)
<1>7. QED
  BY <1>2, <1>5, <1>6

\* A page in the programs' place is harmless while the frames handed out end before it.
LEMMA HarmlessFrom ==
  ASSUME NEW k \in Nat, NEW high \in Nat, ProgramsIn(k, high), ram.next <= k * Fan, TypeInv,
         NEW v \in Nat, k * Fan <= v, v < high
  PROVE  Harmless(v)
<1>0. v < VirtualEnd /\ ~UnderCode(v)
  BY InPlaceFrom
<1> SUFFICES ASSUME UnderLarge(v)
             PROVE  Index(v, 2) * Fan \notin {Pml4, Pdpt, Pd} \cup (KernelEnd..(ram.next - 1))
  BY <1>0 DEF Harmless
<1>1. PICK n \in Nat : n = Index(v, 2) * Fan /\ n >= k * Fan
  BY <1>0, LargeFrom
<1>2. ram.next \in Nat /\ KernelEnd \in Nat /\ KernelEnd <= ram.next
  <2>1. ram.next \in KernelEnd..Limit
    BY DEF TypeInv, RamType
  <2>2. QED
    BY <2>1, Layout
<1>3. k * Fan \in Nat
  BY Place
<1>4. n >= ram.next
  BY <1>1, <1>2, <1>3
<1>5. Pml4 \in 1..(KernelEnd - 1) /\ Pdpt \in 1..(KernelEnd - 1) /\ Pd \in 1..(KernelEnd - 1)
  BY LayoutAssumption
<1>6. n \notin {Pml4, Pdpt, Pd} \cup (KernelEnd..(ram.next - 1))
  BY <1>2, <1>4, <1>5
<1>7. QED
  BY <1>1, <1>6

\* The page of the kernel's stack is in a large page below the end of the kernel.
LEMMA StackHarmless ==
  ASSUME TypeInv, Index(KStack, 2) * Fan \notin {Pml4, Pdpt, Pd}
  PROVE  Harmless(KStack)
<1>1. KStack \in Frames /\ KStack \in 1..(KernelEnd - 1) /\ KernelEnd \in Nat
  BY Layout, LayoutAssumption
<1>2. Index(KStack, 2) * Fan + Index(KStack, 1) = KStack
  BY <1>1, FrameIndex
<1>3. PICK j \in Nat : j = Index(KStack, 1)
  BY <1>1, IndexInTable, LayoutAssumption DEF Idx
<1>4. PICK i \in Nat : i = Index(KStack, 2)
  BY <1>1, IndexInTable, LayoutAssumption DEF Idx
<1>5. PICK n \in Nat : n = Index(KStack, 2) * Fan
  <2>1. i * Fan \in Nat
    BY LayoutAssumption
  <2>2. QED
    BY <1>4, <2>1
<1>6. n < KernelEnd
  BY <1>1, <1>2, <1>3, <1>5
<1>7. n \notin KernelEnd..(ram.next - 1)
  <2>1. ram.next \in KernelEnd..Limit
    BY DEF TypeInv, RamType
  <2>2. QED
    BY <1>1, <1>6, <2>1, Layout
<1>8. ~UnderCode(KStack)
  <2>1. UnderLarge(KStack)
    BY <1>1, FrameIndex
  <2>2. Large \in Nat
    BY LayoutAssumption
  <2>3. QED
    BY <1>4, <2>1, <2>2 DEF UnderLarge, UnderCode
<1>9. QED
  BY <1>5, <1>7, <1>8 DEF Harmless

\* A page that begins where a program's segments have ended is beyond the first k
\* large pages.
LEMMA BaseFrom ==
  ASSUME NEW k \in Nat, NEW high \in Nat, ProgramsIn(k, high), NEW im \in Images, NEW m \in Nat,
         \A i \in DOMAIN im : End(im[i]) <= PageSize * m
  PROVE  k * Fan <= m
<1>1. im \in Seq(Segment) /\ im # <<>>
  BY ImagesAssumption DEF ProgramsIn
<1>2. 1 \in DOMAIN im
  BY <1>1
<1>3. im[1] \in Segment /\ im[1].vaddr >= PageSize * (k * Fan)
  BY <1>1, <1>2, SegmentOf DEF ProgramsIn
<1>4. PICK a \in Nat, z \in Nat : a = im[1].vaddr /\ z = im[1].memsz /\ End(im[1]) = a + z
  BY <1>3 DEF End, Segment
<1>5. a + z <= PageSize * m /\ PageSize * (k * Fan) <= a
  BY <1>2, <1>3, <1>4
<1>6. PICK low \in Nat : low = k * Fan
  BY Place
<1>7. PageSize * m \in Nat /\ PageSize * low \in Nat /\ PageSize * m < PageSize * (m + 1)
  BY Products, LayoutAssumption
<1>8. PageSize * low < PageSize * (m + 1)
  <2>1. PICK x \in Nat, y \in Nat : x = PageSize * low /\ y = PageSize * m
    BY <1>7
  <2>2. y < PageSize * (m + 1)
    BY <1>7, <2>1
  <2>3. x <= a /\ a + z <= y
    BY <1>5, <1>6, <2>1
  <2>4. x <= y
    BY <2>3
  <2>5. PICK w \in Nat : w = PageSize * (m + 1)
    BY Products
  <2>6. x < w
    BY <2>2, <2>4, <2>5
  <2>7. QED
    BY <2>1, <2>5, <2>6
<1>9. low < m + 1
  BY <1>8, Multiples
<1>10. QED
  BY <1>6, <1>9

\* The heap of a program does.
LEMMA HeapStarts ==
  ASSUME NEW k \in Nat, NEW high \in Nat, ProgramsIn(k, high), HeapInv, running \in Images, proc.brkStart # 0
  PROVE  \E m \in Nat : proc.brkStart = PageSize * m /\ k * Fan <= m
<1>1. PICK m \in Nat : /\ proc.brkStart = PageSize * m
                       /\ \A i \in DOMAIN running : End(running[i]) <= PageSize * m
  BY DEF HeapInv, HeapBeyond
<1>2. k * Fan <= m
  BY <1>1, BaseFrom
<1>3. QED
  BY <1>1, <1>2

LEMMA SpareInit == ASSUME NEW k \in Nat, NEW high \in Nat PROVE Init => SpareInv(k, high)
BY DEF Init, SpareInv

\* The first call of brk, or a later one.
LEMMA SpareBrk ==
  ASSUME NEW k \in Nat, NEW high \in Nat, ProgramsIn(k, high), HeapInv, TypeInv, SpareInv(k, high), NEW addr \in Breaks, Brk(addr)
  PROVE  SpareInv(k, high)'
<1> DEFINE h == IF proc.hi # 0 THEN proc.hi ELSE DefaultHi
           base == PageUp(h + Guard) * PageSize
           p == IF proc.brkStart = 0 THEN [proc EXCEPT !.brkStart = base, !.brk = base] ELSE proc
<1>1. /\ stage = "user" /\ proc' = p /\ addr \in Nat /\ Guard \in Nat
      /\ UNCHANGED <<running, caller, image>> /\ running \in Images
      /\ \/ stage' = "user"
         \/ stage' = "brk" /\ newBrk' = Max({addr, p.brkStart}) /\ page' = PageUp(p.brk)
  BY LayoutAssumption DEF Brk, load, SpareInv
<1>2. proc.hi \in Nat /\ proc.brkStart \in Nat /\ proc.brk \in Nat /\ proc \in ProcType
  BY DEF HeapInv, FieldsOK, TypeInv
<1>h. h \in Nat /\ proc.hi <= h
  BY <1>2, LayoutAssumption
<1> HIDE DEF h
<1>3. PICK u \in Nat : /\ u = PageUp(h + Guard) /\ base = PageSize * u /\ base \in Nat
                       /\ proc.hi <= PageSize * u
  <2>1. h + Guard \in Nat
    BY <1>1, <1>h
  <2>2. PICK u \in Nat : u = PageUp(h + Guard) /\ PageSize * u >= h + Guard
    BY <2>1, RoundsUp
  <2>3. PageSize * u \in Nat /\ u * PageSize = PageSize * u
    BY LayoutAssumption, SMTT(30)
  <2>4. proc.hi <= PageSize * u
    BY <1>1, <1>2, <1>h, <2>2, <2>3
  <2>5. QED
    BY <2>2, <2>3, <2>4
<1>4. k * Fan <= u
  <2> SUFFICES ASSUME NEW i \in DOMAIN running PROVE End(running[i]) <= PageSize * u
    BY <1>1, BaseFrom
  <2>1. End(running[i]) \in Nat /\ End(running[i]) <= proc.hi
    BY SegmentOf DEF HeapInv, FieldsOK, HiCovers
  <2>2. PageSize * u \in Nat
    BY Products
  <2>3. QED
    BY <1>2, <1>3, <2>1, <2>2
<1> HIDE DEF base
<1>5. PICK m \in Nat : p.brkStart = PageSize * m /\ k * Fan <= m
  <2>1. CASE proc.brkStart = 0
    <3>1. p.brkStart = base
      BY <1>2, <2>1 DEF ProcType
    <3>2. QED
      BY <1>3, <1>4, <3>1
  <2>2. CASE proc.brkStart # 0
    <3>1. \E m \in Nat : proc.brkStart = PageSize * m /\ k * Fan <= m
      BY <1>1, <2>2, HeapStarts
    <3>2. QED
      BY <2>2, <3>1
  <2>3. QED
    BY <2>1, <2>2
<1>6. /\ p.brkStart \in Nat /\ p.brk \in Nat /\ p.brk >= p.brkStart
      /\ p.brkStart # 0 => p.brk = p.brkStart \/ PageUp(p.brk) <= high
  <2>1. CASE proc.brkStart = 0
    <3>1. p.brkStart = base /\ p.brk = base
      BY <1>2, <2>1 DEF ProcType
    <3>2. QED
      BY <1>3, <3>1
  <2>2. CASE proc.brkStart # 0
    BY <1>2, <2>2 DEF SpareInv, BreakOK
  <2>3. QED
    BY <2>1, <2>2
<1> HIDE DEF p
<1>7. proc'.brkStart # 0 => BreakOK(high, proc.brk)'
  BY <1>1, <1>6 DEF BreakOK
<1>8. ASSUME stage' = "brk" PROVE BreakOK(high, newBrk)' /\ HeapFrom(k * Fan, page)'
  <2>1. newBrk' = Max({addr, p.brkStart}) /\ page' = PageUp(p.brk)
    BY <1>1, <1>8
  <2>2. newBrk' \in {addr, p.brkStart} /\ newBrk' >= p.brkStart
    <3>1. \E x \in {addr, p.brkStart} : \A y \in {addr, p.brkStart} : x >= y
      BY <1>1, <1>6
    <3>2. QED
      BY <2>1, <3>1 DEF Max
  <2>3. newBrk' = p.brkStart \/ PageUp(newBrk') <= high
    BY <2>2 DEF ProgramsIn
  <2>4. m <= page'
    <3>1. PICK q \in Nat : q = PageUp(p.brk) /\ PageSize * q >= p.brk
      BY <1>6, RoundsUp
    <3>2. PageSize * m \in Nat /\ PageSize * q \in Nat /\ PageSize * (q + 1) = PageSize * q + PageSize
      BY Products
    <3>3. PageSize * m < PageSize * (q + 1)
      BY <1>5, <1>6, <3>1, <3>2, LayoutAssumption
    <3>4. m < q + 1
      BY <3>3, Multiples
    <3>5. QED
      BY <2>1, <3>1, <3>4
  <2>5. QED
    BY <1>1, <1>5, <2>2, <2>3, <2>4 DEF BreakOK, HeapFrom
<1>9. QED
  BY <1>1, <1>7, <1>8 DEF SpareInv

\* Every call keeps to the images and the breaks.
LEMMA SpareNext ==
  ASSUME NEW k \in Nat, NEW high \in Nat, ProgramsIn(k, high)
  PROVE  HeapInv /\ TypeInv /\ SpareInv(k, high) /\ [Next]_vars => SpareInv(k, high)'
<1> SUFFICES ASSUME HeapInv, TypeInv, SpareInv(k, high), [Next]_vars PROVE SpareInv(k, high)'
  OBVIOUS
<1>a. FieldsOK /\ caller \in {"prompt", "user"} /\ proc \in ProcType
  BY DEF HeapInv, CallerOK, TypeInv
<1>1. ASSUME NEW im \in Images, Execve(im) PROVE SpareInv(k, high)'
  <2>1. /\ proc'.brkStart = 0 /\ running' = running /\ stage \in {"prompt", "user"}
        /\ \/ stage' = "load" /\ caller' = stage /\ image' = im
           \/ stage' = stage /\ caller' = caller /\ image' = image
    BY <1>1, <1>a DEF Execve, ProcType, load
  <2>2. QED
    BY <2>1 DEF SpareInv
<1>2. CASE LoadPage
  <2>1. /\ stage = "load" /\ proc' = AddPage(proc, Fresh(ram))
        /\ UNCHANGED <<stage, running, image, caller>>
    BY <1>2 DEF LoadPage
  <2>2. proc'.brkStart = proc.brkStart /\ proc'.brk = proc.brk
    BY <1>a, <2>1, AddPageKeeps
  <2>3. QED
    BY <2>1, <2>2 DEF SpareInv, BreakOK
<1>3. CASE NextSegment
  <2>1. /\ stage = "load" /\ proc'.brkStart = proc.brkStart /\ proc'.brk = proc.brk
        /\ UNCHANGED <<stage, running, image, caller>>
    BY <1>3, <1>a DEF NextSegment, Raised, ProcType
  <2>2. QED
    BY <2>1 DEF SpareInv, BreakOK
<1>4. CASE LoadStack
  <2> DEFINE p == AddPage(proc, Fresh(ram))
  <2>1. /\ stage = "load" /\ stage' = "entering" /\ UNCHANGED <<running, image, caller>>
        /\ proc' = [AddPage(p, root) EXCEPT !.pml4 = root]
    BY <1>4 DEF LoadStack, load
  <2>2. p = [pml4 |-> proc.pml4, pages |-> p.pages, brkStart |-> proc.brkStart,
             brk |-> proc.brk, hi |-> proc.hi]
    BY <1>a, AddPageKeeps
  <2> HIDE DEF p
  <2>3. proc'.brkStart = proc.brkStart /\ proc'.brk = proc.brk
    BY <2>1, <2>2 DEF AddPage
  <2>4. QED
    BY <2>1, <2>3 DEF SpareInv, BreakOK
<1>5. CASE LoadFails
  BY <1>5, <1>a DEF LoadFails, load, SpareInv, BreakOK
<1>6. CASE EnterUser
  BY <1>6 DEF EnterUser, load, SpareInv, BreakOK
<1>7. ASSUME NEW addr \in Breaks, Brk(addr) PROVE SpareInv(k, high)'
  BY <1>7, SpareBrk
<1>8. CASE BrkPage
  <2>1. /\ stage = "brk" /\ stage' = "brk" /\ proc' = AddPage(proc, Fresh(ram)) /\ page' = page + 1
        /\ UNCHANGED <<running, image, caller, newBrk>>
    BY <1>8 DEF BrkPage, load
  <2>2. proc'.brkStart = proc.brkStart /\ proc'.brk = proc.brk
    BY <1>a, <2>1, AddPageKeeps
  <2>3. PICK m \in Nat : proc.brkStart = PageSize * m /\ k * Fan <= m /\ m <= page
    BY <2>1 DEF SpareInv, HeapFrom
  <2>4. m <= page'
    BY <2>1, <2>3 DEF TypeInv
  <2>5. HeapFrom(k * Fan, page)'
    BY <2>2, <2>3, <2>4 DEF HeapFrom
  <2>6. QED
    BY <2>1, <2>2, <2>5 DEF SpareInv, BreakOK
<1>9. CASE BrkEnds
  <2>1. /\ stage = "brk" /\ stage' = "user" /\ proc'.brkStart = proc.brkStart /\ proc'.brk = newBrk
        /\ UNCHANGED <<running, image, caller, newBrk>>
    BY <1>9, <1>a DEF BrkEnds, load, ProcType
  <2>2. QED
    BY <2>1 DEF SpareInv, BreakOK
<1>10. CASE Exit
  <2>1. /\ stage = "user" /\ stage' = "back" /\ proc'.brkStart = proc.brkStart /\ proc'.brk = proc.brk
        /\ UNCHANGED <<running, image, caller>>
    BY <1>10, <1>a DEF Exit, GivenBack, load, ProcType
  <2>2. QED
    BY <2>1 DEF SpareInv, BreakOK
<1>11. CASE AfterEnter
  BY <1>11 DEF AfterEnter, load, SpareInv, BreakOK
<1>12. CASE UNCHANGED vars
  BY <1>12 DEF vars, load, SpareInv, BreakOK, HeapFrom
<1>13. QED
  BY <1>1, <1>2, <1>3, <1>4, <1>5, <1>6, <1>7, <1>8, <1>9, <1>10, <1>11, <1>12 DEF Next

\* The stack is beyond the page directory.
LEMMA StackBeyond ==
  ASSUME NEW k \in Nat, NEW high \in Nat, ProgramsIn(k, high)
  PROVE  StackPage \in Nat /\ StackPage < VirtualEnd /\ ~UnderBoot(StackPage)
<1>1. StackPage \in (Fan * Fan)..(VirtualEnd - 1) /\ StackPage \in Nat
  BY LayoutAssumption DEF ProgramsIn
<1>2. VirtualEnd \in Nat /\ Fan * Fan \in Nat
  BY Place
<1>3. Fan * Fan <= StackPage /\ StackPage < VirtualEnd
  BY <1>1, <1>2
<1>4. QED
  BY <1>1, <1>3, BeyondBoot

\* What execve and brk are about to map is harmless.
LEMMA Spared ==
  ASSUME NEW k \in Nat, NEW high \in Nat, ProgramsIn(k, high), HeapInv, TypeInv, SpareInv(k, high), ram.next <= k * Fan
  PROVE  LargePagesSpared
<1>a. k * Fan \in Nat /\ page \in Nat
  BY Place DEF TypeInv
<1>1. ASSUME stage = "load", si \in DOMAIN image, page < NumPages(image[si])
      PROVE  Harmless(FirstPage(image[si]) + page)
  <2>1. image \in Images /\ image \in Seq(Segment)
    BY <1>1, ImagesAssumption DEF SpareInv
  <2>2. PICK first \in Nat, n \in Nat : first = FirstPage(image[si]) /\ n = NumPages(image[si])
    BY <1>1, <2>1, SegmentNumbers
  <2>3. first + page \in first..(first + n - 1)
    BY <1>1, <1>a, <2>2
  <2>4. first + page \in PagesOf(image)
    BY <1>1, <2>2, <2>3 DEF PagesOf, SegPages
  <2>5. first + page \in (k * Fan)..(high - 1)
    BY <2>1, <2>4 DEF ProgramsIn
  <2>6. first + page \in Nat /\ k * Fan <= first + page /\ first + page < high
    BY <1>a, <2>2, <2>5
  <2>7. Harmless(first + page)
    BY <2>6, HarmlessFrom
  <2>8. QED
    BY <2>2, <2>7
<1>2. Harmless(StackPage)
  <2>1. ~UnderBoot(StackPage)
    BY StackBeyond
  <2>2. QED
    BY <2>1 DEF Harmless, UnderLarge, UnderCode
<1>3. Harmless(KStack)
  BY StackHarmless DEF ProgramsIn
<1>4. ASSUME stage = "brk", page < LastPage(newBrk) PROVE Harmless(page)
  <2>1. newBrk \in Nat /\ proc.brkStart \in Nat
    BY DEF HeapInv, FieldsOK
  <2>2. PICK m \in Nat : proc.brkStart = PageSize * m /\ k * Fan <= m /\ m <= page
    BY <1>4 DEF SpareInv, HeapFrom
  <2>3. newBrk # proc.brkStart
    <3> SUFFICES ASSUME newBrk = m * PageSize PROVE FALSE
      <4>1. m * PageSize = PageSize * m
        BY LayoutAssumption
      <4>2. QED
        BY <2>2, <4>1
    <3>1. PageUp(newBrk) = m
      BY PageAddress
    <3>2. QED
      BY <1>a, <1>4, <2>2, <3>1 DEF LastPage
  <2>4. PICK e \in Nat : e = PageUp(newBrk) /\ e <= high
    BY <1>4, <2>1, <2>3, RoundsUp DEF SpareInv, BreakOK
  <2>5. k * Fan <= page /\ page < high
    BY <1>a, <1>4, <2>2, <2>4 DEF LastPage
  <2>6. QED
    BY <1>a, <2>5, HarmlessFrom
<1>5. QED
  BY <1>1, <1>2, <1>3, <1>4 DEF LargePagesSpared

-----------------------------------------------------------------------------
\* The conditions on the programs are enough to know where every page lies.
LEMMA SpareAlways ==
  ASSUME NEW k \in Nat, NEW high \in Nat, ProgramsIn(k, high)
  PROVE  Spec => [](HeapInv /\ TypeInv /\ SpareInv(k, high))
<1>1. Init => HeapInv /\ TypeInv /\ SpareInv(k, high)
  BY HeapInvInit, TypeInvInit, SpareInit
<1>2. HeapInv /\ TypeInv /\ SpareInv(k, high) /\ [Next]_vars => (HeapInv /\ TypeInv /\ SpareInv(k, high))'
  BY HeapInvNext, TypeInvNext, SpareNext
<1>3. QED
  BY <1>1, <1>2, PTL DEF Spec

\* For programs that lie under the large pages from the k-th on, as those of
\* linker_user.ld do at k = 2, or beyond the page directory, vm_map_page_pml4
\* never writes into a frame that is in use through a large page, nor into the
\* kernel's code, for as long as pmm_cur has not passed the first of these pages.
THEOREM LargePagesLeft ==
  ASSUME NEW k \in Nat, NEW high \in Nat, ProgramsIn(k, high)
  PROVE  Spec /\ [](ram.next <= k * Fan) => []LargePagesSpared
<1>1. HeapInv /\ TypeInv /\ SpareInv(k, high) /\ ram.next <= k * Fan => LargePagesSpared
  BY Spared
<1>2. QED
  BY <1>1, SpareAlways, PTL

\* So while the frames below the programs last, no order of execve, brk and exit
\* mixes frames up, moves the kernel or leaves the heap without frames
\* (pmm_alloc_page, vm_map_page_pml4, sys_brk).
THEOREM BelowPrograms ==
  ASSUME NEW k \in Nat, NEW high \in Nat, ProgramsIn(k, high)
  PROVE  Spec /\ [](ram.next <= k * Fan) => [](FramesApart /\ KernelStays /\ BreakBacked)
<1>1. AllInv => FramesApart /\ KernelStays /\ BreakBacked
  BY ApartInvFrames, ApartInvKernel, BackedInvHeap DEF AllInv
<1>2. QED
  BY <1>1, LargePagesLeft, AllAlways, PTL

-----------------------------------------------------------------------------
\* Programs beyond the page directory: nothing is assumed of a behaviour.

\* Their pages can each have a frame of its own,
LEMMA ProgramsProper ==
  ASSUME ProgramsIn(Fan, VirtualEnd), SegmentsApart, NEW im \in Images
  PROVE  Proper(im)
<1>a. im \in Seq(Segment) /\ Fan \in Nat
  BY ImagesAssumption, LayoutAssumption
<1>b. Fan * Fan \in Nat /\ VirtualEnd \in Nat
  BY <1>a, Place
<1>1. ASSUME NEW v \in PagesOf(im)
      PROVE  v \in Nat /\ Fan * Fan <= v /\ v < VirtualEnd
  <2>1. v \in (Fan * Fan)..(VirtualEnd - 1)
    BY DEF ProgramsIn
  <2>2. QED
    BY <1>b, <2>1
<1>2. \A i, j \in DOMAIN im : i # j => SegPages(im[i]) \cap SegPages(im[j]) = {}
  BY DEF SegmentsApart
<1>3. \A v, w \in PagesOf(im) : SamePlace(v, w) => v = w
  BY <1>1, PlacesDiffer
<1>4. ASSUME NEW v \in PagesOf(im) PROVE ~UnderBoot(v) /\ ~SamePlace(StackPage, v)
  <2>1. ~UnderBoot(v)
    BY <1>1, BeyondBoot
  <2>2. StackPage # v
    BY DEF SegmentsApart
  <2>3. StackPage \in Nat /\ StackPage < VirtualEnd
    BY <1>a, <1>b, StackBeyond
  <2>4. QED
    BY <1>1, <2>1, <2>2, <2>3, PlacesDiffer
<1>5. QED
  BY <1>2, <1>3, <1>4 DEF Proper

\* and nothing a program sees is mapped through the page directory.
LEMMA ProgramsBeyond ==
  ASSUME ProgramsIn(Fan, VirtualEnd), HeapInv, TypeInv, SpareInv(Fan, VirtualEnd), stage = "user"
  PROVE  PagesBeyond
<1>a. running \in Images /\ Fan \in Nat
  BY LayoutAssumption DEF SpareInv
<1>b. Fan * Fan \in Nat /\ VirtualEnd \in Nat
  BY <1>a, Place
<1>1. ASSUME NEW v \in PagesOf(running) PROVE ~UnderBoot(v)
  <2>1. v \in (Fan * Fan)..(VirtualEnd - 1)
    BY <1>a DEF ProgramsIn
  <2>2. v \in Nat /\ Fan * Fan <= v /\ v < VirtualEnd
    BY <1>b, <2>1
  <2>3. QED
    BY <2>2, BeyondBoot
<1>s. ~UnderBoot(StackPage)
  BY <1>a, <1>b, StackBeyond
<1>2. ASSUME NEW v \in HeapPages PROVE ~UnderBoot(v)
  <2>1. proc.brkStart # 0 /\ v \in (proc.brkStart \div PageSize)..(PageUp(proc.brk) - 1)
    BY DEF HeapPages
  <2>2. PICK m \in Nat : proc.brkStart = PageSize * m /\ Fan * Fan <= m
    BY <1>a, <1>b, <2>1, HeapStarts
  <2>3. m * PageSize = PageSize * m
    BY LayoutAssumption
  <2>4. proc.brkStart \div PageSize = m
    BY <2>2, <2>3, PageAddress
  <2>5. PICK e \in Nat : e = PageUp(proc.brk)
    BY RoundsUp DEF HeapInv, FieldsOK
  <2>6. v \in Nat /\ m <= v /\ v < e
    BY <2>1, <2>4, <2>5
  <2>7. proc.brk # proc.brkStart
    <3> SUFFICES ASSUME proc.brk = m * PageSize PROVE FALSE
      BY <2>2, <2>3
    <3>1. PageUp(proc.brk) = m
      BY PageAddress
    <3>2. QED
      BY <2>5, <2>6, <3>1
  <2>8. e <= VirtualEnd
    BY <2>1, <2>5, <2>7 DEF SpareInv, BreakOK
  <2>9. Fan * Fan <= v /\ v < VirtualEnd
    BY <1>b, <2>2, <2>6, <2>8
  <2>10. QED
    BY <2>6, <2>9, BeyondBoot
<1>3. QED
  BY <1>1, <1>s, <1>2 DEF PagesBeyond

\* For programs with a page in one segment only, beyond what the page directory
\* of the boot tables stands for (1 GB), everything that is checked holds in
\* every behaviour: no frame is used twice, the kernel and its code stay what they
\* were, heap and image have frames of their own, and an exit gives them back
\* (sys_execve, sys_brk, sys_exit, vm_map_page_pml4).
THEOREM BeyondKernel ==
  ASSUME ProgramsIn(Fan, VirtualEnd), SegmentsApart
  PROVE  Spec => [](FramesApart /\ KernelStays /\ BreakBacked /\ ImageMapped /\ ExitGivesBack)
<1>a. Fan \in Nat /\ VirtualEnd \in Nat
  BY LayoutAssumption, Place
<1>1. TypeInv => ram.next <= Fan * Fan
  <2>1. Limit \in Nat /\ Limit <= Fan * Fan /\ Fan * Fan \in Nat /\ KernelEnd \in Nat
    BY <1>a, Place, Layout
  <2>2. TypeInv => ram.next \in KernelEnd..Limit
    BY DEF TypeInv, RamType
  <2>3. QED
    BY <2>1, <2>2
<1>2. HeapInv /\ TypeInv /\ SpareInv(Fan, VirtualEnd) => LargePagesSpared
  BY <1>a, <1>1, Spared
<1>3. Spec => [](HeapInv /\ TypeInv /\ SpareInv(Fan, VirtualEnd))
  <2>1. Init => HeapInv /\ TypeInv /\ SpareInv(Fan, VirtualEnd)
    BY <1>a, HeapInvInit, TypeInvInit, SpareInit
  <2>2. HeapInv /\ TypeInv /\ SpareInv(Fan, VirtualEnd) /\ [Next]_vars
          => (HeapInv /\ TypeInv /\ SpareInv(Fan, VirtualEnd))'
    BY <1>a, HeapInvNext, TypeInvNext, SpareNext
  <2>3. QED
    BY <2>1, <2>2, PTL DEF Spec
<1>4. AllInv => FramesApart /\ KernelStays /\ BreakBacked
  BY ApartInvFrames, ApartInvKernel, BackedInvHeap DEF AllInv
<1>5. AllInv /\ SpareInv(Fan, VirtualEnd) => ImageMapped
  <2> SUFFICES ASSUME AllInv, SpareInv(Fan, VirtualEnd), stage = "entering" PROVE ImageMapped
    BY DEF ImageMapped
  <2>1. Proper(image)
    BY ProgramsProper DEF SpareInv
  <2>2. QED
    BY <2>1, LoadedInvPlaced DEF AllInv
<1>6. AllInv /\ SpareInv(Fan, VirtualEnd) => ExitGivesBack
  <2> SUFFICES ASSUME AllInv, SpareInv(Fan, VirtualEnd), stage = "user" PROVE ExitGivesBack
    BY DEF ExitGivesBack
  <2>1. PagesBeyond
    BY ProgramsBeyond DEF AllInv
  <2>2. QED
    BY <2>1, ApartInvExit DEF AllInv
<1>7. Spec => []AllInv
  BY <1>2, <1>3, AllAlways, PTL
<1>8. QED
  BY <1>3, <1>4, <1>5, <1>6, <1>7, PTL
=============================================================================

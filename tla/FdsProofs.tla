------------------------------ MODULE FdsProofs ------------------------------
(***************************************************************************)
(* Proofs about Fds, for every size of the descriptor table, every set of   *)
(* files and every offset.  The strengthening has two parts: what is true   *)
(* of each descriptor (Good), which every table operation keeps, and what   *)
(* the shell holds at each point of run_external (Held).                    *)
(***************************************************************************)
EXTENDS Fds, WellFoundedInduction, SequenceTheorems, TLAPS

USE TableAssumption, SizeAssumption
    DEF TableAssumption, SizeAssumption, FD, Std, None

\* K and C are the kinds and contents of the files.
Good(t, K, C) ==
  /\ t \in [FD -> Entry]
  /\ \A fd \in FD :
       /\ t[fd].node # Nil => /\ t[fd].used
                              /\ K[t[fd].node] # "free"
                              /\ t[fd].ofs <= Len(C[t[fd].node])
       /\ fd \notin Std /\ t[fd].used => t[fd].node # Nil

Open(t) == {fd \in FD \ Std : t[fd].used}

Held ==
  /\ pc \in BootPcs \cup {"prompt", "in"} => Open(fds) = {}
  /\ pc = "in" => savedIn = None /\ savedOut = None
  /\ pc = "out" => Open(fds) = {savedIn} \ {None} /\ savedOut = None
  /\ pc \in {"exec", "restore"} =>
       /\ Open(fds) = {savedIn, savedOut} \ {None}
       /\ savedIn = savedOut => savedIn = None

\* Before a program runs nothing has moved an offset.
Rewound == pc # "user" => \A fd \in FD : fds[fd].ofs = 0

IInv == TypeOK /\ Good(fds, kind, content) /\ Held /\ Rewound

-----------------------------------------------------------------------------
LEMMA LowestFree ==
  ASSUME NEW t \in [FD -> Entry], FreeFds(t) # {}
  PROVE  Lowest(t) \in FreeFds(t) /\ Lowest(t) \in FD \ Std
<1>1. FreeFds(t) \in SUBSET Nat
  BY DEF FreeFds
<1> DEFINE less == OpToRel(<, Nat)
<1>2. \E n \in FreeFds(t) : \A m \in FreeFds(t) : ~(<<m, n>> \in less)
  <2>1. IsWellFoundedOn(less, Nat)
    BY NatLessThanWellFounded
  <2> HIDE DEF less
  <2> QED  BY <1>1, <2>1, WFMin
<1>3. \A m, n \in Nat : <<m, n>> \in less <=> m < n
  BY DEF OpToRel
<1> HIDE DEF less
<1>4. \E n \in FreeFds(t) : \A m \in FreeFds(t) : n <= m
  <2> PICK n \in FreeFds(t) : \A m \in FreeFds(t) : ~(<<m, n>> \in less)
    BY <1>2
  <2>1. ASSUME NEW m \in FreeFds(t) PROVE n <= m
    <3>1. m \in Nat /\ n \in Nat
      BY <1>1
    <3>2. ~(m < n)
      BY <1>3, <3>1
    <3> QED  BY <3>1, <3>2
  <2> QED  BY <2>1
<1>5. Min(FreeFds(t)) \in FreeFds(t)
  BY <1>4 DEF Min
<1> QED  BY <1>5 DEF Lowest, FreeFds

LEMMA AllocGood ==
  ASSUME NEW K, NEW C, NEW t, Good(t, K, C), NEW n \in Slot, K[n] # "free",
         Len(C[n]) \in Nat
  PROVE  Good(AllocFd(t, n), K, C)
BY LowestFree DEF AllocFd, Good, Entry

LEMMA CloseGood ==
  ASSUME NEW K, NEW C, NEW t, Good(t, K, C), NEW fd
  PROVE  Good(Close(t, fd), K, C)
BY DEF Close, Valid, Closed, Good, Entry

LEMMA DupGood ==
  ASSUME NEW K, NEW C, NEW t, Good(t, K, C), NEW old
  PROVE  Good(Dup(t, old), K, C)
BY LowestFree DEF Dup, CanDup, Good

\* Closing old and new the same leaves the slot closed, so the copy is too.
LEMMA Dup2Good ==
  ASSUME NEW K, NEW C, NEW t, Good(t, K, C), NEW old, NEW new
  PROVE  Good(Dup2(t, old, new), K, C)
<1> DEFINE u == IF t[new].node # Nil THEN Close(t, new) ELSE t
<1>1. Good(u, K, C)
  BY CloseGood
<1>2. CASE old \in FD /\ t[old].node # Nil /\ new \in FD
  <2>1. Dup2(t, old, new) = [u EXCEPT ![new] = u[old]]
    BY <1>2 DEF Dup2
  <2>2. u[old] = t[old] \/ new = old
    BY <1>2 DEF Close, Good
  <2>3. CASE new = old
    <3>1. [u EXCEPT ![new] = u[old]] = u
      BY <1>1, <2>3 DEF Good
    <3> QED  BY <3>1, <2>1, <1>1
  <2>4. CASE u[old] = t[old]
    BY <1>1, <1>2, <2>1, <2>4 DEF Good
  <2> QED  BY <2>2, <2>3, <2>4
<1>3. CASE ~(old \in FD /\ t[old].node # Nil /\ new \in FD)
  BY <1>3 DEF Dup2
<1> QED  BY <1>2, <1>3

LEMMA RebindGood ==
  ASSUME NEW K, NEW C, NEW t, Good(t, K, C), NEW fd, NEW std
  PROVE  Good(Rebind(t, fd, std), K, C)
BY DupGood, Dup2Good, CloseGood DEF Rebind

LEMMA RestoreGood ==
  ASSUME NEW K, NEW C, NEW t, Good(t, K, C), NEW saved, NEW std
  PROVE  Good(Restore(t, saved, std), K, C)
BY Dup2Good, CloseGood DEF Restore

\* Files that appear or grow disturb no descriptor.
LEMMA GrowGood ==
  ASSUME NEW K, NEW C, NEW K2, NEW C2, NEW t, Good(t, K, C),
         \A n \in Slot : /\ K[n] # "free" => K2[n] # "free"
                         /\ Len(C[n]) \in Nat /\ Len(C2[n]) \in Nat
                         /\ Len(C[n]) <= Len(C2[n])
  PROVE  Good(t, K2, C2)
<1>1. ASSUME NEW fd \in FD, t[fd].node # Nil
      PROVE  t[fd].node \in Slot /\ K2[t[fd].node] # "free"
             /\ t[fd].ofs <= Len(C2[t[fd].node])
  <2>1. /\ t[fd].node \in Slot /\ K[t[fd].node] # "free"
        /\ t[fd].ofs \in Nat /\ t[fd].ofs <= Len(C[t[fd].node])
    BY <1>1 DEF Good, Entry
  <2> QED  BY <2>1
<1> QED  BY <1>1 DEF Good

-----------------------------------------------------------------------------
\* What run_external holds.  Binding a standard descriptor to a file that was
\* just opened at fd leaves open, of 3.., what was open and the saved copy.
LEMMA RebindOpen ==
  ASSUME NEW t, Good(t, kind, content), NEW fd \in FreeFds(t), fd = Lowest(t),
         NEW n \in Slot, NEW std \in Std, NEW u, u = AllocFd(t, n)
  PROVE  /\ Open(Rebind(u, fd, std)) = Open(t) \cup ({DupFd(u, std)} \ {None})
         /\ DupFd(u, std) \notin Open(t)
         /\ DupFd(u, std) \in (FD \ Std) \cup {None}
<1> DEFINE s == DupFd(u, std)
           v == Dup(u, std)
           w == Dup2(v, fd, std)
<1>0. t \in [FD -> Entry] /\ fd \in FD \ Std /\ std \in FD /\ Nil \notin Slot
  BY DEF Good, FreeFds
<1>1. /\ u = [t EXCEPT ![fd] = [used |-> TRUE, node |-> n, ofs |-> 0]]
      /\ u \in [FD -> Entry]
      /\ Open(u) = Open(t) \cup {fd} /\ u[fd].node = n
  BY <1>0 DEF AllocFd, Entry, Open
<1>2. /\ v \in [FD -> Entry] /\ v[fd] = u[fd]
      /\ Open(v) = Open(u) \cup ({s} \ {None})
      /\ s \in (FD \ Std) \cup {None} /\ s \notin Open(u)
  <2>1. CASE ~CanDup(u, std)
    BY <1>1, <2>1 DEF Dup, DupFd
  <2>2. CASE CanDup(u, std)
    <3>1. Lowest(u) \in FreeFds(u) /\ Lowest(u) \in FD \ Std
      BY <1>1, <2>2, LowestFree DEF CanDup
    <3>2. u[std].used
      BY <1>0, <1>1, <2>2 DEF CanDup, Good
    <3>3. s = Lowest(u) /\ v = [u EXCEPT ![s] = u[std]]
      BY <2>2 DEF Dup, DupFd
    <3>4. s \in FD \ Std /\ ~u[s].used /\ u[fd].used
      <4> HIDE DEF s
      <4>1. fd \in Open(u)
        BY <1>1
      <4> QED  BY <3>1, <3>3, <4>1 DEF FreeFds, Open
    <3> HIDE DEF s, v
    <3>5. v \in [FD -> Entry] /\ v[fd] = u[fd]
      BY <1>0, <1>1, <3>3, <3>4
    <3>6. \A x \in FD : v[x].used <=> u[x].used \/ x = s
      BY <1>0, <1>1, <3>2, <3>3, <3>4
    <3>7. Open(v) = Open(u) \cup {s}
      BY <3>4, <3>6 DEF Open
    <3> QED  BY <3>4, <3>5, <3>7 DEF Open
  <2> QED  BY <2>1, <2>2
<1>3. /\ w \in [FD -> Entry] /\ Open(w) = Open(v) /\ w[fd] = v[fd]
  <2>1. w = [v EXCEPT ![std] = v[fd]]
    BY <1>0, <1>1, <1>2 DEF Dup2, Close
  <2> QED  BY <1>0, <1>2, <2>1 DEF Open
<1>4. Open(Close(w, fd)) = Open(w) \ {fd}
  BY <1>0, <1>3 DEF Close, Closed, Valid, Open
<1>5. Rebind(u, fd, std) = Close(w, fd)
  BY DEF Rebind
<1>6. fd \notin Open(t) /\ fd \in Open(u)
  BY <1>1 DEF Open, FreeFds
<1> HIDE DEF s, v, w
<1>7. Open(Close(w, fd)) = Open(t) \cup ({s} \ {None}) /\ s \notin Open(t)
  BY <1>1, <1>2, <1>3, <1>4, <1>6
<1> QED  BY <1>2, <1>5, <1>7 DEF s

\* Restoring closes exactly the saved copy.
LEMMA RestoreOpen ==
  ASSUME NEW t, Good(t, kind, content), NEW s \in Open(t) \cup {None}, NEW std \in Std
  PROVE  Open(Restore(t, s, std)) = Open(t) \ {s}
<1> DEFINE w == Dup2(t, s, std)
<1>0. t \in [FD -> Entry] /\ std \in FD
  BY DEF Good
<1>1. CASE s = None
  BY <1>1 DEF Restore, Open
<1>2. CASE s # None
  <2>1. s \in FD \ Std /\ t[s].node # Nil
    BY <1>2 DEF Open, Good
  <2>2. w = [t EXCEPT ![std] = t[s]]
    BY <1>0, <2>1 DEF Dup2, Close
  <2>3. w \in [FD -> Entry] /\ Open(w) = Open(t) /\ w[s] = t[s]
    BY <1>0, <2>1, <2>2 DEF Open
  <2>4. Open(Close(w, s)) = Open(w) \ {s}
    BY <1>0, <2>1, <2>3 DEF Close, Closed, Valid, Open
  <2> QED  BY <1>2, <2>3, <2>4 DEF Restore
<1> QED  BY <1>1, <1>2

-----------------------------------------------------------------------------
\* No step unmakes a node; most never shorten a file either.
Kept == /\ kind' \in [Slot -> {"free", "dir", "file", "char"}]
        /\ content' \in [Slot -> Seq(Byte)]
        /\ \A n \in Slot : kind[n] # "free" => kind'[n] # "free"
Grown == Kept /\ \A n \in Slot : Len(content[n]) <= Len(content'[n])

LEMMA SameGrown ==
  ASSUME TypeOK, UNCHANGED storeVars
  PROVE  Grown
BY LenProperties DEF TypeOK, Grown, Kept, storeVars

LEMMA CreatedGrown ==
  ASSUME TypeOK, NEW n \in Slot, NEW k \in {"dir", "file", "char"}, Allocate(n, k)
  PROVE  Grown /\ kind'[n] # "free"
BY LenProperties DEF TypeOK, Grown, Kept, Allocate

\* Any good table stays good over such a step.
LEMMA GrownGood ==
  ASSUME TypeOK, Grown, NEW t, Good(t, kind, content)
  PROVE  Good(t, kind', content')
BY GrowGood, LenProperties DEF TypeOK, Grown, Kept

\* No table operation makes an offset that is not there already, but 0.
AllZero(t) == \A fd \in FD : t[fd].ofs = 0
LEMMA ZeroOps ==
  ASSUME NEW K, NEW C, NEW t, Good(t, K, C), AllZero(t), NEW a, NEW b
  PROVE  /\ AllZero(Close(t, a)) /\ AllZero(Dup(t, a)) /\ AllZero(Dup2(t, a, b))
<1>1. AllZero(Close(t, a))
  BY DEF AllZero, Close, Closed, Good, Valid
<1>2. AllZero(Dup(t, a))
  BY LowestFree DEF AllZero, Dup, CanDup, Good
<1>3. AllZero(Dup2(t, a, b))
  <2> DEFINE u == IF t[b].node # Nil THEN Close(t, b) ELSE t
  <2>1. Good(u, K, C) /\ AllZero(u)
    <3>1. AllZero(Close(t, b))
      BY DEF AllZero, Close, Closed, Good, Valid
    <3> QED  BY <3>1, CloseGood
  <2>2. (Dup2(t, a, b) = [u EXCEPT ![b] = u[a]] /\ a \in FD) \/ Dup2(t, a, b) = t
    BY DEF Dup2
  <2> QED  BY <2>1, <2>2 DEF AllZero, Good
<1> QED  BY <1>1, <1>2, <1>3

LEMMA ZeroCalls ==
  ASSUME NEW K, NEW C, NEW t, Good(t, K, C), AllZero(t), NEW a, NEW b
  PROVE  AllZero(Rebind(t, a, b)) /\ AllZero(Restore(t, a, b))
BY ZeroOps, DupGood, Dup2Good DEF Rebind, Restore

LEMMA MinOfTwo ==
  ASSUME NEW a \in Nat, NEW b \in Nat
  PROVE  Min({a, b}) \in Nat /\ Min({a, b}) <= a /\ Min({a, b}) <= b
<1>1. \E x \in {a, b} : \A y \in {a, b} : x <= y
  OBVIOUS
<1>2. Min({a, b}) \in {a, b} /\ \A y \in {a, b} : Min({a, b}) <= y
  BY <1>1 DEF Min
<1> QED  BY <1>2

-----------------------------------------------------------------------------
\* The steps, in three groups.

LEMMA BootInv == ASSUME IInv, RegisterTty \/ BindStdio \/ ProcInit PROVE IInv'
<1> USE DEF IInv
<1>1. CASE RegisterTty
  <2>1. Grown /\ UNCHANGED <<current, fds, runVars>> /\ pc' = "stdio" /\ pc = "tty"
    BY <1>1, SameGrown, CreatedGrown DEF RegisterTty
  <2>2. Good(fds', kind', content')
    BY <2>1, GrownGood
  <2> QED  BY <2>1, <2>2 DEF TypeOK, Grown, Kept, Held, Rewound, runVars, BootPcs, Open
<1>2. CASE BindStdio
  <2>0. kind[Tty] = "char" => 0 <= Len(content[Tty])
    BY LenProperties DEF TypeOK
  <2>1. Good(fds', kind', content')
    <3>1. CASE kind[Tty] = "char" /\ current
      <4>1. fds' \in [FD -> Entry] /\ kind' = kind /\ content' = content
        BY <1>2, <3>1 DEF BindStdio, Good, Entry, storeVars
      <4>2. \A fd \in FD : fds'[fd] = IF fd \in Std THEN [used |-> TRUE, node |-> Tty, ofs |-> 0]
                                                     ELSE fds[fd]
        BY <1>2, <3>1 DEF BindStdio
      <4> QED  BY <2>0, <3>1, <4>1, <4>2 DEF Good
    <3>2. CASE ~(kind[Tty] = "char" /\ current)
      <4>1. fds' = fds /\ kind' = kind /\ content' = content
        BY <1>2, <3>2 DEF BindStdio, storeVars
      <4> QED  BY <4>1
    <3> QED  BY <3>1, <3>2
  <2>2. Open(fds') = Open(fds) /\ AllZero(fds')
    BY <1>2 DEF BindStdio, Open, AllZero, Rewound, Good
  <2> QED  BY <1>2, <2>1, <2>2
           DEF BindStdio, TypeOK, Good, Held, Rewound, AllZero, storeVars, runVars, BootPcs
<1>3. CASE ProcInit
  <2>1. Good(fds', kind', content')
    <3>1. fds' \in [FD -> Entry]
      BY <1>3 DEF ProcInit, Entry
    <3>2. \A fd \in FD : fds'[fd].node = Nil /\ (fds'[fd].used <=> fd \in Std)
      BY <1>3 DEF ProcInit
    <3> QED  BY <3>1, <3>2 DEF Good
  <2>2. Open(fds') = {} /\ AllZero(fds')
    BY <1>3 DEF ProcInit, Open, AllZero
  <2> QED  BY <1>3, <2>1, <2>2
           DEF ProcInit, TypeOK, Good, Held, Rewound, AllZero, storeVars, runVars, BootPcs
<1> QED  BY <1>1, <1>2, <1>3

LEMMA BuiltinInv == ASSUME IInv, Builtin PROVE IInv'
<1> USE DEF IInv
<1>0. UNCHANGED <<current, fds, pc, runVars>> /\ pc = "prompt"
  BY DEF Builtin
<1>1. Kept
  <2>1. ASSUME NEW n \in Slot, NEW k \in {"dir", "file", "char"}, Allocate(n, k)
        PROVE  Kept
    BY <2>1 DEF Kept, Allocate, TypeOK
  <2>2. ASSUME NEW n \in Slot, NEW b \in Data, Replace(n, b)
        PROVE  Kept
    BY <2>2 DEF Kept, Replace, TypeOK
  <2>3. ASSUME NEW n \in Slot, NEW b \in Data, Extend(n, b)
        PROVE  Kept
    BY <2>3, ConcatProperties DEF Kept, Extend, TypeOK
  <2> QED  BY <2>1, <2>2, <2>3 DEF Builtin, StoreNext
<1>2. Good(fds, kind', content')
  <2>1. \A n \in Slot : 0 <= Len(content'[n])
    BY <1>1, LenProperties DEF Kept
  <2> QED  BY <1>0, <1>1, <2>1 DEF Kept, Good, Rewound, Entry
<1> QED  BY <1>0, <1>1, <1>2 DEF Kept, TypeOK, Held, Rewound, runVars, Open

LEMMA RunInv ==
  ASSUME IInv, NEW in \in BOOLEAN, NEW out \in BOOLEAN, RunExternal(in, out)
  PROVE  IInv'
BY DEF IInv, RunExternal, TypeOK, Good, Held, Rewound, storeVars, BootPcs, Open

LEMMA ExecInv == ASSUME IInv, ExecFails \/ ExecRuns PROVE IInv'
<1>1. CASE ExecFails
  BY <1>1 DEF IInv, ExecFails, TypeOK, Good, Held, Rewound, storeVars, runVars, BootPcs, Open
<1>2. CASE ExecRuns
  BY <1>2 DEF IInv, ExecRuns, TypeOK, Good, Held, Rewound, storeVars, BootPcs, Open
<1> QED  BY <1>1, <1>2

\* The prologue of run_external: open a file, copy, rebind, close.
LEMMA RebindInv ==
  ASSUME IInv, Grown, NEW n \in Slot, kind'[n] # "free", NEW std \in Std, FreeFds(fds) # {},
         NEW u, u = AllocFd(fds, n), NEW r, r = Rebind(u, Lowest(fds), std),
         NEW s, s = DupFd(u, std), pc # "user"
  PROVE  /\ Good(r, kind', content') /\ AllZero(r)
         /\ Open(r) = Open(fds) \cup ({s} \ {None})
         /\ s \notin Open(fds) /\ s \in (FD \ Std) \cup {None}
<1> USE DEF IInv
<1>0. fds \in [FD -> Entry] /\ Lowest(fds) \in FreeFds(fds) /\ Lowest(fds) \in FD \ Std
  BY LowestFree DEF Good
<1>1. Good(fds, kind', content')
  BY GrownGood
<1>2. Len(content'[n]) \in Nat
  BY LenProperties DEF Grown, Kept
<1>3. Good(u, kind', content')
  BY <1>1, <1>2, AllocGood
<1>4. Good(r, kind', content')
  BY <1>3, RebindGood
<1>5. AllZero(u)
  BY <1>0 DEF AllZero, AllocFd, Rewound
<1>6. AllZero(r)
  BY <1>3, <1>5, ZeroCalls
<1> QED  BY <1>0, <1>4, <1>6, RebindOpen

LEMMA InInv == ASSUME IInv, RedirectIn PROVE IInv'
<1> USE DEF IInv
<1>0. pc = "in" /\ Open(fds) = {} /\ savedIn = None /\ savedOut' = None
  BY DEF RedirectIn, Held
<1>1. CASE UNCHANGED <<storeVars, fds, savedIn>> /\ pc' \in {"out", "prompt"}
  <2>1. fds' = fds /\ kind' = kind /\ content' = content
    BY <1>1 DEF storeVars
  <2> QED  BY <1>0, <1>1, <2>1 DEF RedirectIn, TypeOK, Good, Held, Rewound, Open, BootPcs
<1>2. ASSUME NEW n \in Slot, Opened(n), FreeFds(fds) # {}, pc' = "out",
             savedIn' = DupFd(AllocFd(fds, n), 0),
             fds' = Rebind(AllocFd(fds, n), Lowest(fds), 0)
      PROVE  IInv'
  <2>1. Grown /\ kind'[n] # "free"
    BY <1>2, SameGrown DEF Opened, storeVars
  <2>2. /\ Good(fds', kind', content') /\ AllZero(fds')
        /\ Open(fds') = Open(fds) \cup ({savedIn'} \ {None})
        /\ savedIn' \in (FD \ Std) \cup {None}
    BY <1>0, <1>2, <2>1, RebindInv
  <2> QED  BY <1>0, <1>2, <2>1, <2>2
           DEF RedirectIn, TypeOK, Good, Held, Rewound, AllZero, Grown, Kept, BootPcs, Open
<1> QED  BY <1>1, <1>2 DEF RedirectIn

LEMMA OutInv == ASSUME IInv, RedirectOut PROVE IInv'
<1> USE DEF IInv
<1>0. /\ pc = "out" /\ Open(fds) = {savedIn} \ {None} /\ savedOut = None
      /\ UNCHANGED <<current, want, savedIn>> /\ savedIn \in FD \cup {None}
  BY DEF RedirectOut, Held, TypeOK
<1>1. CASE UNCHANGED <<storeVars, fds, savedOut>> /\ pc' = "exec"
  <2>1. fds' = fds /\ kind' = kind /\ content' = content
    BY <1>1 DEF storeVars
  <2> QED  BY <1>0, <1>1, <2>1 DEF TypeOK, Good, Held, Rewound, Open, BootPcs
<1>2. CASE /\ pc' = "prompt" /\ fds' = Restore(fds, savedIn, 0) /\ UNCHANGED savedOut
           /\ UNCHANGED storeVars \/ \E n \in Slot : Created(n)
  <2>1. Grown
    BY <1>2, SameGrown, CreatedGrown DEF Created
  <2>2. Good(fds', kind', content')
    BY <1>2, <2>1, GrownGood, RestoreGood
  <2>3. AllZero(fds')
    BY <1>0, <1>2, ZeroCalls DEF AllZero, Rewound
  <2>4. Open(fds') = {}
    BY <1>0, <1>2, RestoreOpen
  <2> QED  BY <1>0, <1>2, <2>1, <2>2, <2>3, <2>4
           DEF TypeOK, Good, Held, Rewound, AllZero, Grown, Kept, BootPcs, Open
<1>3. ASSUME NEW n \in Slot, Opened(n) \/ Created(n), FreeFds(fds) # {}, pc' = "exec",
             savedOut' = DupFd(AllocFd(fds, n), 1),
             fds' = Rebind(AllocFd(fds, n), Lowest(fds), 1)
      PROVE  IInv'
  <2>1. Grown /\ kind'[n] # "free"
    BY <1>3, SameGrown, CreatedGrown DEF Opened, Created, storeVars
  <2>2. /\ Good(fds', kind', content') /\ AllZero(fds')
        /\ Open(fds') = Open(fds) \cup ({savedOut'} \ {None})
        /\ savedOut' \notin Open(fds)
        /\ savedOut' \in (FD \ Std) \cup {None}
    BY <1>0, <1>3, <2>1, RebindInv
  <2> QED  BY <1>0, <1>3, <2>1, <2>2
           DEF TypeOK, Good, Held, Rewound, AllZero, Grown, Kept, BootPcs, Open
<1> QED  BY <1>1, <1>2, <1>3 DEF RedirectOut

LEMMA RestoreInv == ASSUME IInv, RestoreStd PROVE IInv'
<1> USE DEF IInv
<1> DEFINE t == Restore(fds, savedOut, 1)
<1>0. /\ pc = "restore" /\ Open(fds) = {savedIn, savedOut} \ {None}
      /\ savedIn = savedOut => savedIn = None
      /\ UNCHANGED <<storeVars, current, runVars>>
  BY DEF RestoreStd, Held
<1>1. Good(t, kind, content) /\ AllZero(t)
  BY <1>0, RestoreGood, ZeroCalls DEF AllZero, Rewound
<1>2. Open(t) = {savedIn} \ {None}
  BY <1>0, RestoreOpen
<1>3. Good(fds', kind, content) /\ AllZero(fds')
  BY <1>1, RestoreGood, ZeroCalls DEF RestoreStd
<1>4. Open(fds') = {}
  BY <1>1, <1>2, RestoreOpen DEF RestoreStd
<1> QED  BY <1>0, <1>3, <1>4
         DEF RestoreStd, TypeOK, Good, Held, Rewound, AllZero, storeVars, runVars, BootPcs, Open

\* The system calls of a program.
LEMMA CallInv ==
  ASSUME IInv, pc = "user", UNCHANGED <<current, pc, runVars>>, Grown, Good(fds', kind', content')
  PROVE  IInv'
BY DEF IInv, TypeOK, Good, Held, Rewound, Grown, Kept, runVars, BootPcs

LEMMA MoveGood ==
  ASSUME IInv, Grown, NEW fd \in FD, fds[fd].node # Nil, NEW o \in Nat,
         o <= Len(content'[fds[fd].node]), fds' = [fds EXCEPT ![fd].ofs = o]
  PROVE  Good(fds', kind', content')
<1>1. Good(fds, kind', content')
  BY GrownGood DEF IInv
<1>2. /\ fds' \in [FD -> Entry]
      /\ \A x \in FD : /\ fds'[x].node = fds[x].node
                       /\ fds'[x].ofs = IF x = fd THEN o ELSE fds[x].ofs
  BY <1>1 DEF Good, Entry
<1>3. \A x \in FD : fds'[x].used = fds[x].used
  BY <1>1 DEF Good, Entry
<1> QED  BY <1>1, <1>2, <1>3 DEF Good

LEMMA SyscallInv == ASSUME IInv, Syscall PROVE IInv'
<1> USE DEF IInv
<1>0. pc = "user" /\ UNCHANGED <<current, pc, runVars>>
  BY DEF Syscall
<1>a. UNCHANGED storeVars => Grown /\ kind' = kind /\ content' = content
  BY SameGrown DEF storeVars
<1>b. \A n \in Slot : Len(content[n]) \in Nat
  BY LenProperties DEF TypeOK
<1>1. ASSUME NEW n \in Slot, SysOpen(n) PROVE IInv'
  <2>1. Grown /\ kind'[n] # "free"
    BY <1>1, <1>a, CreatedGrown DEF SysOpen, Opened, Created
  <2>2. Len(content'[n]) \in Nat
    BY <2>1, LenProperties DEF Grown, Kept
  <2>3. Good(fds', kind', content')
    BY <1>1, <2>1, <2>2, GrownGood, AllocGood DEF SysOpen
  <2> QED  BY <1>0, <2>1, <2>3, CallInv
<1>2. ASSUME NEW fd \in FD, SysClose(fd) PROVE IInv'
  BY <1>0, <1>2, <1>a, CloseGood, CallInv DEF SysClose
<1>3. ASSUME NEW fd \in FD, SysDup(fd) PROVE IInv'
  BY <1>0, <1>3, <1>a, DupGood, CallInv DEF SysDup
<1>4. ASSUME NEW old \in FD, NEW new \in FD, SysDup2(old, new) PROVE IInv'
  BY <1>0, <1>4, <1>a, Dup2Good, CallInv DEF SysDup2
<1>5. ASSUME NEW fd \in FD, NEW count \in Counts, SysRead(fd, count) PROVE IInv'
  <2> DEFINE z == Size(fds[fd].node)
             m == Min({count, z - fds[fd].ofs})
  <2>1. /\ fds[fd].node \in Slot /\ fds[fd].ofs \in Nat /\ fds[fd].ofs < z /\ z \in Nat
        /\ count \in Nat
    BY <1>5, <1>b DEF SysRead, HasFile, Good, Entry, Size
  <2> HIDE DEF z
  <2>2. m \in Nat /\ fds[fd].ofs + m \in Nat /\ fds[fd].ofs + m <= z
    <3>1. z - fds[fd].ofs \in Nat
      BY <2>1
    <3>2. m \in Nat /\ m <= z - fds[fd].ofs
      BY <2>1, <3>1, MinOfTwo
    <3> HIDE DEF m
    <3> QED  BY <2>1, <3>1, <3>2
  <2>3. fds' = [fds EXCEPT ![fd].ofs = fds[fd].ofs + m] /\ UNCHANGED storeVars
    BY <1>5 DEF SysRead, z
  <2> HIDE DEF m
  <2>4. Grown /\ fds[fd].node # Nil /\ z = Len(content'[fds[fd].node])
    BY <1>a, <2>1, <2>3 DEF z, Size
  <2>5. Good(fds', kind', content')
    BY <2>2, <2>3, <2>4, MoveGood
  <2> QED  BY <1>0, <2>4, <2>5, CallInv
<1>6. ASSUME NEW fd \in FD, NEW b \in Data, SysWrite(fd, b) PROVE IInv'
  <2> DEFINE n == fds[fd].node
  <2>1. n \in Slot /\ n # Nil
    BY <1>6 DEF SysWrite, HasFile, Good, Entry
  <2>2. /\ content[n] \o b \in Seq(Byte) /\ Len(content[n] \o b) = Len(content[n]) + Len(b)
        /\ Len(b) \in Nat
    BY <2>1, ConcatProperties, LenProperties DEF TypeOK
  <2>3. content' = [content EXCEPT ![n] = content[n] \o b] /\ kind' = kind
    BY <1>6 DEF SysWrite, Grow
  <2>4. Grown
    BY <1>b, <2>1, <2>2, <2>3 DEF Grown, Kept, TypeOK
  <2>5. Len(content'[n]) \in Nat
    BY <2>1, <2>4, LenProperties DEF Grown, Kept
  <2>6. fds' = [fds EXCEPT ![fd].ofs = Len(content'[n])]
    BY <1>6 DEF SysWrite
  <2>7. Good(fds', kind', content')
    <3> DEFINE o == Len(content'[n])
    <3>1. o \in Nat /\ o <= Len(content'[fds[fd].node])
      BY <2>5
    <3>2. fds' = [fds EXCEPT ![fd].ofs = o]
      BY <2>6
    <3> HIDE DEF o
    <3> QED  BY <2>1, <2>4, <3>1, <3>2, MoveGood
  <2> QED  BY <1>0, <2>4, <2>7, CallInv
<1>7. ASSUME NEW fd \in FD, NEW off \in Offs, NEW whence \in {"set", "cur", "end"},
             SysLseek(fd, off, whence)
      PROVE  IInv'
  <2> DEFINE z == Size(fds[fd].node)
             o == NewOffset(fd, off, whence)
             c == Min({o, z})
  <2>1. fds[fd].node \in Slot /\ fds[fd].ofs \in Nat /\ z \in Nat /\ off \in Int
    BY <1>7, <1>b DEF SysLseek, Good, Entry, Size
  <2>2. Word \in Nat /\ Word > 0 /\ \A x \in Int : x % Word \in Nat
    OBVIOUS
  <2>3. o \in Nat
    <3>1. CASE whence = "set"
      <4>1. o = IF off < 0 THEN 0 ELSE off  BY <3>1 DEF NewOffset
      <4> QED BY <2>1, <4>1
    <3>2. CASE whence = "cur"
      <4>1. o = (fds[fd].ofs + off) % Word  BY <3>2 DEF NewOffset
      <4> QED BY <2>1, <2>2, <4>1
    <3>3. CASE whence = "end"
      <4>1. o = (z + off) % Word  BY <3>3 DEF NewOffset
      <4> HIDE DEF z, o
      <4> QED BY <2>1, <2>2, <4>1
    <3> QED BY <3>1, <3>2, <3>3
  <2> HIDE DEF o, z
  <2>4. c \in Nat /\ c <= z
    BY <2>1, <2>3, MinOfTwo
  <2>5. fds' = [fds EXCEPT ![fd].ofs = c] /\ UNCHANGED storeVars /\ fds[fd].node # Nil
    BY <1>7 DEF SysLseek, Clamp, z, o
  <2> HIDE DEF c
  <2>6. Grown /\ z = Len(content'[fds[fd].node])
    BY <1>a, <2>5 DEF z, Size
  <2>7. Good(fds', kind', content')
    BY <2>4, <2>5, <2>6, MoveGood
  <2> QED  BY <1>0, <2>6, <2>7, CallInv
<1> QED  BY <1>1, <1>2, <1>3, <1>4, <1>5, <1>6, <1>7 DEF Syscall

\* The strengthened invariant holds in every reachable state.
THEOREM Invariance == Spec => []IInv
<1>1. Init => IInv
  <2> SUFFICES ASSUME Init PROVE IInv
    OBVIOUS
  <2>1. TypeOK
    BY EmptySeq DEF Init, TypeOK, Entry, Closed, BootPcs
  <2>2. Good(fds, kind, content)
    BY DEF Init, Good, Entry, Closed
  <2> QED  BY <2>1, <2>2 DEF IInv, Init, Held, Rewound, Open, Closed, BootPcs
<1>2. IInv /\ [Next]_vars => IInv'
  <2> SUFFICES ASSUME IInv, [Next]_vars PROVE IInv'
    OBVIOUS
  <2>1. CASE UNCHANGED vars
    BY <2>1 DEF vars, storeVars, runVars, IInv, TypeOK, Good, Held, Rewound, Open, BootPcs
  <2> QED  BY <2>1, BootInv, BuiltinInv, RunInv, InInv, OutInv, ExecInv, RestoreInv, SyscallInv
           DEF Next
<1> QED  BY <1>1, <1>2, PTL DEF Spec

\* Every variable keeps its type (the descriptor table of proc.h and the
\* locals of run_external).
THEOREM TypeCorrect == Spec => []TypeOK
<1>1. IInv => TypeOK
  BY DEF IInv
<1> QED  BY <1>1, Invariance, PTL

\* A used descriptor from 3 on has a node that exists, so the calls that do
\* not test for a null node never meet one.
THEOREM NodesAreOpen == Spec => []UsedIffOpen
<1>1. IInv => UsedIffOpen
  BY DEF IInv, UsedIffOpen, Good
<1> QED  BY <1>1, Invariance, PTL

\* No path through run_external leaves a descriptor behind, whatever the size
\* of the table and wherever the path fails.
THEOREM CommandsLeakNothing == Spec => []NoFdLeak
<1>1. IInv => NoFdLeak
  BY DEF IInv, NoFdLeak, Held, Open
<1> QED  BY <1>1, Invariance, PTL

\* The saved copies of the standard descriptors stay open until restored.
THEOREM SavedCopies == Spec => []SavedStaysOpen
<1>1. IInv => SavedStaysOpen
  <2> SUFFICES ASSUME IInv, pc \in {"out", "exec", "restore"},
                      NEW s \in {savedIn, savedOut}, s # None
               PROVE  s \notin Std /\ fds[s].used
    BY DEF SavedStaysOpen
  <2>1. s \in Open(fds)
    BY DEF IInv, Held
  <2> QED  BY <2>1 DEF Open
<1> QED  BY <1>1, Invariance, PTL

\* Offsets stay inside their files through reads, appends, seeks with any
\* wrapping offset, and files cut short between commands.
THEOREM OffsetsInside == Spec => []OffsetInFile
<1>1. IInv => OffsetInFile
  BY DEF IInv, OffsetInFile, Good, Size
<1> QED  BY <1>1, Invariance, PTL

LEMMA PrefixOfConcat ==
  ASSUME NEW s \in Seq(Byte), NEW b \in Seq(Byte)
  PROVE  IsPrefix(s, s) /\ IsPrefix(s, s \o b)
BY ConcatProperties, LenProperties, SubSeqProperties DEF IsPrefix

\* A running program can only add to the end of a file.
THEOREM OnlyAppends == Spec => ProgramsOnlyAppend
<1> DEFINE A == pc = "user" => \A s \in Slot : IsPrefix(content[s], content'[s])
<1>1. IInv /\ [Next]_vars => [A]_vars
  <2> SUFFICES ASSUME IInv, Next, pc = "user", NEW s \in Slot
               PROVE  IsPrefix(content[s], content'[s])
    OBVIOUS
  <2>1. Syscall
    BY DEF Next, RegisterTty, BindStdio, ProcInit, Builtin, RunExternal, RedirectIn,
           RedirectOut, ExecFails, ExecRuns, RestoreStd
  <2>2. content[s] \in Seq(Byte)
    BY DEF IInv, TypeOK
  <2>3. content' = content \/ \E n \in Slot, b \in Data : content' = [content EXCEPT ![n] = @ \o b]
    BY <2>1 DEF Syscall, SysOpen, SysClose, SysDup, SysDup2, SysRead, SysWrite, SysLseek,
                Opened, Created, Allocate, Grow, HasFile, IInv, Good, Entry, storeVars
  <2>4. CASE content' = content
    BY <2>2, <2>4, PrefixOfConcat
  <2>5. ASSUME NEW n \in Slot, NEW b \in Data, content' = [content EXCEPT ![n] = @ \o b]
        PROVE  IsPrefix(content[s], content'[s])
    <3>1. b \in Seq(Byte)
      OBVIOUS
    <3>2. content'[s] = content[s] \/ content'[s] = content[s] \o b
      BY <2>5 DEF IInv, TypeOK
    <3> QED  BY <2>2, <3>1, <3>2, PrefixOfConcat
  <2> QED  BY <2>3, <2>4, <2>5
<1> QED  BY <1>1, Invariance, PTL DEF Spec, ProgramsOnlyAppend
=============================================================================

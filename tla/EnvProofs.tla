------------------------------ MODULE EnvProofs ------------------------------
(***************************************************************************)
(* Proofs about Env, for every size of the array, of a string, of a name    *)
(* and of the sector, and every set of strings the commands are given.      *)
(*                                                                         *)
(* What the properties say of the store needs to be known of the sector     *)
(* too, since a restart reads the store from it: a sector is blank or holds *)
(* what env_save writes for a store that was as it should be, and so is     *)
(* what the drive has not written yet.  Most of the work is to follow       *)
(* env_save's layout and env_init's loop through it.                        *)
(***************************************************************************)
EXTENDS Env, SequenceTheorems, WellFoundedInduction, TLAPS

\* What the store holds at any time: strings that are whole and fit their
\* place, as many as fit the array, no variable twice.
Entry == {kv \in Seq(Char) : Len(kv) < KvMax /\ WellFormed(kv)}
Good(s) == /\ s \in Seq(Entry) /\ Len(s) <= EnvMax
           /\ \A i, j \in 1..Len(s) : NameOf(s[i]) = NameOf(s[j]) => i = j

-----------------------------------------------------------------------------
\* Least elements.

LEMMA Least ==
  ASSUME NEW T \in SUBSET Nat, T # {}
  PROVE  \E n \in T : \A m \in T : n <= m
<1> DEFINE less == OpToRel(<, Nat)
<1>1. \E n \in T : \A m \in T : ~(<<m, n>> \in less)
  <2>1. IsWellFoundedOn(less, Nat) BY NatLessThanWellFounded
  <2> HIDE DEF less
  <2> QED BY <2>1, WFMin
<1>2. \A m, n \in Nat : <<m, n>> \in less <=> m < n BY DEF OpToRel
<1> HIDE DEF less
<1> PICK n \in T : \A m \in T : ~(<<m, n>> \in less) BY <1>1
<1>3. \A m \in T : m \in Nat /\ n \in Nat /\ ~(m < n) BY <1>2
<1>4. \A m \in T : n <= m BY <1>3
<1> QED BY <1>4

\* A set of indices that has every next one if it has one, and the first, has
\* all: what stands for an induction over the rounds of a loop.
LEMMA Rounds ==
  ASSUME NEW n \in Nat, NEW T, 0 \in T, \A i \in 1..n : i - 1 \in T => i \in T
  PROVE  \A i \in 0..n : i \in T
<1> DEFINE U == (0..n) \ T
<1>1. ASSUME U # {} PROVE FALSE
  <2>1. PICK k \in U : \A m \in U : k <= m
    <3>1. U \in SUBSET Nat OBVIOUS
    <3> HIDE DEF U
    <3> QED BY <1>1, <3>1, Least
  <2>2. k \in 1..n /\ k \notin T OBVIOUS
  <2>3. k - 1 \in 0..n /\ ~(k <= k - 1) BY <2>2
  <2>4. k - 1 \in T BY <2>1, <2>3
  <2> QED BY <2>2, <2>4
<1> QED BY <1>1

\* The least and the greatest of a set.
LEMMA MinIs ==
  ASSUME NEW T \in SUBSET Nat, T # {}
  PROVE  Min(T) \in T /\ \A m \in T : Min(T) <= m
BY Least DEF Min

LEMMA MaxIs ==
  ASSUME NEW n \in Nat, NEW T \in SUBSET (0..n), T # {}
  PROVE  Max(T) \in T /\ \A m \in T : m <= Max(T)
<1> DEFINE U == {k \in 0..n : \A m \in T : m <= k}
<1>1. n \in U OBVIOUS
<1>2. U \in SUBSET Nat OBVIOUS
<1>3. PICK k \in U : \A m \in U : k <= m
  <2> HIDE DEF U
  <2> QED BY <1>1, <1>2, Least
<1>4. k \in 0..n /\ \A m \in T : m <= k OBVIOUS
<1>5. k \in T
  <2> SUFFICES ASSUME k \notin T PROVE FALSE OBVIOUS
  <2>1. PICK m \in T : TRUE OBVIOUS
  <2>2. m <= k /\ m # k /\ m \in 0..n BY <1>4
  <2>3. k - 1 \in 0..n BY <1>4, <2>2
  <2>4. \A i \in T : i <= k - 1 BY <1>4
  <2>5. k - 1 \in U BY <2>3, <2>4
  <2> QED BY <1>3, <1>4, <2>5
<1>6. T # {} /\ \E x \in T : \A y \in T : x >= y BY <1>4, <1>5
<1>7. \A x, y \in T : (x >= y) <=> (y <= x) OBVIOUS
<1> QED BY <1>6, <1>7 DEF Max

\* A loop of n rounds that starts from first: there is the function that says
\* what it has after each.
IsLoop(f, n, first, step) == f = [i \in 0..n |-> IF i = 0 THEN first ELSE step[i][f[i - 1]]]

LEMMA LoopExists ==
  ASSUME NEW n \in Nat, NEW first, NEW step
  PROVE  \E f : IsLoop(f, n, first, step)
<1> DEFINE T == {m \in Nat : \E f : IsLoop(f, m, first, step)}
<1>1. 0 \in T
  <2> DEFINE f == [i \in 0..0 |-> first]
  <2>1. f = [i \in 0..0 |-> IF i = 0 THEN first ELSE step[i][f[i - 1]]] OBVIOUS
  <2> QED BY <2>1 DEF IsLoop
<1>2. ASSUME NEW k \in 1..n, k - 1 \in T PROVE k \in T
  <2>1. PICK g : IsLoop(g, k - 1, first, step) BY <1>2
  <2> DEFINE f == [i \in 0..k |-> IF i = k THEN step[k][g[k - 1]] ELSE g[i]]
  <2>2. ASSUME NEW i \in 0..k
        PROVE  f[i] = IF i = 0 THEN first ELSE step[i][f[i - 1]]
    <3>1. CASE i = k
      <4>1. f[i] = step[k][g[k - 1]] BY <3>1
      <4>2. f[k - 1] = g[k - 1] OBVIOUS
      <4> HIDE DEF f
      <4> QED BY <3>1, <4>1, <4>2
    <3>2. CASE i # k
      <4>1. f[i] = g[i] /\ i \in 0..(k - 1) BY <3>2
      <4>2. g[i] = IF i = 0 THEN first ELSE step[i][g[i - 1]] BY <2>1, <4>1 DEF IsLoop
      <4>3. i # 0 => i - 1 \in 0..k /\ i - 1 # k BY <4>1
      <4>4. i # 0 => f[i - 1] = g[i - 1] BY <4>3
      <4> HIDE DEF f
      <4> QED BY <4>1, <4>2, <4>4
    <3> QED BY <3>1, <3>2
  <2>3. f = [i \in 0..k |-> f[i]] OBVIOUS
  <2> HIDE DEF f
  <2>4. [i \in 0..k |-> f[i]] = [i \in 0..k |-> IF i = 0 THEN first ELSE step[i][f[i - 1]]]
    BY <2>2
  <2>5. IsLoop(f, k, first, step) BY <2>3, <2>4 DEF IsLoop
  <2> QED BY <2>5
<1> HIDE DEF T
<1>3. n \in T BY <1>1, <1>2, Rounds
<1> QED BY <1>3 DEF T

-----------------------------------------------------------------------------
\* Names.

\* Where the first '=' of a string is.
LEMMA EqIs ==
  ASSUME NEW kv \in Seq(Char)
  PROVE  /\ EqAt(kv) \in 0..Len(kv)
         /\ EqAt(kv) # 0 => kv[EqAt(kv)] = Eq
         /\ \A j \in 1..(EqAt(kv) - 1) : kv[j] # Eq
<1> DEFINE T == {i \in DOMAIN kv : kv[i] = Eq}
<1>0. Len(kv) \in Nat /\ DOMAIN kv = 1..Len(kv) BY LenProperties
<1>1. CASE T = {} BY <1>0, <1>1 DEF EqAt
<1>2. CASE T # {}
  <2>1. T \in SUBSET Nat BY <1>0
  <2> HIDE DEF T
  <2>2. PICK k \in T : \A m \in T : k <= m BY <1>2, <2>1, Least
  <2> USE DEF T
  <2>3. \A j \in 1..(k - 1) : kv[j] # Eq BY <1>0, <2>2
  <2>4. \E i \in DOMAIN kv : kv[i] = Eq /\ \A j \in 1..(i - 1) : kv[j] # Eq BY <2>3
  <2>5. EqAt(kv) \in DOMAIN kv /\ kv[EqAt(kv)] = Eq /\ \A j \in 1..(EqAt(kv) - 1) : kv[j] # Eq
    BY <2>4 DEF EqAt
  <2> QED BY <1>0, <2>5
<1> QED BY <1>1, <1>2

\* A string whose first '=' is at e.
LEMMA EqUnique ==
  ASSUME NEW kv \in Seq(Char), NEW e \in 1..Len(kv), kv[e] = Eq, \A j \in 1..(e - 1) : kv[j] # Eq
  PROVE  EqAt(kv) = e
<1>0. Len(kv) \in Nat /\ DOMAIN kv = 1..Len(kv) BY LenProperties
<1>1. EqAt(kv) # 0 /\ kv[EqAt(kv)] = Eq /\ EqAt(kv) \in 1..Len(kv)
  <2>1. \E i \in DOMAIN kv : kv[i] = Eq /\ \A j \in 1..(i - 1) : kv[j] # Eq BY <1>0
  <2>2. EqAt(kv) \in DOMAIN kv BY <2>1 DEF EqAt
  <2> QED BY <1>0, <2>2, EqIs
<1>2. \A j \in 1..(EqAt(kv) - 1) : kv[j] # Eq BY EqIs
<1>3. ~(EqAt(kv) < e) BY <1>1
<1>4. ~(e < EqAt(kv)) BY <1>0, <1>1, <1>2
<1> QED BY <1>0, <1>1, <1>3, <1>4

\* The name of a string is what comes before its first '='.
LEMMA NameIs ==
  ASSUME NEW kv \in Seq(Char), WellFormed(kv)
  PROVE  /\ NameOf(kv) \in Seq(Char) /\ Len(NameOf(kv)) = EqAt(kv) - 1
         /\ \A i \in 1..(EqAt(kv) - 1) : NameOf(kv)[i] = kv[i]
         /\ EqAt(kv) \in 2..NameMax /\ EqAt(kv) <= Len(kv) /\ kv[EqAt(kv)] = Eq
<1>1. EqAt(kv) \in 2..NameMax BY DEF WellFormed
<1>2. EqAt(kv) \in Nat /\ EqAt(kv) > 1 BY <1>1, SizesAssumption DEF SizesAssumption
<1>3. EqAt(kv) <= Len(kv) /\ kv[EqAt(kv)] = Eq /\ Len(kv) \in Nat BY <1>2, EqIs, LenProperties
<1>4. \A i \in 1..(EqAt(kv) - 1) : kv[i] \in Char BY <1>2, <1>3, ElementOfSeq
<1>5. NameOf(kv) = SubSeq(kv, 1, EqAt(kv) - 1) BY DEF NameOf
<1>6. EqAt(kv) - 1 \in Int /\ 1 <= EqAt(kv) - 1 BY <1>2
<1>7. /\ NameOf(kv) \in Seq(Char) /\ Len(NameOf(kv)) = EqAt(kv) - 1 - 1 + 1
      /\ \A i \in 1..(EqAt(kv) - 1 - 1 + 1) : NameOf(kv)[i] = kv[1 + i - 1]
  BY <1>4, <1>5, <1>6, SubSeqProperties
<1>8. EqAt(kv) - 1 - 1 + 1 = EqAt(kv) - 1 /\ \A i \in Nat : 1 + i - 1 = i BY <1>2
<1> QED BY <1>1, <1>2, <1>3, <1>7, <1>8

\* name_match is equality of names.
LEMMA MatchIsName ==
  ASSUME NEW kv \in Seq(Char), WellFormed(kv), NEW name \in Seq(Char)
  PROVE  Match(kv, name) <=> NameOf(kv) = name
<1> DEFINE e == EqAt(kv)
<1>0. /\ Len(kv) \in Nat /\ DOMAIN kv = 1..Len(kv)
      /\ Len(name) \in Nat /\ DOMAIN name = 1..Len(name)
  BY LenProperties
<1>1. /\ NameOf(kv) \in Seq(Char) /\ Len(NameOf(kv)) = e - 1
      /\ \A i \in 1..(e - 1) : NameOf(kv)[i] = kv[i]
      /\ e \in Nat /\ e > 1 /\ e <= Len(kv) /\ kv[e] = Eq
  BY NameIs, SizesAssumption DEF SizesAssumption
<1>2. \A i \in 1..(e - 1) : kv[i] # Eq BY EqIs
<1>3. Match(kv, name) <=>
        /\ \A i \in 1..(e - 1) : i \in DOMAIN name /\ kv[i] = name[i]
        /\ \A i \in DOMAIN name : name[i] # Eq /\ (i \in DOMAIN kv => kv[i] # Eq)
        /\ Len(name) + 1 \in DOMAIN kv /\ kv[Len(name) + 1] = Eq
  BY DEF Match
<1> HIDE DEF e
<1>4. ASSUME Match(kv, name) PROVE NameOf(kv) = name
  <2>1. e - 1 \in 1..Len(name) BY <1>0, <1>1, <1>3, <1>4
  <2>2. e \notin 1..Len(name) BY <1>0, <1>1, <1>3, <1>4
  <2>3. Len(name) = e - 1 BY <1>0, <1>1, <2>1, <2>2
  <2>4. \A i \in 1..Len(name) : NameOf(kv)[i] = name[i] BY <1>1, <1>3, <1>4, <2>3
  <2> QED BY <1>1, <2>3, <2>4, SeqEqual
<1>5. ASSUME NameOf(kv) = name PROVE Match(kv, name)
  <2>1. Len(name) = e - 1 /\ \A i \in 1..(e - 1) : name[i] = kv[i] BY <1>1, <1>5
  <2>2. \A i \in 1..(e - 1) : i \in DOMAIN name /\ kv[i] = name[i] BY <1>0, <2>1
  <2>3. \A i \in DOMAIN name : name[i] # Eq /\ (i \in DOMAIN kv => kv[i] # Eq)
    BY <1>0, <1>2, <2>1
  <2>4. Len(name) + 1 = e /\ e \in DOMAIN kv BY <1>0, <1>1, <2>1
  <2> QED BY <1>1, <1>3, <2>2, <2>3, <2>4
<1> QED BY <1>4, <1>5

\* What is cut off a long value leaves the name alone.
LEMMA KeptIs ==
  ASSUME NEW kv \in Seq(Char), WellFormed(kv)
  PROVE  /\ Kept(kv) \in Entry /\ NameOf(Kept(kv)) = NameOf(kv)
         /\ Len(kv) < KvMax => Kept(kv) = kv
<1> DEFINE n == Min({Len(kv), KvMax - 1})
           e == EqAt(kv)
           k == Kept(kv)
<1>0. Len(kv) \in Nat /\ KvMax \in Nat /\ KvMax - 1 \in Nat
  BY LenProperties, SizesAssumption DEF SizesAssumption
<1>1. n \in {Len(kv), KvMax - 1} /\ n <= Len(kv) /\ n <= KvMax - 1 BY <1>0, MinIs
<1>2. n \in Nat BY <1>0, <1>1
<1>3. /\ e \in Nat /\ e > 1 /\ e <= NameMax /\ NameMax < KvMax /\ NameMax \in Nat
      /\ e <= Len(kv) /\ kv[e] = Eq
      /\ NameOf(kv) \in Seq(Char) /\ Len(NameOf(kv)) = e - 1
      /\ \A i \in 1..(e - 1) : NameOf(kv)[i] = kv[i]
  BY NameIs, SizesAssumption DEF SizesAssumption
<1>4. \A j \in 1..(e - 1) : kv[j] # Eq BY EqIs
<1>5. k = SubSeq(kv, 1, n) BY DEF Kept
<1> HIDE DEF n, k
<1>6. e <= n
  <2>1. e <= KvMax - 1 BY <1>0, <1>3
  <2> QED BY <1>0, <1>1, <1>3, <2>1
<1>7. k \in Seq(Char) /\ Len(k) = n /\ \A i \in 1..n : k[i] = kv[i]
  <2>1. \A i \in 1..n : kv[i] \in Char BY <1>0, <1>1, <1>2, ElementOfSeq
  <2>2. /\ k \in Seq(Char) /\ Len(k) = IF 1 <= n THEN n - 1 + 1 ELSE 0
        /\ \A i \in 1..(n - 1 + 1) : k[i] = kv[1 + i - 1]
    BY <1>2, <1>5, <2>1, SubSeqProperties
  <2>3. n - 1 + 1 = n /\ (~(1 <= n) => n = 0) /\ \A i \in Nat : 1 + i - 1 = i BY <1>2
  <2> QED BY <2>2, <2>3
<1> HIDE DEF e
<1>8. EqAt(k) = e
  <2>1. e \in 1..Len(k) /\ k[e] = Eq BY <1>2, <1>3, <1>6, <1>7
  <2>2. \A j \in 1..(e - 1) : k[j] # Eq BY <1>2, <1>3, <1>4, <1>6, <1>7
  <2> QED BY <1>7, <2>1, <2>2, EqUnique
<1>9. WellFormed(k) /\ Len(k) < KvMax
  <2>1. e \in 2..NameMax BY <1>3
  <2>2. n < KvMax BY <1>0, <1>1, <1>2
  <2> QED BY <1>7, <1>8, <2>1, <2>2 DEF WellFormed
<1>10. NameOf(k) = NameOf(kv)
  <2>1. NameOf(k) \in Seq(Char) /\ Len(NameOf(k)) = e - 1 /\ \A i \in 1..(e - 1) : NameOf(k)[i] = k[i]
    BY <1>7, <1>8, <1>9, NameIs
  <2>2. \A i \in 1..(e - 1) : NameOf(k)[i] = NameOf(kv)[i] BY <1>2, <1>3, <1>6, <1>7, <2>1
  <2> QED BY <1>3, <2>1, <2>2, SeqEqual
<1>11. Len(kv) < KvMax => k = kv
  <2> SUFFICES ASSUME Len(kv) < KvMax PROVE k = kv OBVIOUS
  <2>1. n = Len(kv) BY <1>0, <1>1
  <2> QED BY <1>5, <2>1, SubSeqFull
<1> QED BY <1>7, <1>9, <1>10, <1>11 DEF Entry, k

-----------------------------------------------------------------------------
\* The operations on a good store.

\* What is known of each string of a good store.
LEMMA EntryOf ==
  ASSUME NEW s, Good(s)
  PROVE  /\ Len(s) \in Nat /\ DOMAIN s = 1..Len(s) /\ Len(s) <= EnvMax
         /\ \A i \in 1..Len(s) : /\ s[i] \in Entry /\ s[i] \in Seq(Char) /\ WellFormed(s[i])
                                 /\ Len(s[i]) < KvMax /\ NameOf(s[i]) \in Seq(Char)
         /\ \A i, j \in 1..Len(s) : NameOf(s[i]) = NameOf(s[j]) => i = j
<1>1. s \in Seq(Entry) /\ Len(s) <= EnvMax
      /\ \A i, j \in 1..Len(s) : NameOf(s[i]) = NameOf(s[j]) => i = j
  BY DEF Good
<1>2. \A i \in 1..Len(s) : s[i] \in Entry BY <1>1, ElementOfSeq
<1>3. \A e \in Entry : e \in Seq(Char) /\ WellFormed(e) /\ Len(e) < KvMax BY DEF Entry
<1>4. \A e \in Entry : NameOf(e) \in Seq(Char) BY <1>3, NameIs
<1>5. Len(s) \in Nat /\ DOMAIN s = 1..Len(s) BY <1>1, LenProperties
<1> QED BY <1>1, <1>2, <1>3, <1>4, <1>5

\* The entries that match a name are those that have it.
LEMMA HitsIs ==
  ASSUME NEW s, Good(s), NEW name \in Seq(Char)
  PROVE  /\ Hits(s, name) = {i \in 1..Len(s) : NameOf(s[i]) = name}
         /\ Hits(s, name) \in SUBSET Nat
<1>1. \A i \in 1..Len(s) : Match(s[i], name) <=> NameOf(s[i]) = name BY EntryOf, MatchIsName
<1>2. DOMAIN s = 1..Len(s) /\ Len(s) \in Nat BY EntryOf
<1> QED BY <1>1, <1>2 DEF Hits

\* In a good store the first hit is the only one.
LEMMA OneHit ==
  ASSUME NEW s, Good(s), NEW k \in 1..Len(s)
  PROVE  /\ IsSet(s, NameOf(s[k])) /\ Min(Hits(s, NameOf(s[k]))) = k
         /\ Get(s, NameOf(s[k])) = ValueOf(s[k])
<1> DEFINE H == Hits(s, NameOf(s[k]))
<1>1. NameOf(s[k]) \in Seq(Char) /\ Len(s) \in Nat BY EntryOf
<1>2. H = {i \in 1..Len(s) : NameOf(s[i]) = NameOf(s[k])} /\ H \in SUBSET Nat BY <1>1, HitsIs
<1>3. k \in H /\ \A i \in H : i = k BY <1>2, EntryOf
<1>4. Min(H) \in H
  <2> HIDE DEF H
  <2> QED BY <1>2, <1>3, MinIs
<1> QED BY <1>3, <1>4 DEF IsSet, Get

\* The three ways env_set ends for a string that is well formed.
Refuses(s, kv) == Len(s) = EnvMax /\ \A i \in 1..Len(s) : NameOf(s[i]) # NameOf(kv)
Replaces(s, kv, t, k) == /\ k \in 1..Len(s) /\ NameOf(s[k]) = NameOf(kv)
                         /\ Len(t) = Len(s) /\ t[k] = Kept(kv)
                         /\ \A j \in 1..Len(s) : j # k => t[j] = s[j]
Appends(s, kv, t) == /\ \A i \in 1..Len(s) : NameOf(s[i]) # NameOf(kv)
                     /\ Len(t) = Len(s) + 1 /\ t[Len(s) + 1] = Kept(kv)
                     /\ \A j \in 1..Len(s) : t[j] = s[j]

\* SetKv ends in one of them, and with a good store.
LEMMA SetResult ==
  ASSUME NEW s, Good(s), NEW kv \in Seq(Char), WellFormed(kv)
  PROVE  LET t == SetKv(s, kv) IN
         /\ Good(t)
         /\ \/ ~Accepts(s, kv) /\ Refuses(s, kv) /\ t = s
            \/ Accepts(s, kv) /\ \E k \in 1..Len(s) : Replaces(s, kv, t, k)
            \/ Accepts(s, kv) /\ Appends(s, kv, t)
<1> DEFINE name == NameOf(kv)
           H == Hits(s, name)
           t == SetKv(s, kv)
           e == Kept(kv)
<1>1. name \in Seq(Char) BY NameIs
<1>2. H = {i \in 1..Len(s) : NameOf(s[i]) = name} /\ H \in SUBSET Nat BY <1>1, HitsIs
<1>3. e \in Entry /\ NameOf(e) = name BY KeptIs
<1>4. s \in Seq(Entry) BY DEF Good
<1>5. Len(s) \in Nat /\ Len(s) <= EnvMax /\ EnvMax \in Nat /\ (IsSet(s, name) <=> H # {})
      /\ \A i, j \in 1..Len(s) : NameOf(s[i]) = NameOf(s[j]) => i = j
  BY EntryOf, SizesAssumption DEF SizesAssumption, IsSet
<1>6. Accepts(s, kv) <=> IsSet(s, name) \/ Len(s) < EnvMax BY DEF Accepts
<1> HIDE DEF name
<1>7. CASE ~Accepts(s, kv)
  <2>1. t = s BY <1>7 DEF SetKv
  <2>2. ~IsSet(s, name) /\ ~(Len(s) < EnvMax) BY <1>6, <1>7
  <2>4. H = {} /\ Len(s) = EnvMax
    <3> HIDE DEF H
    <3> QED BY <1>5, <2>2
  <2>3. Refuses(s, kv) BY <1>2, <2>4 DEF Refuses, name
  <2> QED BY <1>7, <2>1, <2>3
<1>8. CASE H # {}
  <2>1. Accepts(s, kv) /\ IsSet(s, name) BY <1>5, <1>6, <1>8
  <2>2. t = [s EXCEPT ![Min(H)] = e] BY <2>1 DEF SetKv, name
  <2>3. PICK k \in 1..Len(s) : k = Min(H) /\ NameOf(s[k]) = name
    <3>1. Min(H) \in H
      <4> HIDE DEF H
      <4> QED BY <1>2, <1>8, MinIs
    <3> QED BY <1>2, <3>1
  <2>4. t = [s EXCEPT ![k] = e] BY <2>2, <2>3
  <2> HIDE DEF t, H, e
  <2>5. t \in Seq(Entry) /\ Len(t) = Len(s) /\ \A j \in 1..Len(s) : t[j] = IF j = k THEN e ELSE s[j]
    BY <1>3, <1>4, <2>4, ExceptSeq
  <2>6. \A j \in 1..Len(s) : NameOf(t[j]) = NameOf(s[j]) BY <1>3, <2>3, <2>5
  <2>7. Good(t) BY <1>5, <2>5, <2>6 DEF Good
  <2>8. Replaces(s, kv, t, k) BY <2>3, <2>5 DEF Replaces, name, e
  <2> QED BY <2>1, <2>3, <2>7, <2>8 DEF t
<1>9. CASE Accepts(s, kv) /\ H = {}
  <2>1. ~IsSet(s, name) /\ Len(s) < EnvMax BY <1>5, <1>6, <1>9
  <2>2. t = Append(s, e) BY <1>9, <2>1 DEF SetKv, name
  <2> HIDE DEF t, e
  <2>3. /\ t \in Seq(Entry) /\ Len(t) = Len(s) + 1
        /\ \A j \in 1..Len(s) : t[j] = s[j] /\ t[Len(s) + 1] = e
    BY <1>3, <1>4, <2>2, AppendProperties
  <2>4. t[Len(s) + 1] = e BY <1>3, <1>4, <2>2, AppendProperties
  <2>5. \A i \in 1..Len(s) : NameOf(s[i]) # name BY <1>2, <1>9
  <2>6. \A j \in 1..Len(t) : j \in 1..Len(s) \/ j = Len(s) + 1 BY <1>5, <2>3
  <2>7. ASSUME NEW i \in 1..Len(t), NEW j \in 1..Len(t), NameOf(t[i]) = NameOf(t[j]) PROVE i = j
    <3>1. CASE i \in 1..Len(s) /\ j \in 1..Len(s) BY <1>5, <2>3, <2>7, <3>1
    <3>2. CASE i \in 1..Len(s) /\ j = Len(s) + 1 BY <1>3, <2>3, <2>4, <2>5, <2>7, <3>2
    <3>3. CASE i = Len(s) + 1 /\ j \in 1..Len(s) BY <1>3, <2>3, <2>4, <2>5, <2>7, <3>3
    <3>4. CASE i = Len(s) + 1 /\ j = Len(s) + 1 BY <3>4
    <3> QED BY <2>6, <3>1, <3>2, <3>3, <3>4
  <2>8. Len(t) <= EnvMax BY <1>5, <2>1, <2>3
  <2>9. Good(t) BY <2>3, <2>7, <2>8 DEF Good
  <2>10. Appends(s, kv, t) BY <2>3, <2>4, <2>5 DEF Appends, name, e
  <2> QED BY <1>9, <2>9, <2>10 DEF t
<1> QED BY <1>7, <1>8, <1>9

\* A store without its i-th string.
Removed(s, i, t) == /\ Len(t) = Len(s) - 1
                    /\ \A j \in 1..(Len(s) - 1) : t[j] = IF j = i THEN s[Len(s)] ELSE s[j]

\* RemoveEntry leaves a good store.
LEMMA RemoveResult ==
  ASSUME NEW s, Good(s), NEW i \in 1..Len(s)
  PROVE  Good(RemoveEntry(s, i)) /\ Removed(s, i, RemoveEntry(s, i))
<1> DEFINE u == [s EXCEPT ![i] = s[Len(s)]]
           t == RemoveEntry(s, i)
<1>1. s \in Seq(Entry) BY DEF Good
<1>2. Len(s) \in Nat /\ Len(s) >= 1 /\ Len(s) <= EnvMax /\ EnvMax \in Nat
      /\ \A j, k \in 1..Len(s) : NameOf(s[j]) = NameOf(s[k]) => j = k
  BY EntryOf, SizesAssumption DEF SizesAssumption
<1>3. s[Len(s)] \in Entry BY <1>1, <1>2, ElementOfSeq
<1>4. u \in Seq(Entry) /\ Len(u) = Len(s) /\ \A j \in 1..Len(s) : u[j] = IF j = i THEN s[Len(s)] ELSE s[j]
  BY <1>1, <1>3, ExceptSeq
<1>5. t = SubSeq(u, 1, Len(s) - 1) BY <1>4 DEF RemoveEntry, Front
<1> HIDE DEF u, t
<1>6. t \in Seq(Entry) /\ Len(t) = Len(s) - 1 /\ \A j \in 1..(Len(s) - 1) : t[j] = u[j]
  <2>1. \A j \in 1..(Len(s) - 1) : u[j] \in Entry BY <1>2, <1>4, ElementOfSeq
  <2>2. /\ t \in Seq(Entry) /\ Len(t) = IF 1 <= Len(s) - 1 THEN Len(s) - 1 - 1 + 1 ELSE 0
        /\ \A j \in 1..(Len(s) - 1 - 1 + 1) : t[j] = u[1 + j - 1]
    BY <1>2, <1>5, <2>1, SubSeqProperties
  <2>3. Len(s) - 1 - 1 + 1 = Len(s) - 1 /\ (~(1 <= Len(s) - 1) => Len(s) - 1 = 0) BY <1>2
  <2>4. Len(t) = Len(s) - 1 BY <2>2, <2>3
  <2>5. \A j \in 1..(Len(s) - 1) : 1 + j - 1 = j OBVIOUS
  <2>6. \A j \in 1..(Len(s) - 1) : t[j] = u[j] BY <2>2, <2>3, <2>5
  <2> QED BY <2>2, <2>4, <2>6
<1>7. \A j \in 1..(Len(s) - 1) : t[j] = IF j = i THEN s[Len(s)] ELSE s[j] BY <1>2, <1>4, <1>6
<1>8. ASSUME NEW j \in 1..Len(t), NEW k \in 1..Len(t), NameOf(t[j]) = NameOf(t[k]) PROVE j = k
  <2>1. j \in 1..(Len(s) - 1) /\ k \in 1..(Len(s) - 1) BY <1>6
  <2>2. j \in 1..Len(s) /\ k \in 1..Len(s) /\ Len(s) \in 1..Len(s) /\ j # Len(s) /\ k # Len(s) BY <1>2, <2>1
  <2>3. t[j] = (IF j = i THEN s[Len(s)] ELSE s[j]) /\ t[k] = (IF k = i THEN s[Len(s)] ELSE s[k])
    BY <1>7, <2>1
  <2> QED BY <1>2, <1>8, <2>2, <2>3
<1>9. Good(t) BY <1>2, <1>6, <1>8 DEF Good
<1>10. Removed(s, i, t) BY <1>6, <1>7 DEF Removed
<1> QED BY <1>9, <1>10 DEF t

\* What every boot starts from.
LEMMA DefaultGood == Good(<<PathKv>>) /\ Len(<<PathKv>>) = 1 /\ <<PathKv>>[1] = PathKv
<1>1. PathKv \in Entry BY StringsAssumption DEF StringsAssumption, Entry, WellFormed
<1>2. <<PathKv>> \in Seq(Entry) /\ Len(<<PathKv>>) = 1 /\ <<PathKv>>[1] = PathKv BY <1>1
<1>3. \A i, j \in 1..1 : i = j OBVIOUS
<1>4. 1 <= EnvMax BY SizesAssumption DEF SizesAssumption
<1> QED BY <1>2, <1>3, <1>4 DEF Good

-----------------------------------------------------------------------------
\* The layout of the sector.

\* A function on 1..k is a sequence of length k.
LEMMA ByteSeq ==
  ASSUME NEW k \in Nat, NEW f \in [1..k -> Byte]
  PROVE  f \in Seq(Byte) /\ Len(f) = k
BY SeqDef, LenProperties

\* Two byte strings one after the other.
LEMMA Joined ==
  ASSUME NEW x \in Seq(Byte), NEW y \in Seq(Byte), NEW k, k = Len(x), NEW m, m = Len(y)
  PROVE  /\ k \in Nat /\ m \in Nat
         /\ x \o y \in Seq(Byte) /\ Len(x \o y) = k + m
         /\ \A i \in 1..k : (x \o y)[i] = x[i]
         /\ \A i \in (k + 1)..(k + m) : (x \o y)[i] = y[i - k]
<1>1. k \in Nat /\ m \in Nat BY LenProperties
<1>2. /\ x \o y \in Seq(Byte) /\ Len(x \o y) = Len(x) + Len(y)
      /\ \A i \in 1..(Len(x) + Len(y)) : (x \o y)[i] = IF i <= Len(x) THEN x[i] ELSE y[i - Len(x)]
  BY ConcatProperties
<1>3. \A i \in 1..(k + m) : (x \o y)[i] = IF i <= k THEN x[i] ELSE y[i - k] BY <1>2
<1>4. \A i \in 1..k : i \in 1..(k + m) /\ i <= k BY <1>1
<1>5. \A i \in (k + 1)..(k + m) : i \in 1..(k + m) /\ ~(i <= k) BY <1>1
<1> QED BY <1>1, <1>2, <1>3, <1>4, <1>5

\* Where str lies in b from o on, SubSeq finds it.
LEMMA Slice ==
  ASSUME NEW S, NEW str \in Seq(S), NEW b, NEW o \in Nat, NEW first, first = o + 1,
         NEW last, last = o + Len(str), \A k \in 1..Len(str) : b[o + k] = str[k]
  PROVE  SubSeq(b, first, last) = str
<1> DEFINE l == Len(str)
           u == SubSeq(b, first, last)
<1>1. l \in Nat /\ \A k \in 1..l : str[k] \in S BY LenProperties, ElementOfSeq
<1>2. first \in Int /\ last \in Int /\ first = o + 1 /\ last = o + l BY <1>1
<1>3. \A k \in 1..l : b[o + k] = str[k] OBVIOUS
<1>4. ASSUME NEW k \in first..last PROVE b[k] \in S
  <2>1. k - o \in 1..l /\ o + (k - o) = k BY <1>1, <1>2
  <2> QED BY <1>1, <1>3, <2>1
<1> HIDE DEF l, u
<1>5. /\ u \in Seq(S) /\ Len(u) = IF first <= last THEN last - first + 1 ELSE 0
      /\ \A k \in 1..(last - first + 1) : u[k] = b[first + k - 1]
  BY <1>2, <1>4, SubSeqProperties DEF u
<1>6. last - first + 1 = l /\ (~(first <= last) => l = 0) BY <1>1, <1>2
<1>7. Len(u) = l BY <1>5, <1>6
<1>8. ASSUME NEW k \in 1..l PROVE u[k] = str[k]
  <2>1. first + k - 1 = o + k BY <1>2
  <2> QED BY <1>3, <1>5, <1>6, <2>1
<1> QED BY <1>5, <1>7, <1>8, SeqEqual DEF l, u

\* x starts a record for str after its first o bytes.
RecordAt(x, o, str) == /\ x[o + 1] = Len(str)
                       /\ \A k \in 1..Len(str) : x[o + 1 + k] = str[k]

\* A string fits the byte that holds its length, and makes one record.
LEMMA EntryBytes ==
  ASSUME NEW e \in Entry
  PROVE  /\ e \in Seq(Byte) /\ Len(e) \in 1..(KvMax - 1) /\ Len(e) \in Byte
         /\ <<Len(e)>> \o e \in Seq(Byte) /\ Len(<<Len(e)>> \o e) = 1 + Len(e)
         /\ RecordAt(<<Len(e)>> \o e, 0, e)
<1>1. e \in Seq(Char) /\ WellFormed(e) /\ Len(e) < KvMax BY DEF Entry
<1>2. Char \subseteq Byte BY StringsAssumption DEF StringsAssumption, Byte
<1>3. e \in Seq(Byte) BY <1>1, <1>2, SeqMonotonic
<1>4. Len(e) \in Nat /\ EqAt(e) \in Nat /\ EqAt(e) > 1 /\ EqAt(e) <= Len(e)
  BY <1>1, NameIs, LenProperties, SizesAssumption DEF SizesAssumption
<1>5. KvMax \in 1..255 BY SizesAssumption DEF SizesAssumption
<1>6. Len(e) \in 1..(KvMax - 1) /\ Len(e) \in Byte
  <2>1. Len(e) >= 1 BY <1>4
  <2>2. KvMax \in Nat /\ KvMax <= 255 /\ Len(e) < KvMax BY <1>1, <1>5
  <2>3. Len(e) \in 1..(KvMax - 1) BY <1>4, <2>1, <2>2
  <2>4. \A l, m \in Nat : l < m /\ m <= 255 => l \in 0..255 OBVIOUS
  <2>5. Len(e) \in 0..255 BY <1>4, <2>2, <2>4
  <2> QED BY <2>3, <2>5 DEF Byte
<1>7. <<Len(e)>> \in Seq(Byte) /\ Len(<<Len(e)>>) = 1 /\ <<Len(e)>>[1] = Len(e) BY <1>6
<1> DEFINE l == <<Len(e)>>
<1> HIDE DEF l
<1>8. /\ l \o e \in Seq(Byte) /\ Len(l \o e) = 1 + Len(e)
      /\ \A i \in 1..(1 + Len(e)) : (l \o e)[i] = IF i <= 1 THEN l[1] ELSE e[i - 1]
  <2>1. l \in Seq(Byte) /\ Len(l) = 1 BY <1>7 DEF l
  <2>2. /\ l \o e \in Seq(Byte) /\ Len(l \o e) = Len(l) + Len(e)
        /\ \A i \in 1..(Len(l) + Len(e)) : (l \o e)[i] = IF i <= Len(l) THEN l[i] ELSE e[i - Len(l)]
    BY <1>3, <2>1, ConcatProperties
  <2>3. \A i \in 1..(1 + Len(e)) : i <= 1 => i = 1 BY <1>4
  <2> QED BY <2>1, <2>2, <2>3
<1>9. RecordAt(l \o e, 0, e)
  <2>1. (l \o e)[0 + 1] = Len(e) BY <1>4, <1>7, <1>8 DEF l
  <2>2. ASSUME NEW k \in 1..Len(e) PROVE (l \o e)[0 + 1 + k] = e[k]
    <3>1. 0 + 1 + k \in 1..(1 + Len(e)) /\ ~(0 + 1 + k <= 1) /\ 0 + 1 + k - 1 = k BY <1>4
    <3> QED BY <1>8, <3>1
  <2> QED BY <2>1, <2>2 DEF RecordAt
<1> QED BY <1>3, <1>6, <1>8, <1>9 DEF l

\* A record stays where it is when bytes are put after it, and moves by as
\* many as are put before it.
LEMMA RecordShifts ==
  ASSUME NEW x \in Seq(Byte), NEW y \in Seq(Byte), NEW o \in Nat, NEW str, Len(str) \in Nat
  PROVE  /\ RecordAt(x, o, str) /\ o + 1 + Len(str) <= Len(x) => RecordAt(x \o y, o, str)
         /\ RecordAt(y, o, str) /\ o + 1 + Len(str) <= Len(y) => RecordAt(x \o y, Len(x) + o, str)
<1> DEFINE z == x \o y
<1>1. Len(x) \in Nat /\ Len(y) \in Nat BY LenProperties
<1>2. \A i \in 1..(Len(x) + Len(y)) : z[i] = IF i <= Len(x) THEN x[i] ELSE y[i - Len(x)]
  BY ConcatProperties
<1> HIDE DEF z
<1>3. ASSUME RecordAt(x, o, str), o + 1 + Len(str) <= Len(x) PROVE RecordAt(z, o, str)
  <2>1. z[o + 1] = x[o + 1]
    <3>1. o + 1 \in 1..(Len(x) + Len(y)) /\ o + 1 <= Len(x) BY <1>1, <1>3
    <3> QED BY <1>2, <3>1
  <2>2. ASSUME NEW k \in 1..Len(str) PROVE z[o + 1 + k] = x[o + 1 + k]
    <3>1. o + 1 + k \in 1..(Len(x) + Len(y)) /\ o + 1 + k <= Len(x) BY <1>1, <1>3
    <3> QED BY <1>2, <3>1
  <2> QED BY <1>3, <2>1, <2>2 DEF RecordAt
<1>4. ASSUME RecordAt(y, o, str), o + 1 + Len(str) <= Len(y) PROVE RecordAt(z, Len(x) + o, str)
  <2>1. z[Len(x) + o + 1] = y[o + 1]
    <3>1. /\ Len(x) + o + 1 \in 1..(Len(x) + Len(y)) /\ ~(Len(x) + o + 1 <= Len(x))
          /\ Len(x) + o + 1 - Len(x) = o + 1
      BY <1>1, <1>4
    <3> QED BY <1>2, <3>1
  <2>2. ASSUME NEW k \in 1..Len(str) PROVE z[Len(x) + o + 1 + k] = y[o + 1 + k]
    <3>1. /\ Len(x) + o + 1 + k \in 1..(Len(x) + Len(y)) /\ ~(Len(x) + o + 1 + k <= Len(x))
          /\ Len(x) + o + 1 + k - Len(x) = o + 1 + k
      BY <1>1, <1>4
    <3> QED BY <1>2, <3>1
  <2> QED BY <1>4, <2>1, <2>2 DEF RecordAt
<1> QED BY <1>3, <1>4 DEF z

\* End exists, grows, and goes up by a record at a time.
LEMMA EndIs ==
  ASSUME NEW s, Good(s)
  PROVE  /\ End(s)[0] = Header
         /\ \A i \in 1..Len(s) : End(s)[i] = End(s)[i - 1] + 1 + Len(s[i])
         /\ \A i \in 0..Len(s) : End(s)[i] \in Nat /\ End(s)[i] >= Header
         /\ \A i \in 0..Len(s) : \A j \in 0..i : End(s)[j] <= End(s)[i]
<1> DEFINE n == Len(s)
           step == [i \in 1..n |-> [x \in Nat |-> x + 1 + Len(s[i])]]
           e == End(s)
<1>1. n \in Nat /\ \A i \in 1..n : Len(s[i]) \in Nat BY EntryOf, LenProperties
<1>2. PICK f : f = [i \in 0..n |-> IF i = 0 THEN Header ELSE step[i][f[i - 1]]]
  <2> HIDE DEF n, step
  <2>1. \E f : IsLoop(f, n, Header, step) BY <1>1, LoopExists
  <2> QED BY <2>1 DEF IsLoop
<1>3. \A i \in 0..n : f[i] \in Nat
  <2> DEFINE T == {i \in 0..n : f[i] \in Nat}
  <2>1. 0 \in T BY <1>1, <1>2 DEF Header
  <2>2. ASSUME NEW i \in 1..n, i - 1 \in T PROVE i \in T
    <3>1. f[i - 1] \in Nat /\ i - 1 \in 0..n BY <2>2
    <3>2. f[i] = step[i][f[i - 1]]
      <4>1. i \in 0..n /\ i # 0 BY <1>1
      <4> HIDE DEF step, n
      <4> QED BY <1>2, <4>1
    <3>3. f[i] = f[i - 1] + 1 + Len(s[i]) BY <3>1, <3>2
    <3> QED BY <1>1, <3>1, <3>3
  <2> HIDE DEF T
  <2>3. \A i \in 0..n : i \in T BY <1>1, <2>1, <2>2, Rounds
  <2> QED BY <2>3 DEF T
<1>4. \A i \in 0..n : i # 0 => step[i][f[i - 1]] = f[i - 1] + 1 + Len(s[i])
  <2> SUFFICES ASSUME NEW i \in 0..n, i # 0 PROVE step[i][f[i - 1]] = f[i - 1] + 1 + Len(s[i])
    OBVIOUS
  <2>1. i - 1 \in 0..n /\ i \in 1..n BY <1>1
  <2> QED BY <1>3, <2>1
<1> HIDE DEF step
<1>5. f = [i \in 0..n |-> IF i = 0 THEN Header ELSE f[i - 1] + 1 + Len(s[i])]
  <2>1. [i \in 0..n |-> IF i = 0 THEN Header ELSE step[i][f[i - 1]]]
        = [i \in 0..n |-> IF i = 0 THEN Header ELSE f[i - 1] + 1 + Len(s[i])]
    BY <1>4
  <2> QED BY <1>2, <2>1
<1>6. e = [i \in 0..n |-> IF i = 0 THEN Header ELSE e[i - 1] + 1 + Len(s[i])]
  BY <1>5 DEF End
<1> HIDE DEF e
<1>7. e[0] = Header /\ \A i \in 1..n : e[i] = e[i - 1] + 1 + Len(s[i])
  <2>1. e[0] = Header BY <1>1, <1>6
  <2>2. ASSUME NEW i \in 1..n PROVE e[i] = e[i - 1] + 1 + Len(s[i])
    <3>1. i \in 0..n /\ i # 0 BY <1>1
    <3> QED BY <1>6, <3>1
  <2> QED BY <2>1, <2>2
<1> DEFINE T == {i \in 0..n : e[i] \in Nat /\ e[i] >= Header /\ \A j \in 0..i : e[j] \in Nat /\ e[j] <= e[i]}
<1>8. 0 \in T BY <1>1, <1>7 DEF Header
<1>9. ASSUME NEW i \in 1..n, i - 1 \in T PROVE i \in T
  <2>1. i - 1 \in 0..n /\ e[i - 1] \in Nat /\ e[i - 1] >= Header 
        /\ \A j \in 0..(i - 1) : e[j] \in Nat /\ e[j] <= e[i - 1]
    BY <1>9
  <2>2. e[i] = e[i - 1] + 1 + Len(s[i]) /\ Len(s[i]) \in Nat BY <1>1, <1>7
  <2>3. e[i] \in Nat /\ e[i] >= Header /\ e[i - 1] <= e[i] BY <2>1, <2>2 DEF Header
  <2>4. ASSUME NEW j \in 0..i PROVE e[j] \in Nat /\ e[j] <= e[i]
    <3>1. CASE j = i BY <2>3, <3>1
    <3>2. CASE j # i
      <4>1. j \in 0..(i - 1) BY <3>2
      <4>2. e[j] \in Nat /\ e[j] <= e[i - 1] BY <2>1, <4>1
      <4> QED BY <2>1, <2>3, <4>2
    <3> QED BY <3>1, <3>2
  <2>5. i \in 0..n BY <1>1
  <2> QED BY <2>3, <2>4, <2>5
<1> HIDE DEF T
<1>10. \A i \in 0..n : i \in T BY <1>1, <1>8, <1>9, Rounds
<1> QED BY <1>7, <1>10 DEF T, e

\* As many strings fit as fit before the last byte of the sector.
LEMMA FittingIs ==
  ASSUME NEW s, Good(s)
  PROVE  /\ Fitting(s) \in 0..Len(s) /\ End(s)[Fitting(s)] < SectorSize
         /\ \A i \in 0..Fitting(s) : End(s)[i] <= End(s)[Fitting(s)]
<1> DEFINE T == {i \in 0..Len(s) : End(s)[i] < SectorSize}
<1>1. Len(s) \in Nat BY EntryOf
<1>2. 0 \in T BY <1>1, EndIs, SizesAssumption DEF SizesAssumption
<1>3. T \in SUBSET (0..Len(s)) OBVIOUS
<1>4. Max(T) \in T
  <2> HIDE DEF T
  <2> QED BY <1>1, <1>2, <1>3, MaxIs
<1>5. Fitting(s) = Max(T) BY DEF Fitting
<1> QED BY <1>4, <1>5, EndIs

\* x is the records of the first i strings of s, one after the other.
Laid(x, s, i) ==
  /\ x \in Seq(Byte) /\ Len(x) = End(s)[i] - Header
  /\ \A j \in 1..i : RecordAt(x, End(s)[j - 1] - Header, s[j])

\* One record more.
LEMMA LaidNext ==
  ASSUME NEW s, Good(s), NEW i \in 1..Len(s), NEW x, Laid(x, s, i - 1)
  PROVE  Laid(x \o (<<Len(s[i])>> \o s[i]), s, i)
<1> DEFINE e == End(s)
           r == <<Len(s[i])>> \o s[i]
           z == x \o r
<1>1. s[i] \in Entry /\ Len(s) \in Nat BY EntryOf
<1>2. r \in Seq(Byte) /\ Len(r) = 1 + Len(s[i]) /\ RecordAt(r, 0, s[i]) /\ Len(s[i]) \in Nat
  BY <1>1, EntryBytes
<1>3. /\ x \in Seq(Byte) /\ Len(x) = e[i - 1] - Header /\ Len(x) \in Nat
      /\ \A j \in 1..(i - 1) : RecordAt(x, e[j - 1] - Header, s[j])
  BY LenProperties DEF Laid
<1>4. /\ \A j \in 1..Len(s) : e[j] = e[j - 1] + 1 + Len(s[j])
      /\ \A j \in 0..Len(s) : e[j] \in Nat /\ e[j] >= Header
      /\ \A j \in 0..Len(s) : \A k \in 0..j : e[k] <= e[j]
  BY EndIs
<1> HIDE DEF e, r
<1>5. i - 1 \in 0..Len(s) /\ i \in 0..Len(s) BY <1>1
<1>6. z \in Seq(Byte) /\ Len(z) = Len(x) + Len(r) BY <1>2, <1>3, ConcatProperties
<1>7. Len(z) = e[i] - Header
  <2>1. e[i] = e[i - 1] + 1 + Len(s[i]) /\ e[i - 1] \in Nat BY <1>4, <1>5
  <2>2. Len(z) = e[i - 1] - Header + (1 + Len(s[i])) BY <1>2, <1>3, <1>6
  <2>3. PICK a \in Nat, l \in Nat : a = e[i - 1] /\ l = Len(s[i]) BY <1>2, <2>1
  <2>4. e[i] = a + 1 + l /\ Len(z) = a - Header + (1 + l) BY <2>1, <2>2, <2>3
  <2>5. a - Header + (1 + l) = a + 1 + l - Header BY DEF Header
  <2> QED BY <2>4 DEF Header
<1> HIDE DEF z
<1>8. ASSUME NEW j \in 1..i PROVE RecordAt(z, e[j - 1] - Header, s[j])
  <2>1. CASE j = i
    <3>1. 0 + 1 + Len(s[i]) <= Len(r) BY <1>2
    <3>2. RecordAt(z, Len(x) + 0, s[i]) BY <1>2, <1>3, <3>1, RecordShifts DEF z
    <3>3. Len(x) + 0 = e[j - 1] - Header BY <1>3, <2>1
    <3> QED BY <2>1, <3>2, <3>3
  <2>2. CASE j # i
    <3>1. j \in 1..(i - 1) /\ j \in 1..Len(s) /\ j \in 0..(i - 1) /\ j - 1 \in 0..Len(s) BY <1>1, <2>2
    <3>2. RecordAt(x, e[j - 1] - Header, s[j]) BY <1>3, <3>1
    <3>3. s[j] \in Entry BY <3>1, EntryOf
    <3>4. Len(s[j]) \in Nat BY <3>3, EntryBytes
    <3>5. e[j - 1] \in Nat /\ e[j - 1] >= Header /\ e[j] = e[j - 1] + 1 + Len(s[j]) /\ e[j] <= e[i - 1]
          /\ e[i - 1] \in Nat
      BY <1>4, <1>5, <3>1
    <3> DEFINE o == e[j - 1] - Header
    <3>6. o \in Nat /\ o + 1 + Len(s[j]) <= Len(x)
      <4>1. PICK a \in Nat, b \in Nat, l \in Nat : a = e[j - 1] /\ b = e[i - 1] /\ l = Len(s[j])
        BY <3>4, <3>5
      <4>2. a >= Header /\ a + 1 + l <= b BY <3>5, <4>1
      <4>3. a - Header \in Nat /\ a - Header + 1 + l <= b - Header BY <4>2 DEF Header
      <4> QED BY <1>3, <4>1, <4>3
    <3> HIDE DEF o
    <3>7. RecordAt(x, o, s[j]) BY <3>2 DEF o
    <3>8. RecordAt(x \o r, o, s[j]) BY <1>2, <1>3, <3>4, <3>6, <3>7, RecordShifts
    <3> QED BY <3>8 DEF o, z
  <2> QED BY <2>1, <2>2
<1> QED BY <1>6, <1>7, <1>8 DEF Laid, z, e, r

\* No record yet.
LEMMA LaidNone ==
  ASSUME NEW s, Good(s)
  PROVE  Laid(<<>>, s, 0)
<1>1. <<>> \in Seq(Byte) /\ Len(<<>>) = 0 BY EmptySeq
<1>2. End(s)[0] - Header = 0 BY EndIs DEF Header
<1> QED BY <1>1, <1>2 DEF Laid

\* FlattenSeq, for a sequence that is not empty, is the last value of its own
\* recursive function.
IsFlat(f, q) == f = [i \in 1..Len(q) |-> IF i = 1 THEN q[1] ELSE f[i - 1] \o q[i]]

\* There is such a function.
LEMMA FlatExists ==
  ASSUME NEW q \in Seq(Seq(Byte)), q # <<>>
  PROVE  \E f : IsFlat(f, q)
<1> DEFINE n == Len(q)
           step == [i \in 1..n |-> [x \in Seq(Byte) |-> x \o q[i]]]
           none == <<>>
<1>1. n \in Nat /\ n >= 1 /\ \A i \in 1..n : q[i] \in Seq(Byte)
  <2>1. n \in Nat /\ n # 0 BY LenProperties, EmptySeq
  <2>2. \A i \in 1..n : q[i] \in Seq(Byte) BY ElementOfSeq
  <2> QED BY <2>1, <2>2
<1>2. PICK f : f = [i \in 0..n |-> IF i = 0 THEN none ELSE step[i][f[i - 1]]]
  <2> HIDE DEF n, step, none
  <2>1. \E f : IsLoop(f, n, none, step) BY <1>1, LoopExists
  <2> QED BY <2>1 DEF IsLoop
<1> HIDE DEF n
<1>3. ASSUME NEW i \in 1..n PROVE f[i] = step[i][f[i - 1]]
  <2>1. i \in 0..n /\ i # 0 BY <1>1
  <2> HIDE DEF step
  <2> QED BY <1>2, <2>1
<1>4. \A i \in 0..n : f[i] \in Seq(Byte)
  <2> DEFINE T == {i \in 0..n : f[i] \in Seq(Byte)}
  <2>1. f[0] = <<>> BY <1>1, <1>2
  <2>2. 0 \in T
    <3>1. <<>> \in Seq(Byte) BY EmptySeq
    <3>2. f[0] \in Seq(Byte) BY <2>1, <3>1
    <3>3. 0 \in 0..n BY <1>1
    <3> QED BY <3>2, <3>3
  <2>3. ASSUME NEW i \in 1..n, i - 1 \in T PROVE i \in T
    <3>1. f[i - 1] \in Seq(Byte) /\ i \in 0..n BY <1>1, <2>3
    <3>2. f[i] = f[i - 1] \o q[i] BY <1>3, <3>1
    <3>3. q[i] \in Seq(Byte) BY <1>1
    <3>4. f[i - 1] \o q[i] \in Seq(Byte) BY <3>1, <3>3, ConcatProperties
    <3> QED BY <3>1, <3>2, <3>4
  <2> HIDE DEF T
  <2>4. \A i \in 0..n : i \in T BY <1>1, <2>2, <2>3, Rounds
  <2> QED BY <2>4 DEF T
<1>5. ASSUME NEW i \in 1..n PROVE f[i] = f[i - 1] \o q[i]
  <2>1. i - 1 \in 0..n BY <1>1
  <2>2. f[i - 1] \in Seq(Byte) BY <1>4, <2>1
  <2> QED BY <1>3, <2>2
<1>6. f[0] = <<>> BY <1>1, <1>2
<1> DEFINE g == [i \in 1..n |-> f[i]]
<1>7. ASSUME NEW i \in 1..n PROVE g[i] = IF i = 1 THEN q[1] ELSE g[i - 1] \o q[i]
  <2>1. CASE i = 1
    <3>0. 1 - 1 = 0 /\ 1 \in 1..n BY <1>1
    <3>1. f[1] = <<>> \o q[1] BY <1>5, <1>6, <3>0
    <3>2. f[1] = q[1] BY <1>1, <3>1, ConcatEmptySeq
    <3> QED BY <2>1, <3>2
  <2>2. CASE i # 1
    <3>1. i - 1 \in 1..n BY <1>1, <2>2
    <3>2. g[i - 1] = f[i - 1] /\ g[i] = f[i] BY <3>1
    <3> HIDE DEF g
    <3> QED BY <1>5, <2>2, <3>2
  <2> QED BY <2>1, <2>2
<1>8. g = [i \in 1..n |-> g[i]] OBVIOUS
<1> HIDE DEF g
<1>9. [i \in 1..n |-> g[i]] = [i \in 1..n |-> IF i = 1 THEN q[1] ELSE g[i - 1] \o q[i]] BY <1>7
<1>10. IsFlat(g, q) BY <1>8, <1>9 DEF IsFlat, n
<1> QED BY <1>10

\* The records of the strings that fit.
LEMMA RecordsIs ==
  ASSUME NEW s, Good(s)
  PROVE  Laid(Records(s), s, Fitting(s))
<1> DEFINE n == Fitting(s)
           q == [i \in 1..n |-> <<Len(s[i])>> \o s[i]]
<1>1. n \in Nat /\ \A i \in 1..n : i \in 1..Len(s) BY FittingIs, EntryOf
<1> HIDE DEF n
<1>2. \A i \in 1..n : <<Len(s[i])>> \o s[i] \in Seq(Byte) BY <1>1, EntryOf, EntryBytes
<1>3. q \in Seq(Seq(Byte)) /\ Len(q) = n
  <2>1. q \in [1..n -> Seq(Byte)] BY <1>2
  <2>2. q \in Seq(Seq(Byte)) BY <1>1, <2>1, SeqDef
  <2>3. DOMAIN q = 1..n /\ DOMAIN q = 1..Len(q) /\ Len(q) \in Nat BY <2>2, LenProperties
  <2> QED BY <1>1, <2>2, <2>3
<1>4. \A i \in 1..n : q[i] = <<Len(s[i])>> \o s[i] OBVIOUS
<1>5. Records(s) = FlattenSeq(q) BY DEF Records, n
<1> HIDE DEF q
<1>6. CASE n = 0
  <2>1. Records(s) = q BY <1>3, <1>5, <1>6 DEF FlattenSeq
  <2>2. q = <<>> BY <1>3, <1>6, EmptySeq
  <2> QED BY <1>6, <2>1, <2>2, LaidNone DEF n
<1>7. CASE n # 0
  <2>1. q # <<>> BY <1>3, <1>7
  <2> DEFINE f == CHOOSE g : IsFlat(g, q)
  <2>2. IsFlat(f, q) BY <1>3, <2>1, FlatExists
  <2>3. Records(s) = f[n] BY <1>3, <1>5, <1>7 DEF FlattenSeq, IsFlat
  <2> HIDE DEF f
  <2>4. f = [i \in 1..n |-> IF i = 1 THEN q[1] ELSE f[i - 1] \o q[i]] BY <1>3, <2>2 DEF IsFlat
  <2> DEFINE T == {i \in 0..n : i # 0 => Laid(f[i], s, i)}
  <2>5. 0 \in T BY <1>1
  <2>6. ASSUME NEW i \in 1..n, i - 1 \in T PROVE i \in T
    <3>0. i \in 0..n /\ i \in 1..Len(s) BY <1>1
    <3>1. CASE i = 1
      <4>1. f[i] = q[1] BY <1>1, <2>4, <3>1
      <4>2. q[1] = <<>> \o q[1] BY <1>2, <1>4, <3>1, ConcatEmptySeq
      <4>3. Laid(<<>>, s, i - 1) BY <3>1, LaidNone
      <4>4. Laid(<<>> \o (<<Len(s[i])>> \o s[i]), s, i) BY <3>0, <4>3, LaidNext
      <4>5. Laid(f[i], s, i) BY <1>4, <3>1, <4>1, <4>2, <4>4
      <4> QED BY <3>0, <4>5
    <3>2. CASE i # 1
      <4>1. i - 1 # 0 BY <3>2
      <4>2. Laid(f[i - 1], s, i - 1) BY <2>6, <4>1
      <4>3. f[i] = f[i - 1] \o q[i] BY <2>4, <3>2
      <4>4. Laid(f[i - 1] \o (<<Len(s[i])>> \o s[i]), s, i) BY <3>0, <4>2, LaidNext
      <4>5. Laid(f[i], s, i) BY <1>4, <4>3, <4>4
      <4> QED BY <3>0, <4>5
    <3> QED BY <3>1, <3>2
  <2> HIDE DEF T
  <2>7. \A i \in 0..n : i \in T BY <1>1, <2>5, <2>6, Rounds
  <2>8. n \in T BY <1>1, <2>7
  <2>9. Laid(f[n], s, n) BY <1>7, <2>8 DEF T
  <2> QED BY <2>3, <2>9 DEF n
<1> QED BY <1>6, <1>7

\* b is a sector that holds what fits of s.
Encodes(b, s) ==
  /\ b \in Seq(Byte) /\ Len(b) = SectorSize
  /\ SubSeq(b, 1, Len(Magic)) = Magic /\ b[Header] = Len(s)
  /\ \A j \in 1..Fitting(s) : RecordAt(b, End(s)[j - 1], s[j])
  /\ \A o \in (End(s)[Fitting(s)] + 1)..SectorSize : b[o] = 0

\* What the layout says of a string that fits.
LEMMA Offsets ==
  ASSUME NEW s, Good(s), NEW j \in 1..Fitting(s)
  PROVE  /\ j \in 1..Len(s) /\ s[j] \in Entry /\ Len(s[j]) \in Nat
         /\ End(s)[j - 1] \in Nat /\ End(s)[j - 1] >= Header
         /\ End(s)[j] = End(s)[j - 1] + 1 + Len(s[j])
         /\ End(s)[j] <= End(s)[Fitting(s)]
<1>1. Fitting(s) \in 0..Len(s) /\ Len(s) \in Nat BY FittingIs, EntryOf
<1>2. j \in 1..Len(s) /\ j - 1 \in 0..Len(s) /\ j \in 0..Fitting(s) BY <1>1
<1>3. s[j] \in Entry BY <1>2, EntryOf
<1>4. Len(s[j]) \in Nat BY <1>3, EntryBytes
<1>5. End(s)[j] <= End(s)[Fitting(s)] BY <1>2, FittingIs
<1> QED BY <1>2, <1>3, <1>4, <1>5, EndIs

\* env_save writes such a sector.
LEMMA EncodeIs ==
  ASSUME NEW s, Good(s)
  PROVE  Encodes(Encode(s), s)
<1> DEFINE n == Fitting(s)
           e == End(s)
           count == <<Len(s)>>
           head == Magic \o count
           r == Records(s)
           used == head \o r
           zeros == [i \in 1..(SectorSize - Len(used)) |-> 0]
           b == Encode(s)
<1>1. /\ Len(s) \in 0..255 /\ e[n] \in Nat /\ e[n] >= Header /\ e[n] < SectorSize /\ SectorSize \in Nat
  <2>1. Len(s) \in Nat /\ Len(s) <= EnvMax /\ EnvMax \in 1..255
    BY EntryOf, SizesAssumption DEF SizesAssumption
  <2>0. \A l, m \in Nat : l <= m /\ m <= 255 => l \in 0..255 OBVIOUS
  <2>6. EnvMax \in Nat /\ EnvMax <= 255 BY <2>1
  <2>2. Len(s) \in 0..255 BY <2>0, <2>1, <2>6
  <2>3. n \in 0..Len(s) /\ e[n] < SectorSize BY FittingIs
  <2>4. e[n] \in Nat /\ e[n] >= Header BY <2>3, EndIs
  <2>5. SectorSize \in Nat BY SizesAssumption DEF SizesAssumption
  <2> QED BY <2>2, <2>3, <2>4, <2>5
<1>2. Laid(r, s, n) BY RecordsIs
<1>3. r \in Seq(Byte) /\ Len(r) = e[n] - Header /\ \A j \in 1..n : RecordAt(r, e[j - 1] - Header, s[j])
  BY <1>2 DEF Laid
<1>4. /\ head \in Seq(Byte) /\ Len(head) = Header
      /\ \A i \in 1..4 : head[i] = Magic[i]
      /\ head[Header] = Len(s)
  <2>1. Magic \in Seq(Byte) /\ Len(Magic) = 4 BY DEF Magic, Byte
  <2>a. Len(s) \in Byte BY <1>1 DEF Byte
  <2>2. count \in Seq(Byte) /\ Len(count) = 1 /\ count[1] = Len(s) BY <2>a
  <2> HIDE DEF count
  <2>3. /\ head \in Seq(Byte) /\ Len(head) = Len(Magic) + Len(count)
        /\ \A i \in 1..Len(Magic) : head[i] = Magic[i]
        /\ \A i \in (Len(Magic) + 1)..(Len(Magic) + Len(count)) : head[i] = count[i - Len(Magic)]
    <3>1. Magic \in Seq(Byte) /\ count \in Seq(Byte) BY <2>1, <2>2
    <3> QED BY <3>1, Joined
  <2> HIDE DEF head
  <2>4. \A i \in 1..4 : head[i] = Magic[i] BY <2>1, <2>3
  <2>5. head[5] = count[1]
    <3>1. 5 \in (Len(Magic) + 1)..(Len(Magic) + Len(count)) /\ 5 - Len(Magic) = 1 BY <2>1, <2>2
    <3> QED BY <2>3, <3>1
  <2>6. Len(head) = 5 BY <2>1, <2>2, <2>3
  <2> QED BY <2>2, <2>3, <2>4, <2>5, <2>6 DEF Header
<1>5. b = used \o zeros BY DEF Encode
<1> HIDE DEF n, e, head, r, b
<1>6. /\ used \in Seq(Byte) /\ Len(used) = e[n]
      /\ \A i \in 1..Header : used[i] = head[i]
  <2>1. /\ used \in Seq(Byte) /\ Len(used) = Header + Len(r)
        /\ \A i \in 1..Header : used[i] = head[i]
    BY <1>3, <1>4, Joined
  <2> HIDE DEF used
  <2>2. Len(used) = e[n]
    <3>1. PICK m \in Nat : m = e[n] BY <1>1
    <3> QED BY <1>3, <2>1, <3>1 DEF Header
  <2> QED BY <2>1, <2>2
<1>7. ASSUME NEW j \in 1..n
      PROVE  /\ RecordAt(used, e[j - 1], s[j]) /\ e[j - 1] \in Nat /\ Len(s[j]) \in Nat
             /\ e[j - 1] + 1 + Len(s[j]) <= Len(used)
  <2>1. /\ Len(s[j]) \in Nat /\ e[j - 1] \in Nat /\ e[j - 1] >= Header
        /\ e[j] = e[j - 1] + 1 + Len(s[j]) /\ e[j] <= e[n]
    BY <1>7, Offsets DEF n, e
  <2> DEFINE o == e[j - 1] - Header
  <2>2. o \in Nat /\ o + 1 + Len(s[j]) <= Len(r) /\ Header + o = e[j - 1]
    <3>1. PICK a \in Nat, l \in Nat, m \in Nat : a = e[j - 1] /\ l = Len(s[j]) /\ m = e[n] BY <1>1, <2>1
    <3>2. a >= Header /\ a + 1 + l <= m BY <2>1, <3>1
    <3>3. a - Header \in Nat /\ a - Header + 1 + l <= m - Header /\ Header + (a - Header) = a
      BY <3>2 DEF Header
    <3> QED BY <1>3, <3>1, <3>3
  <2>3. RecordAt(r, o, s[j]) BY <1>3
  <2> HIDE DEF o
  <2>4. RecordAt(head \o r, Header + o, s[j]) BY <1>3, <1>4, <2>1, <2>2, <2>3, RecordShifts
  <2>5. e[j - 1] + 1 + Len(s[j]) <= Len(used) BY <1>6, <2>1
  <2> QED BY <2>1, <2>2, <2>4, <2>5
<1>8. zeros \in Seq(Byte) /\ Len(zeros) = SectorSize - e[n] /\ \A i \in 1..(SectorSize - e[n]) : zeros[i] = 0
  <2> DEFINE k == SectorSize - e[n]
  <2>1. k \in Nat /\ Len(used) = e[n]
    <3>1. PICK a \in Nat, m \in Nat : a = e[n] /\ m = SectorSize /\ a < m BY <1>1
    <3> HIDE DEF used
    <3> QED BY <1>6, <3>1
  <2>2. zeros = [i \in 1..k |-> 0] BY <2>1
  <2> HIDE DEF k, zeros, used
  <2>3. 0 \in Byte BY DEF Byte
  <2>4. zeros \in [1..k -> Byte] BY <2>2, <2>3
  <2>5. zeros \in Seq(Byte) /\ Len(zeros) = k BY <2>1, <2>4, ByteSeq
  <2>6. \A i \in 1..k : zeros[i] = 0 BY <2>2
  <2> QED BY <2>5, <2>6 DEF k
<1> HIDE DEF zeros, used
<1>9. /\ b \in Seq(Byte) /\ Len(b) = SectorSize
      /\ \A i \in 1..e[n] : b[i] = used[i]
      /\ \A i \in (e[n] + 1)..SectorSize : b[i] = zeros[i - e[n]]
  <2>1. e[n] + (SectorSize - e[n]) = SectorSize
    <3>1. PICK a \in Nat, m \in Nat : a = e[n] /\ m = SectorSize BY <1>1
    <3>2. a + (m - a) = m OBVIOUS
    <3> QED BY <3>1, <3>2
  <2> DEFINE k == e[n]
             m == SectorSize - e[n]
  <2>2. k = Len(used) /\ m = Len(zeros) BY <1>6, <1>8
  <2>3. k + m = SectorSize BY <2>1
  <2> HIDE DEF k, m
  <2>4. /\ b \in Seq(Byte) /\ Len(b) = k + m /\ \A i \in 1..k : b[i] = used[i]
        /\ \A i \in (k + 1)..(k + m) : b[i] = zeros[i - k]
    BY <1>5, <1>6, <1>8, <2>2, Joined
  <2> QED BY <2>3, <2>4 DEF k
<1>10. SubSeq(b, 1, Len(Magic)) = Magic
  <2>1. Magic \in Seq(Byte) /\ Len(Magic) = 4 BY DEF Magic, Byte
  <2>2. \A i \in 1..4 : b[i] = Magic[i]
    <3>a. PICK a \in Nat : a = e[n] /\ a >= Header BY <1>1
    <3>b. \A i \in 1..4 : i \in 1..a /\ i \in 1..Header BY <3>a DEF Header
    <3>1. \A i \in 1..4 : i \in 1..e[n] /\ i \in 1..Header BY <3>a, <3>b
    <3> QED BY <1>4, <1>6, <1>9, <3>1
  <2>3. \A i \in 1..Len(Magic) : b[0 + i] = Magic[i] BY <2>1, <2>2
  <2>4. 1 = 0 + 1 /\ Len(Magic) = 0 + Len(Magic) BY <2>1
  <2> QED BY <2>1, <2>3, <2>4, Slice
<1>11. b[Header] = Len(s)
  <2>a. PICK a \in Nat : a = e[n] /\ a >= Header BY <1>1
  <2>b. Header \in 1..a /\ Header \in 1..Header BY <2>a DEF Header
  <2>1. Header \in 1..e[n] /\ Header \in 1..Header BY <2>a, <2>b
  <2> QED BY <1>4, <1>6, <1>9, <2>1
<1>12. ASSUME NEW j \in 1..n PROVE RecordAt(b, e[j - 1], s[j])
  <2>1. RecordAt(used \o zeros, e[j - 1], s[j]) BY <1>6, <1>7, <1>8, RecordShifts
  <2> QED BY <1>5, <2>1
<1>13. ASSUME NEW o \in (e[n] + 1)..SectorSize PROVE b[o] = 0
  <2>a. PICK a \in Nat, m \in Nat : a = e[n] /\ m = SectorSize BY <1>1
  <2>b. o - a \in 1..(m - a) BY <2>a
  <2>1. o - e[n] \in 1..(SectorSize - e[n]) BY <2>a, <2>b
  <2> QED BY <1>8, <1>9, <2>1
<1> QED BY <1>9, <1>10, <1>11, <1>12, <1>13 DEF Encodes, n, e, b

-----------------------------------------------------------------------------
\* Reading a sector back.

\* One round of the loop of env_init, and the function of all its rounds.
RoundOf(b) ==
  [r \in [off : Nat, set : Seq(Seq(Byte))] |->
     IF ~(/\ r.off < SectorSize /\ b[r.off + 1] \in 1..(KvMax - 1)
          /\ r.off + 1 + b[r.off + 1] <= SectorSize) THEN r
     ELSE [off |-> r.off + 1 + b[r.off + 1],
           set |-> SetKv(r.set, SubSeq(b, r.off + 2, r.off + 1 + b[r.off + 1]))]]
At(off, set) == [off |-> off, set |-> set]
IsRead(f, b) ==
  f = [i \in 0..EnvMax |-> IF i = 0 THEN At(Header, <<PathKv>>) ELSE RoundOf(b)[f[i - 1]]]

\* There is such a function.
LEMMA ReadExists ==
  ASSUME NEW b
  PROVE  \E f : IsRead(f, b)
<1> DEFINE first == At(Header, <<PathKv>>)
           step == [i \in 1..EnvMax |-> RoundOf(b)]
<1>1. EnvMax \in Nat BY SizesAssumption DEF SizesAssumption
<1>2. PICK f : f = [i \in 0..EnvMax |-> IF i = 0 THEN first ELSE step[i][f[i - 1]]]
  <2> HIDE DEF first, step
  <2>1. \E f : IsLoop(f, EnvMax, first, step) BY <1>1, LoopExists
  <2> QED BY <2>1 DEF IsLoop
<1>3. \A i \in 0..EnvMax : i # 0 => step[i] = RoundOf(b) BY <1>1
<1> HIDE DEF step, first
<1>4. [i \in 0..EnvMax |-> IF i = 0 THEN first ELSE step[i][f[i - 1]]]
      = [i \in 0..EnvMax |-> IF i = 0 THEN first ELSE RoundOf(b)[f[i - 1]]]
  BY <1>3
<1>5. IsRead(f, b) BY <1>2, <1>4 DEF IsRead, first
<1> QED BY <1>5

\* What the loop has after each round.
Rest(b) == CHOOSE f : IsRead(f, b)

\* Load is the last round's set, or the default for a sector that is not ours.
LEMMA LoadIs ==
  ASSUME NEW b
  PROVE  /\ SubSeq(b, 1, Len(Magic)) = Magic => Load(b) = Rest(b)[Min({b[Header], EnvMax})].set
         /\ SubSeq(b, 1, Len(Magic)) # Magic => Load(b) = <<PathKv>>
         /\ Rest(b)[0] = At(Header, <<PathKv>>)
         /\ \A i \in 1..EnvMax : Rest(b)[i] = RoundOf(b)[Rest(b)[i - 1]]
<1>1. IsRead(Rest(b), b) BY ReadExists DEF Rest
<1>2. SubSeq(b, 1, Len(Magic)) # Magic => Load(b) = <<PathKv>> BY DEF Load
<1>3. SubSeq(b, 1, Len(Magic)) = Magic => Load(b) = Rest(b)[Min({b[Header], EnvMax})].set
  BY DEF Load, Rest, IsRead, RoundOf, At
<1> DEFINE f == Rest(b)
<1>4. f = [i \in 0..EnvMax |-> IF i = 0 THEN At(Header, <<PathKv>>) ELSE RoundOf(b)[f[i - 1]]]
  BY <1>1 DEF IsRead
<1> HIDE DEF f
<1>5. EnvMax \in Nat BY SizesAssumption DEF SizesAssumption
<1>6. f[0] = At(Header, <<PathKv>>) BY <1>4, <1>5
<1>7. ASSUME NEW i \in 1..EnvMax PROVE f[i] = RoundOf(b)[f[i - 1]]
  <2>1. i \in 0..EnvMax /\ i # 0 BY <1>5
  <2> QED BY <1>4, <2>1
<1> QED BY <1>2, <1>3, <1>6, <1>7 DEF f

\* A good store is a sequence of byte strings.
LEMMA GoodBytes ==
  ASSUME NEW t, Good(t)
  PROVE  t \in Seq(Seq(Byte))
<1>1. \A e \in Entry : e \in Seq(Byte) BY EntryBytes
<1>2. Entry \subseteq Seq(Byte) /\ t \in Seq(Entry) BY <1>1 DEF Good
<1> QED BY <1>2, SeqMonotonic

\* A round that finds the next string sets it; one after the last stays.
LEMMA RoundTakes ==
  ASSUME NEW s, Good(s), NEW b, Encodes(b, s), NEW i \in 1..Fitting(s), NEW t, Good(t)
  PROVE  RoundOf(b)[At(End(s)[i - 1], t)] = At(End(s)[i], SetKv(t, s[i]))
<1> DEFINE o == End(s)[i - 1]
           l == Len(s[i])
           r == At(o, t)
<1>1. o \in Nat /\ l \in Nat /\ End(s)[i] = o + 1 + l /\ s[i] \in Entry
      /\ End(s)[i] <= End(s)[Fitting(s)]
  BY Offsets
<1>2. End(s)[Fitting(s)] < SectorSize /\ End(s)[Fitting(s)] \in Nat /\ SectorSize \in Nat
  BY FittingIs, EndIs, SizesAssumption DEF SizesAssumption
<1>3. l \in 1..(KvMax - 1) /\ s[i] \in Seq(Byte) BY <1>1, EntryBytes
<1>4. b[o + 1] = l /\ \A k \in 1..l : b[o + 1 + k] = s[i][k] BY DEF Encodes, RecordAt
<1> HIDE DEF o, l
<1>5. o + 1 + l <= SectorSize /\ o < SectorSize
  <2>1. PICK m \in Nat : m = End(s)[Fitting(s)] BY <1>2
  <2>2. o + 1 + l <= m /\ m < SectorSize BY <1>1, <1>2, <2>1
  <2> QED BY <1>1, <1>2, <2>2
<1>6. SubSeq(b, o + 2, o + 1 + l) = s[i]
  <2> DEFINE q == o + 1
             first == o + 2
             last == o + 1 + l
  <2>1. q \in Nat /\ first = q + 1 /\ last = q + Len(s[i]) BY <1>1 DEF l
  <2>2. \A k \in 1..Len(s[i]) : b[q + k] = s[i][k] BY <1>4 DEF l
  <2> HIDE DEF q, first, last
  <2>3. SubSeq(b, first, last) = s[i] BY <1>3, <2>1, <2>2, Slice
  <2> QED BY <2>3 DEF first, last
<1>7. r \in [off : Nat, set : Seq(Seq(Byte))] /\ r.off = o /\ r.set = t BY <1>1, GoodBytes DEF At
<1> HIDE DEF r
<1>8. RoundOf(b)[r] = [off |-> o + 1 + l, set |-> SetKv(t, SubSeq(b, o + 2, o + 1 + l))]
  BY <1>3, <1>4, <1>5, <1>7 DEF RoundOf
<1> QED BY <1>1, <1>6, <1>8 DEF At, r, o, l

\* After the last record the loop stands still.
LEMMA RoundStays ==
  ASSUME NEW s, Good(s), NEW b, Encodes(b, s), NEW t, Good(t)
  PROVE  RoundOf(b)[At(End(s)[Fitting(s)], t)] = At(End(s)[Fitting(s)], t)
<1> DEFINE o == End(s)[Fitting(s)]
           r == At(o, t)
<1>1. o < SectorSize /\ o \in Nat /\ SectorSize \in Nat
  BY FittingIs, EndIs, SizesAssumption DEF SizesAssumption
<1>2. \A i \in (o + 1)..SectorSize : b[i] = 0 BY DEF Encodes
<1> HIDE DEF o
<1>3. b[o + 1] = 0 BY <1>1, <1>2
<1>4. r \in [off : Nat, set : Seq(Seq(Byte))] /\ r.off = o BY <1>1, GoodBytes DEF At
<1>5. 0 \notin 1..(KvMax - 1) BY SizesAssumption DEF SizesAssumption
<1> HIDE DEF r
<1>6. RoundOf(b)[r] = r BY <1>3, <1>4, <1>5 DEF RoundOf
<1> QED BY <1>6 DEF r, o

-----------------------------------------------------------------------------
\* What the rounds restore.

\* The store is full, and PATH, which the saved one did not have, took the
\* place that its last string would have had.
Crowded(s, j, t) == /\ j = EnvMax /\ Len(t) = EnvMax
                    /\ \A m \in 1..Len(s) : NameOf(s[m]) # NameOf(PathKv)
HasPath(s, i) == \E j \in 1..i : NameOf(s[j]) = NameOf(PathKv)
\* t is what i rounds have restored of s.
Restored(s, i, t) ==
  /\ Good(t) /\ Len(t) <= i + 1
  /\ HasPath(t, Len(t)) /\ (HasPath(s, i) => Len(t) <= i)
  /\ \A k \in 1..Len(t) : t[k] = PathKv \/ \E j \in 1..i : t[k] = s[j]
  /\ \A j \in 1..i : (\E k \in 1..Len(t) : t[k] = s[j]) \/ Crowded(s, j, t)

\* Before the first round there is PATH.
LEMMA RestoredNone ==
  ASSUME NEW s, Good(s)
  PROVE  Restored(s, 0, <<PathKv>>)
<1> DEFINE t == <<PathKv>>
<1>1. Good(t) /\ Len(t) = 1 /\ t[1] = PathKv BY DefaultGood
<1> HIDE DEF t
<1>2. HasPath(t, Len(t)) /\ ~HasPath(s, 0) BY <1>1 DEF HasPath
<1>3. \A k \in 1..Len(t) : t[k] = PathKv
  <2>1. \A k \in 1..Len(t) : k = 1 BY <1>1
  <2> QED BY <1>1, <2>1
<1>4. Len(t) <= 0 + 1 BY <1>1
<1> QED BY <1>1, <1>2, <1>3, <1>4 DEF Restored, t

\* Each round restores one string more, or the store is crowded.
LEMMA RestoredNext ==
  ASSUME NEW s, Good(s), NEW i \in 1..Len(s), NEW t, Restored(s, i - 1, t)
  PROVE  Restored(s, i, SetKv(t, s[i]))
<1> DEFINE u == SetKv(t, s[i])
           path == NameOf(PathKv)
<1>1. /\ Good(t) /\ Len(t) <= i - 1 + 1
      /\ HasPath(t, Len(t)) /\ (HasPath(s, i - 1) => Len(t) <= i - 1)
      /\ \A k \in 1..Len(t) : t[k] = PathKv \/ \E j \in 1..(i - 1) : t[k] = s[j]
      /\ \A j \in 1..(i - 1) : (\E k \in 1..Len(t) : t[k] = s[j]) \/ Crowded(s, j, t)
  BY DEF Restored
<1>2. /\ Len(s) \in Nat /\ Len(s) <= EnvMax /\ EnvMax \in Nat
      /\ \A j, k \in 1..Len(s) : NameOf(s[j]) = NameOf(s[k]) => j = k
      /\ s[i] \in Seq(Char) /\ WellFormed(s[i]) /\ Len(s[i]) < KvMax
  BY EntryOf, SizesAssumption DEF SizesAssumption
<1>3. Kept(s[i]) = s[i] BY <1>2, KeptIs
<1>4. /\ Good(u)
      /\ \/ Refuses(t, s[i]) /\ u = t
         \/ \E k \in 1..Len(t) : Replaces(t, s[i], u, k)
         \/ Appends(t, s[i], u)
  BY <1>1, <1>2, SetResult
<1>5. Len(t) \in Nat /\ Len(t) <= EnvMax BY <1>1, EntryOf
<1>6. /\ \A j \in 1..(i - 1) : j \in 1..Len(s) /\ j \in 1..i /\ j # i
      /\ \A j \in 1..i : j \in 1..(i - 1) \/ j = i
      /\ i \in 1..i
  BY <1>2
<1>7. HasPath(s, i) <=> HasPath(s, i - 1) \/ NameOf(s[i]) = path BY <1>6 DEF HasPath
<1> HIDE DEF u
<1>8. CASE Refuses(t, s[i]) /\ u = t
  <2>1. Len(t) = EnvMax /\ \A k \in 1..Len(t) : NameOf(t[k]) # NameOf(s[i]) BY <1>8 DEF Refuses
  <2>2. i = EnvMax /\ i = Len(s) BY <1>1, <1>2, <2>1
  <2>3. ~HasPath(s, i - 1) /\ NameOf(s[i]) # path BY <1>1, <2>1, <2>2 DEF HasPath
  <2>4. \A m \in 1..Len(s) : NameOf(s[m]) # path BY <1>7, <2>2, <2>3 DEF HasPath
  <2>5. Crowded(s, i, t) BY <2>1, <2>2, <2>4 DEF Crowded
  <2>6. Len(t) <= i + 1 /\ ~HasPath(s, i) BY <1>1, <1>7, <2>3
  <2>7. \A k \in 1..Len(t) : t[k] = PathKv \/ \E j \in 1..i : t[k] = s[j] BY <1>1, <1>6
  <2>8. \A j \in 1..i : (\E k \in 1..Len(t) : t[k] = s[j]) \/ Crowded(s, j, t) BY <1>1, <1>6, <2>5
  <2> QED BY <1>1, <1>8, <2>6, <2>7, <2>8 DEF Restored, u
<1>9. ASSUME NEW k \in 1..Len(t), Replaces(t, s[i], u, k) PROVE Restored(s, i, u)
  <2>1. /\ NameOf(t[k]) = NameOf(s[i]) /\ Len(u) = Len(t) /\ u[k] = s[i]
        /\ \A j \in 1..Len(t) : j # k => u[j] = t[j]
    BY <1>3, <1>9 DEF Replaces
  <2>2. \A j \in 1..Len(t) : NameOf(u[j]) = NameOf(t[j]) BY <2>1
  <2>3. HasPath(u, Len(u)) BY <1>1, <2>1, <2>2 DEF HasPath
  <2>4. Len(u) <= i + 1 /\ Len(u) <= i BY <1>1, <2>1
  <2>5. \A m \in 1..Len(u) : u[m] = PathKv \/ \E j \in 1..i : u[m] = s[j] BY <1>1, <1>6, <2>1
  <2>6. ASSUME NEW j \in 1..i PROVE (\E m \in 1..Len(u) : u[m] = s[j]) \/ Crowded(s, j, u)
    <3>1. CASE j = i BY <2>1, <3>1
    <3>2. CASE j # i
      <4>1. j \in 1..(i - 1) /\ j \in 1..Len(s) BY <1>6, <3>2
      <4>2. ASSUME NEW m \in 1..Len(t), t[m] = s[j] PROVE u[m] = s[j]
        <5>1. m # k BY <1>2, <2>1, <3>2, <4>1, <4>2
        <5> QED BY <2>1, <4>2, <5>1
      <4>3. Crowded(s, j, t) => Crowded(s, j, u) BY <2>1 DEF Crowded
      <4> QED BY <1>1, <2>1, <4>1, <4>2, <4>3
    <3> QED BY <3>1, <3>2
  <2> QED BY <1>4, <2>3, <2>4, <2>5, <2>6 DEF Restored
<1>10. CASE Appends(t, s[i], u)
  <2>1. /\ \A k \in 1..Len(t) : NameOf(t[k]) # NameOf(s[i])
        /\ Len(u) = Len(t) + 1 /\ u[Len(t) + 1] = s[i]
        /\ \A j \in 1..Len(t) : u[j] = t[j]
    BY <1>3, <1>10 DEF Appends
  <2>2. /\ \A j \in 1..Len(t) : j \in 1..Len(u)
        /\ \A j \in 1..Len(u) : j \in 1..Len(t) \/ j = Len(t) + 1
        /\ Len(t) + 1 \in 1..Len(u)
    BY <1>5, <2>1
  <2>3. HasPath(u, Len(u)) BY <1>1, <2>1, <2>2 DEF HasPath
  <2>4. NameOf(s[i]) # path BY <1>1, <2>1 DEF HasPath
  <2>5. Len(u) <= i + 1 /\ (HasPath(s, i) => Len(u) <= i) BY <1>1, <1>5, <1>7, <2>1, <2>4
  <2>6. \A m \in 1..Len(u) : u[m] = PathKv \/ \E j \in 1..i : u[m] = s[j] BY <1>1, <1>6, <2>1, <2>2
  <2>7. ASSUME NEW j \in 1..i PROVE (\E m \in 1..Len(u) : u[m] = s[j]) \/ Crowded(s, j, u)
    <3>1. CASE j = i BY <2>1, <2>2, <3>1
    <3>2. CASE j # i
      <4>1. j \in 1..(i - 1) /\ j # EnvMax BY <1>2, <1>6, <3>2
      <4>2. PICK m \in 1..Len(t) : t[m] = s[j] BY <1>1, <4>1 DEF Crowded
      <4>3. u[m] = s[j] /\ m \in 1..Len(u) BY <2>1, <2>2, <4>2
      <4> QED BY <4>3
    <3> QED BY <3>1, <3>2
  <2> QED BY <1>4, <2>3, <2>5, <2>6, <2>7 DEF Restored, u
<1> QED BY <1>4, <1>8, <1>9, <1>10 DEF u

\* Reading back what was written for s restores of s what fits.
LEMMA LoadRestores ==
  ASSUME NEW s, Good(s), NEW b, Encodes(b, s)
  PROVE  Restored(s, Fitting(s), Load(b))
<1> DEFINE n == Fitting(s)
           f == Rest(b)
<1>1. /\ n \in 0..Len(s) /\ n \in Nat /\ Len(s) \in Nat /\ Len(s) <= EnvMax /\ EnvMax \in Nat
  BY FittingIs, EntryOf, SizesAssumption DEF SizesAssumption
<1>2. f[0] = At(Header, <<PathKv>>) /\ \A i \in 1..EnvMax : f[i] = RoundOf(b)[f[i - 1]] BY LoadIs
<1>3. End(s)[0] = Header BY EndIs
<1> HIDE DEF f, n
<1>4. \A i \in 0..n : \E t : f[i] = At(End(s)[i], t) /\ Restored(s, i, t)
  <2> DEFINE T == {i \in 0..n : \E t : f[i] = At(End(s)[i], t) /\ Restored(s, i, t)}
  <2>1. 0 \in T
    <3>1. 0 \in 0..n BY <1>1
    <3> QED BY <1>2, <1>3, <3>1, RestoredNone
  <2>2. ASSUME NEW i \in 1..n, i - 1 \in T PROVE i \in T
    <3>1. PICK t : f[i - 1] = At(End(s)[i - 1], t) /\ Restored(s, i - 1, t) BY <2>2
    <3>2. i \in 1..EnvMax /\ i \in 1..Len(s) /\ i \in 0..n BY <1>1
    <3>3. Good(t) BY <3>1 DEF Restored
    <3>4. f[i] = RoundOf(b)[At(End(s)[i - 1], t)] BY <1>2, <3>1, <3>2
    <3>5. f[i] = At(End(s)[i], SetKv(t, s[i])) BY <3>3, <3>4, RoundTakes DEF n
    <3>6. Restored(s, i, SetKv(t, s[i])) BY <3>1, <3>2, RestoredNext
    <3> QED BY <3>2, <3>5, <3>6
  <2> HIDE DEF T
  <2>3. \A i \in 0..n : i \in T BY <1>1, <2>1, <2>2, Rounds
  <2> QED BY <2>3 DEF T
<1>5. PICK t : f[n] = At(End(s)[n], t) /\ Restored(s, n, t)
  <2>1. n \in 0..n BY <1>1
  <2> QED BY <1>4, <2>1
<1>6. \A i \in 0..Len(s) : i >= n => f[i] = f[n]
  <2> DEFINE T == {i \in 0..Len(s) : i >= n => f[i] = f[n]}
  <2>1. 0 \in T
    <3>1. 0 \in 0..Len(s) /\ (0 >= n => n = 0) BY <1>1
    <3> QED BY <3>1
  <2>2. ASSUME NEW i \in 1..Len(s), i - 1 \in T PROVE i \in T
    <3>1. i \in 0..Len(s) /\ i \in 1..EnvMax BY <1>1
    <3>2. CASE i = n BY <3>1, <3>2
    <3>3. CASE i < n BY <1>1, <3>1, <3>3
    <3>4. CASE i > n
      <4>1. i - 1 >= n BY <1>1, <3>4
      <4>2. f[i - 1] = f[n] BY <2>2, <4>1
      <4>3. f[i] = RoundOf(b)[At(End(s)[n], t)] BY <1>2, <1>5, <3>1, <4>2
      <4>4. Good(t) BY <1>5 DEF Restored
      <4>5. f[i] = At(End(s)[n], t) BY <4>3, <4>4, RoundStays DEF n
      <4> QED BY <1>5, <3>1, <4>5
    <3> QED BY <1>1, <3>2, <3>3, <3>4
  <2> HIDE DEF T
  <2>3. \A i \in 0..Len(s) : i \in T BY <1>1, <2>1, <2>2, Rounds
  <2> QED BY <2>3 DEF T
<1>7. Min({Len(s), EnvMax}) = Len(s)
  <2> DEFINE m == Min({Len(s), EnvMax})
  <2>1. {Len(s), EnvMax} \in SUBSET Nat BY <1>1
  <2>2. m \in {Len(s), EnvMax} /\ m <= Len(s) BY <2>1, MinIs
  <2> HIDE DEF m
  <2>3. m = Len(s) BY <1>1, <2>2
  <2> QED BY <2>3 DEF m
<1>8. Load(b) = f[Len(s)].set
  <2>1. SubSeq(b, 1, Len(Magic)) = Magic /\ b[Header] = Len(s) BY DEF Encodes
  <2> QED BY <1>7, <2>1, LoadIs DEF f
<1>9. f[Len(s)] = f[n] BY <1>1, <1>6
<1>10. Load(b) = t BY <1>5, <1>8, <1>9 DEF At
<1> QED BY <1>5, <1>10 DEF n

\* What a sector may hold: zeros, or what was saved of a good store.
Blank == [i \in 1..SectorSize |-> 0]
Saved(b) == b = Blank \/ \E s : Good(s) /\ b = Encode(s)

\* A blank sector is not one of ours.
LEMMA BlankLoad ==
  /\ Blank \in Seq(Byte) /\ Len(Blank) = SectorSize
  /\ Load(Blank) = <<PathKv>>
<1> DEFINE b == Blank
<1>1. SectorSize \in Nat /\ SectorSize > Header BY SizesAssumption DEF SizesAssumption
<1>2. b \in [1..SectorSize -> Byte] /\ \A i \in 1..SectorSize : b[i] = 0 BY DEF Blank, Byte
<1> HIDE DEF b
<1>3. b \in Seq(Byte) /\ Len(b) = SectorSize BY <1>1, <1>2, ByteSeq
<1>4. SubSeq(b, 1, Len(Magic)) # Magic
  <2>1. Len(Magic) = 4 /\ Magic[1] = 69 BY DEF Magic
  <2>2. \A i \in 1..4 : b[i] \in Byte /\ b[i] = 0
    <3>1. \A i \in 1..4 : i \in 1..SectorSize BY <1>1 DEF Header
    <3> QED BY <1>2, <3>1
  <2>3. \A i \in 1..(4 - 1 + 1) : SubSeq(b, 1, 4)[i] = b[1 + i - 1] BY <2>2, SubSeqProperties
  <2>4. 1 \in 1..(4 - 1 + 1) /\ 1 \in 1..4 /\ 1 + 1 - 1 = 1 OBVIOUS
  <2>5. SubSeq(b, 1, 4)[1] = 0 BY <2>2, <2>3, <2>4
  <2> QED BY <2>1, <2>5
<1>5. Load(b) = <<PathKv>> BY <1>4, LoadIs
<1> QED BY <1>3, <1>5 DEF b

\* Any such sector is a sector, and a restart makes a good store of it.
LEMMA SavedIs ==
  ASSUME NEW b, Saved(b)
  PROVE  b \in Seq(Byte) /\ Len(b) = SectorSize /\ Good(Load(b))
<1>2. CASE b = Blank BY <1>2, BlankLoad, DefaultGood
<1>3. CASE \E s : Good(s) /\ b = Encode(s)
  <2>1. PICK s : Good(s) /\ b = Encode(s) BY <1>3
  <2>2. Encodes(b, s) BY <2>1, EncodeIs
  <2>3. Good(Load(b)) BY <2>1, <2>2, LoadRestores DEF Restored
  <2> QED BY <2>2, <2>3 DEF Encodes
<1> QED BY <1>2, <1>3 DEF Saved

-----------------------------------------------------------------------------
\* The invariant.

IInv == /\ Good(store) /\ Saved(sector)
        /\ drive \in {"idle", "writing"} /\ waiting \in BOOLEAN
        /\ IF drive = "writing" THEN Saved(due) ELSE due = <<>>

\* It holds at first, and every step keeps it.
LEMMA InitInv == Init => IInv
<1> SUFFICES ASSUME Init PROVE IInv OBVIOUS
<1>1. Saved(sector) BY DEF Init, Saved, Blank
<1>2. Good(store) BY DefaultGood DEF Init
<1> QED BY <1>1, <1>2 DEF Init, IInv

\* A save hands the drive what a good store encodes to, or nothing.
LEMMA SaveKeeps ==
  ASSUME IInv, Good(store)', EnvSave
  PROVE  IInv'
<1>1. Saved(sector)' BY DEF IInv, EnvSave
<1>2. Saved(Encode(store')) BY DEF Saved
<1>3. CASE drive = "idle" /\ drive' = "writing" /\ due' = Encode(store') /\ UNCHANGED waiting
  BY <1>1, <1>2, <1>3 DEF IInv
<1>4. CASE drive = "idle" /\ UNCHANGED <<drive, due, waiting>> BY <1>1, <1>4 DEF IInv
<1>5. CASE drive = "writing" /\ waiting' = TRUE /\ UNCHANGED <<drive, due>>
  BY <1>1, <1>5 DEF IInv
<1> QED BY <1>3, <1>4, <1>5 DEF EnvSave, AtaWrite28

LEMMA NextInv ==
  ASSUME IInv, [Next]_vars
  PROVE  IInv'
<1>0. Good(store) BY DEF IInv
<1>1. ASSUME NEW kv \in Kvs, Set(kv) PROVE IInv'
  <2>1. kv \in Seq(Char) /\ WellFormed(kv) BY <1>1, StringsAssumption DEF StringsAssumption, Set, Accepts
  <2>2. Good(SetKv(store, kv)) BY <1>0, <2>1, SetResult
  <2>3. Good(store)' BY <1>1, <2>2 DEF Set
  <2> QED BY <1>1, <2>3, SaveKeeps DEF Set
<1>2. ASSUME NEW name \in Names, Unset(name) PROVE IInv'
  <2>1. name \in Seq(Char) BY StringsAssumption DEF StringsAssumption
  <2>2. Hits(store, name) \in SUBSET Nat /\ Hits(store, name) \subseteq 1..Len(store)
    BY <1>0, <2>1, HitsIs
  <2>3. Hits(store, name) # {} BY <1>2 DEF Unset, IsSet
  <2>4. Min(Hits(store, name)) \in 1..Len(store) BY <2>2, <2>3, MinIs
  <2>5. Good(RemoveEntry(store, Min(Hits(store, name)))) BY <1>0, <2>4, RemoveResult
  <2>6. Good(store)' BY <1>2, <2>5 DEF Unset
  <2> QED BY <1>2, <2>6, SaveKeeps DEF Unset
<1>3. CASE DriveDone
  <2>1. Saved(sector') BY <1>3 DEF DriveDone, Arrives, IInv
  <2> QED BY <1>3, <2>1 DEF DriveDone, Arrives, IInv
<1>4. CASE Reboot
  <2>1. Saved(sector') /\ drive' \in {"idle", "writing"}
        /\ IF drive' = "writing" THEN Saved(due') ELSE due' = <<>>
    <3>1. CASE drive = "writing"
      <4>1. Arrives BY <1>4, <3>1 DEF Reboot
      <4>2. Saved(sector') BY <3>1, <4>1 DEF Arrives, IInv
      <4> QED BY <4>1, <4>2 DEF Arrives
    <3>2. CASE drive # "writing"
      <4>1. UNCHANGED <<sector, drive, due>> BY <1>4, <3>2 DEF Reboot
      <4> QED BY <4>1 DEF IInv
    <3> QED BY <3>1, <3>2
  <2>2. Good(store') BY <1>4, <2>1, SavedIs, DefaultGood DEF Reboot
  <2>3. waiting' \in BOOLEAN BY <1>4 DEF Reboot
  <2> QED BY <2>1, <2>2, <2>3 DEF IInv
<1>5. CASE UNCHANGED vars BY <1>5 DEF vars, IInv
<1> QED BY <1>1, <1>2, <1>3, <1>4, <1>5 DEF Next

\* The store is good and the sector holds what was saved of a good one.
THEOREM Invariance == Spec => []IInv
<1>1. IInv /\ [Next]_vars => IInv' BY NextInv
<1> QED BY InitInv, <1>1, PTL DEF Spec

\* The array is never outgrown, nor a string's place, nor the sector
\* (env_set, env_save, env_init).
THEOREM TypeCorrect == Spec => []TypeOK
<1>1. IInv => TypeOK
  <2> SUFFICES ASSUME IInv PROVE TypeOK OBVIOUS
  <2>1. Good(store) BY DEF IInv
  <2>2. /\ Len(store) <= EnvMax /\ DOMAIN store = 1..Len(store)
        /\ \A i \in DOMAIN store : Len(store[i]) < KvMax /\ WellFormed(store[i])
    BY <2>1, EntryOf
  <2>3. store \in Seq(Seq(Char))
    <3>1. store \in Seq(Entry) /\ Entry \subseteq Seq(Char) BY <2>1 DEF Good, Entry
    <3> QED BY <3>1, SeqMonotonic
  <2>4. sector \in Seq(Byte) /\ Len(sector) = SectorSize BY SavedIs DEF IInv
  <2>5. due \in Seq(Byte) /\ Len(due) = IF drive = "writing" THEN SectorSize ELSE 0
    <3>1. CASE drive = "writing" BY <3>1, SavedIs DEF IInv
    <3>2. CASE drive # "writing" BY <3>2, EmptySeq DEF IInv
    <3> QED BY <3>1, <3>2
  <2>6. drive \in {"idle", "writing"} /\ waiting \in BOOLEAN BY DEF IInv
  <2> QED BY <2>2, <2>3, <2>4, <2>5, <2>6 DEF TypeOK
<1> QED BY <1>1, Invariance, PTL

\* No variable is in the store twice, however env_set, env_unset and the
\* restarts of env_init have moved the strings.
THEOREM VariablesOnce == Spec => []NamesOnce
<1>1. IInv => NamesOnce
  <2> SUFFICES ASSUME IInv PROVE NamesOnce OBVIOUS
  <2>1. Good(store) BY DEF IInv
  <2> QED BY <2>1, EntryOf DEF NamesOnce
<1> QED BY <1>1, Invariance, PTL

\* env_save and then env_init bring back every variable that fits the sector,
\* with its value, and nothing else, but that PATH takes a place of its own.
THEOREM RestartRestores == Spec => []RebootRestores
<1>1. IInv => RebootRestores
  <2> SUFFICES ASSUME IInv PROVE RebootRestores OBVIOUS
  <2> DEFINE back == Load(Encode(store))
             n == Fitting(store)
             path == NameOf(PathKv)
  <2>1. Good(store) BY DEF IInv
  <2>2. Restored(store, n, back) BY <2>1, EncodeIs, LoadRestores
  <2>3. /\ Good(back)
        /\ \A k \in 1..Len(back) : back[k] = PathKv \/ \E j \in 1..n : back[k] = store[j]
        /\ \A j \in 1..n : (\E k \in 1..Len(back) : back[k] = store[j]) \/ Crowded(store, j, back)
    BY <2>2 DEF Restored
  <2>4. n \in 0..Len(store) /\ Len(store) \in Nat /\ DOMAIN store = 1..Len(store)
        /\ \A j \in 1..n : j \in DOMAIN store
    BY <2>1, FittingIs, EntryOf
  <2>5. DOMAIN back = 1..Len(back) BY <2>3, EntryOf
  <2> HIDE DEF back, n
  <2>6. ASSUME NEW i \in 1..n
        PROVE  \/ IsSet(back, NameOf(store[i])) /\ Get(back, NameOf(store[i])) = ValueOf(store[i])
               \/ ~IsSet(store, path) /\ Len(back) = EnvMax /\ i = EnvMax
    <3>1. ASSUME NEW k \in 1..Len(back), back[k] = store[i]
          PROVE  IsSet(back, NameOf(store[i])) /\ Get(back, NameOf(store[i])) = ValueOf(store[i])
      BY <2>3, <3>1, OneHit
    <3>2. CASE Crowded(store, i, back)
      <4>1. path \in Seq(Char)
        <5>1. PathKv \in Seq(Char) /\ WellFormed(PathKv)
          BY StringsAssumption DEF StringsAssumption, WellFormed
        <5> QED BY <5>1, NameIs
      <4>2. Hits(store, path) = {} BY <2>1, <3>2, <4>1, HitsIs DEF Crowded
      <4> QED BY <3>2, <4>2 DEF Crowded, IsSet
    <3> QED BY <2>3, <3>1, <3>2
  <2>7. \A i \in DOMAIN back : back[i] \in Range(store) \cup {PathKv} BY <2>3, <2>4, <2>5 DEF Range
  <2> QED BY <2>6, <2>7 DEF RebootRestores, back, n
<1> QED BY <1>1, Invariance, PTL

-----------------------------------------------------------------------------
\* The refinement.

\* map is the one that s shows.
Shows(s, map) ==
  /\ map = [name \in DOMAIN map |-> map[name]]
  /\ \A name \in DOMAIN map : \E k \in 1..Len(s) : name = NameOf(s[k])
  /\ \A k \in 1..Len(s) : NameOf(s[k]) \in DOMAIN map /\ map[NameOf(s[k])] = ValueOf(s[k])

\* MapOf is, for a good store.
LEMMA MapIs ==
  ASSUME NEW s, Good(s)
  PROVE  Shows(s, MapOf[s])
<1>1. s \in Seq(Seq(Byte)) /\ DOMAIN s = 1..Len(s) BY GoodBytes, EntryOf
<1>2. MapOf[s] = [name \in {NameOf(s[i]) : i \in 1..Len(s)} |-> Get(s, name)] BY <1>1 DEF MapOf
<1>3. \A k \in 1..Len(s) : Get(s, NameOf(s[k])) = ValueOf(s[k]) BY OneHit
<1>4. DOMAIN MapOf[s] = {NameOf(s[i]) : i \in 1..Len(s)} BY <1>2
<1>5. ASSUME NEW k \in 1..Len(s) PROVE MapOf[s][NameOf(s[k])] = ValueOf(s[k])
  <2>1. NameOf(s[k]) \in {NameOf(s[i]) : i \in 1..Len(s)} OBVIOUS
  <2> QED BY <1>2, <1>3, <2>1
<1> QED BY <1>2, <1>4, <1>5 DEF Shows

\* The store every boot starts from shows the default map.
LEMMA DefaultMap == MapOf[<<PathKv>>] = EM!Default
<1> DEFINE s == <<PathKv>>
<1>1. Good(s) /\ Len(s) = 1 /\ s[1] = PathKv BY DefaultGood
<1> HIDE DEF s
<1>2. Shows(s, MapOf[s]) BY <1>1, MapIs
<1>3. \A k \in 1..Len(s) : s[k] = PathKv
  <2>1. \A k \in 1..Len(s) : k = 1 BY <1>1
  <2> QED BY <1>1, <2>1
<1>4. 1 \in 1..Len(s) BY <1>1
<1>5. DOMAIN MapOf[s] = {NameOf(PathKv)}
  <2>1. \A n \in DOMAIN MapOf[s] : n = NameOf(PathKv) BY <1>2, <1>3 DEF Shows
  <2>2. NameOf(PathKv) \in DOMAIN MapOf[s] BY <1>1, <1>2, <1>4 DEF Shows
  <2> QED BY <2>1, <2>2
<1>6. MapOf[s][NameOf(PathKv)] = ValueOf(PathKv) BY <1>1, <1>2, <1>4 DEF Shows
<1>7. MapOf[s] = [name \in DOMAIN MapOf[s] |-> MapOf[s][name]] BY <1>2 DEF Shows
<1>8. MapOf[s] = [name \in {NameOf(PathKv)} |-> ValueOf(PathKv)] BY <1>5, <1>6, <1>7
<1> QED BY <1>8 DEF EM!Default, s

\* What is restored of s comes from s.
LEMMA RestoredMap ==
  ASSUME NEW s, Good(s), NEW t, Restored(s, Fitting(s), t)
  PROVE  EM!ComesFrom(MapOf[t], MapOf[s])
<1>1. Good(t) /\ \A k \in 1..Len(t) : t[k] = PathKv \/ \E j \in 1..Fitting(s) : t[k] = s[j]
  BY DEF Restored
<1>2. \A j \in 1..Fitting(s) : j \in 1..Len(s) BY Offsets
<1> SUFFICES ASSUME NEW x \in DOMAIN MapOf[t]
             PROVE  \/ x \in DOMAIN MapOf[s] /\ MapOf[t][x] = MapOf[s][x]
                    \/ x = NameOf(PathKv) /\ MapOf[t][x] = ValueOf(PathKv)
  BY DEF EM!ComesFrom
<1>0. Shows(t, MapOf[t]) /\ Shows(s, MapOf[s]) BY <1>1, MapIs
<1>3. PICK k \in 1..Len(t) : x = NameOf(t[k]) BY <1>0 DEF Shows
<1>4. MapOf[t][x] = ValueOf(t[k]) BY <1>0, <1>3 DEF Shows
<1>5. CASE t[k] = PathKv BY <1>3, <1>4, <1>5
<1>6. ASSUME NEW j \in 1..Fitting(s), t[k] = s[j]
      PROVE  x \in DOMAIN MapOf[s] /\ MapOf[t][x] = MapOf[s][x]
  <2>1. j \in 1..Len(s) BY <1>2
  <2>2. NameOf(s[j]) \in DOMAIN MapOf[s] /\ MapOf[s][NameOf(s[j])] = ValueOf(s[j])
    BY <1>0, <2>1 DEF Shows
  <2> QED BY <1>3, <1>4, <1>6, <2>2
<1> QED BY <1>1, <1>5, <1>6

\* A set changes one name of the map.
LEMMA SetMap ==
  ASSUME NEW s, Good(s), NEW kv \in Seq(Char), Accepts(s, kv), NEW t, t = SetKv(s, kv)
  PROVE  \E n \in DOMAIN MapOf[t] :
           /\ DOMAIN MapOf[t] = DOMAIN MapOf[s] \cup {n}
           /\ \A m \in DOMAIN MapOf[s] \ {n} : MapOf[t][m] = MapOf[s][m]
<1> DEFINE n == NameOf(kv)
<1>1. WellFormed(kv) BY DEF Accepts
<1>2. Good(t) /\ ((\E k \in 1..Len(s) : Replaces(s, kv, t, k)) \/ Appends(s, kv, t)) BY <1>1, SetResult
<1>3. NameOf(Kept(kv)) = n BY <1>1, KeptIs
<1>9. Shows(t, MapOf[t]) /\ Shows(s, MapOf[s]) BY <1>2, MapIs
<1>4. /\ \A x \in DOMAIN MapOf[t] : \E k \in 1..Len(t) : x = NameOf(t[k])
      /\ \A x \in DOMAIN MapOf[s] : \E k \in 1..Len(s) : x = NameOf(s[k])
      /\ \A k \in 1..Len(t) : NameOf(t[k]) \in DOMAIN MapOf[t] /\ MapOf[t][NameOf(t[k])] = ValueOf(t[k])
      /\ \A k \in 1..Len(s) : NameOf(s[k]) \in DOMAIN MapOf[s] /\ MapOf[s][NameOf(s[k])] = ValueOf(s[k])
  BY <1>9 DEF Shows
<1>5. Len(s) \in Nat BY EntryOf
<1> HIDE DEF n
<1>6. ASSUME \A j \in 1..Len(s) : j \in 1..Len(t) /\ NameOf(t[j]) = NameOf(s[j])
                                  /\ (NameOf(s[j]) # n => t[j] = s[j]),
             \A j \in 1..Len(t) : j \in 1..Len(s) \/ NameOf(t[j]) = n,
             \E j \in 1..Len(t) : NameOf(t[j]) = n
      PROVE  /\ n \in DOMAIN MapOf[t] /\ DOMAIN MapOf[t] = DOMAIN MapOf[s] \cup {n}
             /\ \A m \in DOMAIN MapOf[s] \ {n} : MapOf[t][m] = MapOf[s][m]
  <2>1. n \in DOMAIN MapOf[t] BY <1>4, <1>6
  <2>2. DOMAIN MapOf[s] \subseteq DOMAIN MapOf[t] BY <1>4, <1>6
  <2>3. DOMAIN MapOf[t] \subseteq DOMAIN MapOf[s] \cup {n} BY <1>4, <1>6
  <2>4. ASSUME NEW m \in DOMAIN MapOf[s], m # n PROVE MapOf[t][m] = MapOf[s][m]
    <3>1. PICK j \in 1..Len(s) : m = NameOf(s[j]) BY <1>4
    <3>2. t[j] = s[j] /\ j \in 1..Len(t) BY <1>6, <2>4, <3>1
    <3> QED BY <1>4, <3>1, <3>2
  <2> QED BY <2>1, <2>2, <2>3, <2>4
<1>7. ASSUME NEW k \in 1..Len(s), Replaces(s, kv, t, k)
      PROVE  \E x \in DOMAIN MapOf[t] :
               /\ DOMAIN MapOf[t] = DOMAIN MapOf[s] \cup {x}
               /\ \A m \in DOMAIN MapOf[s] \ {x} : MapOf[t][m] = MapOf[s][m]
  <2>1. NameOf(s[k]) = n /\ Len(t) = Len(s) /\ NameOf(t[k]) = n
        /\ \A j \in 1..Len(s) : j # k => t[j] = s[j]
    BY <1>3, <1>7 DEF Replaces, n
  <2>2. \A j \in 1..Len(s) : j \in 1..Len(t) /\ NameOf(t[j]) = NameOf(s[j])
                             /\ (NameOf(s[j]) # n => t[j] = s[j])
    BY <2>1
  <2>3. (\A j \in 1..Len(t) : j \in 1..Len(s) \/ NameOf(t[j]) = n) /\ \E j \in 1..Len(t) : NameOf(t[j]) = n
    BY <2>1
  <2> QED BY <1>6, <2>2, <2>3
<1>8. ASSUME Appends(s, kv, t)
      PROVE  \E x \in DOMAIN MapOf[t] :
               /\ DOMAIN MapOf[t] = DOMAIN MapOf[s] \cup {x}
               /\ \A m \in DOMAIN MapOf[s] \ {x} : MapOf[t][m] = MapOf[s][m]
  <2>1. Len(t) = Len(s) + 1 /\ NameOf(t[Len(s) + 1]) = n /\ \A j \in 1..Len(s) : t[j] = s[j]
    BY <1>3, <1>8 DEF Appends
  <2>2. \A j \in 1..Len(s) : j \in 1..Len(t) /\ NameOf(t[j]) = NameOf(s[j])
                             /\ (NameOf(s[j]) # n => t[j] = s[j])
    BY <1>5, <2>1
  <2>3. \A j \in 1..Len(t) : j \in 1..Len(s) \/ j = Len(s) + 1 BY <1>5, <2>1
  <2>4. Len(s) + 1 \in 1..Len(t) BY <1>5, <2>1
  <2>5. (\A j \in 1..Len(t) : j \in 1..Len(s) \/ NameOf(t[j]) = n) /\ \E j \in 1..Len(t) : NameOf(t[j]) = n
    BY <2>1, <2>3, <2>4
  <2> QED BY <1>6, <2>2, <2>5
<1> QED BY <1>2, <1>7, <1>8

Without(map, name) == [m \in DOMAIN map \ {name} |-> map[m]]

\* An unset takes one name away.
LEMMA UnsetMap ==
  ASSUME NEW s, Good(s), NEW i \in 1..Len(s), NEW t, t = RemoveEntry(s, i)
  PROVE  \E n \in DOMAIN MapOf[s] : MapOf[t] = Without(MapOf[s], n)
<1> DEFINE n == NameOf(s[i])
           D == DOMAIN MapOf[s] \ {n}
<1>1. Good(t) /\ Removed(s, i, t) BY RemoveResult
<1>12. Shows(t, MapOf[t]) /\ Shows(s, MapOf[s]) BY <1>1, MapIs
<1>2. /\ \A x \in DOMAIN MapOf[t] : \E k \in 1..Len(t) : x = NameOf(t[k])
      /\ \A x \in DOMAIN MapOf[s] : \E k \in 1..Len(s) : x = NameOf(s[k])
      /\ \A k \in 1..Len(t) : NameOf(t[k]) \in DOMAIN MapOf[t] /\ MapOf[t][NameOf(t[k])] = ValueOf(t[k])
      /\ \A k \in 1..Len(s) : NameOf(s[k]) \in DOMAIN MapOf[s] /\ MapOf[s][NameOf(s[k])] = ValueOf(s[k])
      /\ MapOf[t] = [m \in DOMAIN MapOf[t] |-> MapOf[t][m]]
  BY <1>12 DEF Shows
<1>3. Len(s) \in Nat /\ \A j, k \in 1..Len(s) : NameOf(s[j]) = NameOf(s[k]) => j = k BY EntryOf
<1>4. Len(t) = Len(s) - 1 /\ \A j \in 1..(Len(s) - 1) : t[j] = IF j = i THEN s[Len(s)] ELSE s[j]
  BY <1>1 DEF Removed
<1>5. ASSUME NEW j \in 1..Len(t)
      PROVE  \E k \in 1..Len(s) : k # i /\ t[j] = s[k]
  <2>1. j \in 1..(Len(s) - 1) /\ j # Len(s) /\ j \in 1..Len(s) /\ Len(s) \in 1..Len(s) BY <1>3, <1>4
  <2>2. CASE j = i
    <3>1. t[j] = s[Len(s)] /\ Len(s) # i BY <1>4, <2>1, <2>2
    <3> QED BY <2>1, <3>1
  <2>3. CASE j # i
    <3>1. t[j] = s[j] BY <1>4, <2>1, <2>3
    <3> QED BY <2>1, <2>3, <3>1
  <2> QED BY <2>2, <2>3
<1>6. ASSUME NEW k \in 1..Len(s), k # i
      PROVE  \E j \in 1..Len(t) : t[j] = s[k]
  <2>1. CASE k = Len(s)
    <3>1. i \in 1..(Len(s) - 1) /\ i \in 1..Len(t) BY <1>3, <1>4, <1>6, <2>1
    <3> QED BY <1>4, <2>1, <3>1
  <2>2. CASE k # Len(s)
    <3>1. k \in 1..(Len(s) - 1) /\ k \in 1..Len(t) BY <1>3, <1>4, <2>2
    <3> QED BY <1>4, <1>6, <3>1
  <2> QED BY <2>1, <2>2
<1>7. ASSUME NEW m \in DOMAIN MapOf[t] PROVE m \in D /\ MapOf[t][m] = MapOf[s][m]
  <2>1. PICK j \in 1..Len(t) : m = NameOf(t[j]) BY <1>2
  <2>2. PICK k \in 1..Len(s) : k # i /\ t[j] = s[k] BY <1>5
  <2>3. m \in DOMAIN MapOf[s] /\ m # n BY <1>2, <1>3, <2>1, <2>2
  <2> QED BY <1>2, <2>1, <2>2, <2>3
<1>8. ASSUME NEW m \in D PROVE m \in DOMAIN MapOf[t]
  <2>1. PICK k \in 1..Len(s) : m = NameOf(s[k]) BY <1>2
  <2>2. k # i BY <2>1
  <2>3. PICK j \in 1..Len(t) : t[j] = s[k] BY <1>6, <2>2
  <2> QED BY <1>2, <2>1, <2>3
<1>9. n \in DOMAIN MapOf[s] BY <1>2
<1>10. DOMAIN MapOf[t] = D BY <1>7, <1>8
<1> HIDE DEF D
<1>11. MapOf[t] = [m \in D |-> MapOf[s][m]]
  <2>1. [m \in D |-> MapOf[t][m]] = [m \in D |-> MapOf[s][m]] BY <1>7, <1>10
  <2> QED BY <1>2, <1>10, <2>1
<1> QED BY <1>9, <1>11 DEF D, Without

\* A save leaves what is due alone, or makes it come from the store.
LEMMA SaveStep ==
  ASSUME IInv, Good(store)', EnvSave
  PROVE  EM!Save
<1>1. sector' = sector BY DEF EnvSave
<1>2. CASE drive = "idle" /\ drive' = "writing" /\ due' = Encode(store') /\ UNCHANGED waiting
  <2>1. Restored(store', Fitting(store'), Load(Encode(store'))) BY EncodeIs, LoadRestores
  <2>2. EM!ComesFrom(MapOf[Load(Encode(store'))], MapOf[store']) BY <2>1, RestoredMap
  <2>3. (IF drive' = "writing" THEN due' ELSE sector') = Encode(store') BY <1>2
  <2> QED BY <1>1, <2>2, <2>3 DEF EM!Save
<1>3. CASE UNCHANGED <<drive, due>> BY <1>1, <1>3 DEF EM!Save
<1> QED BY <1>2, <1>3 DEF EnvSave, AtaWrite28

\* What the drive has written, or lost, is what the next restart finds.
LEMMA ArriveStep ==
  ASSUME IInv, drive = "writing", Arrives
  PROVE  EM!Arrive
<1>1. sector' \in {sector, due} /\ drive' = "idle" BY DEF Arrives
<1>2. (IF drive' = "writing" THEN due' ELSE sector') = sector'
      /\ (IF drive = "writing" THEN due ELSE sector) = due
  BY <1>1
<1> QED BY <1>1, <1>2 DEF EM!Arrive

\* Every step changes the map as EnvMap allows, or not at all.
LEMMA MapStep ==
  ASSUME IInv, [Next]_vars
  PROVE  [EM!MapNext]_(EM!mapVars)
<1>0. Good(store) BY DEF IInv
<1>1. ASSUME NEW kv \in Kvs, Set(kv) PROVE EM!MapNext
  <2>1. kv \in Seq(Char) /\ WellFormed(kv) /\ Accepts(store, kv) /\ store' = SetKv(store, kv) /\ EnvSave
    BY <1>1, StringsAssumption DEF StringsAssumption, Set, Accepts
  <2>2. Good(store)' BY <1>0, <2>1, SetResult
  <2>3. EM!Save BY <2>1, <2>2, SaveStep
  <2>4. EM!Put BY <1>0, <2>1, <2>3, SetMap DEF EM!Put
  <2> QED BY <2>4 DEF EM!MapNext
<1>2. ASSUME NEW name \in Names, Unset(name) PROVE EM!MapNext
  <2>1. name \in Seq(Char) BY StringsAssumption DEF StringsAssumption
  <2> DEFINE i == Min(Hits(store, name))
  <2>2. i \in 1..Len(store) /\ store' = RemoveEntry(store, i) /\ EnvSave
    <3>1. Hits(store, name) \in SUBSET Nat /\ Hits(store, name) \subseteq 1..Len(store)
      BY <1>0, <2>1, HitsIs
    <3>2. Hits(store, name) # {} BY <1>2 DEF Unset, IsSet
    <3>3. i \in 1..Len(store) BY <3>1, <3>2, MinIs
    <3> QED BY <1>2, <3>3 DEF Unset
  <2> HIDE DEF i
  <2>3. Good(store)' BY <1>0, <2>2, RemoveResult
  <2>4. EM!Save BY <2>2, <2>3, SaveStep
  <2>5. \E n \in DOMAIN MapOf[store] :
          MapOf[store'] = Without(MapOf[store], n)
    BY <1>0, <2>2, UnsetMap
  <2>6. EM!Drop BY <2>4, <2>5 DEF EM!Drop, Without
  <2> QED BY <2>6 DEF EM!MapNext
<1>3. CASE DriveDone
  <2>1. EM!Arrive BY <1>3, ArriveStep DEF DriveDone
  <2>2. store' = store BY <1>3 DEF DriveDone
  <2> QED BY <2>1, <2>2 DEF EM!MapNext
<1>4. CASE Reboot
  <2>1. EM!Arrive
    <3>1. CASE drive = "writing" BY <1>4, <3>1, ArriveStep DEF Reboot
    <3>2. CASE drive # "writing"
      <4>1. UNCHANGED <<sector, drive, due>> BY <1>4, <3>2 DEF Reboot
      <4> QED BY <3>2, <4>1 DEF EM!Arrive
    <3> QED BY <3>1, <3>2
  <2>2. store' \in {Load(sector'), <<PathKv>>} BY <1>4 DEF Reboot
  <2>3. MapOf[store'] \in {MapOf[Load(sector')], EM!Default} BY <2>2, DefaultMap
  <2>4. EM!Restart BY <2>1, <2>3 DEF EM!Restart
  <2> QED BY <2>4 DEF EM!MapNext
<1>5. CASE UNCHANGED vars BY <1>5 DEF vars, EM!mapVars
<1> QED BY <1>1, <1>2, <1>3, <1>4, <1>5 DEF Next

\* The first map is the default.
LEMMA MapStart == Init => EM!MapInit
<1> SUFFICES ASSUME Init PROVE EM!MapInit OBVIOUS
<1>1. store = <<PathKv>> /\ sector = Blank /\ drive = "idle" BY DEF Init, Blank
<1>2. Load(sector) = <<PathKv>> BY <1>1, BlankLoad
<1>3. (IF drive = "writing" THEN due ELSE sector) = sector BY <1>1
<1> QED BY <1>1, <1>2, <1>3, DefaultMap DEF EM!MapInit

\* The store, its sector and the drive implement EnvMap: env_set and env_unset
\* change one name at a time, and a restart finds values that were set.
THEOREM StoreImplementsMap == Spec => ImplementsMap
<1>1. IInv /\ [Next]_vars => [EM!MapNext]_(EM!mapVars) BY MapStep
<1> QED BY MapStart, <1>1, Invariance, PTL DEF Spec, ImplementsMap, EM!MapSpec
=============================================================================

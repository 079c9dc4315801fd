------------------------------ MODULE FsProofs ------------------------------
(***************************************************************************)
(* Proofs about Fs, for every size of the node table, of the arena and of   *)
(* the buffers, every set of names and every byte string.                   *)
(*                                                                         *)
(* TypeOK and ExtentsDisjoint are not inductive by themselves: that a copy  *)
(* out of a file yields bytes needs its extent to lie below the mark, and   *)
(* that needs to know which slots have data at all.  DataOK supplies it.    *)
(* The tree (TreeOK, NoOrphans, NamesUnique) is inductive next to them.     *)
(***************************************************************************)
EXTENDS Fs, SequenceTheorems, WellFoundedInduction, TLAPS

USE SizesAssumption DEF SizesAssumption, Node, Root, Nil, Pointer, Cells

\* Slots not handed out are blank; the data pointer of each node is in bounds.
DataOK ==
  /\ \A n \in Node : n > ni <=> type[n] = "free"
  /\ \A n \in Node :
       /\ at[n] = "none"  => size[n] = 0
       /\ at[n] = "arena" => off[n] + size[n] <= aoff
       /\ at[n] = "redir" => size[n] <= BufSize
       /\ at[n] = "image" => size[n] = Len(Image)
       /\ at[n] # "none"  => type[n] = "file"
       /\ Disk => at[n] \in {"none", "arena"}

Apart(n, m) == \/ off[n] + size[n] <= off[m] \/ off[m] + size[m] <= off[n]
               \/ size[n] = 0 \/ size[m] = 0

Disjoint == \A n, m \in Node :
              n # m /\ at[n] = "arena" /\ at[m] = "arena" => Apart(n, m)

FsInv == TreeType /\ DataType /\ DataOK /\ Disjoint
\* A redirection under way has a target; the editor runs only inside a builtin.
RedirOK == /\ pc \in {"redir", "ran"} => out.node \in Node
           /\ edit # Nil => pc \in {"prompt", "redir"}
IInv == FsInv /\ ShellType /\ RedirOK

-----------------------------------------------------------------------------
\* A function on 1..k is a sequence of length k.
LEMMA ByteSeq ==
  ASSUME NEW k \in Nat, NEW S, NEW f \in [1..k -> S]
  PROVE  f \in Seq(S) /\ Len(f) = k
BY SeqDef, LenProperties

\* What a copy out of a file can see is a string of as many bytes as the file has.
LEMMA ReadableType ==
  ASSUME FsInv, ShellType, NEW f \in Node, NEW b \in Readable(f)
  PROVE  b \in Seq(Byte) /\ Len(b) = size[f]
<1> USE DEF FsInv, DataType, DataOK, ShellType
<1>1. CASE at[f] = "none"
  BY <1>1, EmptySeq DEF Readable, Content
<1>2. CASE at[f] = "arena"
  <2>0. /\ off[f] \in Nat /\ size[f] \in Nat /\ aoff <= ArenaSize
        /\ off[f] + size[f] <= aoff /\ aoff \in Nat
    BY <1>2
  <2>1. \A i \in 1..size[f] : arena[off[f] + i - 1] \in Byte
    <3> TAKE i \in 1..size[f]
    <3>1. off[f] + i - 1 \in Cells
      <4> HIDE DEF FsInv, DataType, DataOK, ShellType
      <4> QED  BY <2>0
    <3> QED  BY <3>1 DEF DataType
  <2>2. b = [i \in 1..size[f] |-> arena[off[f] + i - 1]]
    BY <1>2 DEF Readable, Content
  <2>3. b \in [1..size[f] -> Byte]
    BY <2>1, <2>2
  <2> QED  BY <2>3, ByteSeq
<1>3. CASE at[f] = "redir"
  <2>1. b \in [1..size[f] -> Byte]
    BY <1>3 DEF Readable, Content
  <2> QED  BY <2>1, ByteSeq
<1>4. CASE at[f] = "image"
  BY <1>4, BytesAssumption DEF BytesAssumption, Readable, Content
<1>5. CASE at[f] = "edit"
  <2>1. b \in [1..size[f] -> Byte]
    BY <1>5 DEF Readable
  <2> QED  BY <2>1, ByteSeq
<1> QED  BY <1>1, <1>2, <1>3, <1>4, <1>5

-----------------------------------------------------------------------------
\* Each operation of fs.h keeps FsInv.

LEMMA AddInv ==
  ASSUME FsInv, NEW d \in Node, NEW nm \in Names, NEW k \in {"dir", "file", "char"},
         ni < NumNodes, AddChild(d, nm, k), UNCHANGED <<off, arena, aoff>>
  PROVE  FsInv'
<1> USE DEF FsInv, AddChild
<1> DEFINE n == ni + 1
<1>0. n \in Node /\ type[n] = "free" /\ at[n] = "none" /\ Stored[nm] \in Names
  BY NamesAssumption DEF NamesAssumption, TreeType, DataType, DataOK
<1>1. TreeType'
  <2>1. <<n>> \in Seq(Node) /\ kids[d] \in Seq(Node)
    BY <1>0 DEF TreeType
  <2>2. <<n>> \o kids[d] \in Seq(Node)
    BY <2>1, ConcatProperties
  <2> QED  BY <1>0, <2>2 DEF TreeType
<1>2. DataType'
  BY <1>0 DEF DataType
<1>3. DataOK'
  <2>1. \A m \in Node : m > ni' <=> type'[m] = "free"
    BY <1>0 DEF DataOK, TreeType
  <2>2. \A m \in Node : m # n => /\ at'[m] = at[m] /\ size'[m] = size[m]
                                  /\ type'[m] = type[m]
    BY <1>0 DEF DataType, TreeType
  <2>3. at'[n] = "none" /\ size'[n] = 0
    BY <1>0 DEF DataType
  <2> QED  BY <2>1, <2>2, <2>3 DEF DataOK
<1>4. Disjoint'
  BY <1>0 DEF Disjoint, Apart, DataType
<1> QED  BY <1>1, <1>2, <1>3, <1>4

\* A chain with one entry taken out.
LEMMA RemoveAtIs ==
  ASSUME NEW S, NEW s \in Seq(S), NEW i \in 1..Len(s)
  PROVE  /\ RemoveAt(s, i) \in Seq(S) /\ Len(RemoveAt(s, i)) = Len(s) - 1
         /\ \A j \in 1..(Len(s) - 1) : RemoveAt(s, i)[j] = IF j < i THEN s[j] ELSE s[j + 1]
<1>0. Len(s) \in Nat /\ \A j \in 1..Len(s) : s[j] \in S BY ElementOfSeq, LenProperties
<1> DEFINE a == SubSeq(s, 1, i - 1)
           b == SubSeq(s, i + 1, Len(s))
<1>1. a \in Seq(S) /\ Len(a) = i - 1 /\ \A j \in 1..(i - 1) : a[j] = s[j]
  BY <1>0, SubSeqProperties
<1>2. b \in Seq(S) /\ Len(b) = Len(s) - i /\ \A j \in 1..(Len(s) - i) : b[j] = s[i + j]
  <2>1. CASE i = Len(s) BY <1>0, <2>1, SubSeqProperties
  <2>2. CASE i < Len(s)
    <3>1. /\ b \in Seq(S) /\ Len(b) = Len(s) - i
          /\ \A j \in 1..(Len(s) - i) : b[j] = s[(i + 1) + j - 1]
      BY <1>0, <2>2, SubSeqProperties
    <3>2. \A j \in 1..(Len(s) - i) : (i + 1) + j - 1 = i + j BY <1>0
    <3> QED BY <3>1, <3>2
  <2> QED BY <1>0, <2>1, <2>2
<1> HIDE DEF a, b
<1>3. a \o b \in Seq(S) /\ Len(a \o b) = Len(s) - 1
  <2>1. a \o b \in Seq(S) /\ Len(a \o b) = Len(a) + Len(b) BY <1>1, <1>2, ConcatProperties
  <2>2. Len(a) + Len(b) = Len(s) - 1 BY <1>0, <1>1, <1>2
  <2> QED BY <2>1, <2>2
<1>4. ASSUME NEW j \in 1..(Len(s) - 1) PROVE (a \o b)[j] = IF j < i THEN s[j] ELSE s[j + 1]
  <2>1. CASE j < i BY <1>0, <1>1, <1>2, <2>1, ConcatProperties
  <2>2. CASE ~(j < i)
    <3>1. j - (i - 1) \in 1..(Len(s) - i) /\ i + (j - (i - 1)) = j + 1 BY <1>0, <2>2
    <3>2. (a \o b)[j] = b[j - (i - 1)] BY <1>0, <1>1, <1>2, <2>2, ConcatProperties
    <3> QED BY <1>2, <2>2, <3>1, <3>2
  <2> QED BY <2>1, <2>2
<1> QED BY <1>3, <1>4 DEF RemoveAt, a, b

LEMMA UnlinkInv ==
  ASSUME FsInv, NEW d \in Node, NEW c \in Node, FsUnlink(d, c)
  PROVE  FsInv'
<1> USE DEF FsInv, FsUnlink
<1>1. TreeType'
  <2> PICK i \in DOMAIN kids[d] : kids' = [kids EXCEPT ![d] = RemoveAt(kids[d], i)]
    OBVIOUS
  <2>1. kids[d] \in Seq(Node) /\ i \in 1..Len(kids[d])
    BY DEF TreeType
  <2>2. RemoveAt(kids[d], i) \in Seq(Node)
    <3> HIDE SizesAssumption DEF Node, FsInv, FsUnlink
    <3> QED  BY <2>1, RemoveAtIs
  <2> QED  BY <2>2 DEF TreeType
<1>2. DataType' /\ DataOK' /\ Disjoint'
  BY DEF dataVars, DataType, DataOK, Disjoint, Apart
<1> QED  BY <1>1, <1>2

LEMMA PlaceInv ==
  ASSUME FsInv, NEW f \in Node, type[f] = "file", NEW b \in Seq(Byte),
         Fits(Len(b)), Place(f, b), UNCHANGED treeVars
  PROVE  FsInv'
<1> USE DEF FsInv, Place, Fits, treeVars
<1>0. Len(b) \in Nat /\ \A i \in 1..Len(b) : b[i] \in Byte
  BY LenProperties, ElementOfSeq
<1>1. TreeType'
  BY DEF TreeType
<1>2. DataType'
  <2>1. \A c \in Cells : arena'[c] \in Byte
    <3> TAKE c \in Cells
    <3>1. CASE c \in aoff..(aoff + Len(b) - 1)
      <4>1. c - aoff + 1 \in 1..Len(b)
        BY <3>1, <1>0 DEF DataType
      <4> QED  BY <3>1, <4>1, <1>0
    <3>2. CASE c \notin aoff..(aoff + Len(b) - 1)
      BY <3>2 DEF DataType
    <3> QED  BY <3>1, <3>2
  <2>2. arena' \in [Cells -> Byte]
    BY <2>1
  <2> QED  BY <1>0, <2>2 DEF DataType
<1>3. DataOK'
  <2>1. /\ at'[f] = "arena" /\ off'[f] = aoff /\ size'[f] = Len(b)
        /\ aoff' = aoff + Len(b)
    BY DEF DataType
  <2>2. \A m \in Node : m # f => /\ at'[m] = at[m] /\ size'[m] = size[m]
                                  /\ off'[m] = off[m]
    BY DEF DataType
  <2>3. aoff \in Nat /\ aoff' >= aoff /\ \A m \in Node : off[m] \in Nat /\ size[m] \in Nat
    BY <2>1, <1>0 DEF DataType
  <2>4. ASSUME NEW m \in Node, at'[m] = "arena" PROVE off'[m] + size'[m] <= aoff'
    <3>1. CASE m = f
      BY <1>0, <2>1, <2>3, <3>1
    <3>2. CASE m # f
      <4>1. off[m] + size[m] <= aoff
        BY <2>2, <2>4, <3>2 DEF DataOK
      <4> HIDE DEF FsInv, Place, Fits, treeVars
      <4> QED  BY <2>1, <2>2, <2>3, <1>0, <3>2, <4>1
    <3> QED  BY <3>1, <3>2
  <2>5. \A m \in Node : m > ni' => type'[m] = "free"
    BY DEF DataOK
  <2> QED  BY <2>1, <2>2, <2>4, <2>5 DEF DataOK
<1>4. Disjoint'
  <2> SUFFICES ASSUME NEW n \in Node, NEW m \in Node, n # m,
                      at'[n] = "arena", at'[m] = "arena"
               PROVE  Apart(n, m)'
    BY DEF Disjoint
  <2> USE DEF DataType, DataOK
  <2>1. CASE n # f /\ m # f
    BY <2>1 DEF Disjoint, Apart
  <2>2. CASE n = f
    BY <2>2 DEF Apart
  <2>3. CASE m = f
    BY <2>3 DEF Apart
  <2> QED  BY <2>1, <2>2, <2>3
<1> QED  BY <1>1, <1>2, <1>3, <1>4

LEMMA WriteInv ==
  ASSUME FsInv, ShellType, NEW f \in Node, NEW b \in Seq(Byte), NEW src, NEW append \in BOOLEAN,
         ~append => src \in {"edit", "redir", "image"},
         src = "redir" => Len(b) <= BufSize,
         src = "image" => b = Image,
         FsWrite(f, b, src, append)
  PROVE  FsInv'
<1>0. Len(b) \in Nat
  BY LenProperties
<1>1. CASE /\ type[f] = "file" /\ ~append /\ Fits(Len(b))
           /\ Place(f, b)
  BY <1>1, PlaceInv DEF FsWrite
<1>2. CASE /\ type[f] = "file" /\ append /\ Fits(size[f] + Len(b))
           /\ \E old \in Readable(f) : Place(f, old \o b)
  <2> PICK old \in Readable(f) : Place(f, old \o b)
    BY <1>2
  <2>1. old \in Seq(Byte) /\ Len(old) = size[f]
    BY ReadableType
  <2>2. old \o b \in Seq(Byte) /\ Len(old \o b) = size[f] + Len(b)
    BY <2>1, ConcatProperties
  <2> QED  BY <1>2, <2>2, PlaceInv DEF FsWrite
<1>3. CASE /\ type[f] = "file" /\ ~append /\ ~Disk
           /\ at' = [at EXCEPT ![f] = src]
           /\ size' = [size EXCEPT ![f] = Len(b)]
           /\ UNCHANGED <<off, arena, aoff>>
  <2> USE <1>0, <1>3 DEF FsInv
  <2>1. UNCHANGED treeVars
    BY DEF FsWrite
  <2>2. TreeType' /\ DataType'
    BY <2>1 DEF treeVars, TreeType, DataType
  <2>3. DataOK'
    BY <2>1 DEF treeVars, DataType, DataOK
  <2>4. Disjoint'
    BY DEF Disjoint, Apart, DataType
  <2> QED  BY <2>2, <2>3, <2>4
<1>4. CASE UNCHANGED dataVars
  BY <1>4 DEF FsWrite, FsInv, treeVars, dataVars, TreeType, DataType, DataOK, Disjoint, Apart
<1> QED  BY <1>1, <1>2, <1>3, <1>4 DEF FsWrite

LEMMA CloneInv ==
  ASSUME FsInv, ShellType, NEW d \in Node, NEW s \in Node, NEW nm \in Names,
         type[s] = "file", ni < NumNodes, FsClone(d, s, nm)
  PROVE  FsInv'
<1> DEFINE n == ni + 1
<1>0. /\ n \in Node /\ type[n] = "free" /\ at[n] = "none" /\ Stored[nm] \in Names
      /\ size[s] \in Nat /\ aoff \in Nat /\ size[n] = 0
  <2>1. n \in Node /\ n > ni
    BY DEF FsInv, TreeType
  <2>2. Stored[nm] \in Names
    BY NamesAssumption DEF NamesAssumption
  <2>3. size[s] \in Nat /\ aoff \in Nat /\ at[n] \in {"none", "arena", "redir", "image", "edit"}
    BY <2>1 DEF FsInv, DataType
  <2>4. type[n] = "free" /\ at[n] = "none" /\ size[n] = 0
    BY <2>1, <2>3 DEF FsInv, DataOK
  <2> QED  BY <2>1, <2>2, <2>3, <2>4
<1>1. CASE size[s] > 0 /\ ~Fits(size[s])
  <2> USE <1>0 DEF FsInv
  <2>1. /\ ni' = n /\ type' = [type EXCEPT ![n] = "file"]
        /\ name' = [name EXCEPT ![n] = Stored[nm]]
        /\ UNCHANGED <<parent, kids, dataVars>>
    BY <1>1 DEF FsClone
  <2>2. TreeType'
    BY <2>1 DEF TreeType
  <2>3. \A m \in Node : m > ni' <=> type'[m] = "free"
    BY <2>1 DEF DataOK, TreeType
  <2>4. \A m \in Node : type[m] = "file" => type'[m] = "file"
    BY <2>1 DEF TreeType
  <2>5. DataOK'
    BY <2>1, <2>3, <2>4 DEF DataOK, dataVars
  <2>6. DataType' /\ Disjoint'
    BY <2>1 DEF dataVars, DataType, Disjoint, Apart
  <2> QED  BY <2>2, <2>5, <2>6
<1>2. CASE ~(size[s] > 0 /\ ~Fits(size[s]))
  <2> PICK b \in Readable(s) :
         arena' = [c \in Cells |-> IF c \in aoff..(aoff + size[s] - 1)
                                   THEN b[c - aoff + 1] ELSE arena[c]]
    BY <1>2 DEF FsClone
  <2>1. AddChild(d, nm, "file") /\ aoff' = aoff + size[s] /\ UNCHANGED off
    BY <1>2 DEF FsClone
  <2>2. b \in Seq(Byte) /\ Len(b) = size[s]
    BY ReadableType
  <2>3. \A i \in 1..size[s] : b[i] \in Byte
    <3> HIDE SizesAssumption DEF Node
    <3> QED  BY <2>2, ElementOfSeq
  <2>4. aoff' \in 0..ArenaSize
    <3>1. aoff \in 0..ArenaSize /\ (size[s] > 0 => aoff + size[s] <= ArenaSize)
      BY <1>2 DEF Fits, FsInv, DataType
    <3> QED  BY <1>0, <2>1, <3>1
  <2>5. arena' \in [Cells -> Byte]
    <3>1. \A c \in Cells : arena'[c] \in Byte
      <4> TAKE c \in Cells
      <4>1. CASE c \in aoff..(aoff + size[s] - 1)
        <5>1. c - aoff + 1 \in 1..size[s]
          BY <4>1, <1>0
        <5> QED  BY <4>1, <5>1, <2>3
      <4>2. CASE c \notin aoff..(aoff + size[s] - 1)
        BY <4>2 DEF FsInv, DataType
      <4> QED  BY <4>1, <4>2
    <3> QED  BY <3>1
  <2>6. TreeType'
    <3>1. <<n>> \in Seq(Node) /\ kids[d] \in Seq(Node)
      BY <1>0 DEF FsInv, TreeType
    <3>2. <<n>> \o kids[d] \in Seq(Node)
      <4> HIDE SizesAssumption DEF Node, n
      <4> QED  BY <3>1, ConcatProperties
    <3> QED  BY <1>0, <2>1, <3>2 DEF FsInv, TreeType, AddChild
  <2>7. DataType'
    BY <1>0, <2>1, <2>4, <2>5 DEF FsInv, DataType, AddChild
  <2>8. DataOK'
    <3>1. \A m \in Node : m > ni' <=> type'[m] = "free"
      BY <1>0, <2>1 DEF FsInv, DataOK, TreeType, AddChild
    <3>2. \A m \in Node : m # n => /\ at'[m] = at[m] /\ size'[m] = size[m]
                                    /\ type'[m] = type[m] /\ off'[m] = off[m]
      BY <1>0, <2>1 DEF FsInv, DataType, TreeType, AddChild
    <3>3. at'[n] = "none" /\ size'[n] = 0 /\ aoff <= aoff'
      BY <1>0, <2>1 DEF FsInv, DataType, AddChild
    <3>4. \A m \in Node : off[m] \in Nat /\ size[m] \in Nat
      BY DEF FsInv, DataType
    <3>5. aoff' \in Nat
      BY <2>4
    <3>6. ASSUME NEW m \in Node, m # n, at[m] = "arena"
          PROVE  off'[m] + size'[m] <= aoff'
      <4>1. off[m] + size[m] <= aoff
        BY <3>6 DEF FsInv, DataOK
      <4>2. /\ off'[m] = off[m] /\ size'[m] = size[m] /\ off[m] \in Nat /\ size[m] \in Nat
            /\ aoff \in Nat /\ aoff' \in Nat /\ aoff <= aoff'
        BY <1>0, <3>2, <3>3, <3>4, <3>5, <3>6
      <4> QED  BY <4>1, <4>2
    <3>7. \A m \in Node : at'[m] = "arena" => off'[m] + size'[m] <= aoff'
      BY <3>2, <3>3, <3>6
    <3>8. ASSUME NEW m \in Node
          PROVE  /\ at'[m] = "none"  => size'[m] = 0
                 /\ at'[m] = "redir" => size'[m] <= BufSize
                 /\ at'[m] = "image" => size'[m] = Len(Image)
                 /\ at'[m] # "none"  => type'[m] = "file"
                 /\ Disk => at'[m] \in {"none", "arena"}
      BY <3>2, <3>3 DEF FsInv, DataOK
    <3> QED  BY <3>1, <3>7, <3>8 DEF DataOK
  <2>9. Disjoint'
    BY <1>0, <2>1 DEF FsInv, AddChild, Disjoint, Apart, DataType
  <2> QED  BY <2>6, <2>7, <2>8, <2>9 DEF FsInv
<1> QED  BY <1>1, <1>2

LEMMA SameInv == FsInv /\ UNCHANGED fsVars => FsInv'
BY DEF FsInv, fsVars, TreeType, DataType, DataOK, Disjoint, Apart

LEMMA CreateInv ==
  ASSUME FsInv, NEW d \in Node, NEW nm \in Names, NEW k \in {"file", "char"},
         NEW n \in Pointer, CreateNode(d, nm, k, n)
  PROVE  FsInv'
BY AddInv, SameInv DEF CreateNode, CanAdd

-----------------------------------------------------------------------------
\* Each step of the kernel keeps IInv.

LEMMA UserNamesOK == UserNames \subseteq Names /\ BootNames \subseteq Names
BY NamesAssumption DEF NamesAssumption

LEMMA PayloadOK ==
  /\ \A p \in Payloads : p \in Seq(Byte) /\ Len(p) <= BufSize
  /\ Message \in Payloads /\ Image \in Seq(Byte)
BY BytesAssumption DEF BytesAssumption

\* The nodes find_in can return are nodes.
LEMMA FirstMatchType ==
  ASSUME TreeType, NEW d \in Node, NEW nm, NEW n \in FirstMatch(d, nm)
  PROVE  n \in Node
<1>1. kids[d] \in Seq(Node)
  BY DEF TreeType
<1> QED  BY <1>1, ElementOfSeq, LenProperties DEF FirstMatch

LEMMA SayOK ==
  ASSUME ShellType, RedirOK, NEW p \in Payloads, Say(p)
  PROVE  /\ redirBuf' \in [1..BufSize -> Byte] /\ redirLen' \in 0..BufSize
         /\ out' = out
<1>1. Len(p) \in 0..BufSize
  BY PayloadOK, LenProperties
<1>2. \A i \in 1..Len(p) : p[i] \in Byte
  BY PayloadOK, ElementOfSeq
<1> QED  BY <1>1, <1>2 DEF Say, Quiet, redirVars, ShellType

\* A builtin that prints or stays silent and ends: only its effect on the file
\* system and on cwd is left to look at.
LEMMA BuiltinShell ==
  ASSUME ShellType, RedirOK, pc \in {"prompt", "redir"}, Finish,
         Quiet \/ \E p \in Payloads : Say(p),
         cwd' \in Node, edit' = Nil
  PROVE  ShellType' /\ RedirOK'
<1>1. /\ redirBuf' \in [1..BufSize -> Byte] /\ redirLen' \in 0..BufSize /\ out' = out
  BY SayOK DEF Quiet, redirVars, ShellType
<1>2. pc' \in {"prompt", "ran"} /\ (pc' = "ran" => pc = "redir")
  BY DEF Finish
<1> QED  BY <1>1, <1>2 DEF ShellType, RedirOK

LEMMA InitInv == Init => IInv
<1> SUFFICES ASSUME Init PROVE IInv
  OBVIOUS
<1>1. AnyByte \in Byte
  BY BytesAssumption DEF BytesAssumption, AnyByte
<1>2. TreeType
  BY UserNamesOK, EmptySeq DEF Init, TreeType, BootNames
<1>3. DataType
  BY <1>1 DEF Init, DataType
<1>4. ShellType /\ RedirOK
  BY <1>1 DEF Init, ShellType, RedirOK, Stages
<1>5. DataOK /\ Disjoint
  BY DEF Init, DataOK, Disjoint
<1> QED  BY <1>2, <1>3, <1>4, <1>5 DEF IInv, FsInv

LEMMA BootInv == IInv /\ Boot => IInv'
<1> SUFFICES ASSUME IInv, Boot PROVE IInv'
  OBVIOUS
<1> USE UserNamesOK, PayloadOK DEF IInv
<1>0. ASSUME NEW stage \in Stages, NEW next \in Stages \cup {"prompt"}, AtBoot(stage, next)
      PROVE  ShellType' /\ RedirOK'
  BY <1>0 DEF AtBoot, redirVars, ShellType, RedirOK, Stages
<1>1. CASE BootHome
  BY <1>0, <1>1, AddInv DEF BootHome, FsMkdir, CanAdd, BootNames, Stages
<1>2. CASE BootDev
  BY <1>0, <1>2, AddInv DEF BootDev, FsMkdir, CanAdd, BootNames, Stages
<1>3. CASE BootTty
  <2>1. ShellType' /\ RedirOK'
    BY <1>0, <1>3 DEF BootTty, Stages
  <2>2. FsInv'
    BY <1>3, FirstMatchType, CreateInv, SameInv DEF BootTty, BootNames, FsInv
  <2> QED  BY <2>1, <2>2
<1>4. CASE BootBin
  BY <1>0, <1>4, AddInv DEF BootBin, FsMkdir, CanAdd, BootNames, Stages
<1>5. CASE BootCreate
  <2>1. ShellType' /\ RedirOK'
    BY <1>0, <1>5 DEF BootCreate, Stages
  <2>2. FsInv'
    BY <1>5, FirstMatchType, CreateInv DEF BootCreate, BootNames, FsInv
  <2> QED  BY <2>1, <2>2
<1>6. CASE BootWrite
  <2>1. ShellType' /\ RedirOK'
    BY <1>0, <1>6 DEF BootWrite, Stages
  <2>2. FsInv'
    <3> PICK d \in FirstMatch(Root, "bin") :
          \E f \in FirstMatch(d, "hello") : FsWrite(f, Image, "image", FALSE)
      BY <1>6 DEF BootWrite
    <3>1. d \in Node
      BY FirstMatchType DEF FsInv
    <3> PICK f \in FirstMatch(d, "hello") : FsWrite(f, Image, "image", FALSE)
      OBVIOUS
    <3>2. f \in Node
      BY <3>1, FirstMatchType DEF FsInv
    <3> QED  BY <3>2, WriteInv
  <2> QED  BY <2>1, <2>2
<1> QED  BY <1>1, <1>2, <1>3, <1>4, <1>5, <1>6 DEF Boot

LEMMA BuiltinInv == IInv /\ Builtin => IInv'
<1> SUFFICES ASSUME IInv, Builtin PROVE IInv'
  OBVIOUS
<1> USE UserNamesOK, PayloadOK DEF IInv
<1>1. ASSUME NEW nm \in UserNames, Mkdir(nm) PROVE IInv'
  <2>1. FsInv'
    BY <1>1, AddInv, SameInv DEF Mkdir, FsMkdir, CanAdd, ShellType
  <2>2. ShellType' /\ RedirOK'
    BY <1>1, BuiltinShell DEF Mkdir, Ready, ShellType
  <2> QED  BY <2>1, <2>2
<1>2. ASSUME NEW nm \in UserNames, Touch(nm) PROVE IInv'
  <2>1. FsInv'
    BY <1>2, CreateInv DEF Touch, ShellType
  <2>2. ShellType' /\ RedirOK'
    BY <1>2, BuiltinShell DEF Touch, Ready, ShellType
  <2> QED  BY <2>1, <2>2
<1>3. ASSUME NEW nm \in UserNames, Rm(nm) PROVE IInv'
  <2>1. FsInv'
    BY <1>3, UnlinkInv, SameInv, FirstMatchType DEF Rm, ShellType, FsInv
  <2>2. ShellType' /\ RedirOK'
    BY <1>3, BuiltinShell DEF Rm, Ready, ShellType
  <2> QED  BY <2>1, <2>2
<1>4. ASSUME NEW nm \in UserNames, EditOpen(nm) PROVE IInv'
  <2> PICK n \in Node \cup {Nil} :
        /\ CreateNode(cwd, nm, "file", n)
        /\ edit' = n
        /\ IF n = Nil THEN Finish /\ Say(Message) ELSE UNCHANGED <<pc, redirVars>>
    BY <1>4 DEF EditOpen
  <2>1. FsInv'
    BY CreateInv DEF ShellType
  <2>2. CASE n = Nil
    BY <1>4, <2>1, <2>2, BuiltinShell DEF EditOpen, Ready, ShellType
  <2>3. CASE n # Nil
    BY <1>4, <2>1, <2>3 DEF EditOpen, Ready, redirVars, ShellType, RedirOK
  <2> QED  BY <2>2, <2>3
<1>5. ASSUME NEW old \in UserNames, NEW new \in UserNames, Mv(old, new) PROVE IInv'
  <2>1. UNCHANGED <<ni, type, parent, kids, dataVars>>
    BY <1>5 DEF Mv
  <2>2. name' \in [Node -> Names]
    BY <1>5, NamesAssumption DEF NamesAssumption, Mv, FsInv, TreeType
  <2>3. FsInv'
    <3>1. TreeType'
      BY <2>1, <2>2 DEF FsInv, TreeType
    <3>2. DataType' /\ DataOK' /\ Disjoint'
      BY <2>1 DEF FsInv, dataVars, DataType, DataOK, Disjoint, Apart
    <3> QED  BY <3>1, <3>2 DEF FsInv
  <2>4. ShellType' /\ RedirOK'
    BY <1>5, BuiltinShell DEF Mv, Ready, ShellType
  <2> QED  BY <2>3, <2>4
<1>6. ASSUME NEW src \in UserNames, NEW dst \in UserNames, Cp(src, dst) PROVE IInv'
  <2>1. FsInv'
    BY <1>6, CloneInv, SameInv, FirstMatchType DEF Cp, CanAdd, ShellType, FsInv
  <2>2. ShellType' /\ RedirOK'
    BY <1>6, BuiltinShell DEF Cp, Ready, ShellType
  <2> QED  BY <2>1, <2>2
<1>7. ASSUME NEW path \in Paths, Cd(path) PROVE IInv'
  <2>1. cwd' \in Node /\ edit' = Nil
    BY <1>7 DEF Cd, Ready, ShellType
  <2>2. ShellType' /\ RedirOK'
    BY <1>7, <2>1, BuiltinShell DEF Cd, Ready
  <2> QED  BY <1>7, <2>2, SameInv DEF Cd
<1>8. ASSUME NEW p \in Payloads, Show(p) PROVE IInv'
  <2>1. ShellType' /\ RedirOK'
    BY <1>8, BuiltinShell DEF Show, Ready, ShellType
  <2> QED  BY <1>8, <2>1, SameInv DEF Show
<1>9. ASSUME NEW p \in Payloads, EditSave(p) PROVE IInv'
  <2>1. edit \in Node /\ pc \in {"prompt", "redir"}
    BY <1>9 DEF EditSave, ShellType, RedirOK
  <2>2. FsInv'
    BY <1>9, <2>1, WriteInv DEF EditSave
  <2>3. ShellType' /\ RedirOK'
    BY <1>9, <2>1, BuiltinShell DEF EditSave, ShellType
  <2> QED  BY <2>2, <2>3
<1>10. ASSUME EditAbort PROVE IInv'
  <2>1. ShellType' /\ RedirOK'
    BY <1>10, BuiltinShell DEF EditAbort, ShellType, RedirOK
  <2> QED  BY <1>10, <2>1, SameInv DEF EditAbort
<1> QED  BY <1>1, <1>2, <1>3, <1>4, <1>5, <1>6, <1>7, <1>8, <1>9, <1>10 DEF Builtin

LEMMA RedirInv ==
  IInv /\ ((\E nm \in UserNames, append \in BOOLEAN : RedirOpen(nm, append)) \/ RedirWrite)
    => IInv'
<1> USE UserNamesOK DEF IInv
<1>1. ASSUME IInv, NEW nm \in UserNames, NEW append \in BOOLEAN, RedirOpen(nm, append)
      PROVE  IInv'
  <2> PICK n \in Node \cup {Nil} :
        /\ CreateNode(cwd, nm, "file", n)
        /\ IF n = Nil
           THEN UNCHANGED <<pc, redirVars>>
           ELSE /\ pc' = "redir" /\ redirLen' = 0
                /\ out' = [node |-> n, append |-> append]
                /\ UNCHANGED redirBuf
    BY <1>1 DEF RedirOpen
  <2>1. FsInv'
    BY <1>1, CreateInv DEF ShellType
  <2>2. ShellType' /\ RedirOK'
    BY <1>1 DEF RedirOpen, redirVars, ShellType, RedirOK
  <2> QED  BY <2>1, <2>2
<1>2. ASSUME IInv, RedirWrite PROVE IInv'
  <2> DEFINE b == [i \in 1..redirLen |-> redirBuf[i]]
  <2>1. out.node \in Node /\ out.append \in BOOLEAN /\ redirLen \in 0..BufSize
    BY <1>2 DEF RedirWrite, RedirOK, ShellType
  <2>2. b \in [1..redirLen -> Byte]
    BY <1>2, <2>1 DEF ShellType
  <2>3. b \in Seq(Byte) /\ Len(b) = redirLen
    BY <2>1, <2>2, ByteSeq
  <2>4. FsWrite(out.node, b, "redir", out.append)
    BY <1>2 DEF RedirWrite
  <2> HIDE DEF b
  <2>5. FsInv'
    BY <1>2, <2>1, <2>3, <2>4, WriteInv
  <2>6. ShellType' /\ RedirOK'
    BY <1>2 DEF RedirWrite, ShellType, RedirOK
  <2> QED  BY <2>5, <2>6
<1> QED  BY <1>1, <1>2

LEMMA SysInv ==
  IInv /\ ((\E nm \in UserNames : SysOpen(nm)) \/ \E n \in Node, p \in Payloads : SysWrite(n, p))
    => IInv'
<1> USE UserNamesOK, PayloadOK DEF IInv
<1>1. ASSUME IInv, NEW nm \in UserNames, SysOpen(nm) PROVE IInv'
  BY <1>1, AddInv DEF SysOpen, CanAdd, ShellType, RedirOK, redirVars
<1>2. ASSUME IInv, NEW n \in Node, NEW p \in Payloads, SysWrite(n, p) PROVE IInv'
  <2>1. FsInv'
    BY <1>2, WriteInv DEF SysWrite
  <2>2. ShellType' /\ RedirOK'
    BY <1>2 DEF SysWrite, ShellType, RedirOK, redirVars
  <2> QED  BY <2>1, <2>2
<1> QED  BY <1>1, <1>2

LEMMA NextInv == IInv /\ [Next]_vars => IInv'
<1>1. IInv /\ UNCHANGED vars => IInv'
  BY SameInv DEF vars, fsVars, treeVars, dataVars, redirVars, IInv, ShellType, RedirOK
<1> QED  BY <1>1, BootInv, BuiltinInv, RedirInv, SysInv DEF Next

THEOREM Invariance == Spec => []IInv
BY InitInv, NextInv, PTL DEF Spec

-----------------------------------------------------------------------------
\* Every variable keeps its type whatever boot, the shell, redirections and
\* system calls do (the bounds the code tests before it takes a node or bytes).
THEOREM TypeCorrect == Spec => []TypeOK
<1>1. IInv => TypeOK
  BY DEF IInv, FsInv, TypeOK
<1> QED  BY <1>1, Invariance, PTL

\* No byte of the arena belongs to two files, and none that belongs to a file
\* will be handed out again (fs_write, fs_clone_file).
THEOREM ExtentsApart == Spec => []ExtentsDisjoint
<1>1. IInv => ExtentsDisjoint
  <2> SUFFICES ASSUME IInv, NEW n \in Node
               PROVE  /\ \A c \in Extent(n) : c < aoff
                      /\ \A m \in Node \ {n} : Extent(n) \cap Extent(m) = {}
    BY DEF ExtentsDisjoint
  <2> USE DEF IInv, FsInv, DataType
  <2>1. \A c \in Extent(n) : c < aoff
    <3>1. off[n] \in Nat /\ size[n] \in Nat /\ aoff \in Nat
      OBVIOUS
    <3>2. CASE at[n] = "arena"
      <4>1. off[n] + size[n] <= aoff
        BY <3>2 DEF DataOK
      <4> QED  BY <3>1, <3>2, <4>1 DEF Extent
    <3>3. CASE at[n] # "arena"
      BY <3>3 DEF Extent
    <3> QED  BY <3>2, <3>3
  <2>2. ASSUME NEW m \in Node \ {n} PROVE Extent(n) \cap Extent(m) = {}
    <3> SUFFICES ASSUME NEW c, c \in Extent(n), c \in Extent(m) PROVE FALSE
      OBVIOUS
    <3>1. at[n] = "arena" /\ at[m] = "arena"
      BY DEF Extent
    <3>2. Apart(n, m)
      BY <3>1 DEF Disjoint
    <3>3. c \in off[n]..(off[n] + size[n] - 1) /\ c \in off[m]..(off[m] + size[m] - 1)
      BY <3>1 DEF Extent
    <3>4. off[n] \in Nat /\ size[n] \in Nat /\ off[m] \in Nat /\ size[m] \in Nat
      BY <2>2
    <3>5. /\ c \in Int /\ off[n] <= c /\ c < off[n] + size[n]
          /\ off[m] <= c /\ c < off[m] + size[m]
      <4> HIDE DEF IInv, FsInv, DataType
      <4> QED  BY <3>3, <3>4
    <3> HIDE DEF IInv, FsInv, DataType
    <3>6. /\ off[n] + size[n] > off[m] /\ off[m] + size[m] > off[n]
          /\ size[n] # 0 /\ size[m] # 0
      BY <3>4, <3>5
    <3> QED  BY <3>2, <3>4, <3>6 DEF Apart
  <2> QED  BY <2>1, <2>2
<1> QED  BY <1>1, Invariance, PTL

-----------------------------------------------------------------------------
\* With the disk backend Fs implements FileStore.  Each operation of fs.h is a
\* step of FileStore or a stutter; the heart of it is that fresh arena space is
\* behind every extent, so filling it changes the bytes of no other file.

StoreStep == [Store!StoreNext]_(Store!storeVars)

LEMMA ContentKept ==
  ASSUME FsInv, FsInv', Disk, NEW n \in Node,
         at'[n] = at[n], off'[n] = off[n], size'[n] = size[n],
         \A c \in Cells : c < aoff => arena'[c] = arena[c]
  PROVE  Content(n)' = Content(n)
<1>1. CASE at[n] = "arena"
  <2>1. /\ off[n] \in Nat /\ size[n] \in Nat /\ off[n] + size[n] <= aoff
        /\ aoff \in 0..ArenaSize
    BY <1>1 DEF FsInv, DataType, DataOK
  <2>2. \A i \in 1..size[n] : arena'[off[n] + i - 1] = arena[off[n] + i - 1]
    <3> TAKE i \in 1..size[n]
    <3>1. off[n] + i - 1 \in Cells /\ off[n] + i - 1 < aoff
      BY <2>1
    <3> QED  BY <3>1
  <2> QED  BY <1>1, <2>2 DEF Content
<1>2. CASE at[n] = "none"
  BY <1>2 DEF Content
<1> QED  BY <1>1, <1>2 DEF FsInv, DataOK

LEMMA SameStep ==
  ASSUME FsInv, FsInv', Disk, UNCHANGED <<type, dataVars>>
  PROVE  StoreStep
<1>1. \A n \in Node : Content(n)' = Content(n)
  BY ContentKept DEF dataVars
<1> QED  BY <1>1 DEF StoreStep, Store!storeVars

LEMMA AllocateStep ==
  ASSUME FsInv, FsInv', Disk, NEW k \in {"dir", "file", "char"},
         ni < NumNodes, type' = [type EXCEPT ![ni + 1] = k],
         \A n \in Node : at'[n] = at[n] /\ off'[n] = off[n] /\ size'[n] = size[n],
         \A c \in Cells : c < aoff => arena'[c] = arena[c]
  PROVE  StoreStep
<1>1. \A n \in Node : Content(n)' = Content(n)
  BY ContentKept
<1>2. ni + 1 \in Node /\ type[ni + 1] = "free"
  BY DEF FsInv, TreeType, DataOK
<1>3. Store!Allocate(ni + 1, k)
  BY <1>1, <1>2 DEF Store!Allocate
<1> QED  BY <1>2, <1>3 DEF StoreStep, Store!StoreNext

LEMMA AddStep ==
  ASSUME FsInv, FsInv', Disk, NEW d, NEW nm, NEW k \in {"dir", "file", "char"},
         ni < NumNodes, AddChild(d, nm, k), UNCHANGED off,
         \A c \in Cells : c < aoff => arena'[c] = arena[c]
  PROVE  StoreStep
<1>0. ni + 1 \in Node /\ type[ni + 1] = "free"
  BY DEF FsInv, TreeType, DataOK
<1>1. at[ni + 1] = "none" /\ size[ni + 1] = 0
  BY <1>0 DEF FsInv, DataOK
<1>2. \A n \in Node : at'[n] = at[n] /\ off'[n] = off[n] /\ size'[n] = size[n]
  BY <1>0, <1>1 DEF AddChild, FsInv, DataType
<1> QED  BY <1>2, AllocateStep DEF AddChild

\* A successful write makes exactly the bytes asked for the content of f.
LEMMA PlaceContent ==
  ASSUME FsInv, FsInv', Disk, NEW f \in Node, NEW b \in Seq(Byte),
         Fits(Len(b)), Place(f, b)
  PROVE  [n \in Node |-> Content(n)]' = [[n \in Node |-> Content(n)] EXCEPT ![f] = b]
<1>0. Len(b) \in Nat /\ b \in [1..Len(b) -> Byte]
  BY LenProperties
<1>1. aoff \in Nat /\ aoff + Len(b) <= ArenaSize
  BY DEF Fits, FsInv, DataType
<1>2. \A c \in Cells : c < aoff => arena'[c] = arena[c]
  BY <1>1 DEF Place
<1>3. \A n \in Node : n # f => Content(n)' = Content(n)
  <2> SUFFICES ASSUME NEW n \in Node, n # f PROVE Content(n)' = Content(n)
    OBVIOUS
  <2>1. at'[n] = at[n] /\ off'[n] = off[n] /\ size'[n] = size[n]
    BY DEF Place, FsInv, DataType
  <2> QED  BY <1>2, <2>1, ContentKept
<1>4. Content(f)' = b
  <2>1. at'[f] = "arena" /\ off'[f] = aoff /\ size'[f] = Len(b)
    BY DEF Place, FsInv, DataType
  <2>2. \A i \in 1..Len(b) : arena'[aoff + i - 1] = b[i]
    <3> TAKE i \in 1..Len(b)
    <3>1. /\ aoff + i - 1 \in Cells /\ aoff + i - 1 \in aoff..(aoff + Len(b) - 1)
          /\ (aoff + i - 1) - aoff + 1 = i
      BY <1>0, <1>1
    <3> QED  BY <3>1 DEF Place
  <2>3. Content(f)' = [i \in 1..Len(b) |-> arena'[aoff + i - 1]]
    BY <2>1 DEF Content
  <2> QED  BY <1>0, <2>2, <2>3
<1> QED  BY <1>3, <1>4

LEMMA WriteStep ==
  ASSUME FsInv, FsInv', ShellType, Disk, NEW f \in Node, NEW b \in Seq(Byte),
         b \in Strings, NEW src, NEW append \in BOOLEAN, FsWrite(f, b, src, append)
  PROVE  StoreStep
<1>0. UNCHANGED type /\ Len(b) \in Nat
  BY LenProperties DEF FsWrite, treeVars
<1>1. CASE /\ type[f] = "file" /\ ~append /\ Fits(Len(b))
           /\ Place(f, b)
  <2>1. Store!Replace(f, b)
    BY <1>0, <1>1, PlaceContent DEF Store!Replace
  <2> QED  BY <2>1 DEF StoreStep, Store!StoreNext
<1>2. CASE /\ type[f] = "file" /\ append /\ Fits(size[f] + Len(b))
           /\ \E old \in Readable(f) : Place(f, old \o b)
  <2> PICK old \in Readable(f) : Place(f, old \o b)
    BY <1>2
  <2>1. old \in Seq(Byte) /\ Len(old) = size[f] /\ old = Content(f)
    BY ReadableType DEF Readable, FsInv, DataOK
  <2>2. old \o b \in Seq(Byte) /\ Len(old \o b) = size[f] + Len(b)
    BY <2>1, ConcatProperties
  <2>3. Store!Extend(f, b)
    BY <1>0, <1>2, <2>1, <2>2, PlaceContent DEF Store!Extend
  <2> QED  BY <2>3 DEF StoreStep, Store!StoreNext
<1>3. CASE UNCHANGED dataVars
  BY <1>0, <1>3, SameStep
<1> QED  BY <1>1, <1>2, <1>3 DEF FsWrite

LEMMA CloneStep ==
  ASSUME FsInv, FsInv', Disk, NEW d \in Node, NEW s \in Node, NEW nm \in Names,
         ni < NumNodes, FsClone(d, s, nm)
  PROVE  StoreStep
<1>1. CASE size[s] > 0 /\ ~Fits(size[s])
  BY <1>1, AllocateStep DEF FsClone, dataVars
<1>2. CASE ~(size[s] > 0 /\ ~Fits(size[s]))
  <2>1. \A c \in Cells : c < aoff => arena'[c] = arena[c]
    BY <1>2 DEF FsClone, FsInv, DataType
  <2> QED  BY <1>2, <2>1, AddStep DEF FsClone
<1> QED  BY <1>1, <1>2

LEMMA CreateStep ==
  ASSUME FsInv, FsInv', Disk, NEW d \in Node, NEW nm \in Names, NEW k \in {"file", "char"},
         NEW n \in Pointer, CreateNode(d, nm, k, n)
  PROVE  StoreStep
BY AddStep, SameStep DEF CreateNode, CanAdd, fsVars, dataVars

LEMMA StringsOK ==
  /\ \A b \in Payloads : b \in Strings
  /\ Image \in Strings
  /\ \A k \in 0..BufSize : \A b \in [1..k -> Byte] : b \in Strings
<1>1. ASSUME NEW b \in Payloads PROVE b \in Strings
  <2>1. Len(b) \in 0..BufSize /\ b \in [1..Len(b) -> Byte]
    BY PayloadOK, LenProperties
  <2> QED  BY <2>1 DEF Strings
<1> QED  BY <1>1 DEF Strings

LEMMA BootStep ==
  ASSUME IInv, IInv', Disk, Boot
  PROVE  StoreStep
<1> USE UserNamesOK, PayloadOK DEF IInv
<1>1. CASE BootHome
  BY <1>1, AddStep DEF BootHome, FsMkdir, CanAdd
<1>2. CASE BootDev
  BY <1>2, AddStep DEF BootDev, FsMkdir, CanAdd
<1>3. CASE BootTty
  BY <1>3, SameStep DEF BootTty, fsVars, dataVars
<1>4. CASE BootBin
  BY <1>4, AddStep DEF BootBin, FsMkdir, CanAdd
<1>5. CASE BootCreate
  BY <1>5, FirstMatchType, CreateStep DEF BootCreate, BootNames, FsInv
<1>6. CASE BootWrite
  <2> PICK d \in FirstMatch(Root, "bin") :
        \E f \in FirstMatch(d, "hello") : FsWrite(f, Image, "image", FALSE)
    BY <1>6 DEF BootWrite
  <2>1. d \in Node
    BY FirstMatchType DEF FsInv
  <2> PICK f \in FirstMatch(d, "hello") : FsWrite(f, Image, "image", FALSE)
    OBVIOUS
  <2>2. f \in Node
    BY <2>1, FirstMatchType DEF FsInv
  <2> QED  BY <2>2, StringsOK, WriteStep
<1> QED  BY <1>1, <1>2, <1>3, <1>4, <1>5, <1>6 DEF Boot

LEMMA BuiltinStep ==
  ASSUME IInv, IInv', Disk, Builtin
  PROVE  StoreStep
<1> USE UserNamesOK, PayloadOK DEF IInv
<1>1. ASSUME NEW nm \in UserNames, Mkdir(nm) PROVE StoreStep
  BY <1>1, AddStep, SameStep DEF Mkdir, FsMkdir, CanAdd, fsVars, dataVars
<1>2. ASSUME NEW nm \in UserNames, Touch(nm) PROVE StoreStep
  BY <1>2, CreateStep DEF Touch, ShellType
<1>3. ASSUME NEW nm \in UserNames, Rm(nm) PROVE StoreStep
  BY <1>3, SameStep DEF Rm, FsUnlink, fsVars, dataVars
<1>4. ASSUME NEW nm \in UserNames, EditOpen(nm) PROVE StoreStep
  BY <1>4, CreateStep DEF EditOpen, ShellType
<1>5. ASSUME NEW old \in UserNames, NEW new \in UserNames, Mv(old, new) PROVE StoreStep
  BY <1>5, SameStep DEF Mv
<1>6. ASSUME NEW src \in UserNames, NEW dst \in UserNames, Cp(src, dst) PROVE StoreStep
  BY <1>6, CloneStep, SameStep, FirstMatchType
     DEF Cp, CanAdd, ShellType, FsInv, fsVars, dataVars
<1>7. ASSUME NEW path \in Paths, Cd(path) PROVE StoreStep
  BY <1>7, SameStep DEF Cd, fsVars, dataVars
<1>8. ASSUME NEW p \in Payloads, Show(p) PROVE StoreStep
  BY <1>8, SameStep DEF Show, fsVars, dataVars
<1>9. ASSUME NEW p \in Payloads, EditSave(p) PROVE StoreStep
  <2>1. edit \in Node /\ FsWrite(edit, p, "edit", FALSE)
    BY <1>9 DEF EditSave, ShellType
  <2> QED  BY <2>1, StringsOK, WriteStep
<1>10. ASSUME EditAbort PROVE StoreStep
  BY <1>10, SameStep DEF EditAbort, fsVars, dataVars
<1> QED  BY <1>1, <1>2, <1>3, <1>4, <1>5, <1>6, <1>7, <1>8, <1>9, <1>10 DEF Builtin

LEMMA NextStep ==
  ASSUME IInv, IInv', Disk, [Next]_vars
  PROVE  StoreStep
<1> USE UserNamesOK, PayloadOK DEF IInv
<1>1. ASSUME NEW nm \in UserNames, NEW append \in BOOLEAN, RedirOpen(nm, append)
      PROVE  StoreStep
  BY <1>1, CreateStep DEF RedirOpen, ShellType
<1>2. CASE RedirWrite
  <2> DEFINE b == [i \in 1..redirLen |-> redirBuf[i]]
  <2>1. out.node \in Node /\ out.append \in BOOLEAN /\ redirLen \in 0..BufSize
    BY <1>2 DEF RedirWrite, RedirOK, ShellType
  <2>2. b \in [1..redirLen -> Byte]
    BY <2>1 DEF ShellType
  <2>3. b \in Seq(Byte) /\ b \in Strings
    BY <2>1, <2>2, ByteSeq, StringsOK
  <2>4. FsWrite(out.node, b, "redir", out.append)
    BY <1>2 DEF RedirWrite
  <2> QED  BY <2>1, <2>3, <2>4, WriteStep
<1>3. ASSUME NEW nm \in UserNames, SysOpen(nm) PROVE StoreStep
  BY <1>3, AddStep DEF SysOpen, CanAdd
<1>4. ASSUME NEW n \in Node, NEW p \in Payloads, SysWrite(n, p) PROVE StoreStep
  BY <1>4, StringsOK, WriteStep DEF SysWrite
<1>5. CASE UNCHANGED vars
  BY <1>5, SameStep DEF vars, treeVars, dataVars
<1> QED  BY BootStep, BuiltinStep, <1>1, <1>2, <1>3, <1>4, <1>5 DEF Next

\* fs_disk.c keeps the promise of FileStore: every file holds exactly what its
\* own writes put there, whatever else the kernel does.
THEOREM DiskImplementsStore == Disk => (Spec => ImplementsStore)
<1> SUFFICES ASSUME Disk PROVE Spec => ImplementsStore
  OBVIOUS
<1>1. Init => Store!StoreInit
  BY DEF Init, Store!StoreInit, Content
<1>2. IInv /\ IInv' /\ [Next]_vars => [Store!StoreNext]_(Store!storeVars)
  BY NextStep DEF StoreStep
<1> QED  BY <1>1, <1>2, Invariance, PTL DEF Spec, ImplementsStore, Store!StoreSpec

-----------------------------------------------------------------------------
\* Least elements, and a sequence without one of its elements.

\* A set of naturals that is not empty has a least element.
LEMMA Least ==
  ASSUME NEW T \in SUBSET Nat, T # {}
  PROVE  \E n \in T : \A m \in T : n <= m
<1> DEFINE less == OpToRel(<, Nat)
<1>1. \E n \in T : \A m \in T : ~(<<m, n>> \in less)
  <2>1. IsWellFoundedOn(less, Nat) BY NatLessThanWellFounded
  <2> HIDE DEF less
  <2> QED BY <2>1, WFMin
<1>2. \A m, n \in Nat : <<m, n>> \in less <=> m < n BY DEF OpToRel
<1> HIDE DEF less
<1> PICK n \in T : \A m \in T : ~(<<m, n>> \in less) BY <1>1
<1>3. \A m \in T : m \in Nat /\ n \in Nat /\ ~(m < n) BY <1>2
<1>4. \A m \in T : n <= m BY <1>3
<1> QED BY <1>4

LEMMA LeastIndex ==
  ASSUME NEW T \in SUBSET Nat, T # {}
  PROVE  \E n \in T : \A m \in 0..(n - 1) : m \notin T
<1> PICK n \in T : \A m \in T : n <= m BY Least
<1>1. \A m \in 0..(n - 1) : m \notin T OBVIOUS
<1> QED BY <1>1

-----------------------------------------------------------------------------
\* The tree.  Three facts about the chains that every step keeps together: they
\* mirror the parent pointers, the current directory and every directory with
\* entries hang on the root, and no two entries answer to one name.

TreeInv == TreeOK /\ NoOrphans /\ NamesUnique

\* A chain as a sequence of nodes.
LEMMA Chain ==
  ASSUME TreeType, NEW d \in Node
  PROVE  /\ kids[d] \in Seq(Node) /\ Len(kids[d]) \in Nat /\ DOMAIN kids[d] = 1..Len(kids[d])
         /\ \A i \in DOMAIN kids[d] : kids[d][i] \in Node
<1>1. kids[d] \in Seq(Node) BY DEF TreeType
<1> QED BY <1>1, ElementOfSeq, LenProperties

\* A slot that has not been handed out is in no chain and has none.
LEMMA FreshSlot ==
  ASSUME FsInv, TreeOK, NEW n \in Node, n > ni
  PROVE  /\ parent[n] = Nil /\ type[n] = "free"
         /\ \A d \in Node : \A i \in DOMAIN kids[d] : kids[d][i] # n
         /\ \A m \in Node : parent[m] # n
<1>1. type[n] = "free" /\ parent[n] = Nil
  <2>1. ni \in Int /\ n \in Int /\ ~(n <= ni) BY DEF FsInv, TreeType
  <2> QED BY <2>1 DEF FsInv, DataOK, TreeOK
<1>2. \A d \in Node : \A i \in DOMAIN kids[d] : parent[kids[d][i]] # Nil
  BY DEF TreeOK
<1>3. \A m \in Node : parent[m] # n BY <1>1 DEF TreeOK
<1> QED BY <1>1, <1>2, <1>3

\* A new entry at the head of the chain of a directory.
LEMMA AddTree ==
  ASSUME FsInv, TreeInv, NEW d \in Node, NEW nm \in Names,
         NEW k \in {"dir", "file", "char"}, CanAdd(d, nm), AddChild(d, nm, k),
         Attached(d), cwd \in Node, cwd' = cwd
  PROVE  TreeInv'
<1>1. PICK n \in Node : n = ni + 1 /\ n > ni BY DEF CanAdd, FsInv, TreeType
<1>2. /\ parent[n] = Nil /\ type[n] = "free"
      /\ \A e \in Node : \A i \in DOMAIN kids[e] : kids[e][i] # n
      /\ \A m \in Node : parent[m] # n
  BY <1>1, FreshSlot DEF TreeInv
<1>3. /\ ni' = n /\ type[d] = "dir" /\ d # n /\ d <= ni
      /\ parent' = [parent EXCEPT ![n] = d] /\ type' = [type EXCEPT ![n] = k]
      /\ name' = [name EXCEPT ![n] = Stored[nm]]
      /\ kids' = [kids EXCEPT ![d] = <<n>> \o kids[d]]
  <2>1. ~(d > ni) BY DEF CanAdd, FsInv, DataOK
  <2>2. d <= ni BY <2>1 DEF FsInv, TreeType
  <2> QED BY <1>1, <1>2, <2>2 DEF AddChild, CanAdd
<1>t. /\ kids \in [Node -> Seq(Node)] /\ parent \in [Node -> Pointer] /\ ni \in Nat
      /\ DOMAIN type = Node /\ DOMAIN name = Node
  BY DEF FsInv, TreeType
<1>4. /\ \A e \in Node \ {d} : kids'[e] = kids[e]
      /\ \A m \in Node \ {n} : /\ parent'[m] = parent[m] /\ type'[m] = type[m]
                               /\ name'[m] = name[m]
      /\ parent'[n] = d /\ name'[n] = Stored[nm]
  BY <1>3, <1>t
<1>5. /\ DOMAIN kids'[d] = 1..(Len(kids[d]) + 1) /\ kids'[d][1] = n
      /\ \A i \in DOMAIN kids[d] : i + 1 \in DOMAIN kids'[d] /\ kids'[d][i + 1] = kids[d][i]
      /\ \A i \in DOMAIN kids'[d] : i = 1 \/ (i - 1 \in DOMAIN kids[d] /\ kids'[d][i] = kids[d][i - 1])
  <2>1. kids[d] \in Seq(Node) /\ Len(kids[d]) \in Nat /\ DOMAIN kids[d] = 1..Len(kids[d])
    BY Chain DEF FsInv
  <2>2. kids'[d] = <<n>> \o kids[d] BY <1>3, <1>t
  <2>3. /\ <<n>> \in Seq(Node) /\ Len(<<n>>) = 1 /\ <<n>>[1] = n OBVIOUS
  <2>4. /\ kids'[d] \in Seq(Node) /\ Len(kids'[d]) = 1 + Len(kids[d])
        /\ \A i \in 1..(1 + Len(kids[d])) :
             kids'[d][i] = IF i <= 1 THEN <<n>>[i] ELSE kids[d][i - 1]
    BY <2>1, <2>2, <2>3, ConcatProperties
  <2>5. DOMAIN kids'[d] = 1..(Len(kids[d]) + 1) BY <2>1, <2>4, LenProperties
  <2>6. kids'[d][1] = n
    <3>1. 1 \in 1..(1 + Len(kids[d])) /\ 1 <= 1 BY <2>1
    <3>2. kids'[d][1] = <<n>>[1] BY <2>4, <3>1
    <3> QED BY <2>3, <3>2
  <2>7. ASSUME NEW i \in DOMAIN kids[d]
        PROVE  i + 1 \in DOMAIN kids'[d] /\ kids'[d][i + 1] = kids[d][i]
    <3>1. i + 1 \in 1..(1 + Len(kids[d])) /\ ~(i + 1 <= 1) /\ (i + 1) - 1 = i BY <2>1
    <3>2. kids'[d][i + 1] = kids[d][(i + 1) - 1] BY <2>4, <3>1
    <3> QED BY <2>1, <2>5, <3>1, <3>2
  <2>8. ASSUME NEW i \in DOMAIN kids'[d], i # 1
        PROVE  i - 1 \in DOMAIN kids[d] /\ kids'[d][i] = kids[d][i - 1]
    <3>1. i \in 1..(1 + Len(kids[d])) /\ ~(i <= 1) /\ i - 1 \in 1..Len(kids[d])
      BY <2>1, <2>5, <2>8
    <3> QED BY <2>1, <2>4, <3>1
  <2> QED BY <2>5, <2>6, <2>7, <2>8
<1>6. TreeOK'
  <2>1. ASSUME NEW e \in Node, NEW i \in DOMAIN kids'[e] PROVE parent'[kids'[e][i]] = e
    <3>1. CASE e # d
      <4>1. kids[e][i] \in Node \ {n} /\ parent[kids[e][i]] = e
        <5>1. i \in DOMAIN kids[e] BY <1>4, <2>1, <3>1
        <5>2. kids[e][i] \in Node /\ kids[e][i] # n BY <1>2, <5>1, Chain DEF FsInv
        <5>3. parent[kids[e][i]] = e BY <5>1 DEF TreeInv, TreeOK
        <5> QED BY <5>2, <5>3
      <4> QED BY <1>4, <3>1, <4>1
    <3>2. CASE e = d /\ i = 1 BY <1>4, <1>5, <3>2
    <3>3. CASE e = d /\ i # 1
      <4>1. i - 1 \in DOMAIN kids[d] /\ kids'[d][i] = kids[d][i - 1] BY <1>5, <2>1, <3>3
      <4>2. kids[d][i - 1] \in Node \ {n} /\ parent[kids[d][i - 1]] = d
        <5>1. kids[d][i - 1] \in Node /\ kids[d][i - 1] # n
          BY <1>2, <4>1, Chain DEF FsInv
        <5>2. parent[kids[d][i - 1]] = d BY <4>1 DEF TreeInv, TreeOK
        <5> QED BY <5>1, <5>2
      <4> QED BY <1>4, <3>3, <4>1, <4>2
    <3> QED BY <3>1, <3>2, <3>3
  <2>2. ASSUME NEW m \in Node, parent'[m] # Nil
        PROVE  /\ parent'[m] < m /\ m <= ni' /\ type'[parent'[m]] = "dir"
               /\ \E i \in DOMAIN kids'[parent'[m]] : kids'[parent'[m]][i] = m
    <3>1. CASE m = n
      <4>1. type'[d] = "dir" BY <1>3, <1>4
      <4>2. \E i \in DOMAIN kids'[d] : kids'[d][i] = n
          <5>1. 1 \in 1..(Len(kids[d]) + 1) BY Chain DEF FsInv
          <5> QED BY <1>5, <5>1
      <4>3. d < n /\ n <= ni' BY <1>1, <1>3, <1>t
      <4>4. parent'[n] = d BY <1>4
      <4> QED BY <3>1, <4>1, <4>2, <4>3, <4>4
    <3>2. CASE m # n
      <4>1. parent'[m] = parent[m] BY <1>4, <3>2
      <4>2. /\ parent[m] < m /\ m <= ni /\ type[parent[m]] = "dir"
            /\ \E i \in DOMAIN kids[parent[m]] : kids[parent[m]][i] = m
        BY <2>2, <4>1 DEF TreeInv, TreeOK
      <4>3. parent[m] \in Node \ {n} BY <1>2, <1>t, <2>2, <4>1
      <4>4. type'[parent[m]] = "dir" BY <1>4, <4>2, <4>3
      <4>5. \E i \in DOMAIN kids'[parent[m]] : kids'[parent[m]][i] = m
        BY <1>4, <1>5, <4>2, <4>3
      <4>6. m <= ni' BY <1>1, <1>3, <1>t, <4>2
      <4> QED BY <4>1, <4>2, <4>4, <4>5, <4>6
    <3> QED BY <3>1, <3>2
  <2>3. ASSUME NEW e \in Node, NEW i \in DOMAIN kids'[e], NEW j \in DOMAIN kids'[e],
               kids'[e][i] = kids'[e][j]
        PROVE  i = j
    <3>1. CASE e # d BY <1>4, <2>3, <3>1 DEF TreeInv, TreeOK
    <3>2. CASE e = d
      <4>1. i \in Int /\ j \in Int
        <5>1. Len(kids[d]) \in Nat BY Chain DEF FsInv
        <5> QED BY <1>5, <2>3, <3>2, <5>1
      <4>2. \A x \in DOMAIN kids[d] : \A y \in DOMAIN kids[d] : kids[d][x] = kids[d][y] => x = y
        BY DEF TreeInv, TreeOK
      <4>3. CASE i = 1 BY <1>2, <1>5, <2>3, <3>2, <4>3
      <4>4. CASE j = 1 BY <1>2, <1>5, <2>3, <3>2, <4>4
      <4>5. CASE i # 1 /\ j # 1
        <5>1. /\ i - 1 \in DOMAIN kids[d] /\ kids'[d][i] = kids[d][i - 1]
              /\ j - 1 \in DOMAIN kids[d] /\ kids'[d][j] = kids[d][j - 1]
          BY <1>5, <2>3, <3>2, <4>5
        <5>2. i - 1 = j - 1 BY <2>3, <3>2, <4>2, <5>1
        <5> QED BY <4>1, <5>2
      <4> QED BY <4>3, <4>4, <4>5
    <3> QED BY <3>1, <3>2
  <2> QED BY <2>1, <2>2, <2>3 DEF TreeOK
<1>7. NoOrphans'
  <2>1. \A m \in Node : Attached(m) => Attached(m)'
    BY <1>2, <1>4 DEF Attached
  <2>2. Attached(cwd)' BY <1>2, <1>4, <2>1 DEF TreeInv, NoOrphans, Attached
  <2>3. ASSUME NEW m \in Node, parent'[m] # Nil PROVE Attached(parent[m])'
    <3>1. CASE m = n BY <1>4, <2>1, <3>1 DEF Attached
    <3>2. CASE m # n
      <4>1. parent'[m] = parent[m] /\ Attached(parent[m]) /\ parent[m] \in Node
        BY <1>4, <1>t, <2>3, <3>2 DEF TreeInv, NoOrphans
      <4> QED BY <2>1, <4>1 DEF Attached
    <3> QED BY <3>1, <3>2
  <2> QED BY <2>2, <2>3 DEF NoOrphans
<1>8. NamesUnique'
  <2> SUFFICES ASSUME NEW e \in Node, NEW i \in DOMAIN kids'[e], NEW j \in DOMAIN kids'[e],
                      i # j, name'[kids'[e][i]] = name'[kids'[e][j]]
               PROVE  name'[kids'[e][i]] \in CutNames
    BY DEF NamesUnique
  <2>0. \A x \in DOMAIN kids[e] : kids[e][x] \in Node \ {n} /\ name'[kids[e][x]] = name[kids[e][x]]
    BY <1>2, <1>4, Chain DEF FsInv
  <2>1. CASE e # d
    BY <1>4, <2>0, <2>1 DEF TreeInv, NamesUnique
  <2>2. CASE e = d
    <3>1. \A x \in DOMAIN kids[d] : name[kids[d][x]] # nm BY DEF CanAdd, Exists
    <3>2. Stored[nm] # nm => Stored[nm] \in CutNames BY DEF CutNames
    <3>3. CASE i = 1
      <4>1. j - 1 \in DOMAIN kids[d] /\ kids'[d][j] = kids[d][j - 1] BY <1>5, <2>2, <3>3
      <4>2. name'[kids'[d][i]] = Stored[nm] BY <1>4, <1>5, <3>3
      <4>3. name'[kids'[d][j]] = name[kids[d][j - 1]] BY <2>0, <2>2, <4>1
      <4>4. name[kids[d][j - 1]] # nm BY <3>1, <4>1
      <4> QED BY <2>2, <3>2, <4>2, <4>3, <4>4
    <3>4. CASE j = 1
      <4>1. i - 1 \in DOMAIN kids[d] /\ kids'[d][i] = kids[d][i - 1] BY <1>5, <2>2, <3>4
      <4>2. name'[kids'[d][j]] = Stored[nm] BY <1>4, <1>5, <3>4
      <4>3. name'[kids'[d][i]] = name[kids[d][i - 1]] BY <2>0, <2>2, <4>1
      <4>4. name[kids[d][i - 1]] # nm BY <3>1, <4>1
      <4> QED BY <2>2, <3>2, <4>2, <4>3, <4>4
    <3>5. CASE i # 1 /\ j # 1
      <4>1. /\ i - 1 \in DOMAIN kids[d] /\ kids'[d][i] = kids[d][i - 1]
            /\ j - 1 \in DOMAIN kids[d] /\ kids'[d][j] = kids[d][j - 1]
        BY <1>5, <2>2, <3>5
      <4>2. i - 1 # j - 1 BY <1>5, <2>2, Chain DEF FsInv
      <4>3. name[kids[d][i - 1]] = name[kids[d][j - 1]] BY <2>0, <2>2, <4>1
      <4> QED BY <2>0, <2>2, <4>1, <4>2, <4>3 DEF TreeInv, NamesUnique
    <3> QED BY <3>3, <3>4, <3>5
  <2> QED BY <2>1, <2>2
<1> QED BY <1>6, <1>7, <1>8 DEF TreeInv

\* An entry that has no entries of its own leaves its chain.
LEMMA UnlinkTree ==
  ASSUME FsInv, TreeInv, NEW d \in Node, NEW c \in Node, FsUnlink(d, c), Removable(c),
         cwd \in Node, Attached(d), cwd = d, cwd' = cwd
  PROVE  TreeInv'
<1>1. PICK p \in DOMAIN kids[d] :
        kids[d][p] = c /\ kids' = [kids EXCEPT ![d] = RemoveAt(kids[d], p)]
  BY DEF FsUnlink
<1>t. /\ kids \in [Node -> Seq(Node)] /\ parent \in [Node -> Pointer] /\ ni \in Nat
  BY DEF FsInv, TreeType
<1>2. /\ kids[d] \in Seq(Node) /\ Len(kids[d]) \in Nat /\ DOMAIN kids[d] = 1..Len(kids[d])
      /\ \A e \in Node : \A i \in DOMAIN kids[e] : kids[e][i] \in Node
  BY Chain DEF FsInv
<1>3. /\ DOMAIN kids'[d] = 1..(Len(kids[d]) - 1)
      /\ \A i \in DOMAIN kids'[d] : kids'[d][i] = IF i < p THEN kids[d][i] ELSE kids[d][i + 1]
  <2>1. kids'[d] = RemoveAt(kids[d], p) BY <1>1, <1>t
  <2>2. /\ RemoveAt(kids[d], p) \in Seq(Node) /\ Len(RemoveAt(kids[d], p)) = Len(kids[d]) - 1
        /\ \A j \in 1..(Len(kids[d]) - 1) :
             RemoveAt(kids[d], p)[j] = IF j < p THEN kids[d][j] ELSE kids[d][j + 1]
    <3>1. kids[d] \in Seq(Node) /\ p \in 1..Len(kids[d]) BY <1>2
    <3> HIDE SizesAssumption DEF Node
    <3> QED BY <3>1, RemoveAtIs
  <2>3. DOMAIN RemoveAt(kids[d], p) = 1..(Len(kids[d]) - 1) BY <2>2, LenProperties
  <2> QED BY <2>1, <2>2, <2>3
<1>4. /\ \A e \in Node \ {d} : kids'[e] = kids[e]
      /\ \A m \in Node \ {c} : parent'[m] = parent[m]
      /\ parent'[c] = Nil /\ UNCHANGED <<ni, type, name>>
  BY <1>1, <1>t DEF FsUnlink
\* the place in the old chain of what is at place i of the new one
<1> DEFINE Old(i) == IF i < p THEN i ELSE i + 1
<1>5. \A i \in DOMAIN kids'[d] : /\ Old(i) \in DOMAIN kids[d] /\ Old(i) # p
                                 /\ kids'[d][i] = kids[d][Old(i)]
  <2> SUFFICES ASSUME NEW i \in DOMAIN kids'[d]
               PROVE  /\ Old(i) \in DOMAIN kids[d] /\ Old(i) # p
                      /\ kids'[d][i] = kids[d][Old(i)]
    OBVIOUS
  <2>1. Old(i) \in 1..Len(kids[d]) /\ Old(i) # p
    <3>1. i \in 1..(Len(kids[d]) - 1) /\ Len(kids[d]) \in Nat /\ p \in 1..Len(kids[d])
      BY <1>2, <1>3
    <3> HIDE SizesAssumption DEF Node
    <3> QED BY <3>1
  <2> QED BY <1>2, <1>3, <2>1
<1>6. \A i, j \in DOMAIN kids'[d] : Old(i) = Old(j) => i = j
  <2> SUFFICES ASSUME NEW i \in DOMAIN kids'[d], NEW j \in DOMAIN kids'[d], Old(i) = Old(j)
               PROVE  i = j
    OBVIOUS
  <2>1. i \in Nat /\ j \in Nat /\ p \in Nat BY <1>2, <1>3
  <2> QED BY <2>1
<1>7. \A j \in DOMAIN kids[d] : j # p => \E i \in DOMAIN kids'[d] : kids'[d][i] = kids[d][j]
  <2> SUFFICES ASSUME NEW j \in DOMAIN kids[d], j # p
               PROVE  \E i \in DOMAIN kids'[d] : kids'[d][i] = kids[d][j]
    OBVIOUS
  <2>1. CASE j < p
    <3>1. j \in DOMAIN kids'[d] BY <1>2, <1>3, <2>1
    <3> QED BY <1>3, <2>1, <3>1
  <2>2. CASE j > p
    <3>0. j \in 1..Len(kids[d]) /\ Len(kids[d]) \in Nat /\ p \in 1..Len(kids[d]) BY <1>2
    <3>1. j - 1 \in DOMAIN kids'[d] /\ ~(j - 1 < p) /\ (j - 1) + 1 = j
      <4>1. j - 1 \in 1..(Len(kids[d]) - 1) /\ ~(j - 1 < p) /\ (j - 1) + 1 = j BY <2>2, <3>0
      <4> QED BY <1>3, <4>1
    <3> QED BY <1>3, <3>1
  <2> QED BY <1>2, <2>1, <2>2
<1> HIDE DEF Old
<1>8. /\ \A e \in Node : \A i \in DOMAIN kids[e] : parent[kids[e][i]] = e
      /\ \A i, j \in DOMAIN kids[d] : kids[d][i] = kids[d][j] => i = j
      /\ parent[c] = d /\ d # c /\ d # Nil
      /\ \A m \in Node : parent[m] # c
  <2>1. /\ \A e \in Node : \A i \in DOMAIN kids[e] : parent[kids[e][i]] = e
        /\ \A i, j \in DOMAIN kids[d] : kids[d][i] = kids[d][j] => i = j
    BY DEF TreeInv, TreeOK
  <2>2. parent[c] = d BY <1>1, <2>1
  <2>3. d # Nil OBVIOUS
  <2>4. d < c BY <2>2, <2>3 DEF TreeInv, TreeOK
  <2>5. ASSUME NEW m \in Node, parent[m] = c PROVE FALSE
    <3>1. c # Nil OBVIOUS
    <3>2. type[c] = "dir" /\ \E i \in DOMAIN kids[c] : kids[c][i] = m
      BY <2>5, <3>1 DEF TreeInv, TreeOK
    <3>3. kids[c] # <<>> BY <3>2
    <3> QED BY <3>2, <3>3 DEF Removable
  <2> QED BY <2>1, <2>2, <2>3, <2>4, <2>5
<1>9. TreeOK'
  <2>1. ASSUME NEW e \in Node, NEW i \in DOMAIN kids'[e] PROVE parent'[kids'[e][i]] = e
    <3>1. CASE e # d
      <4>1. kids[e][i] \in Node /\ parent[kids[e][i]] = e /\ kids'[e][i] = kids[e][i]
        BY <1>2, <1>4, <1>8, <2>1, <3>1
      <4> QED BY <1>4, <1>8, <3>1, <4>1
    <3>2. CASE e = d
      <4>1. /\ Old(i) \in DOMAIN kids[d] /\ Old(i) # p /\ kids'[d][i] = kids[d][Old(i)]
        BY <1>5, <2>1, <3>2
      <4>2. kids[d][Old(i)] \in Node /\ kids[d][Old(i)] # c /\ parent[kids[d][Old(i)]] = d
        BY <1>1, <1>2, <1>8, <4>1
      <4> QED BY <1>4, <3>2, <4>1, <4>2
    <3> QED BY <3>1, <3>2
  <2>2. ASSUME NEW m \in Node, parent'[m] # Nil
        PROVE  /\ parent'[m] < m /\ m <= ni' /\ type'[parent'[m]] = "dir"
               /\ \E i \in DOMAIN kids'[parent'[m]] : kids'[parent'[m]][i] = m
    <3>1. m # c /\ parent'[m] = parent[m] BY <1>4, <2>2
    <3>2. /\ parent[m] < m /\ m <= ni /\ type[parent[m]] = "dir"
          /\ \E i \in DOMAIN kids[parent[m]] : kids[parent[m]][i] = m
      BY <2>2, <3>1 DEF TreeInv, TreeOK
    <3>3. parent[m] \in Node BY <1>t, <2>2, <3>1
    <3>4. \E i \in DOMAIN kids'[parent[m]] : kids'[parent[m]][i] = m
      <4>1. CASE parent[m] # d BY <1>4, <3>2, <3>3, <4>1
      <4>2. CASE parent[m] = d
        <5>1. PICK j \in DOMAIN kids[d] : kids[d][j] = m BY <3>2, <4>2
        <5>2. j # p BY <1>1, <3>1, <5>1
        <5> QED BY <1>7, <4>2, <5>1, <5>2
      <4> QED BY <4>1, <4>2
    <3> QED BY <1>4, <3>1, <3>2, <3>4
  <2>3. ASSUME NEW e \in Node, NEW i \in DOMAIN kids'[e], NEW j \in DOMAIN kids'[e],
               kids'[e][i] = kids'[e][j]
        PROVE  i = j
    <3>1. CASE e # d BY <1>4, <2>3, <3>1 DEF TreeInv, TreeOK
    <3>2. CASE e = d
      <4>1. Old(i) = Old(j) BY <1>5, <1>8, <2>3, <3>2
      <4> QED BY <1>6, <2>3, <3>2, <4>1
    <3> QED BY <3>1, <3>2
  <2> QED BY <2>1, <2>2, <2>3 DEF TreeOK
<1>10. NoOrphans'
  <2>1. \A m \in Node \ {c} : Attached(m) => Attached(m)'
    BY <1>4 DEF Attached
  <2>2. Attached(cwd)' BY <1>4, <1>8 DEF Attached
  <2>3. ASSUME NEW m \in Node, parent'[m] # Nil PROVE Attached(parent[m])'
    <3>1. parent'[m] = parent[m] /\ Attached(parent[m]) /\ parent[m] \in Node \ {c}
      <4>1. m # c /\ parent'[m] = parent[m] BY <1>4, <2>3
      <4>2. Attached(parent[m]) BY <2>3, <4>1 DEF TreeInv, NoOrphans
      <4>3. parent[m] \in Node /\ parent[m] # c BY <1>8, <1>t, <2>3, <4>1
      <4> QED BY <4>1, <4>2, <4>3
    <3> QED BY <2>1, <3>1 DEF Attached
  <2> QED BY <2>2, <2>3 DEF NoOrphans
<1>11. NamesUnique'
  <2> SUFFICES ASSUME NEW e \in Node, NEW i \in DOMAIN kids'[e], NEW j \in DOMAIN kids'[e],
                      i # j, name[kids'[e][i]] = name[kids'[e][j]]
               PROVE  name[kids'[e][i]] \in CutNames
    BY <1>4 DEF NamesUnique
  <2>1. CASE e # d BY <1>4, <2>1 DEF TreeInv, NamesUnique
  <2>2. CASE e = d
    <3>1. Old(i) # Old(j) BY <1>6, <2>2
    <3>2. /\ Old(i) \in DOMAIN kids[d] /\ kids'[d][i] = kids[d][Old(i)]
          /\ Old(j) \in DOMAIN kids[d] /\ kids'[d][j] = kids[d][Old(j)]
      BY <1>5, <2>2
    <3> QED BY <2>2, <3>1, <3>2 DEF TreeInv, NamesUnique
  <2> QED BY <2>1, <2>2
<1> QED BY <1>9, <1>10, <1>11 DEF TreeInv

\* A step that touches neither the tree nor the current directory.
LEMMA SameTree ==
  ASSUME TreeInv, UNCHANGED <<treeVars, cwd>>
  PROVE  TreeInv'
BY DEF treeVars, TreeInv, TreeOK, NoOrphans, Attached, NamesUnique

\* A copy takes a slot even when the arena has no room for it; that slot is in
\* no directory.
LEMMA CloneTree ==
  ASSUME FsInv, TreeInv, NEW d \in Node, NEW s \in Node, NEW nm \in Names,
         CanAdd(d, nm), FsClone(d, s, nm), Attached(d), cwd \in Node, cwd' = cwd
  PROVE  TreeInv'
<1>1. CASE ~(size[s] > 0 /\ ~Fits(size[s])) BY <1>1, AddTree DEF FsClone
<1>2. CASE size[s] > 0 /\ ~Fits(size[s])
  <2>1. PICK n \in Node : n = ni + 1 /\ n > ni BY DEF CanAdd, FsInv, TreeType
  <2>2. /\ \A e \in Node : \A i \in DOMAIN kids[e] : kids[e][i] # n
        /\ \A m \in Node : parent[m] # n
    BY <2>1, FreshSlot DEF TreeInv
  <2>3. /\ ni' = n /\ UNCHANGED <<parent, kids>>
        /\ \A m \in Node \ {n} : type'[m] = type[m] /\ name'[m] = name[m]
    BY <1>2, <2>1 DEF FsClone, FsInv, TreeType
  <2>t. ni \in Nat /\ parent \in [Node -> Pointer] BY DEF FsInv, TreeType
  <2>4. TreeOK'
    <3>1. ASSUME NEW m \in Node, parent[m] # Nil
          PROVE  /\ parent[m] < m /\ m <= ni' /\ type'[parent[m]] = "dir"
                 /\ \E i \in DOMAIN kids[parent[m]] : kids[parent[m]][i] = m
      <4>1. /\ parent[m] < m /\ m <= ni /\ type[parent[m]] = "dir"
            /\ \E i \in DOMAIN kids[parent[m]] : kids[parent[m]][i] = m
        BY <3>1 DEF TreeInv, TreeOK
      <4>2. parent[m] \in Node \ {n} BY <2>2, <2>t, <3>1
      <4> QED BY <2>1, <2>3, <2>t, <4>1, <4>2
    <3> QED BY <2>3, <3>1 DEF TreeInv, TreeOK
  <2>5. NoOrphans' BY <2>3 DEF TreeInv, NoOrphans, Attached
  <2>6. NamesUnique'
    <3>1. \A e \in Node : \A i \in DOMAIN kids[e] : name'[kids[e][i]] = name[kids[e][i]]
      BY <2>2, <2>3, Chain DEF FsInv
    <3> QED BY <2>3, <3>1 DEF TreeInv, NamesUnique
  <2> QED BY <2>4, <2>5, <2>6 DEF TreeInv
<1> QED BY <1>1, <1>2

\* A new name for one entry, that no entry of its directory answers to.
LEMMA RenameTree ==
  ASSUME FsInv, TreeInv, NEW d \in Node, NEW n \in Node, NEW nm \in Names,
         ~Exists(d, nm), parent[n] = d,
         name' = [name EXCEPT ![n] = Stored[nm]], UNCHANGED <<ni, type, parent, kids, cwd>>
  PROVE  TreeInv'
<1>1. TreeOK' /\ NoOrphans' BY DEF TreeInv, TreeOK, NoOrphans, Attached
<1>2. NamesUnique'
  <2> SUFFICES ASSUME NEW e \in Node, NEW i \in DOMAIN kids[e], NEW j \in DOMAIN kids[e],
                      i # j, name'[kids[e][i]] = name'[kids[e][j]]
               PROVE  name'[kids[e][i]] \in CutNames
    BY DEF NamesUnique
  <2>1. /\ \A m \in Node \ {n} : name'[m] = name[m]
        /\ name'[n] = Stored[nm]
        /\ kids[e][i] \in Node /\ kids[e][j] \in Node
        /\ parent[kids[e][i]] = e /\ parent[kids[e][j]] = e
        /\ kids[e][i] # kids[e][j]
    <3>1. (\A m \in Node \ {n} : name'[m] = name[m]) /\ name'[n] = Stored[nm]
      BY DEF FsInv, TreeType
    <3>2. kids[e][i] \in Node /\ kids[e][j] \in Node BY Chain DEF FsInv
    <3>3. parent[kids[e][i]] = e /\ parent[kids[e][j]] = e BY DEF TreeInv, TreeOK
    <3>4. kids[e][i] # kids[e][j] BY DEF TreeInv, TreeOK
    <3> QED BY <3>1, <3>2, <3>3, <3>4
  <2>2. CASE kids[e][i] # n /\ kids[e][j] # n
    BY <2>1, <2>2 DEF TreeInv, NamesUnique
  <2>3. CASE kids[e][i] = n \/ kids[e][j] = n
    <3>1. e = d BY <2>1, <2>3
    <3>2. \A x \in DOMAIN kids[d] : name[kids[d][x]] # nm BY DEF Exists
    <3>3. Stored[nm] # nm => Stored[nm] \in CutNames BY DEF CutNames
    <3> QED BY <2>1, <2>3, <3>1, <3>2, <3>3
  <2> QED BY <2>2, <2>3
<1> QED BY <1>1, <1>2 DEF TreeInv

-----------------------------------------------------------------------------
\* Looking names up.

\* find_in returns an entry of the directory.
LEMMA MatchIsEntry ==
  ASSUME FsInv, TreeInv, NEW d \in Node, NEW nm, NEW n \in FirstMatch(d, nm)
  PROVE  n \in Node /\ parent[n] = d /\ d < n
<1>1. PICK i \in DOMAIN kids[d] : kids[d][i] = n BY DEF FirstMatch
<1>2. n \in Node BY FirstMatchType DEF FsInv
<1>3. parent[n] = d /\ d # Nil BY <1>1 DEF TreeInv, TreeOK
<1> QED BY <1>2, <1>3 DEF TreeInv, TreeOK

\* find_in returns something when some entry has the name.
LEMMA MatchExists ==
  ASSUME FsInv, NEW d \in Node, NEW nm, Exists(d, nm)
  PROVE  FirstMatch(d, nm) # {}
<1> DEFINE T == {j \in DOMAIN kids[d] : name[kids[d][j]] = nm}
<1>1. DOMAIN kids[d] = 1..Len(kids[d]) /\ Len(kids[d]) \in Nat BY Chain DEF FsInv
<1>2. T \in SUBSET Nat /\ T # {} BY <1>1 DEF Exists
<1> HIDE DEF T
<1>3. PICK i \in T : \A m \in 0..(i - 1) : m \notin T BY <1>2, LeastIndex
<1>4. i \in DOMAIN kids[d] /\ name[kids[d][i]] = nm BY <1>3 DEF T
<1>5. \A k \in 1..(i - 1) : name[kids[d][k]] # nm
  <2> TAKE k \in 1..(i - 1)
  <2>1. k \in 0..(i - 1) /\ k \in DOMAIN kids[d] BY <1>1, <1>4
  <2> QED BY <1>3, <2>1 DEF T
<1> QED BY <1>4, <1>5 DEF FirstMatch

\* A node that a walk may stand on.
OnTree(n) == n = Nil \/ (n \in Node /\ Attached(n))

\* One component of a path leads from the tree to the tree.
LEMMA WalkOnTree ==
  ASSUME FsInv, TreeInv, NEW n, OnTree(n), NEW comp
  PROVE  OnTree(Walk(n, comp))
<1>1. CASE n = Nil \/ comp = "." BY <1>1 DEF Walk, OnTree
<1>2. CASE n # Nil /\ comp # "." /\ comp = ".."
  <2>1. n \in Node BY <1>2 DEF OnTree
  <2>2. Walk(n, comp) = IF parent[n] = Nil THEN n ELSE parent[n] BY <1>2 DEF Walk
  <2>3. parent[n] # Nil => parent[n] \in Node /\ Attached(parent[n])
    BY <2>1 DEF TreeInv, NoOrphans, FsInv, TreeType
  <2> QED BY <2>2, <2>3 DEF OnTree
<1>3. CASE n # Nil /\ comp # "." /\ comp # ".."
  <2>1. n \in Node BY <1>3 DEF OnTree
  <2>2. CASE ~Exists(n, comp) BY <1>3, <2>2 DEF Walk, OnTree
  <2>3. CASE Exists(n, comp)
    <3>1. Walk(n, comp) = CHOOSE m \in FirstMatch(n, comp) : TRUE BY <1>3, <2>3 DEF Walk
    <3>2. PICK m \in FirstMatch(n, comp) : Walk(n, comp) = m BY <2>1, <2>3, <3>1, MatchExists
    <3>3. m \in Node /\ parent[m] = n BY <2>1, MatchIsEntry
    <3> QED BY <1>3, <3>2, <3>3 DEF OnTree, Attached
  <2> QED BY <2>2, <2>3
<1> QED BY <1>1, <1>2, <1>3

\* The walk of fs_lookup, as the function that Lookup describes.
IsWalk(f, path, m) ==
  f = [i \in 0..m |-> IF i = 0 THEN (IF path.abs THEN Root ELSE cwd)
                      ELSE Walk(f[i - 1], path.comps[i])]

\* There is such a function, for a path of any length.
LEMMA WalkExists == ASSUME NEW path, NEW m \in Nat PROVE \E f : IsWalk(f, path, m)
<1> DEFINE T == {k \in Nat : ~\E f : IsWalk(f, path, k)}
<1>1. T \in SUBSET Nat OBVIOUS
<1>2. ASSUME T # {} PROVE FALSE
  <2> HIDE DEF T
  <2>1. PICK k \in T : \A j \in 0..(k - 1) : j \notin T BY <1>1, <1>2, LeastIndex
  <2>2. k \in Nat /\ ~\E f : IsWalk(f, path, k) BY <2>1 DEF T
  <2>3. CASE k = 0
    <3> DEFINE f == [i \in 0..k |-> IF path.abs THEN Root ELSE cwd]
    <3>1. \A i \in 0..k : i = 0 BY <2>3
    <3>2. IsWalk(f, path, k) BY <3>1 DEF IsWalk
    <3> QED BY <2>2, <3>2
  <2>4. CASE k > 0
    <3>1. k - 1 \in Nat /\ k - 1 \in 0..(k - 1) BY <2>2, <2>4
    <3>2. PICK g : IsWalk(g, path, k - 1) BY <2>1, <3>1 DEF T
    <3> DEFINE f == [i \in 0..k |-> IF i = k THEN Walk(g[k - 1], path.comps[k]) ELSE g[i]]
    <3>3. ASSUME NEW i \in 0..k
          PROVE  f[i] = IF i = 0 THEN (IF path.abs THEN Root ELSE cwd)
                        ELSE Walk(f[i - 1], path.comps[i])
      <4>1. CASE i = k
        <5>1. f[i] = Walk(g[k - 1], path.comps[k]) BY <4>1
        <5>2. f[k - 1] = g[k - 1] BY <2>2, <3>1
        <5> QED BY <2>4, <4>1, <5>1, <5>2
      <4>2. CASE i # k
        <5>1. f[i] = g[i] /\ i \in 0..(k - 1) BY <2>2, <4>2
        <5>2. g[i] = IF i = 0 THEN (IF path.abs THEN Root ELSE cwd)
                     ELSE Walk(g[i - 1], path.comps[i])
          BY <3>2, <5>1 DEF IsWalk
        <5>3. i # 0 => i - 1 \in 0..k /\ i - 1 # k BY <2>2, <5>1
        <5>4. i # 0 => f[i - 1] = g[i - 1] BY <5>3
        <5> HIDE DEF f
        <5> QED BY <5>1, <5>2, <5>4
      <4> QED BY <4>1, <4>2
    <3>4. f = [i \in 0..k |-> f[i]] OBVIOUS
    <3> HIDE DEF f
    <3>5. IsWalk(f, path, k)
      <4>1. [i \in 0..k |-> f[i]] = [i \in 0..k |-> IF i = 0 THEN (IF path.abs THEN Root ELSE cwd)
                                                   ELSE Walk(f[i - 1], path.comps[i])]
        BY <3>3
      <4> QED BY <3>4, <4>1 DEF IsWalk
    <3> QED BY <2>2, <3>5
  <2> QED BY <2>2, <2>3, <2>4
<1> QED BY <1>2

\* fs_lookup, started on the tree, ends on it or finds nothing.
LEMMA LookupOnTree ==
  ASSUME FsInv, TreeInv, cwd \in Node, NEW path \in Paths
  PROVE  OnTree(Lookup(path))
<1>1. PICK n \in Nat : n = Len(path.comps)
  <2>1. path.comps \in Seq(Names \cup {".", ".."}) BY PathsAssumption DEF PathsAssumption
  <2> QED BY <2>1, LenProperties
<1> DEFINE f == CHOOSE g : IsWalk(g, path, n)
<1>2. IsWalk(f, path, n) BY WalkExists
<1>3. Lookup(path) = f[n] BY <1>1 DEF Lookup, IsWalk
<1> HIDE DEF f
<1>4. f[0] = (IF path.abs THEN Root ELSE cwd)
      /\ \A i \in 1..n : f[i] = Walk(f[i - 1], path.comps[i])
  BY <1>2 DEF IsWalk
<1> DEFINE T == {i \in 0..n : ~OnTree(f[i])}
<1>5. ASSUME T # {} PROVE FALSE
  <2>1. T \in SUBSET Nat OBVIOUS
  <2> HIDE DEF T
  <2>2. PICK k \in T : \A j \in 0..(k - 1) : j \notin T BY <1>5, <2>1, LeastIndex
  <2>3. k \in 0..n /\ ~OnTree(f[k]) BY <2>2 DEF T
  <2>4. CASE k = 0
    <3>1. Attached(Root) /\ Attached(cwd) BY DEF TreeInv, NoOrphans, Attached
    <3> QED BY <1>4, <2>3, <2>4, <3>1 DEF OnTree
  <2>5. CASE k # 0
    <3>1. k \in 1..n /\ k - 1 \in 0..n /\ k - 1 \in 0..(k - 1) BY <2>3, <2>5
    <3>2. OnTree(f[k - 1]) BY <2>2, <3>1 DEF T
    <3>3. OnTree(Walk(f[k - 1], path.comps[k])) BY <3>2, WalkOnTree
    <3> QED BY <1>4, <2>3, <3>1, <3>3
  <2> QED BY <2>4, <2>5
<1> QED BY <1>3, <1>5

-----------------------------------------------------------------------------
\* Every step of the kernel keeps the tree.

\* The directory a builtin works in, and the root, are on the tree.
LEMMA HereAttached == ASSUME TreeInv PROVE Attached(cwd) /\ Attached(Root)
BY DEF TreeInv, NoOrphans, Attached

\* fs_create_file and fs_create_chardev.
LEMMA CreateTree ==
  ASSUME FsInv, TreeInv, NEW d \in Node, NEW nm \in Names, NEW k \in {"file", "char"},
         NEW n \in Pointer, CreateNode(d, nm, k, n), Attached(d), cwd \in Node, cwd' = cwd
  PROVE  TreeInv'
BY AddTree, SameTree DEF CreateNode, fsVars, treeVars

LEMMA BootTree == ASSUME IInv, TreeInv, Boot PROVE TreeInv'
<1> USE UserNamesOK DEF IInv
<1>0. cwd' = cwd /\ cwd \in Node
  BY DEF Boot, BootHome, BootDev, BootTty, BootBin, BootCreate, BootWrite, AtBoot, ShellType
<1>1. CASE BootHome \/ BootDev \/ BootBin
  BY <1>0, <1>1, HereAttached, AddTree DEF BootHome, BootDev, BootBin, FsMkdir, BootNames
<1>2. CASE BootTty
  <2>1. CASE UNCHANGED fsVars BY <1>0, <2>1, SameTree DEF fsVars, treeVars
  <2>2. CASE ~UNCHANGED fsVars
    <3>1. PICK d \in FirstMatch(Root, "dev"), n \in Node \cup {Nil} :
            CreateNode(d, "tty0", "char", n)
      BY <1>2, <2>2 DEF BootTty
    <3>2. d \in Node /\ Attached(d) BY MatchIsEntry DEF Attached
    <3> QED BY <1>0, <3>1, <3>2, CreateTree DEF BootNames
  <2> QED BY <2>1, <2>2
<1>3. CASE BootCreate
  <2>1. PICK d \in FirstMatch(Root, "bin"), n \in Node \cup {Nil} :
          CreateNode(d, "hello", "file", n)
    BY <1>3 DEF BootCreate
  <2>2. d \in Node /\ Attached(d) BY MatchIsEntry DEF Attached
  <2> QED BY <1>0, <2>1, <2>2, CreateTree DEF BootNames
<1>4. CASE BootWrite BY <1>0, <1>4, SameTree DEF BootWrite, FsWrite
<1> QED BY <1>1, <1>2, <1>3, <1>4 DEF Boot

LEMMA BuiltinTree == ASSUME IInv, TreeInv, Builtin PROVE TreeInv'
<1> USE UserNamesOK, HereAttached DEF IInv
<1>0. cwd \in Node BY DEF ShellType
<1>1. ASSUME NEW nm \in UserNames, Mkdir(nm) PROVE TreeInv'
  BY <1>0, <1>1, AddTree, SameTree DEF Mkdir, FsMkdir, fsVars, treeVars
<1>2. ASSUME NEW nm \in UserNames, Touch(nm) PROVE TreeInv'
  BY <1>0, <1>2, CreateTree DEF Touch
<1>3. ASSUME NEW nm \in UserNames, Rm(nm) PROVE TreeInv'
  <2>1. CASE UNCHANGED fsVars BY <1>3, <2>1, SameTree DEF Rm, fsVars, treeVars
  <2>2. CASE \E n \in FirstMatch(cwd, nm) : Removable(n) /\ FsUnlink(cwd, n)
    <3>1. PICK n \in FirstMatch(cwd, nm) : Removable(n) /\ FsUnlink(cwd, n) BY <2>2
    <3>2. n \in Node BY <1>0, MatchIsEntry
    <3>3. cwd' = cwd BY <1>3 DEF Rm
    <3> QED BY <1>0, <3>1, <3>2, <3>3, UnlinkTree
  <2> QED BY <1>3, <2>1, <2>2 DEF Rm
<1>4. ASSUME NEW nm \in UserNames, EditOpen(nm) PROVE TreeInv'
  BY <1>0, <1>4, CreateTree DEF EditOpen
<1>5. ASSUME NEW old \in UserNames, NEW new \in UserNames, Mv(old, new) PROVE TreeInv'
  <2>1. UNCHANGED <<ni, type, parent, kids, cwd>> BY <1>5 DEF Mv
  <2>2. CASE name' = name BY <2>1, <2>2, SameTree DEF treeVars
  <2>3. CASE name' # name
    <3>1. PICK n \in FirstMatch(cwd, old) :
            ~Exists(cwd, new) /\ name' = [name EXCEPT ![n] = Stored[new]]
      BY <1>5, <2>3 DEF Mv
    <3>2. n \in Node /\ parent[n] = cwd BY <1>0, MatchIsEntry
    <3> QED BY <1>0, <2>1, <3>1, <3>2, RenameTree
  <2> QED BY <2>2, <2>3
<1>6. ASSUME NEW src \in UserNames, NEW dst \in UserNames, Cp(src, dst) PROVE TreeInv'
  <2>1. CASE UNCHANGED fsVars BY <1>6, <2>1, SameTree DEF Cp, fsVars, treeVars
  <2>2. CASE ~UNCHANGED fsVars
    <3>1. PICK s \in FirstMatch(cwd, src) : CanAdd(cwd, dst) /\ FsClone(cwd, s, dst)
      BY <1>6, <2>2 DEF Cp
    <3>2. s \in Node /\ cwd' = cwd BY <1>0, <1>6, MatchIsEntry DEF Cp
    <3> QED BY <1>0, <3>1, <3>2, CloneTree
  <2> QED BY <2>1, <2>2
<1>7. ASSUME NEW path \in Paths, Cd(path) PROVE TreeInv'
  <2>1. UNCHANGED fsVars BY <1>7 DEF Cd
  <2>2. CASE cwd' = cwd BY <2>1, <2>2, SameTree DEF fsVars, treeVars
  <2>3. CASE cwd' # cwd
    <3>1. cwd' = Lookup(path) /\ cwd' \in Node BY <1>7, <2>3 DEF Cd
    <3>2. Attached(cwd') BY <1>0, <3>1, LookupOnTree DEF OnTree
    <3> QED BY <2>1, <3>2
         DEF fsVars, treeVars, TreeInv, TreeOK, NoOrphans, Attached, NamesUnique
  <2> QED BY <2>2, <2>3
<1>8. ASSUME NEW p \in Payloads, Show(p) PROVE TreeInv'
  BY <1>8, SameTree DEF Show, fsVars, treeVars
<1>9. ASSUME NEW p \in Payloads, EditSave(p) PROVE TreeInv'
  BY <1>9, SameTree DEF EditSave, FsWrite
<1>10. ASSUME EditAbort PROVE TreeInv'
  BY <1>10, SameTree DEF EditAbort, fsVars, treeVars
<1> QED BY <1>1, <1>2, <1>3, <1>4, <1>5, <1>6, <1>7, <1>8, <1>9, <1>10 DEF Builtin

LEMMA NextTree == IInv /\ TreeInv /\ [Next]_vars => TreeInv'
<1> SUFFICES ASSUME IInv, TreeInv, [Next]_vars PROVE TreeInv' OBVIOUS
<1> USE UserNamesOK, HereAttached DEF IInv
<1>0. cwd \in Node BY DEF ShellType
<1>1. ASSUME NEW nm \in UserNames, NEW append \in BOOLEAN, RedirOpen(nm, append)
      PROVE  TreeInv'
  BY <1>0, <1>1, CreateTree DEF RedirOpen
<1>2. CASE RedirWrite BY <1>2, SameTree DEF RedirWrite, FsWrite
<1>3. ASSUME NEW nm \in UserNames, SysOpen(nm) PROVE TreeInv'
  BY <1>0, <1>3, AddTree DEF SysOpen
<1>4. ASSUME NEW n \in Node, NEW p \in Payloads, SysWrite(n, p) PROVE TreeInv'
  BY <1>4, SameTree DEF SysWrite, FsWrite
<1>5. CASE UNCHANGED vars BY <1>5, SameTree DEF vars
<1> QED BY BootTree, BuiltinTree, <1>1, <1>2, <1>3, <1>4, <1>5 DEF Next

LEMMA TreeInvariance == Spec => []TreeInv
<1>1. Init => TreeInv
  BY DEF Init, TreeInv, TreeOK, NoOrphans, Attached, NamesUnique
<1> QED BY <1>1, Invariance, NextTree, PTL DEF Spec

\* add_child and fs_unlink keep the parent pointers and the chains in step: they
\* are one tree at every moment, so the walks to the root end.
THEOREM TreeStays == Spec => []TreeOK
<1>1. TreeInv => TreeOK BY DEF TreeInv
<1> QED BY <1>1, TreeInvariance, PTL

\* Whatever path cd is given and whatever rm removes, the shell stands in a
\* directory of the tree and nothing hangs below a removed one.
THEOREM NothingOrphaned == Spec => []NoOrphans
<1>1. TreeInv => NoOrphans BY DEF TreeInv
<1> QED BY <1>1, TreeInvariance, PTL

\* Creating, copying and renaming leave two entries with one name only where
\* the name field has cut a longer one.
THEOREM NamesApart == Spec => []NamesUnique
<1>1. TreeInv => NamesUnique BY DEF TreeInv
<1> QED BY <1>1, TreeInvariance, PTL

-----------------------------------------------------------------------------
\* Bytes stay put.

\* A step that writes nothing below the mark of the arena.
Kept == \A c \in Cells : c < aoff => arena'[c] = arena[c]

\* No step writes below the mark of the arena.
LEMMA ArenaKept == ASSUME IInv, [Next]_vars PROVE Kept
<1> USE DEF IInv
<1>1. aoff \in Nat BY DEF FsInv, DataType
<1>2. ASSUME UNCHANGED arena PROVE Kept BY <1>2 DEF Kept
<1>3. ASSUME NEW f, NEW b, Place(f, b) PROVE Kept
  BY <1>1, <1>3 DEF Place, Kept
<1>4. ASSUME NEW f, NEW b, NEW src, NEW append, FsWrite(f, b, src, append) PROVE Kept
  BY <1>2, <1>3, <1>4 DEF FsWrite, dataVars
<1>5. ASSUME NEW d, NEW s, NEW nm, FsClone(d, s, nm) PROVE Kept
  BY <1>1, <1>2, <1>5 DEF FsClone, dataVars, Kept
<1>6. CASE Boot
  BY <1>2, <1>4, <1>6
     DEF Boot, BootHome, BootDev, BootTty, BootBin, BootCreate, BootWrite, FsMkdir,
         CreateNode, fsVars
<1>7. CASE Builtin
  <2>1. ASSUME NEW nm \in UserNames, Mkdir(nm) \/ Touch(nm) \/ Rm(nm) \/ EditOpen(nm)
        PROVE  Kept
    BY <1>2, <2>1
       DEF Mkdir, Touch, Rm, EditOpen, FsMkdir, FsUnlink, CreateNode, fsVars, dataVars
  <2>2. ASSUME NEW old, NEW new, Mv(old, new) PROVE Kept BY <1>2, <2>2 DEF Mv, dataVars
  <2>3. ASSUME NEW src, NEW dst, Cp(src, dst) PROVE Kept BY <1>2, <1>5, <2>3 DEF Cp, fsVars
  <2>4. ASSUME NEW path, Cd(path) PROVE Kept BY <1>2, <2>4 DEF Cd, fsVars
  <2>5. ASSUME NEW p, Show(p) \/ EditSave(p) \/ EditAbort PROVE Kept
    BY <1>2, <1>4, <2>5 DEF Show, EditSave, EditAbort, fsVars
  <2> QED BY <1>7, <2>1, <2>2, <2>3, <2>4, <2>5 DEF Builtin
<1>8. ASSUME NEW nm, NEW append, RedirOpen(nm, append) PROVE Kept
  BY <1>2, <1>8 DEF RedirOpen, CreateNode, fsVars
<1>9. CASE RedirWrite BY <1>4, <1>9 DEF RedirWrite
<1>10. ASSUME NEW nm, SysOpen(nm) PROVE Kept BY <1>2, <1>10 DEF SysOpen
<1>11. ASSUME NEW n, NEW p, SysWrite(n, p) PROVE Kept BY <1>4, <1>11 DEF SysWrite
<1>12. CASE UNCHANGED vars BY <1>2, <1>12 DEF vars, dataVars
<1> QED BY <1>6, <1>7, <1>8, <1>9, <1>10, <1>11, <1>12 DEF Next

\* fs_write and fs_clone_file: with either backend the bytes of a file whose
\* extent a step leaves where it is do not change in that step, whatever it
\* places for other files, unless a write that found the arena full has left the
\* file pointing at one of the shell's buffers.
THEOREM BytesStay == Spec => BytesStayPut
<1> DEFINE Put == \A n \in Node :
                    /\ <<at[n], off[n], size[n]>>' = <<at[n], off[n], size[n]>>
                    /\ Content(n)' # Content(n)
                    => at[n] \in {"redir", "edit"}
<1>1. IInv /\ [Next]_vars => Put
  <2> SUFFICES ASSUME IInv, [Next]_vars, NEW n \in Node,
                      at'[n] = at[n], off'[n] = off[n], size'[n] = size[n],
                      at[n] \notin {"redir", "edit"}
               PROVE  Content(n)' = Content(n)
    OBVIOUS
  <2>1. CASE at[n] = "arena"
    <3>1. /\ off[n] \in Nat /\ size[n] \in Nat /\ off[n] + size[n] <= aoff
          /\ aoff \in 0..ArenaSize
      BY <2>1 DEF IInv, FsInv, DataType, DataOK
    <3>2. \A i \in 1..size[n] : arena'[off[n] + i - 1] = arena[off[n] + i - 1]
      <4> TAKE i \in 1..size[n]
      <4>1. off[n] + i - 1 \in Cells /\ off[n] + i - 1 < aoff BY <3>1
      <4> QED BY <4>1, ArenaKept DEF Kept
    <3> QED BY <2>1, <3>2 DEF Content
  <2>2. CASE at[n] \in {"none", "image"} BY <2>2 DEF Content
  <2> QED BY <2>1, <2>2 DEF IInv, FsInv, DataType
<1> HIDE DEF Put
<1>2. [Next]_vars /\ IInv => [Put]_vars BY <1>1
<1>3. Spec => [][Put]_vars BY <1>2, Invariance, PTL DEF Spec
<1> QED BY <1>3 DEF BytesStayPut, Put
=============================================================================

---------------------------- MODULE KeyboardProofs ----------------------------
(***************************************************************************)
(* Theorems about Keyboard, for rings, ports and lines of any size and any  *)
(* keys: every variable keeps its type, no modifier stays on after its key  *)
(* was released, and what is typed while the handler runs comes out of the  *)
(* drain in order and complete.                                             *)
(***************************************************************************)
EXTENDS Keyboard, SequenceTheorems, TLAPS

-----------------------------------------------------------------------------
\* Ring indices: what % RingSize gives within one turn of the ring.

\* An index of the ring is its own remainder.
LEMMA ModIn == ASSUME NEW x \in 0..(RingSize - 1) PROVE x % RingSize = x
BY SizesAssumption, SMTT(30)

\* One turn above the ring, a turn is taken off.
LEMMA ModOver == ASSUME NEW x \in RingSize..(2 * RingSize - 1)
                 PROVE  x % RingSize = x - RingSize
BY SizesAssumption, SMTT(30)

\* One turn below the ring, a turn is added.
LEMMA ModUnder == ASSUME NEW x \in (-RingSize)..(-1) PROVE x % RingSize = x + RingSize
BY SizesAssumption, SMTT(30)

\* The successor of an index stays in the ring and wraps at its end.
LEMMA SuccStep ==
  ASSUME NEW i \in 0..(RingSize - 1)
  PROVE  /\ Succ(i) \in 0..(RingSize - 1)
         /\ Succ(i) = IF i = RingSize - 1 THEN 0 ELSE i + 1
<1>1. CASE i = RingSize - 1
  BY <1>1, ModOver, SizesAssumption DEF Succ
<1>2. CASE i # RingSize - 1
  <2>1. i + 1 \in 0..(RingSize - 1) BY <1>2, SizesAssumption
  <2> QED BY <1>2, <2>1, ModIn DEF Succ
<1> QED BY <1>1, <1>2

\* The same for the index of the terminal's ring.
LEMMA TtyStep ==
  ASSUME NEW i \in 0..(TtySize - 1)
  PROVE  (i + 1) % TtySize = IF i = TtySize - 1 THEN 0 ELSE i + 1
BY SizesAssumption, SMTT(30)

\* The prefix is not the code of a key.
LEMMA PrefixIsNoKey == ASSUME NEW c \in Code PROVE c # E0
BY KeysAssumption DEF Code, E0

-----------------------------------------------------------------------------
\* Types.

\* Pushing a character leaves a ring with its indices inside.
LEMMA PushType ==
  ASSUME TypeOK, NEW c \in Char, Push(c)
  PROVE  /\ char_buf' \in [0..(RingSize - 1) -> Char]
         /\ char_head' \in 0..(RingSize - 1) /\ char_tail' \in 0..(RingSize - 1)
<1>1. Succ(char_head) \in 0..(RingSize - 1) /\ Succ(char_tail) \in 0..(RingSize - 1)
  BY SuccStep DEF TypeOK
<1> QED BY <1>1 DEF TypeOK, Push

\* The decoder keeps its variables typed, and so the ring and the burst.
LEMMA ProcessType ==
  ASSUME TypeOK, NEW code \in Code \cup {E0}, Process(code)
  PROVE  /\ modifiers' \subseteq Mods /\ extended' \in BOOLEAN
         /\ char_buf' \in [0..(RingSize - 1) -> Char]
         /\ char_head' \in 0..(RingSize - 1) /\ char_tail' \in 0..(RingSize - 1)
         /\ burst' \in Seq(Char)
<1>1. CASE code = E0 \/ extended
  BY <1>1 DEF TypeOK, Process, ringVars
<1>2. CASE code # E0 /\ ~extended
  <2>1. /\ modifiers' = UpdateModifier(modifiers, code.key, code.up) /\ extended' = extended
        /\ code \in Code
    BY <1>2 DEF Process
  <2>2. modifiers' \subseteq Mods
    BY <2>1 DEF UpdateModifier, TypeOK, Mods
  <2>3. CASE code.up \/ code.key \notin Typed
    BY <1>2, <2>1, <2>2, <2>3 DEF Process, TypeOK, ringVars
  <2>4. CASE ~(code.up \/ code.key \notin Typed)
    <3> DEFINE c == IF "shift" \in modifiers' THEN Shifted[code.key] ELSE Plain[code.key]
    <3>1. Push(c) /\ burst' = Append(burst, c) BY <1>2, <2>4 DEF Process
    <3>2. c \in Char BY <2>4 DEF Char
    <3>3. burst' \in Seq(Char) BY <3>1, <3>2 DEF TypeOK
    <3> HIDE DEF c
    <3> QED BY <2>1, <2>2, <3>1, <3>2, <3>3, PushType DEF TypeOK
  <2> QED BY <2>3, <2>4
<1> QED BY <1>1, <1>2

\* A character leaves the line inside its buffer.
LEMMA TakeCharType ==
  ASSUME TypeOK, NEW c, TakeChar(c)
  PROVE  reader' \in {"shell", "editor"} /\ len' \in 0..(LineSize - 1)
<1>1. \A l \in 0..(LineSize - 1) : AddChar(l) \in 0..(LineSize - 1)
  BY SizesAssumption DEF AddChar
<1>2. CASE c = "nl" BY <1>2, SizesAssumption DEF TakeChar, TypeOK
<1>3. CASE c = "bs"
  <2>1. len' = (IF len > 0 THEN len - 1 ELSE 0) /\ reader' = reader BY <1>3 DEF TakeChar
  <2>2. len \in 0..(LineSize - 1) /\ LineSize \in Nat BY SizesAssumption DEF TypeOK
  <2>3. len' \in 0..(LineSize - 1) BY <2>1, <2>2
  <2> QED BY <2>1, <2>3 DEF TypeOK
<1>4. CASE c = "tab" /\ reader = "editor" BY <1>1, <1>4 DEF TakeChar, TypeOK
<1>5. CASE c # "nl" /\ c # "bs" /\ ~(c = "tab" /\ reader = "editor")
  BY <1>1, <1>5 DEF TakeChar, TypeOK
<1> QED BY <1>2, <1>3, <1>4, <1>5

\* What the keyboard sends is appended to the port, and is bytes.
LEMMA KeyboardSends ==
  ASSUME TypeOK, Keyboard
  PROVE  /\ port' \in Seq(Code \cup {E0}) /\ held' \subseteq HoldKeys
         /\ due' \in {<<>>} \cup {<<c>> : c \in Code}
         /\ Len(burst) + Len(port') <= BurstCap
         /\ UNCHANGED <<decVars, ringVars, ttyVars, irq, burst, pollVars>>
<1>1. ASSUME NEW c \in Code \cup {E0}, Sends(<<c>>)
      PROVE  /\ port' \in Seq(Code \cup {E0}) /\ Len(burst) + Len(port') <= BurstCap
  <2>1. port' = port \o <<c>> BY <1>1 DEF Sends
  <2>2. Len(port') = Len(port) + 1 /\ port' \in Seq(Code \cup {E0})
    BY <2>1 DEF TypeOK
  <2>3. Len(burst) + Len(port) + 1 <= BurstCap BY <1>1 DEF Sends
  <2>4. Len(burst) \in Nat /\ Len(port) \in Nat BY DEF TypeOK
  <2> QED BY <2>2, <2>3, <2>4
<1>2. ASSUME NEW k \in Typed \cup HoldKeys, NEW up \in BOOLEAN, Key(k, up)
      PROVE  \E c \in Code \cup {E0} : Sends(<<c>>) /\ held' \subseteq HoldKeys /\ due' = <<>>
  <2>1. [key |-> k, up |-> up] \in Code BY DEF Code
  <2> QED BY <1>2, <2>1 DEF Key, TypeOK
<1>3. ASSUME NEW k \in HoldKeys, NEW up \in BOOLEAN, Prefix(k, up)
      PROVE  \E c \in Code \cup {E0} :
                Sends(<<c>>) /\ held' \subseteq HoldKeys /\ due' \in {<<d>> : d \in Code}
  <2>1. [key |-> k, up |-> up] \in Code BY DEF Code
  <2> QED BY <1>3, <2>1 DEF Prefix, TypeOK
<1>4. ASSUME Suffix
      PROVE  \E c \in Code \cup {E0} : Sends(<<c>>) /\ held' \subseteq HoldKeys /\ due' = <<>>
  BY <1>4 DEF Suffix, TypeOK
<1>5. \E c \in Code \cup {E0} :
        /\ Sends(<<c>>) /\ held' \subseteq HoldKeys
        /\ due' \in {<<>>} \cup {<<d>> : d \in Code}
  BY <1>2, <1>3, <1>4 DEF Keyboard
<1> QED BY <1>1, <1>5 DEF Keyboard

\* Draining a character keeps both rings typed.
LEMMA DrainType == ASSUME TypeOK, IrqDrain PROVE TypeOK'
<1>1. /\ char_buf[char_tail] \in Char /\ Succ(char_tail) \in 0..(RingSize - 1)
  BY SuccStep DEF TypeOK
<1>2. /\ char_tail' = Succ(char_tail) /\ TtyPut(char_buf[char_tail])
      /\ UNCHANGED <<keyVars, decVars, char_buf, char_head, irq, burst, pollVars>>
  BY DEF IrqDrain
<1>3. inbuf' \in [0..(TtySize - 1) -> Char] /\ in_head' \in 0..(TtySize - 1)
  <2>1. CASE in_head = TtySize - 1
    BY <1>2, <2>1, TtyStep DEF TtyPut, TypeOK, ttyVars
  <2>2. CASE in_head # TtySize - 1
    <3>1. (in_head + 1) % TtySize = in_head + 1 /\ in_head + 1 \in 0..(TtySize - 1) /\ in_head + 1 # 0
      BY <2>2, TtyStep, SizesAssumption DEF TypeOK
    <3> QED BY <1>1, <1>2, <3>1 DEF TtyPut, TypeOK
  <2> QED BY <2>1, <2>2
<1> QED BY <1>1, <1>2, <1>3 DEF TypeOK, keyVars, decVars, pollVars

\* A step of the readers keeps the types.
LEMMA PollType == ASSUME TypeOK, Poll PROVE TypeOK'
<1>1. UNCHANGED <<keyVars, decVars, char_buf, char_head, ttyVars, irq, burst>>
  BY DEF Poll
<1>2. /\ char_tail' \in 0..(RingSize - 1) /\ reg' \in 0..(RingSize - 1) /\ ch' \in Char
      /\ pc' \in {"serial", "head", "tail", "index", "char", "load", "store"}
      /\ reader' \in {"shell", "editor"} /\ len' \in 0..(LineSize - 1)
  <2>1. CASE PollSerial /\ UNCHANGED char_tail
    BY <2>1, TakeCharType DEF PollSerial, TypeOK
  <2>2. CASE LoadHead /\ UNCHANGED char_tail BY <2>2 DEF LoadHead, TypeOK
  <2>3. CASE LoadTail /\ UNCHANGED char_tail
    BY <2>3, SizesAssumption DEF LoadTail, TypeOK
  <2>4. CASE LoadIndex /\ UNCHANGED char_tail BY <2>4 DEF LoadIndex, TypeOK
  <2>5. CASE LoadChar /\ UNCHANGED char_tail
    BY <2>5, SizesAssumption DEF LoadChar, TypeOK
  <2>6. CASE LoadOld /\ UNCHANGED char_tail BY <2>6 DEF LoadOld, TypeOK
  <2>7. CASE StoreTail
    <3>1. Succ(reg) \in 0..(RingSize - 1) BY SuccStep DEF TypeOK
    <3>2. "nul" \in Char BY DEF Char
    <3> QED BY <2>7, <3>1, <3>2, TakeCharType, SizesAssumption DEF StoreTail, TypeOK
  <2> QED BY <2>1, <2>2, <2>3, <2>4, <2>5, <2>6, <2>7 DEF Poll
<1> QED BY <1>1, <1>2 DEF TypeOK, keyVars, decVars, ttyVars

\* The initial state is typed.
LEMMA InitType == Init => TypeOK
<1>1. "nul" \in Char BY DEF Char
<1>2. <<>> \in Seq(Code \cup {E0}) /\ <<>> \in Seq(Char) OBVIOUS
<1>3. 0 \in 0..(RingSize - 1) /\ 0 \in 0..(TtySize - 1) /\ 0 \in 0..(LineSize - 1)
  BY SizesAssumption
<1> SUFFICES ASSUME Init PROVE TypeOK OBVIOUS
<1>4. char_buf \in [0..(RingSize - 1) -> Char] /\ inbuf \in [0..(TtySize - 1) -> Char]
  BY <1>1 DEF Init
<1>5. port \in Seq(Code \cup {E0}) /\ burst \in Seq(Char) BY <1>2 DEF Init
<1> QED BY <1>1, <1>3, <1>4, <1>5 DEF Init, TypeOK

\* Every step keeps the types.
LEMMA NextType == TypeOK /\ [Next]_vars => TypeOK'
<1> SUFFICES ASSUME TypeOK, [Next]_vars PROVE TypeOK' OBVIOUS
<1>1. CASE Keyboard
  BY <1>1, KeyboardSends DEF TypeOK, decVars, ringVars, ttyVars, pollVars
<1>2. CASE IrqEnter
  BY <1>2 DEF IrqEnter, TypeOK, keyVars, decVars, ringVars, ttyVars, pollVars
<1>3. CASE IrqRead
  <2>1. Head(port) \in Code \cup {E0} /\ Tail(port) \in Seq(Code \cup {E0})
    BY <1>3 DEF IrqRead, TypeOK
  <2>2. Process(Head(port)) /\ port' = Tail(port)
        /\ UNCHANGED <<held, due, ttyVars, irq, pollVars>>
    BY <1>3 DEF IrqRead
  <2> QED BY <2>1, <2>2, ProcessType DEF TypeOK, ttyVars, pollVars
<1>4. CASE IrqNoMore
  BY <1>4 DEF IrqNoMore, TypeOK, keyVars, decVars, ringVars, ttyVars, pollVars
<1>5. CASE IrqDrain BY <1>5, DrainType
<1>6. CASE IrqReturn
  <2>1. <<>> \in Seq(Char) OBVIOUS
  <2> QED BY <1>6, <2>1 DEF IrqReturn, TypeOK, keyVars, decVars, ringVars, ttyVars, pollVars
<1>7. CASE Poll BY <1>7, PollType
<1>8. CASE UNCHANGED vars
  BY <1>8 DEF vars, TypeOK, keyVars, decVars, ringVars, ttyVars, pollVars
<1> QED BY <1>1, <1>2, <1>3, <1>4, <1>5, <1>6, <1>7, <1>8 DEF Next, Irq

\* Every variable has its type: in particular no index leaves its ring and no
\* line outgrows its buffer, whatever is typed and however slowly it is read.
THEOREM TypeCorrect == Spec => []TypeOK
<1> QED BY InitType, NextType, PTL DEF Spec

-----------------------------------------------------------------------------
\* No modifier stays on.

\* What the decoder has before it: the port, and the code that is due.
ahead == port \o due

\* The byte at place i is the code of a key that the decoder will look at:
\* no prefix precedes it, before the decoder or already read.
Counts(i) == /\ ahead[i] # E0
             /\ IF i = 1 THEN ~extended ELSE ahead[i - 1] # E0

\* The byte at place i will switch modifier m.
About(i, m) == Counts(i) /\ ahead[i].key \in HoldKeys /\ ModOf(ahead[i].key) = m

\* A key for modifier m is down.
Down(m) == \E k \in held : ModOf(k) = m

\* Every prefix is followed by the code it belongs to.
Paired == /\ extended => ahead # <<>> /\ ahead[1] # E0
          /\ \A i \in 1..Len(ahead) : ahead[i] = E0 => i < Len(ahead) /\ ahead[i + 1] # E0

\* What the decoder will believe of m once it has read all is true: its
\* present belief, or what the last byte about m says.
Tracked(m) ==
  /\ (\A i \in 1..Len(ahead) : ~About(i, m)) /\ m \in modifiers => Down(m)
  /\ \A i \in 1..Len(ahead) :
       About(i, m) /\ ~ahead[i].up /\ (\A j \in (i + 1)..Len(ahead) : ~About(j, m)) => Down(m)

ModInv == Paired /\ \A m \in Mods : Tracked(m)

\* A code is due exactly behind its prefix, which is the last byte of the port
\* or the one the decoder has read last.
DueInv == due # <<>> => IF port = <<>> THEN extended ELSE port[Len(port)] = E0

\* Bytes of either kind are before the decoder.
LEMMA AheadBytes ==
  ASSUME TypeOK
  PROVE  due \in Seq(Code \cup {E0}) /\ ahead \in Seq(Code \cup {E0})
<1> DEFINE S == Code \cup {E0}
<1>1. \A c \in Code : c \in S OBVIOUS
<1>2. port \in Seq(S) /\ due \in {<<>>} \cup {<<c>> : c \in Code} BY DEF TypeOK
<1> HIDE DEF S
<1>3. \A c \in S : <<c>> \in Seq(S) OBVIOUS
<1>4. due \in Seq(S)
  <2>1. CASE due = <<>> BY <2>1
  <2>2. CASE due # <<>>
    <3>1. PICK c \in Code : due = <<c>> BY <1>2, <2>2
    <3> QED BY <1>1, <1>3, <3>1
  <2> QED BY <2>1, <2>2
<1> QED BY <1>2, <1>4 DEF ahead, S

\* A step that leaves the keys, the bytes before the decoder and the decoder alone.
LEMMA ModStays ==
  ASSUME ModInv, UNCHANGED <<held, ahead, modifiers, extended>>
  PROVE  ModInv'
BY DEF ModInv, Paired, Tracked, About, Counts, Down

\* A key without a prefix: its code is the last byte, and it counts.
LEMMA ModKey ==
  ASSUME TypeOK, ModInv, NEW k \in Typed \cup HoldKeys, NEW up \in BOOLEAN,
         k \in HoldKeys /\ up => k \in held,
         Key(k, up), UNCHANGED <<modifiers, extended>>
  PROVE  ModInv'
<1> DEFINE e == [key |-> k, up |-> up]
<1>0. PICK n \in Nat : n = Len(ahead) BY AheadBytes
<1>1. e \in Code /\ e # E0 /\ e.key = k /\ e.up = up
  <2>1. e \in Code BY DEF Code
  <2> QED BY <2>1, PrefixIsNoKey
<1>2. /\ n \in Nat /\ Len(ahead') = n + 1
      /\ \A i \in 1..n : ahead'[i] = ahead[i]
      /\ ahead'[n + 1] = e
  <2>1. ahead' = ahead \o <<e>>
    <3>1. due = <<>> /\ due' = <<>> /\ port' = port \o <<e>> BY DEF Key, Sends
    <3>2. port \in Seq(Code \cup {E0}) /\ <<e>> \in Seq(Code \cup {E0})
      BY <1>1 DEF TypeOK
    <3> HIDE DEF e
    <3> QED BY <3>1, <3>2 DEF ahead
  <2>2. ahead \in Seq(Code \cup {E0}) BY AheadBytes
  <2> HIDE DEF e
  <2> QED BY <1>0, <2>1, <2>2
<1> HIDE DEF e
<1>3. Paired /\ \A m \in Mods : Tracked(m) BY DEF ModInv
<1>4. \A i \in 1..n : Counts(i)' <=> Counts(i)
  BY <1>2 DEF Counts
<1>5. Counts(n + 1)'
  <2>1. CASE n = 0
    <3>1. extended => n # 0 BY <1>0, <1>3, AheadBytes DEF Paired
    <3> QED BY <1>1, <1>2, <2>1, <3>1 DEF Counts
  <2>2. CASE n # 0
    <3>1. n \in 1..n /\ ahead[n] # E0 BY <1>0, <1>2, <1>3, <2>2 DEF Paired
    <3> QED BY <1>1, <1>2, <2>2, <3>1 DEF Counts
  <2> QED BY <2>1, <2>2
<1>6. Paired'
  <2>1. extended' => ahead' # <<>> /\ ahead'[1] # E0
    <3>1. extended => n # 0 /\ ahead[1] # E0 BY <1>0, <1>3, AheadBytes DEF Paired
    <3> QED BY <1>2, <3>1
  <2>2. ASSUME NEW i \in 1..(n + 1), ahead'[i] = E0 PROVE i < n + 1 /\ ahead'[i + 1] # E0
    <3>1. i \in 1..n /\ ahead[i] = E0 BY <1>1, <1>2, <2>2
    <3>2. i < n /\ ahead[i + 1] # E0 BY <1>0, <1>3, <3>1 DEF Paired
    <3> QED BY <1>2, <3>1, <3>2
  <2> QED BY <1>0, <1>2, <2>1, <2>2 DEF Paired
<1>7. ASSUME NEW m \in Mods PROVE Tracked(m)'
  <2>1. held' = IF k \notin HoldKeys THEN held
                ELSE IF up THEN held \ {k} ELSE held \cup {k}
    BY DEF Key
  <2>2. CASE k \in HoldKeys /\ ModOf(k) = m
    <3>1. About(n + 1, m)' BY <1>1, <1>2, <1>5, <2>2 DEF About
    <3>2. n + 1 \in 1..Len(ahead') BY <1>2
    <3>3. ~up => Down(m)' BY <2>1, <2>2 DEF Down
    <3>4. ASSUME NEW i \in 1..Len(ahead'), ~ahead'[i].up,
                 \A j \in (i + 1)..Len(ahead') : ~About(j, m)'
          PROVE  Down(m)'
      <4>1. i = n + 1 BY <1>2, <3>1, <3>4
      <4> QED BY <1>1, <1>2, <3>3, <3>4, <4>1
    <3> QED BY <3>1, <3>2, <3>4 DEF Tracked
  <2>3. CASE ~(k \in HoldKeys /\ ModOf(k) = m)
    <3>1. ~About(n + 1, m)' BY <1>1, <1>2, <2>3 DEF About
    <3>2. \A i \in 1..n : About(i, m)' <=> About(i, m) BY <1>2, <1>4 DEF About
    <3>3. Down(m) => Down(m)' BY <2>1, <2>3 DEF Down
    <3>4. Tracked(m) BY <1>3
    <3>5. (\A i \in 1..Len(ahead') : ~About(i, m)') /\ m \in modifiers' => Down(m)'
      BY <1>0, <1>2, <3>2, <3>3, <3>4 DEF Tracked
    <3>6. ASSUME NEW i \in 1..Len(ahead'), About(i, m)', ~ahead'[i].up,
                 \A j \in (i + 1)..Len(ahead') : ~About(j, m)'
          PROVE  Down(m)'
      <4>1. i \in 1..n /\ About(i, m) /\ ~ahead[i].up
        BY <1>2, <3>1, <3>2, <3>6
      <4>2. \A j \in (i + 1)..n : ~About(j, m) BY <1>2, <3>2, <3>6
      <4> QED BY <1>0, <3>3, <3>4, <4>1, <4>2 DEF Tracked
    <3> QED BY <3>5, <3>6 DEF Tracked
  <2> QED BY <2>2, <2>3
<1> QED BY <1>6, <1>7 DEF ModInv

\* A key with a prefix: neither of its two bytes counts.
LEMMA ModExtended ==
  ASSUME TypeOK, ModInv, NEW k \in HoldKeys, NEW up \in BOOLEAN,
         Prefix(k, up), UNCHANGED <<modifiers, extended>>
  PROVE  ModInv'
<1> DEFINE e == [key |-> k, up |-> up]
<1>0. PICK n \in Nat : n = Len(ahead) BY AheadBytes
<1>1. e \in Code /\ e # E0
  <2>1. e \in Code BY DEF Code
  <2> QED BY <2>1, PrefixIsNoKey
<1>2. /\ n \in Nat /\ Len(ahead') = n + 2
      /\ \A i \in 1..n : ahead'[i] = ahead[i]
      /\ ahead'[n + 1] = E0 /\ ahead'[n + 2] = e
  <2>1. ahead' = ahead \o <<E0, e>>
    <3>1. due = <<>> /\ due' = <<e>> /\ port' = port \o <<E0>> BY DEF Prefix, Sends
    <3>2. port \in Seq(Code \cup {E0}) BY DEF TypeOK
    <3> HIDE DEF e
    <3>3. ahead = port BY <3>1, <3>2 DEF ahead
    <3>4. ahead' = (port \o <<E0>>) \o <<e>> BY <3>1 DEF ahead
    <3> QED BY <1>1, <3>2, <3>3, <3>4
  <2>2. ahead \in Seq(Code \cup {E0}) BY AheadBytes
  <2> HIDE DEF e
  <2> QED BY <1>0, <2>1, <2>2
<1> HIDE DEF e
<1>3. Paired /\ \A m \in Mods : Tracked(m) BY DEF ModInv
<1>4. /\ \A i \in 1..n : Counts(i)' <=> Counts(i)
      /\ ~Counts(n + 1)' /\ ~Counts(n + 2)'
  BY <1>2 DEF Counts
<1>5. Paired'
  <2>1. extended' => ahead' # <<>> /\ ahead'[1] # E0
    <3>1. extended => n # 0 /\ ahead[1] # E0 BY <1>0, <1>3, AheadBytes DEF Paired
    <3> QED BY <1>2, <3>1
  <2>2. ASSUME NEW i \in 1..(n + 2), ahead'[i] = E0 PROVE i < n + 2 /\ ahead'[i + 1] # E0
    <3>1. CASE i = n + 1 BY <1>1, <1>2, <3>1
    <3>2. CASE i # n + 1
      <4>1. i \in 1..n /\ ahead[i] = E0 BY <1>1, <1>2, <2>2, <3>2
      <4>2. i < n /\ ahead[i + 1] # E0 BY <1>0, <1>3, <4>1 DEF Paired
      <4> QED BY <1>2, <4>1, <4>2
    <3> QED BY <3>1, <3>2
  <2> QED BY <1>0, <1>2, <2>1, <2>2 DEF Paired
<1>6. ASSUME NEW m \in Mods PROVE Tracked(m)'
  <2>1. /\ \A i \in 1..n : About(i, m)' <=> About(i, m)
        /\ ~About(n + 1, m)' /\ ~About(n + 2, m)'
    BY <1>2, <1>4 DEF About
  <2>2. Down(m)' <=> Down(m) BY DEF Prefix, Down
  <2>3. Tracked(m) BY <1>3
  <2>4. (\A i \in 1..Len(ahead') : ~About(i, m)') /\ m \in modifiers' => Down(m)'
    BY <1>0, <1>2, <2>1, <2>2, <2>3 DEF Tracked
  <2>5. ASSUME NEW i \in 1..Len(ahead'), About(i, m)', ~ahead'[i].up,
               \A j \in (i + 1)..Len(ahead') : ~About(j, m)'
        PROVE  Down(m)'
    <3>1. i \in 1..n /\ About(i, m) /\ ~ahead[i].up BY <1>2, <2>1, <2>5
    <3>2. \A j \in (i + 1)..n : ~About(j, m) BY <1>2, <2>1, <2>5
    <3> QED BY <1>0, <2>2, <2>3, <3>1, <3>2 DEF Tracked
  <2> QED BY <2>4, <2>5 DEF Tracked
<1> QED BY <1>5, <1>6 DEF ModInv

\* The code that was due comes: nothing changes for the decoder.
LEMMA ModSuffix ==
  ASSUME TypeOK, ModInv, Suffix, UNCHANGED <<modifiers, extended>>
  PROVE  ModInv'
<1>1. port' = port \o due /\ due' = <<>> /\ held' = held BY DEF Suffix, Sends
<1>2. ahead' = ahead BY <1>1, AheadBytes DEF ahead
<1> QED BY <1>1, <1>2, ModStays

\* Reading a byte: every other byte moves one place on and counts as before,
\* because the decoder remembers the prefix it has read.
LEMMA ModRead ==
  ASSUME TypeOK, ModInv, ahead # <<>>, Process(Head(ahead)), ahead' = Tail(ahead),
         UNCHANGED held
  PROVE  ModInv'
<1> DEFINE b == ahead[1]
           n == Len(ahead)
<1>1. /\ n \in Nat \ {0} /\ Len(ahead') = n - 1
      /\ \A i \in 1..(n - 1) : ahead'[i] = ahead[i + 1]
      /\ Head(ahead) = b /\ b \in Code \cup {E0}
  BY AheadBytes
<1>2. Paired /\ \A m \in Mods : Tracked(m) BY DEF ModInv
<1>3. 1 \in 1..n /\ (extended => b # E0) /\ (b = E0 => 1 < n /\ ahead[2] # E0)
  BY <1>1, <1>2 DEF Paired
<1>4. extended' <=> b = E0
  BY <1>1, <1>3 DEF Process, TypeOK
<1>5. \A i \in 1..(n - 1) : Counts(i)' <=> Counts(i + 1)
  <2> TAKE i \in 1..(n - 1)
  <2>1. CASE i = 1 BY <1>1, <1>4, <2>1 DEF Counts
  <2>2. CASE i # 1
    <3>1. i - 1 \in 1..(n - 1) /\ i + 1 # 1 /\ (i - 1) + 1 = i /\ (i + 1) - 1 = i BY <1>1, <2>2
    <3>2. ahead'[i] = ahead[i + 1] /\ ahead'[i - 1] = ahead[i] BY <1>1, <3>1
    <3> QED BY <2>2, <3>1, <3>2 DEF Counts
  <2> QED BY <2>1, <2>2
<1>6. Paired'
  <2>1. extended' => ahead' # <<>> /\ ahead'[1] # E0 BY <1>1, <1>3, <1>4
  <2>2. ASSUME NEW i \in 1..(n - 1), ahead'[i] = E0 PROVE i < n - 1 /\ ahead'[i + 1] # E0
    <3>1. i + 1 \in 1..n /\ ahead[i + 1] = E0 BY <1>1, <2>2
    <3>2. i + 1 < n /\ ahead[(i + 1) + 1] # E0 BY <1>2, <3>1 DEF Paired
    <3> QED BY <1>1, <3>2
  <2> QED BY <1>1, <2>1, <2>2 DEF Paired
<1>7. ASSUME NEW m \in Mods PROVE Tracked(m)'
  <2>1. \A i \in 1..(n - 1) : About(i, m)' <=> About(i + 1, m) BY <1>1, <1>5 DEF About
  <2>2. Tracked(m) BY <1>2
  <2>3. Down(m)' <=> Down(m) BY DEF Down
  <2>4. ASSUME \A i \in 1..(n - 1) : ~About(i, m)', m \in modifiers' PROVE Down(m)
    <3>1. \A j \in 2..n : ~About(j, m)
      <4> TAKE j \in 2..n
      <4>1. j - 1 \in 1..(n - 1) /\ (j - 1) + 1 = j BY <1>1
      <4> QED BY <2>1, <2>4, <4>1
    <3>2. CASE About(1, m)
      <4>1. b # E0 /\ ~extended /\ b.key \in HoldKeys /\ ModOf(b.key) = m
        BY <3>2 DEF About, Counts
      <4>2. modifiers' = UpdateModifier(modifiers, b.key, b.up)
        BY <1>1, <4>1 DEF Process
      <4>3. ~b.up BY <2>4, <4>1, <4>2 DEF UpdateModifier
      <4> QED BY <1>3, <2>2, <3>1, <3>2, <4>3 DEF Tracked
    <3>3. CASE ~About(1, m)
      <4>1. m \in modifiers
        <5>1. CASE b = E0 \/ extended BY <1>1, <2>4, <5>1 DEF Process
        <5>2. CASE b # E0 /\ ~extended
          <6>1. modifiers' = UpdateModifier(modifiers, b.key, b.up) BY <1>1, <5>2 DEF Process
          <6>2. ~(b.key \in HoldKeys /\ ModOf(b.key) = m) BY <3>3, <5>2 DEF About, Counts
          <6> QED BY <2>4, <6>1, <6>2 DEF UpdateModifier
        <5> QED BY <5>1, <5>2
      <4>2. \A i \in 1..n : ~About(i, m) BY <3>1, <3>3
      <4> QED BY <2>2, <4>1, <4>2 DEF Tracked
    <3> QED BY <3>2, <3>3
  <2>5. ASSUME NEW i \in 1..(n - 1), About(i, m)', ~ahead'[i].up,
               \A j \in (i + 1)..(n - 1) : ~About(j, m)'
        PROVE  Down(m)
    <3>1. i + 1 \in 1..n /\ About(i + 1, m) /\ ~ahead[i + 1].up BY <1>1, <2>1, <2>5
    <3>2. \A j \in ((i + 1) + 1)..n : ~About(j, m)
      <4> TAKE j \in ((i + 1) + 1)..n
      <4>1. j - 1 \in (i + 1)..(n - 1) /\ j - 1 \in 1..(n - 1) /\ (j - 1) + 1 = j BY <1>1
      <4> QED BY <2>1, <2>5, <4>1
    <3> QED BY <2>2, <3>1, <3>2 DEF Tracked
  <2> QED BY <1>1, <2>3, <2>4, <2>5 DEF Tracked
<1> QED BY <1>6, <1>7 DEF ModInv

\* The first byte of the port is the first before the decoder.
LEMMA AheadParts ==
  ASSUME NEW S, NEW s \in Seq(S), NEW t \in Seq(S), s # <<>>
  PROVE  /\ s \o t # <<>> /\ Head(s \o t) = Head(s)
         /\ Tail(s) \o t = Tail(s \o t)
BY HeadTailProperties, ConcatProperties

\* Every step keeps what the decoder believes true.
LEMMA ModStep == TypeOK /\ ModInv /\ [Next]_vars => ModInv'
<1> SUFFICES ASSUME TypeOK, ModInv, [Next]_vars PROVE ModInv' OBVIOUS
<1>1. CASE Keyboard
  <2>1. UNCHANGED <<modifiers, extended>> BY <1>1 DEF Keyboard, decVars
  <2>5. CASE Suffix BY <2>1, <2>5, ModSuffix
  <2>6. CASE ~Suffix
    <3>1. PICK k \in Typed \cup HoldKeys, up \in BOOLEAN :
            \/ (k \in HoldKeys /\ up => k \in held) /\ Key(k, up)
            \/ k \in HoldKeys /\ Prefix(k, up)
      BY <1>1, <2>6 DEF Keyboard
    <3>2. CASE (k \in HoldKeys /\ up => k \in held) /\ Key(k, up)
      BY <2>1, <3>2, ModKey
    <3>3. CASE k \in HoldKeys /\ Prefix(k, up) BY <2>1, <3>3, ModExtended
    <3> QED BY <3>1, <3>2, <3>3
  <2> QED BY <2>5, <2>6
<1>2. CASE IrqRead
  <2>1. /\ port # <<>> /\ Process(Head(port)) /\ port' = Tail(port)
        /\ UNCHANGED <<held, due>>
    BY <1>2 DEF IrqRead
  <2>2. port \in Seq(Code \cup {E0}) /\ due \in Seq(Code \cup {E0})
    BY AheadBytes DEF TypeOK
  <2>3. ahead # <<>> /\ Head(ahead) = Head(port) /\ ahead' = Tail(ahead)
    BY <2>1, <2>2, AheadParts DEF ahead
  <2> QED BY <2>1, <2>3, ModRead
<1>3. CASE IrqEnter \/ IrqNoMore \/ IrqDrain \/ IrqReturn
  BY <1>3, ModStays DEF IrqEnter, IrqNoMore, IrqDrain, IrqReturn, keyVars, decVars,
     ahead
<1>4. CASE Poll BY <1>4, ModStays DEF Poll, keyVars, decVars, ahead
<1>5. CASE UNCHANGED vars BY <1>5, ModStays DEF vars, keyVars, decVars, ahead
<1> QED BY <1>1, <1>2, <1>3, <1>4, <1>5 DEF Next, Irq

\* Every step keeps a code that is due behind its prefix.
LEMMA DueStep == TypeOK /\ DueInv /\ [Next]_vars => DueInv'
<1> SUFFICES ASSUME TypeOK, DueInv, [Next]_vars PROVE DueInv' OBVIOUS
<1>0. PICK n \in Nat : n = Len(port) BY DEF TypeOK
<1>1. CASE Keyboard
  <2>1. CASE due' = <<>> BY <2>1 DEF DueInv
  <2>2. CASE due' # <<>>
    <3>1. port' = port \o <<E0>> BY <1>1, <2>2 DEF Keyboard, Key, Prefix, Suffix, Sends
    <3>2. port \in Seq(Code \cup {E0}) BY DEF TypeOK
    <3>3. Len(port') = n + 1 /\ port'[n + 1] = E0 BY <1>0, <3>1, <3>2
    <3> QED BY <3>1, <3>2, <3>3 DEF DueInv
  <2> QED BY <2>1, <2>2
<1>2. CASE IrqRead
  <2>1. /\ port # <<>> /\ Process(Head(port)) /\ port' = Tail(port) /\ due' = due
    BY <1>2 DEF IrqRead
  <2>2. /\ n # 0 /\ Len(port') = n - 1 /\ \A i \in 1..(n - 1) : port'[i] = port[i + 1]
        /\ Head(port) = port[1] /\ port' \in Seq(Code \cup {E0})
    <3>1. port \in Seq(Code \cup {E0}) BY DEF TypeOK
    <3> QED BY <1>0, <2>1, <3>1
  <2>3. CASE due = <<>> BY <2>1, <2>3 DEF DueInv
  <2>4. CASE due # <<>> /\ n = 1
    <3>1. port[1] = E0 BY <1>0, <2>1, <2>4 DEF DueInv
    <3>2. extended' BY <2>1, <2>2, <3>1 DEF Process
    <3>3. port' = <<>> BY <2>2, <2>4
    <3> QED BY <3>2, <3>3 DEF DueInv
  <2>5. CASE due # <<>> /\ n # 1
    <3>1. n - 1 \in 1..(n - 1) /\ (n - 1) + 1 = n /\ n - 1 # 0 BY <2>2, <2>5
    <3>2. port[n] = E0 BY <1>0, <2>1, <2>5 DEF DueInv
    <3>3. port'[n - 1] = E0 BY <2>2, <3>1, <3>2
    <3>4. port' # <<>> BY <2>2, <3>1
    <3> QED BY <2>2, <3>3, <3>4 DEF DueInv
  <2> QED BY <2>3, <2>4, <2>5
<1>3. CASE IrqEnter \/ IrqNoMore \/ IrqDrain \/ IrqReturn
  BY <1>3 DEF IrqEnter, IrqNoMore, IrqDrain, IrqReturn, keyVars, decVars, DueInv
<1>4. CASE Poll BY <1>4 DEF Poll, keyVars, decVars, DueInv
<1>5. CASE UNCHANGED vars BY <1>5 DEF vars, keyVars, decVars, DueInv
<1> QED BY <1>1, <1>2, <1>3, <1>4, <1>5 DEF Next, Irq

\* keymap_process_scancode and update_modifier: once every byte sent is decoded,
\* a modifier is on only while a key for it is down, and a prefix waits exactly
\* while its code has not been sent, however presses, repeats, prefixed keys
\* (whole, or cut in two by the return of the handler) and interrupts interleave.
THEOREM ModifiersTrue == Spec => []NoStuckModifier
<1>1. Init => ModInv /\ DueInv
  <2>1. Init => ahead = <<>> BY DEF Init, ahead
  <2> QED BY <2>1 DEF Init, ModInv, Paired, Tracked, DueInv
<1>2. TypeOK /\ ModInv /\ DueInv => NoStuckModifier
  <2> SUFFICES ASSUME TypeOK, ModInv, DueInv, port = <<>> PROVE NoStuckModifier
    BY DEF NoStuckModifier
  <2>1. ahead = due BY DEF ahead, TypeOK
  <2>2. extended <=> due # <<>> BY <2>1 DEF ModInv, Paired, DueInv
  <2>3. \A i \in 1..Len(ahead), m \in Mods : ~About(i, m)
    <3>1. Len(ahead) \in {0, 1} /\ (due = <<>> => Len(ahead) = 0)
      BY <2>1 DEF TypeOK
    <3> QED BY <2>2, <3>1 DEF About, Counts
  <2>4. \A m \in modifiers : m \in Mods BY DEF TypeOK
  <2>5. \A m \in modifiers : Down(m) BY <2>3, <2>4 DEF ModInv, Tracked
  <2> QED BY <2>2, <2>5 DEF NoStuckModifier, Down
<1> QED BY <1>1, <1>2, ModStep, DueStep, TypeCorrect, PTL DEF Spec

-----------------------------------------------------------------------------
\* The burst reaches the terminal.

\* Going d places on in the ring.
LEMMA ForwardIn ==
  ASSUME NEW i \in 0..(RingSize - 1), NEW d \in 0..RingSize
  PROVE  /\ (i + d) % RingSize = IF i + d < RingSize THEN i + d ELSE i + d - RingSize
         /\ (i + d) % RingSize \in 0..(RingSize - 1)
<1>1. CASE i + d < RingSize
  <2>1. i + d \in 0..(RingSize - 1) BY <1>1, SizesAssumption
  <2> QED BY <1>1, <2>1, ModIn
<1>2. CASE i + d >= RingSize
  <2>1. i + d \in RingSize..(2 * RingSize - 1) /\ i + d - RingSize \in 0..(RingSize - 1)
    BY <1>2, SizesAssumption
  <2> QED BY <1>2, <2>1, ModOver, SizesAssumption
<1> QED BY <1>1, <1>2, SizesAssumption

\* Going d places back in the ring.
LEMMA BackIn ==
  ASSUME NEW i \in 0..(RingSize - 1), NEW d \in 0..RingSize
  PROVE  /\ (i - d) % RingSize = IF i >= d THEN i - d ELSE i - d + RingSize
         /\ (i - d) % RingSize \in 0..(RingSize - 1)
<1>1. CASE i >= d
  <2>1. i - d \in 0..(RingSize - 1) BY <1>1, SizesAssumption
  <2> QED BY <1>1, <2>1, ModIn
<1>2. CASE i < d
  <2>1. i - d \in (-RingSize)..(-1) /\ i - d + RingSize \in 0..(RingSize - 1)
    BY <1>2, SizesAssumption
  <2> QED BY <1>2, <2>1, ModUnder, SizesAssumption
<1> QED BY <1>1, <1>2, SizesAssumption

\* A sequence that agrees with the end of another is a suffix of it.
LEMMA SuffixByPlace ==
  ASSUME NEW S, NEW s \in Seq(S), NEW t \in Seq(S), Len(s) <= Len(t),
         \A i \in 1..Len(s) : s[i] = t[Len(t) - Len(s) + i]
  PROVE  IsSuffix(s, t)
<1>1. /\ Reverse(s) \in Seq(S) /\ Len(Reverse(s)) = Len(s)
      /\ Reverse(t) \in Seq(S) /\ Len(Reverse(t)) = Len(t)
  <2>1. /\ \A i \in 1..Len(s) : s[(Len(s) - i) + 1] \in S
        /\ \A i \in 1..Len(t) : t[(Len(t) - i) + 1] \in S
    OBVIOUS
  <2> QED BY <2>1, IsASeq DEF Reverse
<1>2. ASSUME NEW i \in 1..Len(s) PROVE Reverse(s)[i] = Reverse(t)[i]
  <2>1. i \in 1..Len(t) /\ (Len(s) - i) + 1 \in 1..Len(s) OBVIOUS
  <2>2. s[(Len(s) - i) + 1] = t[Len(t) - Len(s) + ((Len(s) - i) + 1)] BY <2>1
  <2>3. Len(t) - Len(s) + ((Len(s) - i) + 1) = (Len(t) - i) + 1 OBVIOUS
  <2> QED BY <2>1, <2>2, <2>3 DEF Reverse
<1>3. SubSeq(Reverse(s), 1, Len(s)) = SubSeq(Reverse(t), 1, Len(s))
  <2>1. /\ SubSeq(Reverse(s), 1, Len(s)) = [i \in 1..Len(s) |-> Reverse(s)[i]]
        /\ SubSeq(Reverse(t), 1, Len(s)) = [i \in 1..Len(s) |-> Reverse(t)[i]]
    BY <1>1, SMTT(30)
  <2> QED BY <1>2, <2>1
<1> QED BY <1>1, <1>3 DEF IsSuffix, IsPrefix

\* Characters in the decoder's ring.
Fill == (char_head - char_tail) % RingSize

\* The j-th character of those in the terminal and then in the ring.
OnTheWay(j) == IF j <= in_head THEN inbuf[j - 1]
               ELSE char_buf[(char_tail + (j - in_head - 1)) % RingSize]

\* While the handler reads, the characters of this run are the newest of the
\* ring, wherever the readers have left its tail; the keyboard cannot send so
\* many in one run that they push each other out.  While it drains they are
\* the last of those in the terminal and in the ring.
BurstInv ==
  /\ Len(burst) + Len(port) <= BurstCap
  /\ irq = "off" => burst = <<>>
  /\ irq = "read" =>
       /\ Len(burst) <= Fill
       /\ \A i \in 1..Len(burst) :
            burst[i] = char_buf[(char_head - (Len(burst) - i + 1)) % RingSize]
  /\ irq = "drain" /\ in_head < TtySize - 1 =>
       /\ Len(burst) <= in_head + Fill
       /\ \A i \in 1..Len(burst) : burst[i] = OnTheWay(in_head + Fill - Len(burst) + i)

\* The indices as plain numbers.
LEMMA Indices ==
  ASSUME TypeOK
  PROVE  /\ RingSize \in Nat /\ RingSize >= 2 /\ TtySize \in Nat /\ TtySize >= 2
         /\ char_head \in Nat /\ char_head < RingSize
         /\ char_tail \in Nat /\ char_tail < RingSize
         /\ in_head \in Nat /\ in_head < TtySize
BY SizesAssumption DEF TypeOK

\* How many characters the ring holds, without a remainder.
LEMMA FillIs ==
  ASSUME TypeOK
  PROVE  /\ Fill = IF char_head >= char_tail THEN char_head - char_tail
                   ELSE char_head - char_tail + RingSize
         /\ Fill \in 0..(RingSize - 1)
<1>1. char_tail \in 0..RingSize BY SizesAssumption DEF TypeOK
<1> QED BY <1>1, BackIn DEF Fill, TypeOK

\* A pushed character becomes the newest, and the others keep their places
\* behind it: the tail gives way only to the oldest of a full ring, and the
\* run's own characters do not fill it.
LEMMA PushBurst ==
  ASSUME TypeOK, NEW c \in Char, Push(c), TypeOK', Len(burst) < BurstCap,
         burst' = Append(burst, c), Len(burst) <= Fill,
         \A i \in 1..Len(burst) :
            burst[i] = char_buf[(char_head - (Len(burst) - i + 1)) % RingSize]
  PROVE  /\ Len(burst') <= Fill'
         /\ \A i \in 1..Len(burst') :
              burst'[i] = char_buf'[(char_head' - (Len(burst') - i + 1)) % RingSize]
<1>0. PICK n \in Nat : n = Len(burst) BY DEF TypeOK
<1>1. n + 1 <= RingSize - 1 BY <1>0, SizesAssumption
<1>2. Len(burst') = n + 1 /\ burst'[n + 1] = c /\ \A i \in 1..n : burst'[i] = burst[i]
  BY <1>0 DEF TypeOK
<1>3. char_head' = (IF char_head = RingSize - 1 THEN 0 ELSE char_head + 1)
  BY SuccStep DEF Push, TypeOK
<1>t. /\ RingSize \in Nat /\ RingSize >= 2
      /\ char_head \in Nat /\ char_head < RingSize
      /\ char_tail \in Nat /\ char_tail < RingSize
      /\ char_head' \in Nat /\ char_head' < RingSize
      /\ char_tail' \in Nat /\ char_tail' < RingSize
  BY Indices, SizesAssumption DEF TypeOK
<1>f. n <= Fill BY <1>0
<1>4. Len(burst') <= Fill'
  <2>1. /\ Fill = IF char_head >= char_tail THEN char_head - char_tail
                  ELSE char_head - char_tail + RingSize
        /\ Fill' = IF char_head' >= char_tail' THEN char_head' - char_tail'
                   ELSE char_head' - char_tail' + RingSize
    <3>1. TypeOK => Fill = IF char_head >= char_tail THEN char_head - char_tail
                           ELSE char_head - char_tail + RingSize
      BY FillIs
    <3>2. (TypeOK => Fill = IF char_head >= char_tail THEN char_head - char_tail
                            ELSE char_head - char_tail + RingSize)'
      BY FillIs, PTL
    <3> QED BY <3>1, <3>2
  <2>2. CASE char_head' = char_tail
    <3>1. char_tail' = IF char_tail = RingSize - 1 THEN 0 ELSE char_tail + 1
      BY <2>2, SuccStep DEF Push, TypeOK
    <3> QED BY <1>1, <1>2, <1>3, <1>t, <2>1, <2>2, <3>1
  <2>3. CASE char_head' # char_tail
    <3>1. char_tail' = char_tail BY <2>3 DEF Push
    <3> QED BY <1>0, <1>2, <1>3, <1>t, <2>1, <2>3, <3>1, <1>f
  <2> QED BY <2>2, <2>3
<1>5. ASSUME NEW i \in 1..(n + 1)
      PROVE  burst'[i] = char_buf'[(char_head' - (n + 1 - i + 1)) % RingSize]
  <2>1. CASE i = n + 1
    <3>1. (char_head' - (n + 1 - i + 1)) % RingSize = char_head
      <4>1. 1 \in 0..RingSize /\ n + 1 - i + 1 = 1 BY <2>1, SizesAssumption
      <4>2. (char_head' - 1) % RingSize
              = IF char_head' >= 1 THEN char_head' - 1 ELSE char_head' - 1 + RingSize
        BY <4>1, BackIn DEF TypeOK
      <4>3. PICK h \in Nat : h = char_head' BY <1>t
      <4>4. (IF h >= 1 THEN h - 1 ELSE h - 1 + RingSize) = char_head BY <1>3, <1>t, <4>3
      <4> QED BY <4>1, <4>2, <4>3, <4>4
    <3>2. char_buf'[char_head] = c BY DEF Push, TypeOK
    <3> QED BY <1>2, <2>1, <3>1, <3>2
  <2>2. CASE i # n + 1
    <3>1. i \in 1..n /\ n - i + 1 \in 0..RingSize /\ n + 1 - i + 1 \in 0..RingSize
      BY <1>1, <1>t, <2>2
    <3>2. (char_head' - (n + 1 - i + 1)) % RingSize
            = IF char_head' >= n + 1 - i + 1 THEN char_head' - (n + 1 - i + 1)
              ELSE char_head' - (n + 1 - i + 1) + RingSize
      BY <3>1, BackIn DEF TypeOK
    <3>3. /\ (char_head - (n - i + 1)) % RingSize
               = IF char_head >= n - i + 1 THEN char_head - (n - i + 1)
                 ELSE char_head - (n - i + 1) + RingSize
          /\ (char_head - (n - i + 1)) % RingSize \in 0..(RingSize - 1)
      BY <3>1, BackIn DEF TypeOK
    <3>4. (char_head' - (n + 1 - i + 1)) % RingSize = (char_head - (n - i + 1)) % RingSize
      BY <1>1, <1>3, <1>t, <3>1, <3>2, <3>3
    <3>5. (char_head - (n - i + 1)) % RingSize # char_head
      BY <1>1, <1>t, <3>1, <3>3
    <3>6. char_buf'[(char_head - (n - i + 1)) % RingSize]
            = char_buf[(char_head - (n - i + 1)) % RingSize]
      BY <3>3, <3>5 DEF Push, TypeOK
    <3>7. burst[i] = char_buf[(char_head - (n - i + 1)) % RingSize] BY <1>0, <3>1
    <3> QED BY <1>2, <3>1, <3>4, <3>6, <3>7
  <2> QED BY <2>1, <2>2
<1>6. \A i \in 1..Len(burst') :
        burst'[i] = char_buf'[(char_head' - (Len(burst') - i + 1)) % RingSize]
  BY <1>2, <1>5
<1> QED BY <1>4, <1>6

\* Reading a byte, with or without a character.
LEMMA ReadBurst == ASSUME TypeOK, TypeOK', BurstInv, IrqRead PROVE BurstInv'
<1>1. /\ irq = "read" /\ irq' = "read" /\ port # <<>> /\ port' = Tail(port)
      /\ Process(Head(port)) /\ Head(port) \in Code \cup {E0}
      /\ Len(port') = Len(port) - 1 /\ Len(port) \in Nat /\ Len(burst) \in Nat
  <2>1. /\ irq = "read" /\ irq' = "read" /\ port # <<>> /\ port' = Tail(port)
        /\ Process(Head(port))
    BY DEF IrqRead
  <2>2. port \in Seq(Code \cup {E0}) /\ Len(burst) \in Nat BY DEF TypeOK
  <2> HIDE DEF Process
  <2>3. Head(port) \in Code \cup {E0} /\ Len(port') = Len(port) - 1 /\ Len(port) \in Nat
    BY <2>1, <2>2
  <2> QED BY <2>1, <2>2, <2>3
<1>2. /\ Len(burst) + Len(port) <= BurstCap /\ Len(burst) <= Fill
      /\ \A i \in 1..Len(burst) :
           burst[i] = char_buf[(char_head - (Len(burst) - i + 1)) % RingSize]
  BY <1>1 DEF BurstInv
<1>3. CASE UNCHANGED <<ringVars, burst>>
  BY <1>1, <1>2, <1>3, SizesAssumption DEF BurstInv, ringVars, Fill
<1>4. CASE ~UNCHANGED <<ringVars, burst>>
  <2>1. PICK c \in Char : Push(c) /\ burst' = Append(burst, c)
    <3> DEFINE code == Head(port)
               d == IF "shift" \in modifiers' THEN Shifted[code.key] ELSE Plain[code.key]
    <3>1. /\ Push(d) /\ burst' = Append(burst, d) /\ code.key \in Typed
      BY <1>1, <1>4 DEF Process
    <3>2. d \in Char BY <3>1 DEF Char
    <3> QED BY <3>1, <3>2
  <2>2. Len(burst) < BurstCap /\ Len(port) > 0 BY <1>1, <1>2, SizesAssumption
  <2>3. /\ Len(burst') <= Fill'
        /\ \A i \in 1..Len(burst') :
             burst'[i] = char_buf'[(char_head' - (Len(burst') - i + 1)) % RingSize]
    BY <1>2, <2>1, <2>2, PushBurst
  <2>4. Len(burst') = Len(burst) + 1 BY <2>1 DEF TypeOK
  <2> QED BY <1>1, <1>2, <2>3, <2>4, SizesAssumption DEF BurstInv
<1> QED BY <1>3, <1>4

\* The newest of the ring, counted from its tail.
LEMMA NewestOnTheWay ==
  ASSUME TypeOK, Len(burst) <= Fill,
         \A i \in 1..Len(burst) :
            burst[i] = char_buf[(char_head - (Len(burst) - i + 1)) % RingSize]
  PROVE  \A i \in 1..Len(burst) : burst[i] = OnTheWay(in_head + Fill - Len(burst) + i)
<1>3. PICK n \in Nat : n = Len(burst) BY DEF TypeOK
<1>4. PICK f \in 0..(RingSize - 1) :
        f = Fill /\ f = (IF char_head >= char_tail THEN char_head - char_tail
                         ELSE char_head - char_tail + RingSize)
  BY FillIs
<1>t. /\ RingSize \in Nat /\ RingSize >= 2 /\ in_head \in Nat /\ n <= f
      /\ char_head \in Nat /\ char_head < RingSize
      /\ char_tail \in Nat /\ char_tail < RingSize
  BY <1>3, <1>4, Indices
<1>5. ASSUME NEW i \in 1..n PROVE burst[i] = OnTheWay(in_head + f - n + i)
  <2>1. f - n + i - 1 \in 0..RingSize /\ n - i + 1 \in 0..RingSize
    BY <1>t
  <2>2. /\ ~(in_head + f - n + i <= in_head)
        /\ in_head + f - n + i - in_head - 1 = f - n + i - 1
    BY <1>t
  <2>3. OnTheWay(in_head + f - n + i) = char_buf[(char_tail + (f - n + i - 1)) % RingSize]
    BY <1>t, <2>2 DEF OnTheWay
  <2>4. (char_tail + (f - n + i - 1)) % RingSize = (char_head - (n - i + 1)) % RingSize
    <3>1. (char_tail + (f - n + i - 1)) % RingSize
            = IF char_tail + (f - n + i - 1) < RingSize THEN char_tail + (f - n + i - 1)
              ELSE char_tail + (f - n + i - 1) - RingSize
      BY <2>1, ForwardIn DEF TypeOK
    <3>2. (char_head - (n - i + 1)) % RingSize
            = IF char_head >= n - i + 1 THEN char_head - (n - i + 1)
              ELSE char_head - (n - i + 1) + RingSize
      BY <2>1, BackIn DEF TypeOK
    <3> QED BY <1>t, <1>4, <2>1, <3>1, <3>2
  <2> QED BY <1>3, <2>3, <2>4
<1> QED BY <1>3, <1>4, <1>5

\* From reading to draining nothing moves.
LEMMA NoMoreBurst == ASSUME TypeOK, BurstInv, IrqNoMore PROVE BurstInv'
<1>1. /\ irq = "read" /\ irq' = "drain"
      /\ UNCHANGED <<keyVars, decVars, ringVars, ttyVars, burst, pollVars>>
  BY DEF IrqNoMore
<1>2. /\ Len(burst) + Len(port) <= BurstCap /\ Len(burst) <= Fill
      /\ \A i \in 1..Len(burst) : burst[i] = OnTheWay(in_head + Fill - Len(burst) + i)
  BY <1>1, NewestOnTheWay DEF BurstInv
<1>3. Len(burst) <= in_head + Fill
  <2>1. Len(burst) \in Nat /\ Fill \in Int BY FillIs DEF TypeOK
  <2> QED BY <1>2, <2>1, Indices
<1> QED BY <1>1, <1>2, <1>3 DEF BurstInv, Fill, OnTheWay, keyVars, ringVars, ttyVars

\* A drained character moves from the front of the ring to the end of the
\* terminal's, and so keeps its place among those on the way.
LEMMA DrainBurst == ASSUME TypeOK, TypeOK', BurstInv, IrqDrain PROVE BurstInv'
<1>1. /\ irq = "drain" /\ irq' = "drain" /\ char_head # char_tail
      /\ TtyPut(char_buf[char_tail]) /\ char_tail' = Succ(char_tail)
      /\ UNCHANGED <<port, char_buf, char_head, burst>>
  BY DEF IrqDrain, keyVars
<1>2. Len(burst) + Len(port) <= BurstCap BY DEF BurstInv
<1>3. CASE in_head = TtySize - 1
  <2>1. in_head' = in_head BY <1>1, <1>3, TtyStep DEF TtyPut, TypeOK, ttyVars
  <2> QED BY <1>1, <1>2, <1>3, <2>1, SizesAssumption DEF BurstInv
<1>4. CASE in_head # TtySize - 1
  <2>1. /\ in_head < TtySize - 1 /\ in_head' = in_head + 1
        /\ inbuf' = [inbuf EXCEPT ![in_head] = char_buf[char_tail]]
    <3>1. (in_head + 1) % TtySize = in_head + 1 /\ in_head + 1 # 0 /\ in_head < TtySize - 1
      BY <1>4, TtyStep, SizesAssumption DEF TypeOK
    <3> QED BY <1>1, <3>1 DEF TtyPut
  <2>2. PICK h \in 0..(TtySize - 1), n \in Nat, f \in 0..(RingSize - 1) :
          /\ h = in_head /\ n = Len(burst) /\ f = Fill
          /\ f = (IF char_head >= char_tail THEN char_head - char_tail
                  ELSE char_head - char_tail + RingSize)
    <3>1. in_head \in 0..(TtySize - 1) /\ Len(burst) \in Nat
      BY DEF TypeOK
    <3> QED BY <3>1, FillIs
  <2>3. n <= h + f /\ \A i \in 1..n : burst[i] = OnTheWay(h + f - n + i)
    BY <1>1, <2>1, <2>2 DEF BurstInv
  <2>4. char_tail' = IF char_tail = RingSize - 1 THEN 0 ELSE char_tail + 1
    BY <1>1, SuccStep DEF TypeOK
  <2>t. /\ RingSize \in Nat /\ RingSize >= 2 /\ TtySize \in Nat
        /\ char_head \in Nat /\ char_head < RingSize
        /\ char_tail \in Nat /\ char_tail < RingSize /\ char_tail' \in Nat
    BY <2>4, Indices
  <2>5. f >= 1 /\ Fill' = f - 1
    <3>1. (TypeOK => Fill = IF char_head >= char_tail THEN char_head - char_tail
                            ELSE char_head - char_tail + RingSize)'
      BY FillIs, PTL
    <3> QED BY <1>1, <2>2, <2>4, <2>t, <3>1
  <2>6. ASSUME NEW j \in 1..(h + f) PROVE OnTheWay(j)' = OnTheWay(j)
    <3>1. CASE j <= h
      <4>1. j - 1 \in 0..(TtySize - 1) /\ j - 1 # h /\ j <= h + 1 BY <2>t, <3>1
      <4>2. inbuf'[j - 1] = inbuf[j - 1] BY <2>1, <2>2, <4>1 DEF TypeOK
      <4> QED BY <2>1, <2>2, <3>1, <4>1, <4>2 DEF OnTheWay
    <3>2. CASE j = h + 1
      <4>1. OnTheWay(j)' = char_buf[char_tail] BY <2>1, <2>2, <3>2 DEF OnTheWay, TypeOK
      <4>2. OnTheWay(j) = char_buf[char_tail % RingSize]
        <5>1. ~(j <= h) /\ char_tail + (j - h - 1) = char_tail BY <3>2 DEF TypeOK
        <5> QED BY <2>2, <5>1 DEF OnTheWay
      <4> QED BY <4>1, <4>2, ModIn DEF TypeOK
    <3>3. CASE j > h + 1
      <4>1. j - h - 1 \in 0..RingSize /\ j - h - 2 \in 0..RingSize BY <2>2, <3>3, SizesAssumption
      <4>2. (char_tail + (j - h - 1)) % RingSize
              = IF char_tail + (j - h - 1) < RingSize THEN char_tail + (j - h - 1)
                ELSE char_tail + (j - h - 1) - RingSize
        BY <4>1, ForwardIn DEF TypeOK
      <4>3. (char_tail' + (j - h - 2)) % RingSize
              = IF char_tail' + (j - h - 2) < RingSize THEN char_tail' + (j - h - 2)
                ELSE char_tail' + (j - h - 2) - RingSize
        BY <4>1, ForwardIn DEF TypeOK
      <4>4. (char_tail' + (j - h - 2)) % RingSize = (char_tail + (j - h - 1)) % RingSize
        BY <2>2, <2>4, <3>3, <4>1, <4>2, <4>3, SizesAssumption DEF TypeOK
      <4>5. OnTheWay(j) = char_buf[(char_tail + (j - h - 1)) % RingSize]
        BY <2>2, <3>3 DEF OnTheWay
      <4>6. OnTheWay(j)' = char_buf'[(char_tail' + (j - h - 2)) % RingSize]
        <5>1. j - in_head' - 1 = j - h - 2 /\ ~(j <= in_head') BY <2>1, <2>2, <3>3
        <5> QED BY <5>1 DEF OnTheWay
      <4> QED BY <1>1, <4>4, <4>5, <4>6
    <3> QED BY <3>1, <3>2, <3>3
  <2>7. Len(burst') = n /\ in_head' + Fill' = h + f /\ burst' = burst
    BY <1>1, <2>1, <2>2, <2>5
  <2>8. \A i \in 1..n : h + f - n + i \in 1..(h + f) BY <2>3
  <2>9. \A i \in 1..n : burst'[i] = OnTheWay(h + f - n + i)' BY <2>3, <2>6, <2>7, <2>8
  <2>10. (\A i \in 1..Len(burst) : burst[i] = OnTheWay(in_head + Fill - Len(burst) + i))'
    <3>1. \A i \in 1..n : in_head' + Fill' - n + i = h + f - n + i BY <2>1, <2>2, <2>5, <2>t
    <3> QED BY <2>7, <2>9, <3>1
  <2> QED BY <1>1, <1>2, <2>3, <2>7, <2>10 DEF BurstInv
<1> QED BY <1>3, <1>4

\* Every step keeps the run's characters together.
LEMMA BurstStep == TypeOK /\ TypeOK' /\ BurstInv /\ [Next]_vars => BurstInv'
<1> SUFFICES ASSUME TypeOK, TypeOK', BurstInv, [Next]_vars PROVE BurstInv' OBVIOUS
<1>1. CASE Keyboard
  BY <1>1, KeyboardSends DEF BurstInv, Fill, OnTheWay, ringVars, ttyVars
<1>2. CASE IrqEnter
  <2>1. burst = <<>> /\ burst' = <<>> /\ Fill' = Fill BY <1>2 DEF IrqEnter, BurstInv, ringVars, Fill
  <2>2. irq' = "read" /\ UNCHANGED port BY <1>2 DEF IrqEnter, keyVars
  <2> QED BY <2>1, <2>2, FillIs, SizesAssumption DEF BurstInv
<1>3. CASE IrqRead BY <1>3, ReadBurst
<1>4. CASE IrqNoMore BY <1>4, NoMoreBurst
<1>5. CASE IrqDrain BY <1>5, DrainBurst
<1>6. CASE IrqReturn
  <2>1. burst' = <<>> /\ irq' = "off" /\ port' = port BY <1>6 DEF IrqReturn, keyVars
  <2>2. Len(burst) \in Nat /\ Len(port) \in Nat BY DEF TypeOK
  <2> QED BY <2>1, <2>2, SizesAssumption DEF BurstInv
<1>7. CASE Poll
  <2>1. irq = "off" /\ irq' = "off" /\ burst' = burst /\ port' = port BY <1>7 DEF Poll, keyVars
  <2> QED BY <2>1 DEF BurstInv
<1>8. CASE UNCHANGED vars
  BY <1>8 DEF vars, keyVars, ringVars, ttyVars, BurstInv, Fill, OnTheWay
<1> QED BY <1>1, <1>2, <1>3, <1>4, <1>5, <1>6, <1>7, <1>8 DEF Next, Irq

\* What is on the way, as the property counts it.
LEMMA BurstOnTheWay == ASSUME TypeOK, BurstInv PROVE BurstReachesTty
<1> SUFFICES ASSUME in_head < TtySize - 1
    PROVE IsSuffix(burst, TtyChars \o RingChars)
  BY DEF BurstReachesTty
<1>1. PICK n \in Nat, f \in 0..(RingSize - 1) :
        n = Len(burst) /\ f = Fill
  BY FillIs DEF TypeOK
<1>t. /\ RingSize \in Nat /\ TtySize \in Nat /\ in_head \in Nat /\ in_head < TtySize
      /\ char_tail \in Nat /\ char_tail < RingSize
  BY Indices
<1>2. /\ TtyChars \in Seq(Char) /\ Len(TtyChars) = in_head
      /\ \A j \in 1..in_head : TtyChars[j] = inbuf[j - 1]
  <2>1. \A j \in 1..in_head : inbuf[j - 1] \in Char BY <1>t DEF TypeOK
  <2>2. in_head \in Nat BY DEF TypeOK
  <2> QED BY <2>1, <2>2, IsASeq DEF TtyChars
<1>3. /\ RingChars \in Seq(Char) /\ Len(RingChars) = f
      /\ \A j \in 1..f : RingChars[j] = char_buf[(char_tail + j - 1) % RingSize]
  <2>1. \A j \in 1..f : char_buf[(char_tail + j - 1) % RingSize] \in Char
    <3> TAKE j \in 1..f
    <3>1. j - 1 \in 0..RingSize /\ char_tail + (j - 1) = char_tail + j - 1
      BY SizesAssumption DEF TypeOK
    <3>2. (char_tail + j - 1) % RingSize \in 0..(RingSize - 1)
      BY <3>1, ForwardIn DEF TypeOK
    <3> QED BY <3>2 DEF TypeOK
  <2>2. RingChars = [j \in 1..f |-> char_buf[(char_tail + j - 1) % RingSize]]
    BY <1>1 DEF RingChars, Fill
  <2> QED BY <2>1, <2>2, IsASeq
<1> DEFINE all == TtyChars \o RingChars
<1>4. /\ all \in Seq(Char) /\ Len(all) = in_head + f
      /\ \A j \in 1..(in_head + f) : all[j] = OnTheWay(j)
  <2>1. all \in Seq(Char) /\ Len(all) = in_head + f BY <1>t, <1>2, <1>3, ConcatProperties
  <2>2. ASSUME NEW j \in 1..(in_head + f) PROVE all[j] = OnTheWay(j)
    <3>1. CASE j <= in_head BY <1>2, <1>3, <3>1 DEF OnTheWay, TypeOK
    <3>2. CASE j > in_head
      <4>1. j - in_head \in 1..f BY <3>2 DEF TypeOK
      <4>a. ~(j <= in_head) /\ j \in 1..(Len(TtyChars) + Len(RingChars))
        BY <1>t, <1>1, <1>2, <1>3, <3>2
      <4>2. all[j] = RingChars[j - in_head]
        <5>1. \A i \in 1..(Len(TtyChars) + Len(RingChars)) :
                all[i] = IF i <= Len(TtyChars) THEN TtyChars[i] ELSE RingChars[i - Len(TtyChars)]
          BY <1>2, <1>3, ConcatProperties
        <5> HIDE DEF all
        <5> QED BY <1>2, <4>a, <5>1
      <4>3. char_tail + (j - in_head) - 1 = char_tail + (j - in_head - 1) BY DEF TypeOK
      <4> QED BY <1>3, <3>2, <4>1, <4>2, <4>3 DEF OnTheWay, TypeOK
    <3>3. j <= in_head \/ j > in_head BY <1>t, <1>1
    <3> QED BY <3>1, <3>2, <3>3
  <2> QED BY <2>1, <2>2
<1>5. n <= in_head + f /\ \A i \in 1..n : burst[i] = OnTheWay(in_head + f - n + i)
  <2>1. CASE irq = "off" BY <1>1, <2>1 DEF BurstInv, TypeOK
  <2>2. CASE irq = "drain" BY <1>1, <2>2 DEF BurstInv
  <2>3. CASE irq = "read"
    <3>1. n <= in_head + f BY <1>1, <2>3 DEF BurstInv, TypeOK
    <3>2. \A i \in 1..n : burst[i] = OnTheWay(in_head + f - n + i)
      BY <1>1, <2>3, NewestOnTheWay DEF BurstInv
    <3> QED BY <3>1, <3>2
  <2> QED BY <2>1, <2>2, <2>3 DEF TypeOK
<1> HIDE DEF all
<1>6. ASSUME NEW i \in 1..n PROVE burst[i] = all[Len(all) - n + i]
  <2>1. in_head + f - n + i \in 1..(in_head + f) BY <1>t, <1>1, <1>5
  <2>2. all[in_head + f - n + i] = OnTheWay(in_head + f - n + i) BY <1>4, <2>1
  <2>3. burst[i] = OnTheWay(in_head + f - n + i) BY <1>5
  <2>4. PICK m \in Nat : m = Len(all) /\ m = in_head + f BY <1>t, <1>4
  <2>5. Len(all) - n + i = in_head + f - n + i
    <3> DEFINE k == Len(all)
    <3>1. k = in_head + f BY <2>4
    <3> HIDE DEF k
    <3>2. k - n + i = in_head + f - n + i BY <1>t, <3>1
    <3> QED BY <3>2 DEF k
  <2> HIDE DEF OnTheWay
  <2> QED BY <2>2, <2>3, <2>5
<1>7. IsSuffix(burst, all)
  BY <1>1, <1>4, <1>5, <1>6, SuffixByPlace DEF TypeOK
<1> QED BY <1>7 DEF all

\* irq_kbd.c and kbd_drain_to_tty: the characters typed while the handler runs
\* come out of the drain in order and complete, as long as the terminal has
\* room, in whatever state the readers' pops were interrupted.
THEOREM BurstComplete == Spec => []BurstReachesTty
<1>1. Init => BurstInv
  BY SizesAssumption DEF Init, BurstInv
<1> QED BY <1>1, BurstStep, BurstOnTheWay, TypeCorrect, PTL DEF Spec
=============================================================================

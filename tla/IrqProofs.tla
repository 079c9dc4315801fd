------------------------------ MODULE IrqProofs ------------------------------
(***************************************************************************)
(* Proofs about Irq, for every size of the rings and every keyboard.  The    *)
(* strengthening has four parts: the controllers (which lines can be served  *)
(* at all), the stub's stack, the order of the boot, and the question        *)
(* mouse_init asks of the keyboard controller.                               *)
(***************************************************************************)
EXTENDS Irq, SequenceTheorems, TLAPS

USE DEF Lines, NoLine, Timer, Kbd, Cascade, Unused, Mouse

Unmasked == {Timer, Kbd, Mouse}
PicInv == /\ boot \in {"irq_init", "kbd_install", "timer_install", "idt_enable", "up"}
          /\ boot = "up" => Cascade \in imr
          /\ imr \subseteq Lines /\ irr \subseteq Unmasked
          /\ boot # "irq_init" => imr = Lines \ Unmasked
          /\ serving \in {NoLine, Timer, Kbd, Unused}
          /\ boot # "up" => serving = NoLine
          /\ AllAcknowledged

\* The registers never change but for the time a handler runs, and what it
\* changes is on the stack.
StackInv == /\ regs = [r \in Regs |-> r]
            /\ serving = NoLine => stack = <<>>
            /\ \A l : serving = l /\ l # NoLine => stack = PushAll(l)

BootInv == /\ boot \in {"timer_install", "idt_enable", "up"} => Kbd \in handlers
           /\ boot \in {"idt_enable", "up"} => Timer \in handlers
           /\ boot # "up" => serving = NoLine
           /\ serving \in {NoLine, Timer, Kbd, Unused}

-----------------------------------------------------------------------------
\* The stub.

LEMMA SavedLength == Len(Saved) = 11 /\ DOMAIN Saved = 1..11
BY DEF Saved

\* Above the number lie the registers as they were, one after the other.
LEMMA Pushed ==
  ASSUME NEW l, regs = [r \in Regs |-> r]
  PROVE  /\ Len(PushAll(l)) = 12 /\ DOMAIN PushAll(l) = 1..12
         /\ PushAll(l)[1] = l
         /\ \A i \in 2..12 : PushAll(l)[i] = Saved[i - 1]
<1> DEFINE S == {l} \cup Regs
           up == [i \in DOMAIN Saved |-> regs[Saved[i]]]
<1>1. \A i \in 1..11 : Saved[i] \in Regs
  BY SavedLength DEF Regs, ToSet
<1>2. \A i \in 1..11 : up[i] = Saved[i]
  BY <1>1, SavedLength
<1>3. up \in [1..11 -> S]
  BY <1>1, <1>2, SavedLength
<1>4. up \in Seq(S) /\ Len(up) = 11
  BY <1>3
<1> DEFINE num == <<l>>
<1>5. num \in Seq(S) /\ Len(num) = 1 /\ num[1] = l
  OBVIOUS
<1>6. PushAll(l) = num \o up
  BY DEF PushAll
<1> DEFINE both == num \o up
<1> HIDE DEF up, S, num
<1>7. /\ both \in Seq(S)
      /\ Len(both) = Len(num) + Len(up)
      /\ \A i \in 1 .. Len(num) + Len(up) :
            both[i] = IF i <= Len(num) THEN num[i] ELSE up[i - Len(num)]
  BY <1>4, <1>5, ConcatProperties, Zenon
<1> HIDE DEF both
<1>8. both \in Seq(S) /\ Len(both) = 12 /\ DOMAIN both = 1..12
  BY <1>4, <1>5, <1>7
<1>9. \A i \in 1..12 : both[i] = IF i <= 1 THEN num[i] ELSE up[i - 1]
  BY <1>4, <1>5, <1>7
<1>10. both[1] = l
  BY <1>5, <1>9
<1>11. \A i \in 2..12 : both[i] = Saved[i - 1]
  BY <1>2, <1>9
<1>12. QED
  BY <1>6, <1>8, <1>10, <1>11 DEF both

\* The stub tells the dispatcher the line it was entered for.
LEMMA NumberOfPushed ==
  ASSUME NEW l, regs = [r \in Regs |-> r]
  PROVE  Number(PushAll(l)) = l
<1>1. Len(PushAll(l)) = 12 /\ PushAll(l)[1] = l
  BY Pushed
<1>2. QED
  BY <1>1 DEF Number

\* The pops mirror the pushes: the i-th from the top is the i-th from the end.
LEMMA PopsMirror ==
  /\ Len(Popped) = 11 /\ DOMAIN Popped = 1..11
  /\ \A i \in 1..11 : Popped[i] = Saved[12 - i]
  /\ ToSet(Popped) = ToSet(Saved)
<1>1. Len(Popped) = 11 /\ DOMAIN Popped = 1..11
  BY DEF Popped
<1>2. ASSUME NEW i \in 1..11 PROVE Popped[i] = Saved[12 - i]
  <2>1. i \in {1, 2, 3, 4, 5, 6, 7, 8, 9, 10, 11}
    OBVIOUS
  <2>2. QED
    BY <2>1 DEF Popped, Saved
<1>3. ToSet(Popped) \subseteq ToSet(Saved)
  BY <1>1, <1>2, SavedLength DEF ToSet
<1>4. ToSet(Saved) \subseteq ToSet(Popped)
  <2>1. ASSUME NEW k \in 1..11 PROVE Saved[k] = Popped[12 - k] /\ 12 - k \in 1..11
    <3>1. 12 - k \in 1..11 /\ 12 - (12 - k) = k
      OBVIOUS
    <3>2. QED
      BY <1>2, <3>1
  <2>2. QED
    BY <1>1, <2>1, SavedLength DEF ToSet
<1>5. QED
  BY <1>1, <1>2, <1>3, <1>4

LEMMA PoppedIsPushed ==
  ASSUME NEW l, regs = [r \in Regs |-> r], NEW r \in ToSet(Popped)
  PROVE  PopAll(PushAll(l), r) = r
<1> DEFINE P(i) == i \in 1..11 /\ Popped[i] = r
<1>1. PICK k \in 1..11 : Popped[k] = r
  BY PopsMirror DEF ToSet
<1>2. PICK i : P(i) /\ i = CHOOSE j : P(j)
  <2>1. P(k)
    BY <1>1
  <2> HIDE DEF P
  <2>2. P(CHOOSE j : P(j))
    BY <2>1, Zenon
  <2>3. QED
    BY <2>2
<1>3. (CHOOSE j \in DOMAIN Popped : Popped[j] = r) = i
  BY <1>2, PopsMirror
<1>i. i \in 1..11 /\ Popped[i] = r
  BY <1>2
<1> HIDE DEF P
<1>4. PopAll(PushAll(l), r) = PushAll(l)[13 - i]
  <2>1. Len(PushAll(l)) + 1 - i = 13 - i
    <3>1. Len(PushAll(l)) = 12
      BY Pushed
    <3> DEFINE n == Len(PushAll(l))
    <3>2. n = 12
      BY <3>1
    <3> HIDE DEF n
    <3>3. n + 1 - i = 13 - i
      BY <1>i, <3>2
    <3>4. QED
      BY <3>3 DEF n
  <2>2. QED
    BY <1>3, <2>1 DEF PopAll
<1>5. 13 - i \in 2..12 /\ (13 - i) - 1 = 12 - i
  BY <1>i
<1>6. PushAll(l)[13 - i] = Saved[12 - i]
  BY <1>5, Pushed
<1>7. QED
  BY <1>i, <1>4, <1>6, PopsMirror

\* After the way back all registers hold what they held at the interrupt, and
\* the number of the line is off the stack too.
LEMMA LeaveRestores ==
  ASSUME StackInv, serving # NoLine, Leave
  PROVE  regs' = [r \in Regs |-> r] /\ stack' = <<>>
<1>1. \A r \in Regs : r \notin ToSet(Popped) => r \notin Scratch
  BY SavedLength, PopsMirror DEF Regs, Scratch, ToSet, Saved
<1>2. \A r \in ToSet(Popped) : PopAll(stack, r) = r
  BY PoppedIsPushed DEF StackInv
<1>3. regs' = [r \in Regs |-> r]
  BY <1>1, <1>2 DEF StackInv, Leave
<1>4. Len(stack) = 12
  BY Pushed DEF StackInv
<1>5. stack' = SubSeq(stack, 1, 0)
  BY <1>4, PopsMirror DEF Leave, Unwound
<1>6. QED
  BY <1>3, <1>5

-----------------------------------------------------------------------------
\* The steps that leave the processor where it is, and those that do not.

Quiet == KeyArrives \/ MouseMoves \/ Pulse \/ KbdReads \/ KbdSeesNoMore \/ KbdDrains
         \/ Reader \/ MouseInit
Ends == KbdReturns \/ TimerIrq \/ Unhandled

LEMMA NextSplits ==
  NextIrq <=> Quiet \/ Boot \/ (\E l \in Lines : Deliver(l)) \/ Spurious \/ Ends
BY DEF NextIrq, Devices, Serve, Quiet, Ends

LEMMA RaisedLines == Raised \subseteq {Kbd, Mouse}
BY DEF Raised

LEMMA QuietKeeps ==
  ASSUME Quiet
  PROVE  /\ UNCHANGED <<boot, imr, isr, cpuVars>> /\ irr' \subseteq irr \cup Unmasked
         /\ handlers \subseteq handlers' /\ handlers' \subseteq handlers \cup {Mouse}
<1> USE RaisedLines DEF QueueChanges, Unmasked, picVars, cpuVars
<1>1. CASE KeyArrives
  BY <1>1 DEF KeyArrives
<1>2. CASE MouseMoves
  BY <1>2 DEF MouseMoves
<1>3. CASE Pulse
  BY <1>3 DEF Pulse
<1>4. CASE KbdReads
  BY <1>4 DEF KbdReads
<1>5. CASE KbdSeesNoMore
  BY <1>5 DEF KbdSeesNoMore
<1>6. CASE KbdDrains
  BY <1>6 DEF KbdDrains
<1>7. CASE Reader
  BY <1>7 DEF Reader
<1>8. CASE MouseInit
  <2>1. CASE AskConfig \/ MouseCommand
    BY <1>8, <2>1 DEF MouseInit, AskConfig, MouseCommand, Ask
  <2>2. CASE ReadConfig \/ WriteConfig
    BY <1>8, <2>2 DEF MouseInit, ReadConfig, WriteConfig, Receive
  <2>3. CASE MouseAnswer
    BY <1>8, <2>3 DEF MouseInit, MouseAnswer, Receive, Install
  <2>4. QED
    BY <1>8, <2>1, <2>2, <2>3 DEF MouseInit
<1>9. QED
  BY <1>1, <1>2, <1>3, <1>4, <1>5, <1>6, <1>7, <1>8 DEF Quiet

LEMMA EndsLeave ==
  ASSUME Ends
  PROVE  serving # NoLine /\ Leave /\ UNCHANGED <<irr, imr, boot, handlers>>
BY DEF Ends, KbdReturns, TimerIrq, Unhandled, Leave

-----------------------------------------------------------------------------
\* The interrupted code finds its registers as it left them.

LEMMA StackFrame ==
  ASSUME StackInv, UNCHANGED cpuVars
  PROVE  StackInv'
<1>1. serving' = serving /\ stack' = stack /\ regs' = regs
  BY DEF cpuVars
<1>2. \A l : PushAll(l)' = PushAll(l)
  BY <1>1 DEF PushAll
<1>3. QED
  BY <1>1, <1>2 DEF StackInv

LEMMA StackNext == StackInv /\ [NextIrq]_irqVars => StackInv'
<1> SUFFICES ASSUME StackInv, [NextIrq]_irqVars
             PROVE  StackInv'
  OBVIOUS
<1>1. CASE Quiet
  BY <1>1, QuietKeeps, StackFrame
<1>2. CASE Boot
  BY <1>2, StackFrame DEF Boot
<1>3. ASSUME NEW l \in Lines, Enter(l)
      PROVE  StackInv'
  <2>1. serving' = l /\ stack' = PushAll(l) /\ regs' = regs
    BY <1>3, NumberOfPushed DEF Enter, StackInv
  <2>2. PushAll(l)' = PushAll(l)
    BY <2>1 DEF PushAll
  <2>3. QED
    BY <2>1, <2>2 DEF StackInv
<1>4. CASE \E l \in Lines : Deliver(l)
  BY <1>3, <1>4 DEF Deliver
<1>5. CASE Spurious
  BY <1>3, <1>5 DEF Spurious
<1>6. CASE Ends
  <2>1. regs' = [r \in Regs |-> r] /\ serving' = NoLine /\ stack' = <<>>
    BY <1>6, EndsLeave, LeaveRestores DEF Leave
  <2>2. QED
    BY <2>1 DEF StackInv
<1>7. CASE UNCHANGED irqVars
  BY <1>7, StackFrame DEF irqVars
<1>8. QED
  BY <1>1, <1>2, <1>4, <1>5, <1>6, <1>7, NextSplits

\* An interrupt at any point leaves the interrupted code's registers alone:
\* the stub's pops, in their own order, take back what it pushed, whatever a
\* handler does to the registers a C function may change, and leave the stack as
\* iretq needs it.
THEOREM InterruptsKeepRegisters == SpecIrq => []RegistersKept
<1>1. InitIrq => StackInv
  BY DEF InitIrq, StackInv
<1>2. StackInv => RegistersKept
  BY DEF StackInv, RegistersKept
<1>3. QED
  BY <1>1, <1>2, StackNext, PTL DEF SpecIrq

-----------------------------------------------------------------------------
\* Nothing stays in service.

\* Whatever line a handler served, the end-of-interrupt it is ended with
\* clears it, if it was the only one in service.
LEMMA EoiClears ==
  ASSUME NEW l \in {Timer, Kbd, Unused}, NEW s, s \subseteq {l}
  PROVE  PicEoi(s, l) = {}
<1>1. l \in 0..7 /\ l < 8
  OBVIOUS
<1>2. \A x \in s : x \in 0..7 /\ \A k \in s : ~(k < x)
  BY <1>1
<1>3. Eoi(s, 0..7) = {}
  BY <1>2 DEF Eoi
<1>4. QED
  BY <1>1, <1>3 DEF PicEoi

LEMMA PicNext == PicInv /\ StackInv /\ [NextIrq]_irqVars => PicInv'
<1> SUFFICES ASSUME PicInv, StackInv, [NextIrq]_irqVars
             PROVE  PicInv'
  OBVIOUS
<1> USE DEF PicInv, AllAcknowledged
<1>1. CASE Quiet
  BY <1>1, QuietKeeps DEF cpuVars
<1>2. CASE Boot
  <2>1. CASE IrqInit
    <3>1. imr' = Lines \ Unmasked
      BY <2>1 DEF IrqInit, PicClearMask, Unmasked
    <3>2. QED
      BY <1>2, <2>1, <3>1 DEF Boot, IrqInit, cpuVars, Unmasked
  <2>2. CASE ~IrqInit
    BY <1>2, <2>2 DEF Boot, StageAfter, cpuVars, picVars, Unmasked
  <2>3. QED
    BY <2>1, <2>2
<1>3. ASSUME NEW l \in Lines, Deliver(l)
      PROVE  PicInv'
  <2>1. l \in {Timer, Kbd}
    BY <1>3 DEF Deliver, Requests, Asserted, Unmasked
  <2>2. serving' = l
    BY <1>3, NumberOfPushed DEF Deliver, Enter, StackInv
  <2>3. isr' = {l}
    BY <1>3, <2>1 DEF Deliver
  <2>4. QED
    BY <1>3, <2>1, <2>2, <2>3 DEF Deliver, Enter
<1>4. CASE Spurious
  <2>1. serving' = Unused
    BY <1>4, NumberOfPushed DEF Spurious, Enter, StackInv
  <2>2. QED
    BY <1>4, <2>1 DEF Spurious, Enter
<1>5. CASE Ends
  <2>1. isr' = {} /\ serving' = NoLine
    BY <1>5, EndsLeave, EoiClears DEF Leave
  <2>2. QED
    BY <1>5, <2>1, EndsLeave
<1>6. CASE UNCHANGED irqVars
  BY <1>6 DEF irqVars, cpuVars, picVars
<1>7. QED
  BY <1>1, <1>2, <1>3, <1>4, <1>5, <1>6, NextSplits

LEMMA PicInit == InitIrq => PicInv /\ StackInv
BY DEF InitIrq, PicInv, StackInv, AllAcknowledged

\* When no handler runs no line is in service, and a running handler's line
\* only: neither a spurious request nor one nobody handles leaves a bit that
\* would hold back the lines below it.
THEOREM NothingStaysInService == SpecIrq => []AllAcknowledged
<1>1. PicInv /\ StackInv => AllAcknowledged
  BY DEF PicInv
<1>2. QED
  BY <1>1, PicInit, PicNext, StackNext, PTL DEF SpecIrq

-----------------------------------------------------------------------------
\* Handlers are known before requests come.

LEMMA BootNext == BootInv /\ PicInv' /\ [NextIrq]_irqVars => BootInv'
<1> SUFFICES ASSUME BootInv, PicInv', [NextIrq]_irqVars
             PROVE  BootInv'
  OBVIOUS
<1> USE DEF BootInv
<1>1. CASE Quiet
  BY <1>1, QuietKeeps DEF cpuVars
<1>2. CASE Boot
  BY <1>2 DEF Boot, IrqInit, StageAfter, Install, cpuVars, PicInv
<1>3. CASE (\E l \in Lines : Deliver(l)) \/ Spurious
  BY <1>3 DEF Deliver, Spurious, Enter, PicInv
<1>4. CASE Ends
  BY <1>4, EndsLeave DEF Leave
<1>5. CASE UNCHANGED irqVars
  BY <1>5 DEF irqVars, cpuVars
<1>6. QED
  BY <1>1, <1>2, <1>3, <1>4, <1>5, NextSplits

\* The dispatcher never serves the timer or the keyboard without their
\* handlers: they are installed before interrupts are let in.
THEOREM HandlersInTime == SpecIrq => []OnlySpuriousUnhandled
<1>1. InitIrq => BootInv
  BY DEF InitIrq, BootInv
<1>2. BootInv => OnlySpuriousUnhandled
  BY DEF BootInv, OnlySpuriousUnhandled
<1>3. QED
  BY <1>1, <1>2, PicInit, PicNext, StackNext, BootNext, PTL DEF SpecIrq

-----------------------------------------------------------------------------
\* The question mouse_init asks.

\* Until a key comes in between, the answer is the only byte in the port, or
\* the handler has just taken it and left it to be read again.
AnswerInv == /\ mpc \in {"no", "config", "write"} => kbdInt
             /\ ~kbdInt => raced
             /\ mpc = "config" /\ ~raced => \/ port = <<Config>>
                                            \/ port = <<>> /\ last = "config"
             /\ mpc = "write" /\ ~raced => got = "config"

LEMMA ConfigIsNoKey == From(Config) = "config"
<1>1. \A b \in Code : DOMAIN b = {"key", "up"}
  BY DEF Code
<1>2. DOMAIN E0 = {"key", "up"}
  BY DEF E0
<1>3. DOMAIN Config = {"key", "up", "from"} /\ Config.from = "config"
  BY DEF Config
<1>4. Config \notin Code \cup {E0}
  BY <1>1, <1>2, <1>3
<1>5. QED
  BY <1>3, <1>4 DEF From

\* The steps that have nothing to do with the question.
LEMMA AnswerFrame ==
  ASSUME AnswerInv, UNCHANGED <<kbdInt, mpc, got, last, raced>>, mpc = "config" => port' = port
  PROVE  AnswerInv'
BY DEF AnswerInv

LEMMA AnswerNext == AnswerInv /\ [NextIrq]_irqVars => AnswerInv'
<1> SUFFICES ASSUME AnswerInv, [NextIrq]_irqVars
             PROVE  AnswerInv'
  OBVIOUS
<1>1. CASE KeyArrives
  BY <1>1 DEF KeyArrives, AnswerInv
<1>2. CASE KbdReads
  <2>1. /\ UNCHANGED <<kbdInt, mpc, got, raced>>
        /\ last' = IF Asked THEN From(Head(port)) ELSE last
        /\ port # <<>> /\ port' = Tail(port)
    BY <1>2 DEF KbdReads, IrqRead, Reads
  <2>2. CASE mpc = "config" /\ ~raced
    <3>1. port = <<Config>>
      BY <2>1, <2>2 DEF AnswerInv
    <3>2. Head(port) = Config /\ Tail(port) = <<>>
      BY <3>1
    <3>3. port' = <<>> /\ last' = "config"
      BY <2>1, <2>2, <3>2, ConfigIsNoKey DEF Asked
    <3>4. QED
      BY <2>1, <2>2, <3>3 DEF AnswerInv
  <2>3. CASE ~(mpc = "config" /\ ~raced)
    BY <2>1, <2>3 DEF AnswerInv
  <2>4. QED
    BY <2>2, <2>3
<1>3. CASE MouseMoves
  BY <1>3, AnswerFrame DEF MouseMoves, mouseVars
<1>4. CASE Pulse \/ KbdSeesNoMore \/ KbdDrains \/ Reader
  BY <1>4, AnswerFrame DEF Pulse, KbdSeesNoMore, KbdDrains, Reader, mouseVars,
     IrqNoMore, IrqDrain, Poll, vars, keyVars
<1>5. CASE Boot
  BY <1>5, AnswerFrame DEF Boot, mouseVars, vars, keyVars
<1>6. CASE (\E l \in Lines : Deliver(l)) \/ Spurious
  BY <1>6, AnswerFrame DEF Deliver, Spurious, Enter, IrqEnter, mouseVars, vars, keyVars
<1>7. CASE Ends
  BY <1>7, AnswerFrame DEF Ends, KbdReturns, TimerIrq, Unhandled, IrqReturn, mouseVars,
     vars, keyVars
<1>8. CASE MouseInit
  <2>1. CASE AskConfig
    <3>1. /\ kbdInt' = kbdInt /\ kbdInt /\ mpc' = "config"
          /\ port' = Append(port, Config) /\ raced' = (port # <<>>)
      BY <2>1 DEF AskConfig, Ask, AnswerInv
    <3>2. \A c : Append(<<>>, c) = <<c>>
      OBVIOUS
    <3>3. port = <<>> => port' = <<Config>>
      BY <3>1, <3>2
    <3>4. QED
      BY <3>1, <3>3 DEF AnswerInv
  <2>2. CASE ReadConfig
    <3>1. /\ UNCHANGED <<kbdInt, raced>> /\ mpc = "config" /\ mpc' = "write"
          /\ got' = Answer
      BY <2>2 DEF ReadConfig
    <3>2. ASSUME ~raced PROVE Answer = "config"
      <4>1. CASE port = <<Config>>
        <5>1. port # <<>> /\ Head(port) = Config
          BY <4>1
        <5>2. QED
          BY <5>1, ConfigIsNoKey DEF Answer
      <4>2. CASE port = <<>> /\ last = "config"
        BY <4>2 DEF Answer
      <4>3. QED
        BY <3>1, <3>2, <4>1, <4>2 DEF AnswerInv
    <3>3. QED
      BY <3>1, <3>2 DEF AnswerInv
  <2>3. CASE WriteConfig
    BY <2>3 DEF WriteConfig, AnswerInv
  <2>4. CASE MouseCommand \/ MouseAnswer
    <3>1. UNCHANGED <<kbdInt, raced>> /\ mpc' \notin {"no", "config", "write"}
      BY <2>4 DEF MouseCommand, MouseAnswer, Ask
    <3>2. QED
      BY <3>1 DEF AnswerInv
  <2>5. QED
    BY <1>8, <2>1, <2>2, <2>3, <2>4 DEF MouseInit
<1>9. CASE UNCHANGED irqVars
  BY <1>9, AnswerFrame DEF irqVars, mouseVars, vars, keyVars
<1>10. QED
  BY <1>1, <1>2, <1>3, <1>4, <1>5, <1>6, <1>7, <1>8, <1>9, NextSplits DEF Quiet

\* Only a key in the way of the question for the controller's configuration
\* can cost the keyboard its interrupt: the handler that takes the answer away
\* leaves it in the port for mouse_init to read again.
THEOREM OnlyAKeyLosesConfig == SpecIrq => []ConfigLostOnlyToKey
<1>1. InitIrq => AnswerInv
  BY DEF InitIrq, AnswerInv
<1>2. AnswerInv => ConfigLostOnlyToKey
  BY DEF AnswerInv, ConfigLostOnlyToKey
<1>3. QED
  BY <1>1, <1>2, AnswerNext, PTL DEF SpecIrq

-----------------------------------------------------------------------------
\* Types.

Queued == Code \cup {E0, Config, Ack} \cup MouseByte
Kinds == {"none", "key", "config", "ack", "mouse"}
Dues == {<<>>} \cup {<<c>> : c \in Code}
TypeInv ==
  /\ due \in Dues
  /\ port \in Seq(Queued) /\ handlers \subseteq Lines /\ ticks \in 0..(TickWord - 1)
  /\ kbdInt \in BOOLEAN /\ auxInt \in BOOLEAN /\ raced \in BOOLEAN /\ forgotten \in BOOLEAN
  /\ mpc \in {"no", "config", "write", "rate", "rateAck", "value", "valueAck",
               "enable", "enableAck", "done"}
  /\ got \in Kinds /\ last \in Kinds

LEMMA KindOfByte == \A b \in Queued : From(b) \in Kinds
<1>1. \A b \in MouseByte : b.from = "mouse"
  BY DEF MouseByte
<1>2. Config.from = "config" /\ Ack.from = "ack"
  BY DEF Config, Ack
<1>3. QED
  BY <1>1, <1>2 DEF Queued, From, Kinds

LEMMA AnswerKind == TypeInv => Answer \in Kinds
<1>1. TypeInv /\ port # <<>> => Head(port) \in Queued
  BY DEF TypeInv
<1>2. QED
  BY <1>1, KindOfByte DEF Answer, TypeInv

LEMMA OneLineMore ==
  ASSUME TypeInv, NEW l \in {Timer, Kbd, Mouse}
  PROVE  handlers \cup {l} \subseteq Lines
<1>1. handlers \subseteq Lines /\ l \in Lines
  BY DEF TypeInv
<1>2. QED
  BY <1>1, Zenon

LEMMA TypeFrame ==
  ASSUME TypeInv, UNCHANGED <<handlers, ticks, mouseVars, forgotten>>, port' = port, due' = due
  PROVE  TypeInv'
BY DEF TypeInv, mouseVars

LEMMA TypeNext == TypeInv /\ [NextIrq]_irqVars => TypeInv'
<1> SUFFICES ASSUME TypeInv, [NextIrq]_irqVars
             PROVE  TypeInv'
  OBVIOUS
<1>1. CASE KeyArrives
  <2>1. \A k \in Typed \cup HoldKeys, up \in BOOLEAN : [key |-> k, up |-> up] \in Code
    BY DEF Code
  <2>2. PICK c \in Code \cup {E0} : port' = port \o <<c>>
    <3>1. CASE Suffix
      <4>1. PICK c \in Code : due = <<c>>
        BY <3>1 DEF Suffix, TypeInv, Dues
      <4>2. QED
        BY <3>1, <4>1 DEF Suffix, Sends
    <3>2. CASE ~Suffix
      BY <1>1, <2>1, <3>2 DEF KeyArrives, Keyboard, Key, Prefix, Sends
    <3>3. QED
      BY <3>1, <3>2
  <2>3. port' \in Seq(Queued)
    BY <2>2 DEF TypeInv, Queued
  <2>4. due' \in Dues
    BY <1>1, <2>1 DEF KeyArrives, Keyboard, Key, Prefix, Suffix, TypeInv, Dues
  <2>5. QED
    BY <1>1, <2>3, <2>4 DEF KeyArrives, QueueChanges, TypeInv
<1>2. CASE MouseMoves
  <2>1. PICK b \in MouseByte : port' = port \o <<b>>
    BY <1>2 DEF MouseMoves, Sends
  <2>2. port' \in Seq(Queued)
    BY <2>1 DEF TypeInv, Queued
  <2>3. QED
    BY <1>2, <2>2 DEF MouseMoves, QueueChanges, TypeInv, mouseVars
<1>3. CASE KbdReads
  <2>1. port # <<>> /\ port' = Tail(port) /\ due' = due
    BY <1>3 DEF KbdReads, IrqRead
  <2>2. port' \in Seq(Queued) /\ Head(port) \in Queued
    BY <2>1 DEF TypeInv
  <2>3. last' \in Kinds
    BY <1>3, <2>2, KindOfByte DEF KbdReads, Reads, TypeInv
  <2>4. QED
    BY <1>3, <2>1, <2>2, <2>3 DEF KbdReads, QueueChanges, TypeInv
<1>4. CASE Pulse \/ KbdSeesNoMore \/ KbdDrains \/ Reader
  BY <1>4, TypeFrame DEF Pulse, KbdSeesNoMore, KbdDrains, Reader,
     IrqNoMore, IrqDrain, Poll, vars, keyVars
<1>5. CASE Boot
  <2>1. UNCHANGED <<port, due, ticks, mouseVars>>
    BY <1>5 DEF Boot, vars, keyVars
  <2>2. handlers' \subseteq Lines
    <3>1. handlers' = handlers \/ \E l \in {Timer, Kbd} : handlers' = handlers \cup {l}
      BY <1>5 DEF Boot, IrqInit, Install
    <3>2. QED
      BY <3>1, OneLineMore DEF TypeInv
  <2>3. forgotten' \in BOOLEAN
    <3>1. forgotten' = (port # <<>>) \/ forgotten' = forgotten
      BY <1>5 DEF Boot, IrqInit
    <3>2. (port # <<>>) \in BOOLEAN
      OBVIOUS
    <3>3. QED
      BY <3>1, <3>2 DEF TypeInv
  <2>4. QED
    BY <2>1, <2>2, <2>3 DEF mouseVars, TypeInv
<1>6. CASE (\E l \in Lines : Deliver(l)) \/ Spurious
  BY <1>6, TypeFrame DEF Deliver, Spurious, Enter, IrqEnter, vars, keyVars
<1>7. CASE KbdReturns \/ Unhandled
  BY <1>7, TypeFrame DEF KbdReturns, Unhandled, Leave, IrqReturn, vars, keyVars
<1>8. CASE TimerIrq
  <2>1. ticks' \in 0..(TickWord - 1)
    BY <1>8, TickAssumption DEF TimerIrq, TypeInv
  <2>2. QED
    BY <1>8, <2>1 DEF TimerIrq, Leave, mouseVars, vars, keyVars, TypeInv
<1>9. CASE MouseInit
  <2>1. CASE AskConfig \/ MouseCommand
    <3>1. Config \in Queued /\ Ack \in Queued
      BY DEF Queued
    <3>2. port' \in Seq(Queued)
      BY <2>1, <3>1 DEF AskConfig, MouseCommand, Ask, TypeInv
    <3>3. QED
      BY <1>9, <2>1, <3>2 DEF MouseInit, AskConfig, MouseCommand, Ask, QueueChanges, TypeInv, Kinds
  <2>2. CASE ReadConfig \/ MouseAnswer
    <3>1. Receive
      BY <2>2 DEF ReadConfig, MouseAnswer
    <3>2. port' \in Seq(Queued)
      BY <3>1 DEF Receive, TypeInv
    <3>3. last' \in Kinds
      BY <3>1 DEF Receive, Kinds
    <3>4. forgotten' \in BOOLEAN
      <4>1. \/ forgotten' = (forgotten /\ Len(port') >= Len(port))
            \/ forgotten' = forgotten
        BY <3>1 DEF Receive, QueueChanges
      <4>2. QED
        BY <4>1 DEF TypeInv
    <3>5. handlers' = handlers \/ handlers' = handlers \cup {Mouse}
      BY <2>2 DEF ReadConfig, MouseAnswer, Install
    <3>6. got' = Answer \/ got' = got
      BY <2>2 DEF ReadConfig, MouseAnswer
    <3>7. UNCHANGED <<kbdInt, auxInt, raced, ticks, due>>
      BY <1>9, <2>2 DEF MouseInit, ReadConfig, MouseAnswer
    <3>8. mpc' \in {"write", "value", "enable", "done"}
      BY <2>2 DEF ReadConfig, MouseAnswer
    <3>9. QED
      BY <3>2, <3>3, <3>4, <3>5, <3>6, <3>7, <3>8, AnswerKind, OneLineMore DEF TypeInv
  <2>3. CASE WriteConfig
    BY <1>9, <2>3 DEF MouseInit, WriteConfig, TypeInv, Kinds
  <2>4. QED
    BY <1>9, <2>1, <2>2, <2>3 DEF MouseInit
<1>10. CASE UNCHANGED irqVars
  BY <1>10, TypeFrame DEF irqVars, vars, keyVars
<1>11. QED
  BY <1>1, <1>2, <1>3, <1>4, <1>5, <1>6, <1>7, <1>8, <1>9, <1>10, NextSplits DEF Quiet, Ends

\* Every variable has its type, and line 12, the mouse's, is never served.
THEOREM TypeCorrect == SpecIrq => []IrqTypeOK
<1>1. InitIrq => TypeInv
  <2>1. 0 \in 0..(TickWord - 1)
    BY TickAssumption
  <2>2. <<>> \in Seq(Queued)
    OBVIOUS
  <2>3. QED
    BY <2>1, <2>2 DEF InitIrq, Init, TypeInv, Kinds, Dues
<1>2. TypeInv /\ PicInv => IrqTypeOK
  <2> SUFFICES ASSUME TypeInv, PicInv PROVE IrqTypeOK
    OBVIOUS
  <2>1. /\ handlers \subseteq Lines /\ ticks \in 0..(TickWord - 1)
        /\ kbdInt \in BOOLEAN /\ auxInt \in BOOLEAN /\ raced \in BOOLEAN /\ forgotten \in BOOLEAN
        /\ mpc \in {"no", "config", "write", "rate", "rateAck", "value", "valueAck",
                    "enable", "enableAck", "done"}
    BY Zenon DEF TypeInv
  <2>2. /\ boot \in {"irq_init", "kbd_install", "timer_install", "idt_enable", "up"}
        /\ imr \subseteq Lines /\ irr \subseteq {Timer, Kbd, Mouse}
        /\ serving \in {NoLine, Timer, Kbd, Unused}
    BY Zenon DEF PicInv, Unmasked
  <2>3. got \in Kinds /\ last \in Kinds
    BY DEF TypeInv
  <2>4. isr \subseteq Lines
    BY <2>2 DEF PicInv, AllAcknowledged, Lines
  <2>5. QED
    BY <2>1, <2>2, <2>3, <2>4, Zenon DEF IrqTypeOK, Kinds
<1>3. QED
  BY <1>1, <1>2, TypeNext, PicInit, PicNext, StackNext, PTL DEF SpecIrq
=============================================================================

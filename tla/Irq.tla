---------------------------------- MODULE Irq ----------------------------------
(***************************************************************************)
(* From a device's request to the handler and back: the two interrupt        *)
(* controllers (src/kernel/pic.c), the stubs (src/cpu/irq_stubs.asm), the    *)
(* dispatcher (src/kernel/irq.c), the boot order of kernel_main64, the       *)
(* timer, and the keyboard of module Keyboard, whose controller the mouse's  *)
(* initialisation (src/kernel/mouse.c) talks to by polling while the         *)
(* keyboard's handler may run between any two of its steps.                  *)
(*                                                                         *)
(* The gates are interrupt gates: while a line is served no other is.  The   *)
(* mouse's own handler is left out: line 12 comes through line 2, which      *)
(* irq_init leaves masked, and IrqTypeOK states that it is never served.     *)
(***************************************************************************)
EXTENDS Keyboard, FiniteSets

CONSTANT TickWord   \* 2^64 in the code: the width of ticks
ASSUME TickAssumption == TickWord \in Nat \ {0}

Lines == 0..15
NoLine == 16
Timer == 0
Kbd == 1
Cascade == 2
Unused == 7
Mouse == 12

VARIABLES
  boot,             \* how far kernel_main64 is
  imr, irr, isr,    \* masked, requested and in-service lines of the two PICs
  serving,          \* the line whose stub runs, or NoLine
  regs, stack,      \* the registers, as whose values they hold; the stub's stack
  handlers,         \* lines with an entry in irq_handlers
  ticks,
  kbdInt, auxInt,   \* the interrupt bits of the keyboard controller
  mpc, got, last,   \* mouse_init: its stage, the byte it read, the last byte read
  raced,            \* history: a key came between a question and its answer
  forgotten         \* history: the byte in front was requested before the restart

picVars   == <<imr, irr, isr>>
cpuVars   == <<serving, regs, stack>>
mouseVars == <<kbdInt, auxInt, mpc, got, last, raced>>
irqVars   == <<vars, boot, picVars, cpuVars, handlers, ticks, mouseVars, forgotten>>

-----------------------------------------------------------------------------
\* The stub: the registers in the order of its pushes, above the line's number,
\* and in the order of its pops.

Saved == <<"rax", "rcx", "rdx", "rbx", "rbp", "rsi", "rdi", "r8", "r9", "r10", "r11">>
\* A slip: two pops swapped.
PoppedSwapped == <<"r11", "r10", "r9", "r8", "rdi", "rsi", "rbp", "rbx", "rcx", "rdx", "rax">>
Popped == <<"r11", "r10", "r9", "r8", "rdi", "rsi", "rbp", "rbx", "rdx", "rcx", "rax">>
Regs == ToSet(Saved) \cup {"r12", "r13", "r14", "r15"}
Scratch == Regs \ {"rbx", "rbp", "r12", "r13", "r14", "r15"}  \* a C function may change

PushAll(l) == <<l>> \o [i \in DOMAIN Saved |-> regs[Saved[i]]]
Number(s) == s[Len(s) - 11]

\* The i-th pop takes the i-th word from the top.
PopAll(s, r) == s[Len(s) + 1 - (CHOOSE i \in DOMAIN Popped : Popped[i] = r)]
\* What the pops and the `add rsp, 8' behind them leave for iretq.
Unwound(s) == SubSeq(s, 1, Len(s) - Len(Popped) - 1)

-----------------------------------------------------------------------------
\* The interrupt controllers.

Priority(l) == IF l >= 8 THEN 16 * Cascade + l ELSE 16 * l
Asserted == {l \in irr \ imr : /\ l >= 8 => Cascade \notin imr
                               /\ \A s \in isr : Priority(l) < Priority(s)}
Requests(l) == l \in Asserted /\ \A k \in Asserted : Priority(l) <= Priority(k)

\* A non-specific EOI ends the highest of the lines in service, if any.
Eoi(s, chip) == {l \in s : l \notin chip \/ \E k \in s \cap chip : k < l}

\* A slip: both writes go to the second controller.
PicEoiOne(s, l) == Eoi(Eoi(s, 8..15), 8..15)
\* pic_eoi
PicEoi(s, l) == Eoi(IF l >= 8 THEN Eoi(s, 8..15) ELSE s, 0..7)

\* A slip: the cascade goes with the line.
PicClearBoth(m, l) == IF l >= 8 THEN m \ {l, Cascade} ELSE m \ {l}
PicClearMask(m, l) == m \ {l}

-----------------------------------------------------------------------------
\* The keyboard controller's queue.  The mouse's bytes and the answers to
\* commands go through the port the keys use; as scancodes the latter type
\* nothing, the mouse's may be anything.

Config == [key |-> "config", up |-> FALSE, from |-> "config"]
Ack == [key |-> "ack", up |-> TRUE, from |-> "ack"]
MouseByte == [key : Typed \cup {"none"}, up : {FALSE}, from : {"mouse"}]
From(b) == IF b \in Code \cup {E0} THEN "key" ELSE b.from
IsAux(b) == From(b) \in {"ack", "mouse"}

\* What a change of the queue requests: a byte that moves to its front raises
\* the line of its device, if the controller may interrupt for it.
Raised == IF port' = <<>> \/ (Len(port') > Len(port) /\ port # <<>>) THEN {}
          ELSE IF IsAux(Head(port')) THEN (IF auxInt THEN {Mouse} ELSE {})
          ELSE (IF kbdInt THEN {Kbd} ELSE {})
QueueChanges == /\ irr' = irr \cup Raised /\ UNCHANGED <<imr, isr>>
                /\ forgotten' = (forgotten /\ Len(port') >= Len(port))

Asked == mpc \in {"config", "rateAck", "valueAck", "enableAck"}
Reads == last' = IF Asked THEN From(Head(port)) ELSE last

KeyArrives == /\ Keyboard /\ QueueChanges
              /\ raced' = (raced \/ mpc = "config")
              /\ UNCHANGED <<boot, cpuVars, handlers, ticks, kbdInt, auxInt, mpc, got, last>>

MouseMoves == /\ mpc \in {"enableAck", "done"}
              /\ \E b \in MouseByte : Sends(<<b>>)
              /\ QueueChanges
              /\ UNCHANGED <<held, due, decVars, ringVars, ttyVars, irq, burst, pollVars>>
              /\ UNCHANGED <<boot, cpuVars, handlers, ticks, mouseVars>>

\* The timer's period is much longer than its handler.
Pulse == /\ Timer \notin irr /\ serving # Timer
         /\ irr' = irr \cup {Timer}
         /\ UNCHANGED <<vars, boot, imr, isr, cpuVars, handlers, ticks, mouseVars, forgotten>>

-----------------------------------------------------------------------------
\* The boot order; what the firmware left in the masks is not known.

InitIrq == /\ Init
           /\ boot = "irq_init" /\ imr \in {{}, Lines} /\ irr = {} /\ isr = {}
           /\ serving = NoLine /\ regs = [r \in Regs |-> r] /\ stack = <<>>
           /\ handlers = {} /\ ticks = 0
           /\ kbdInt = TRUE /\ auxInt = FALSE
           /\ mpc = "no" /\ got = "none" /\ last = "none" /\ raced = FALSE
           /\ forgotten = FALSE

Install(l) == handlers' = handlers \cup {l}

\* Starting the controllers again forgets what was requested; a byte that
\* stays in front requests nothing more.
IrqInit == /\ boot = "irq_init" /\ boot' = "kbd_install"
           /\ imr' = PicClearMask(PicClearMask(PicClearMask(Lines, Timer), Kbd), Mouse)
           /\ irr' = {} /\ isr' = {} /\ UNCHANGED handlers
           /\ forgotten' = (port # <<>>)

\* A slip: interrupts are let in before the handlers are known.
StagesEarly(b) == CASE b = "kbd_install" -> "up" [] OTHER -> "timer_install"
\* kernel_main64: the order of the calls
StageAfter(b) == CASE b = "kbd_install" -> "timer_install"
                   [] b = "timer_install" -> "idt_enable" [] b = "idt_enable" -> "up"

Boot == /\ boot # "up"
        /\ \/ IrqInit
           \/ /\ boot \in {"kbd_install", "timer_install", "idt_enable"}
              /\ boot' = StageAfter(boot) /\ UNCHANGED <<picVars, forgotten>>
              /\ \/ boot = "kbd_install" /\ Install(Kbd)
                 \/ boot = "timer_install" /\ Install(Timer)
                 \/ boot = "idt_enable" /\ UNCHANGED handlers
        /\ UNCHANGED <<vars, cpuVars, ticks, mouseVars>>

-----------------------------------------------------------------------------
\* Service.

Enter(l) == /\ stack' = PushAll(l) /\ serving' = Number(stack')
            /\ UNCHANGED <<regs, boot, handlers, ticks, mouseVars, forgotten>>
            /\ IF serving' = Kbd /\ Kbd \in handlers THEN IrqEnter ELSE UNCHANGED vars

Deliver(l) == /\ boot = "up" /\ serving = NoLine /\ Requests(l)
              /\ irr' = irr \ {l}
              /\ isr' = isr \cup (IF l >= 8 THEN {Cascade, l} ELSE {l})
              /\ UNCHANGED imr /\ Enter(l)

\* The byte was read before the processor asked for the number: the
\* controller gives its lowest line and notes nothing.
Spurious == /\ boot = "up" /\ serving = NoLine /\ Requests(Kbd) /\ port = <<>>
            /\ irr' = irr \ {Kbd} /\ UNCHANGED <<imr, isr>> /\ Enter(Unused)

\* The end of irq_common_dispatch, and the stub's way back.
Leave == LET after == [r \in Regs |-> IF r \in Scratch THEN "changed" ELSE regs[r]] IN
         /\ isr' = PicEoi(isr, serving)
         /\ regs' = [r \in Regs |-> IF r \in ToSet(Popped) THEN PopAll(stack, r) ELSE after[r]]
         /\ stack' = Unwound(stack) /\ serving' = NoLine /\ UNCHANGED <<imr, boot, handlers, forgotten>>

KbdReads == /\ serving = Kbd /\ IrqRead /\ Reads /\ QueueChanges
            /\ UNCHANGED <<boot, cpuVars, handlers, ticks, kbdInt, auxInt, mpc, got, raced>>
KbdSeesNoMore == /\ serving = Kbd /\ IrqNoMore
                 /\ UNCHANGED <<boot, picVars, cpuVars, handlers, ticks, mouseVars, forgotten>>
KbdDrains == /\ serving = Kbd /\ IrqDrain
             /\ UNCHANGED <<boot, picVars, cpuVars, handlers, ticks, mouseVars, forgotten>>
KbdReturns == serving = Kbd /\ IrqReturn /\ Leave /\ UNCHANGED <<irr, ticks, mouseVars>>

TimerIrq == /\ serving = Timer /\ Timer \in handlers
            /\ ticks' = (ticks + 1) % TickWord
            /\ Leave /\ UNCHANGED <<vars, irr, mouseVars>>
Unhandled == /\ serving # NoLine /\ serving \notin handlers
             /\ Leave /\ UNCHANGED <<vars, irr, ticks, mouseVars>>

Serve == KbdReads \/ KbdSeesNoMore \/ KbdDrains \/ KbdReturns \/ TimerIrq \/ Unhandled

-----------------------------------------------------------------------------
\* The code that is interrupted: a line reader, or once mouse_init, called
\* between two polls.

Running == boot = "up" /\ serving = NoLine
Reader == /\ Running /\ ~Asked /\ Poll
          /\ UNCHANGED <<boot, picVars, cpuVars, handlers, ticks, mouseVars, forgotten>>

\* Write a command: the controller or the mouse answers at once.
Ask(from, to, answer) == /\ mpc = from /\ mpc' = to /\ last' = "none"
                         /\ port' = Append(port, answer) /\ QueueChanges
                         /\ UNCHANGED <<got, handlers>>

\* A slip: a read that was waited for in vain is taken for 0.
AnswerOrZero == IF port = <<>> THEN "none" ELSE From(Head(port))
\* ps2_read.  The wait gives up only when the handler was faster; the port
\* then holds what was read last.
Answer == IF port = <<>> THEN last ELSE From(Head(port))
Receive == /\ last' = "none"
           /\ IF port = <<>> THEN UNCHANGED <<port, picVars, forgotten>>
              ELSE port' = Tail(port) /\ QueueChanges

AskConfig == /\ mpc = "no" /\ pc = "serial" /\ reader = "shell" /\ len = 0
             /\ Ask("no", "config", Config)
             /\ raced' = (port # <<>>) /\ UNCHANGED <<kbdInt, auxInt>>
ReadConfig == /\ mpc = "config" /\ mpc' = "write" /\ got' = Answer /\ Receive
              /\ UNCHANGED <<handlers, kbdInt, auxInt, raced>>
\* What was read is written back with the mouse's bit set: another byte than
\* the configuration may stop the keyboard's interrupt.
WriteConfig == /\ mpc = "write" /\ mpc' = "rate" /\ auxInt' = TRUE
               /\ kbdInt' \in (IF got = "config" THEN {kbdInt} ELSE BOOLEAN)
               /\ got' = "none" /\ raced' = (raced /\ ~kbdInt')
               /\ UNCHANGED <<port, picVars, forgotten, handlers, last>>
MouseCommand == /\ \/ Ask("rate", "rateAck", Ack)
                   \/ Ask("value", "valueAck", Ack)
                   \/ Ask("enable", "enableAck", Ack)
                /\ UNCHANGED <<kbdInt, auxInt, raced>>
MouseAnswer == /\ \/ /\ mpc = "rateAck" /\ UNCHANGED handlers
                     /\ mpc' = (IF Answer = "ack" THEN "value" ELSE "enable")
                  \/ mpc = "valueAck" /\ mpc' = "enable" /\ UNCHANGED handlers
                  \/ mpc = "enableAck" /\ mpc' = "done" /\ Install(Mouse)
               /\ Receive /\ UNCHANGED <<got, kbdInt, auxInt, raced>>

MouseInit == /\ Running
             /\ AskConfig \/ ReadConfig \/ WriteConfig \/ MouseCommand \/ MouseAnswer
             /\ UNCHANGED <<held, due, decVars, ringVars, ttyVars, irq, burst, pollVars>>
             /\ UNCHANGED <<boot, cpuVars, ticks>>

Devices == KeyArrives \/ MouseMoves \/ Pulse
NextIrq == Devices \/ Boot \/ (\E l \in Lines : Deliver(l)) \/ Spurious \/ Serve \/ Reader \/ MouseInit

SpecIrq == InitIrq /\ [][NextIrq]_irqVars

\* The processor goes on, and keys come slower than the handler's loop turns;
\* a line that is asserted again and again, between ticks, gets its turn.
FairIrq == /\ SpecIrq /\ WF_irqVars(Boot) /\ WF_irqVars(Serve)
           /\ SF_irqVars(Deliver(Kbd)) /\ WF_irqVars(Deliver(Timer)) /\ SF_irqVars(KbdSeesNoMore)
           /\ []<>(irq = "read" => port = <<>>)

-----------------------------------------------------------------------------
\* Properties.

\* Every variable has its type.  Of the lines that may be served two have
\* handlers, and one is what the controller names when it has none; line 12 is
\* unmasked and never served, because the line it comes through is masked.
IrqTypeOK ==
  /\ boot \in {"irq_init", "kbd_install", "timer_install", "idt_enable", "up"}
  /\ imr \subseteq Lines /\ irr \subseteq {Timer, Kbd, Mouse} /\ isr \subseteq Lines
  /\ serving \in {NoLine, Timer, Kbd, Unused}
  /\ handlers \subseteq Lines /\ ticks \in 0..(TickWord - 1)
  /\ kbdInt \in BOOLEAN /\ auxInt \in BOOLEAN /\ raced \in BOOLEAN /\ forgotten \in BOOLEAN
  /\ mpc \in {"no", "config", "write", "rate", "rateAck", "value", "valueAck",
               "enable", "enableAck", "done"}
  /\ got \in {"none", "key", "config", "ack", "mouse"} /\ last \in {"none", "key", "config", "ack", "mouse"}

\* A line is in service only while its handler runs.  A bit left behind would
\* hold back that line and all below it for ever, also when the line came
\* without a request, or nobody handles it.
AllAcknowledged == isr \subseteq (IF serving = NoLine THEN {} ELSE {serving})

\* The interrupted code finds its registers as it left them, whatever the
\* dispatcher does to those a C function may change, and its stack: iretq finds
\* the frame it returns by, because the pops take back the pushes one by one.
RegistersKept == serving = NoLine => stack = <<>> /\ \A r \in Regs : regs[r] = r

\* No line that has a handler is ever served without it: the only complaint
\* of the dispatcher is about the line that nothing requested.
OnlySpuriousUnhandled == serving \notin handlers => serving \in {NoLine, Unused}

\* mouse_init may set up the keyboard controller while the keyboard's handler
\* takes its answers away: the keyboard's interrupt stays on unless a key came
\* in the way of the question for the configuration.
ConfigLostOnlyToKey == ~kbdInt => raced

\* A key's byte at the front of the queue is read in the end: no order of
\* requests, late services, ticks, acknowledgements and polled reads leaves it
\* there unrequested.  The exceptions are a controller whose configuration was
\* lost, and a key that was pressed before the controllers were started.
KeyWaits == boot = "up" /\ kbdInt /\ ~forgotten /\ port # <<>> /\ From(Head(port)) = "key"
KeyServed == KeyWaits ~> (serving = Kbd \/ ~KeyWaits)
=============================================================================

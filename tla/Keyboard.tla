------------------------------- MODULE Keyboard -------------------------------
(***************************************************************************)
(* The keyboard from the controller's port to the line readers: the IRQ 1   *)
(* handler (src/cpu/irq_kbd.c), the scancode decoder and character ring     *)
(* (src/drivers/keymap.c), the terminal's input ring (src/kernel/tty.c),    *)
(* and the loops that poll for a line (read_line_mux of the shell and       *)
(* kbd_read_line of the editor).                                            *)
(*                                                                         *)
(* The handler runs with interrupts off: while it is active the polling     *)
(* loop stands still, but the keyboard goes on sending, so each turn of the *)
(* handler's loops is a step.  The polling loop is compiled without         *)
(* optimisation, and each of its loads and stores of shared memory is a     *)
(* step that an interrupt may precede.                                      *)
(***************************************************************************)
EXTENDS Integers, Sequences, SequencesExt

CONSTANTS
  RingSize,   \* 128 in the code: KBD_CHAR_BUF
  TtySize,    \* 1024 in the code: TTY_BUF
  LineSize,   \* 256 in the code: the line buffers of the readers
  PortCap,    \* bound on the bytes the keyboard has sent and nobody has read
  BurstCap,   \* bound on the characters typed during one run of the handler
  Typed,      \* the keys that make characters
  Plain, Shifted,       \* what they make, without and with shift
  HoldKeys,   \* the modifier keys that act while they are held
  Serial      \* characters that may come over the serial line

\* What a scancode byte means: a key went down or up, or a prefix.
E0 == [key |-> "E0", up |-> FALSE]
Code == [key : Typed \cup HoldKeys, up : BOOLEAN]
ModOf(k) == IF k \in {"lshift", "rshift"} THEN "shift" ELSE k
Mods == {ModOf(k) : k \in HoldKeys}
Char == {Plain[k] : k \in Typed} \cup {Shifted[k] : k \in Typed} \cup {"nul"}

ASSUME SizesAssumption == /\ RingSize \in Nat /\ RingSize >= 2
                          /\ TtySize \in Nat /\ TtySize >= 2
                          /\ LineSize \in Nat /\ LineSize >= 2
                          /\ PortCap \in Nat /\ BurstCap \in 1..(RingSize - 1)
ASSUME KeysAssumption == /\ HoldKeys \subseteq {"lshift", "rshift", "ctrl", "alt"}
                         /\ Typed \cap (HoldKeys \cup {"E0"}) = {}
                         /\ DOMAIN Plain = Typed /\ DOMAIN Shifted = Typed

VARIABLES
  held,                  \* the modifier keys that are down
  port,                  \* bytes sent by the keyboard and not read yet
  due,                   \* the code the keyboard owes after a prefix, or <<>>
  modifiers, extended,   \* the decoder
  char_buf, char_head, char_tail,   \* its ring
  inbuf, in_head,        \* the ring of the active tty; its in_tail stays 0
  irq,                   \* "off", or which loop of the handler runs
  burst,                 \* the characters typed in this run of the handler
  reader,                \* which line reader runs
  pc, reg, ch,           \* where it is in buf_pop, and its two registers
  len                    \* characters in its line

keyVars  == <<held, port, due>>
decVars  == <<modifiers, extended>>
ringVars == <<char_buf, char_head, char_tail>>
ttyVars  == <<inbuf, in_head>>
pollVars == <<reader, pc, reg, ch, len>>
vars == <<keyVars, decVars, ringVars, ttyVars, irq, burst, pollVars>>

Init ==
  /\ held = {} /\ port = <<>> /\ due = <<>>
  /\ modifiers = {} /\ extended = FALSE
  /\ char_buf = [i \in 0..(RingSize - 1) |-> "nul"]
  /\ char_head = 0 /\ char_tail = 0
  /\ inbuf = [i \in 0..(TtySize - 1) |-> "nul"] /\ in_head = 0
  /\ irq = "off" /\ burst = <<>>
  /\ reader = "shell" /\ pc = "serial" /\ reg = 0 /\ ch = "nul" /\ len = 0

Succ(i) == (i + 1) % RingSize

-----------------------------------------------------------------------------
\* The keyboard.  A held key may repeat; keys with an E0 code (the right-hand
\* modifiers, and the shifts a keyboard fakes around the arrow keys) send the
\* code of their twin after the prefix, as a byte of its own: the handler may
\* have read the prefix and returned before the code comes.

Sends(bytes) == /\ Len(port) + Len(bytes) <= PortCap
                /\ Len(burst) + Len(port) + Len(bytes) <= BurstCap
                /\ port' = port \o bytes

Key(k, up) == /\ due = <<>> /\ UNCHANGED due
              /\ Sends(<<[key |-> k, up |-> up]>>)
              /\ held' = IF k \notin HoldKeys THEN held
                         ELSE IF up THEN held \ {k} ELSE held \cup {k}
Prefix(k, up) == /\ due = <<>> /\ due' = <<[key |-> k, up |-> up]>>
                 /\ Sends(<<E0>>) /\ UNCHANGED held
Suffix == due # <<>> /\ Sends(due) /\ due' = <<>> /\ UNCHANGED held

Keyboard ==
  /\ \/ \E k \in Typed \cup HoldKeys, up \in BOOLEAN :
           \/ (k \in HoldKeys /\ up => k \in held) /\ Key(k, up)
           \/ k \in HoldKeys /\ Prefix(k, up)
     \/ Suffix
  /\ UNCHANGED <<decVars, ringVars, ttyVars, irq, burst, pollVars>>

-----------------------------------------------------------------------------
\* The handler.

\* A slip: a full ring drops the new character instead of the oldest one.
PushOrDrop(c) ==
  IF Succ(char_head) = char_tail
  THEN UNCHANGED ringVars
  ELSE /\ char_buf' = [char_buf EXCEPT ![char_head] = c]
       /\ char_head' = Succ(char_head)
       /\ UNCHANGED char_tail

\* buf_push
Push(c) == /\ char_tail' = IF Succ(char_head) = char_tail THEN Succ(char_tail) ELSE char_tail
           /\ char_buf' = [char_buf EXCEPT ![char_head] = c]
           /\ char_head' = Succ(char_head)

\* A request may be old: the run before may have read its byte already.
IrqEnter == /\ irq = "off"
            /\ irq' = "read"
            /\ UNCHANGED <<keyVars, decVars, ringVars, ttyVars, burst, pollVars>>

\* update_modifier
UpdateModifier(m, k, up) == IF k \notin HoldKeys THEN m
                            ELSE IF up THEN m \ {ModOf(k)} ELSE m \cup {ModOf(k)}

\* keymap_process_scancode
Process(code) ==
  \/ /\ code = E0
     /\ extended' = TRUE
     /\ UNCHANGED <<modifiers, ringVars, burst>>
  \/ /\ code # E0 /\ extended
     /\ extended' = FALSE
     /\ UNCHANGED <<modifiers, ringVars, burst>>
  \/ /\ code # E0 /\ ~extended
     /\ modifiers' = UpdateModifier(modifiers, code.key, code.up)
     /\ UNCHANGED extended
     /\ IF code.up \/ code.key \notin Typed
        THEN UNCHANGED <<ringVars, burst>>
        ELSE LET c == IF "shift" \in modifiers' THEN Shifted[code.key] ELSE Plain[code.key]
             IN  Push(c) /\ burst' = Append(burst, c)

IrqRead == /\ irq = "read" /\ port # <<>>
           /\ Process(Head(port)) /\ port' = Tail(port)
           /\ UNCHANGED <<held, due, ttyVars, irq, pollVars>>

IrqNoMore == /\ irq = "read" /\ port = <<>>
             /\ irq' = "drain"
             /\ UNCHANGED <<keyVars, decVars, ringVars, ttyVars, burst, pollVars>>

\* tty_kbd_putc: a full ring drops the character.  Nothing takes characters
\* out of it: the device node carries no tty (fs_create_chardev loses it).
TtyPut(c) == LET next == (in_head + 1) % TtySize IN
             IF next = 0 THEN UNCHANGED ttyVars
             ELSE inbuf' = [inbuf EXCEPT ![in_head] = c] /\ in_head' = next

\* A slip: turn until there is room in the terminal's ring instead of dropping.
IrqDrainWait == /\ irq = "drain" /\ char_head # char_tail
                /\ IF (in_head + 1) % TtySize = 0 THEN UNCHANGED vars
                   ELSE /\ TtyPut(char_buf[char_tail])
                        /\ char_tail' = Succ(char_tail)
                        /\ UNCHANGED <<keyVars, decVars, char_buf, char_head, irq, burst, pollVars>>

\* kbd_drain_to_tty
IrqDrain == /\ irq = "drain" /\ char_head # char_tail
            /\ TtyPut(char_buf[char_tail])
            /\ char_tail' = Succ(char_tail)
            /\ UNCHANGED <<keyVars, decVars, char_buf, char_head, irq, burst, pollVars>>

\* A slip: a prefix is forgotten with the run of the handler that read it.
IrqReturnForgets == /\ irq = "drain" /\ char_head = char_tail
                    /\ irq' = "off" /\ burst' = <<>> /\ extended' = FALSE
                    /\ UNCHANGED <<keyVars, modifiers, ringVars, ttyVars, pollVars>>

IrqReturn == /\ irq = "drain" /\ char_head = char_tail
             /\ irq' = "off" /\ burst' = <<>>
             /\ UNCHANGED <<keyVars, decVars, ringVars, ttyVars, pollVars>>

Irq == IrqEnter \/ IrqRead \/ IrqNoMore \/ IrqDrain \/ IrqReturn

-----------------------------------------------------------------------------
\* The line readers, one load or store at a time; a register whose value is
\* not used again is cleared.

AddSlack(l) == IF l < LineSize THEN l + 1 ELSE l         \* a slip: one too many
AddChar(l) == IF l < LineSize - 1 THEN l + 1 ELSE l

\* What a character does to the line; the editor makes a tab four blanks.
TakeChar(c) ==
  CASE c = "nl"  -> /\ len' = 0 /\ reader' \in {"shell", "editor"}
    [] c = "bs"  -> len' = (IF len > 0 THEN len - 1 ELSE 0) /\ UNCHANGED reader
    [] c = "tab" /\ reader = "editor" -> /\ len' = AddChar(AddChar(AddChar(AddChar(len))))
                                         /\ UNCHANGED reader
    [] OTHER     -> len' = AddChar(len) /\ UNCHANGED reader

\* serial_getc_nonblock: only the shell's reader asks.
PollSerial == /\ pc = "serial" /\ pc' = "head"
              /\ \/ UNCHANGED <<reader, len>>
                 \/ reader = "shell" /\ \E c \in Serial : TakeChar(c)
              /\ UNCHANGED <<reg, ch>>

\* buf_pop: the test loads head, then tail ...
LoadHead == /\ pc = "head" /\ reg' = char_head /\ pc' = "tail"
            /\ UNCHANGED <<reader, ch, len>>
LoadTail == /\ pc = "tail" /\ pc' = (IF reg = char_tail THEN "serial" ELSE "index")
            /\ reg' = 0 /\ UNCHANGED <<reader, ch, len>>
\* ... tail is loaded again to index the buffer ...
LoadIndex == /\ pc = "index" /\ reg' = char_tail /\ pc' = "char"
             /\ UNCHANGED <<reader, ch, len>>
LoadChar == /\ pc = "char" /\ ch' = char_buf[reg] /\ pc' = "load"
            /\ reg' = 0 /\ UNCHANGED <<reader, len>>
\* ... and once more to be advanced.
LoadOld == /\ pc = "load" /\ reg' = char_tail /\ pc' = "store"
           /\ UNCHANGED <<reader, ch, len>>
StoreTail == /\ pc = "store" /\ char_tail' = Succ(reg) /\ pc' = "serial"
             /\ TakeChar(ch)
             /\ reg' = 0 /\ ch' = "nul"

Poll ==
  /\ irq = "off"
  /\ \/ (PollSerial \/ LoadHead \/ LoadTail \/ LoadIndex \/ LoadChar \/ LoadOld)
        /\ UNCHANGED char_tail
     \/ StoreTail
  /\ UNCHANGED <<keyVars, decVars, char_buf, char_head, ttyVars, irq, burst>>

Next == Keyboard \/ Irq \/ Poll

Spec == Init /\ [][Next]_vars

\* The processor goes on executing: a pending interrupt is taken and the
\* handler runs on.  Keys come slower than instructions run: the port is read
\* empty again and again, the handler's loop sees it so, and the reader gets
\* on between two interrupts.
FairSpec == /\ Spec /\ WF_vars(Irq)
            /\ []<>(port = <<>>) /\ SF_vars(IrqNoMore) /\ SF_vars(Poll)

-----------------------------------------------------------------------------
\* Properties.

\* Every variable has its type; the line never outgrows its buffer, whose last
\* byte is for the terminator, and the ring indices stay inside the rings.
TypeOK ==
  /\ held \subseteq HoldKeys /\ port \in Seq(Code \cup {E0})
  /\ due \in {<<>>} \cup {<<c>> : c \in Code}
  /\ modifiers \subseteq Mods /\ extended \in BOOLEAN
  /\ char_buf \in [0..(RingSize - 1) -> Char]
  /\ char_head \in 0..(RingSize - 1) /\ char_tail \in 0..(RingSize - 1)
  /\ inbuf \in [0..(TtySize - 1) -> Char] /\ in_head \in 0..(TtySize - 1)
  /\ irq \in {"off", "read", "drain"} /\ burst \in Seq(Char)
  /\ reader \in {"shell", "editor"} /\ len \in 0..(LineSize - 1)
  /\ pc \in {"serial", "head", "tail", "index", "char", "load", "store"}
  /\ reg \in 0..(RingSize - 1) /\ ch \in Char

\* Once everything the keyboard sent has been decoded, a modifier is on only
\* while a key for it is down, and a prefix waits exactly while the keyboard
\* owes the code for it: no order of presses, repeats, extended keys cut in two
\* by the handler's return, and interrupts leaves a modifier stuck.
NoStuckModifier ==
  port = <<>> => /\ extended <=> due # <<>>
                 /\ \A m \in modifiers : \E k \in held : ModOf(k) = m

\* Whatever state the readers left the ring in, the characters typed in one
\* run of the handler come out of the drain in order and complete, for as long
\* as the terminal has room.
RingChars == [i \in 1..((char_head - char_tail) % RingSize) |->
                char_buf[(char_tail + i - 1) % RingSize]]
TtyChars == [i \in 1..in_head |-> inbuf[i - 1]]
BurstReachesTty ==
  in_head < TtySize - 1 => IsSuffix(burst, TtyChars \o RingChars)

\* Every run of the handler comes to an end, also when the terminal's ring has
\* been full for long: the drain loop runs with interrupts off, so waiting
\* there for a reader would be waiting for ever.
HandlerEnds == irq # "off" ~> irq = "off"

\* kernel64.c:353: "[shell] Ready. Type 'help' for commands": what is typed
\* at the keyboard reaches the reader that waits for it.
KeysReachReader == burst # <<>> ~> pc = "store"
=============================================================================

--------------------------------- MODULE Shell ---------------------------------
(***************************************************************************)
(* The loop of the shell (shell_run in src/kernel/shell.c): the prompt, the  *)
(* line as it is typed, corrected and echoed, the parser, and the arguments  *)
(* a builtin is given.  What a command does to files, descriptors and the    *)
(* environment is in Fs, Fds and Env; here it prints.                        *)
(***************************************************************************)
EXTENDS Console, Sequences, SequencesExt, FiniteSets

CONSTANTS
  LineSize,    \* 256 in the code: the line, and args_buf
  MaxArgs,     \* 31 in the code: room in argv
  Path,        \* what the prompt prints before its sign
  Typed, Printed,   \* the characters typed, and those commands print
  InkCap       \* bound on the characters typed and printed since the screen was clear

Signs == {"<", ">"}
Quotes == {"'", "\""}
\* A line break and a backspace are not characters of the line.
ASSUME LineAssumption == /\ LineSize \in Nat /\ LineSize >= 2 /\ MaxArgs \in Nat \ {0}
                         /\ Path \in Seq(Glyph) /\ "$" \in Glyph /\ InkCap \in Nat
                         /\ Typed \subseteq (Glyph \cup {"tab"}) \ {"nl", "cr", "bs"}
                         /\ Printed \subseteq Glyph \cup Control

VARIABLES screen, phase, line, cmd,
          start,        \* history: the cell at which the line begins
          ink           \* history: characters since the screen was clear, for InkCap
shellVars == <<screen, phase, line, cmd, start, ink>>

\* kputs
PutAll(s, text) ==
  LET shown[n \in 0..Len(text)] == IF n = 0 THEN s ELSE Putc(shown[n - 1], text[n])
  IN  shown[Len(text)]

-----------------------------------------------------------------------------
\* The parser.

First(l, from, set) == LET at == {i \in from..Len(l) : l[i] \in set}
                       IN  IF at = {} THEN Len(l) + 1 ELSE CHOOSE i \in at : \A j \in at : i <= j
NonBlank(l, from) == First(l, from, {l[i] : i \in from..Len(l)} \ {" "})
SignAt(l) == First(l, 1, Signs)
Doubled(l) == LET i == SignAt(l) IN i < Len(l) /\ l[i] = ">" /\ l[i + 1] = ">"

\* A slip: the last blank of the whole line.
LastBlankOfAll(l) == LET at == {i \in 1..Len(l) : l[i] = " "}
                     IN  IF at = {} THEN 0 ELSE CHOOSE i \in at : \A j \in at : i >= j
LastBlank(l) == LET at == {i \in 1..(SignAt(l) - 1) : l[i] = " "}
                IN  IF at = {} THEN 0 ELSE CHOOSE i \in at : \A j \in at : i >= j

\* With a redirection the line is cut at the last blank before the sign; with
\* no blank there, at the sign, the second one if there are two.
CommandPart(l) ==
  IF SignAt(l) > Len(l) THEN l
  ELSE SubSeq(l, 1, IF LastBlank(l) # 0 THEN LastBlank(l) - 1
                    ELSE IF Doubled(l) THEN SignAt(l) ELSE SignAt(l) - 1)

\* The rest of the line, blanks and all, names the file.
Target(l) == LET i == SignAt(l) + (IF Doubled(l) THEN 2 ELSE 1)
             IN  SubSeq(l, NonBlank(l, i), Len(l))

\* A word in quotes ends at the same quote, another one at a blank.
From(l, b) == IF l[b] \in Quotes THEN b + 1 ELSE b
To(l, b) == First(l, From(l, b), IF l[b] \in Quotes THEN {l[b]} ELSE {" "})
Tokens(l) ==
  LET words[p \in 1..(Len(l) + 2)] ==
        LET b == NonBlank(l, p)
        IN  IF b > Len(l) THEN <<>> ELSE <<SubSeq(l, From(l, b), To(l, b) - 1)>> \o words[To(l, b) + 1]
  IN  words[1]

\* parse_command_line
Parse(l) == LET found == SignAt(l) <= Len(l)
                words == Tokens(CommandPart(l))
            IN  [argv |-> SubSeq(words, 1, IF Len(words) < MaxArgs THEN Len(words) ELSE MaxArgs),
                 redir |-> IF ~found THEN "none" ELSE IF Doubled(l) THEN ">>" ELSE l[SignAt(l)],
                 file |-> IF found THEN Target(l) ELSE <<>>]

\* args_buf in run_builtin: the words after the first, with blanks between.
\* A slip: room is kept for more than the terminator.
ArgRoomTight(size, pos) == size - 4 - pos
ArgRoom(size, pos) == size - 2 - pos     \* the characters of a word that are taken
ArgBlank(size, pos) == pos < size - 1
AddWord(buf, w, size) == LET room == ArgRoom(size, Len(buf))
                         IN  buf \o (IF Len(w) <= room THEN w ELSE SubSeq(w, 1, room))
Args(argv) ==
  LET buf[a \in 1..Len(argv)] ==
        IF a = 1 THEN <<>>
        ELSE LET t == AddWord(buf[a - 1], argv[a], LineSize)
             IN  IF a < Len(argv) /\ ArgBlank(LineSize, Len(t)) THEN Append(t, " ") ELSE t
  IN  buf[Len(argv)]

-----------------------------------------------------------------------------
\* The loop.

Prompt == Path \o <<" ", "$", " ">>
Inked == ink < InkCap /\ ink' = ink + 1
NoCell == -1
Idle == [argv |-> <<>>, redir |-> "none", file |-> <<>>]

InitShell == /\ screen = Cleared /\ phase = "prompt" /\ line = <<>> /\ cmd = Idle
             /\ start = NoCell /\ ink = 0

ShowPrompt == /\ phase = "prompt" /\ phase' = "read"
              /\ screen' = PutAll(screen, Prompt)
              /\ start' = screen'.cy * Width + screen'.cx
              /\ UNCHANGED <<line, cmd, ink>>

\* read_line_mux
TypeChar(c) == /\ phase = "read" /\ Len(line) < LineSize - 1 /\ Inked
               /\ line' = Append(line, c) /\ screen' = Putc(screen, c)
               /\ start' = IF c = "tab" \/ screen.cx + 1 >= Width THEN NoCell ELSE start
               /\ UNCHANGED <<phase, cmd>>

\* A slip: the cursor stays behind the character taken away.
EraseEchoShort == <<"bs", " ">>
EraseEcho == <<"bs", " ", "bs">>
Erase == /\ phase = "read" /\ line # <<>>
         /\ line' = Front(line) /\ screen' = PutAll(screen, EraseEcho)
         /\ UNCHANGED <<phase, cmd, start, ink>>

\* shell_run: nothing happens to a line without a word.
Enter == /\ phase = "read" /\ screen' = Putc(screen, "nl") /\ start' = NoCell /\ UNCHANGED ink
         /\ \/ Parse(line).argv = <<>> /\ phase' = "prompt" /\ line' = <<>> /\ UNCHANGED cmd
            \/ Parse(line).argv # <<>> /\ phase' = "run" /\ cmd' = Parse(line) /\ UNCHANGED line

\* While the command runs it prints, or clears the screen.
Output == /\ phase = "run" /\ Inked
          /\ \E c \in Printed : screen' = Putc(screen, c)
          /\ UNCHANGED <<phase, line, cmd, start>>
Clear == phase = "run" /\ screen' = Cleared /\ ink' = 0 /\ UNCHANGED <<phase, line, cmd, start>>
Done == /\ phase = "run" /\ phase' = "prompt" /\ line' = <<>> /\ cmd' = Idle
        /\ UNCHANGED <<screen, start, ink>>

NextShell == ShowPrompt \/ (\E c \in Typed : TypeChar(c)) \/ Erase \/ Enter
             \/ Output \/ Clear \/ Done

SpecShell == InitShell /\ [][NextShell]_shellVars

-----------------------------------------------------------------------------
\* What a line means, read from left to right: at each character the words
\* so far, the word or file begun, and whether the line is one whose meaning
\* is plain: a command and a blank before a redirection sign, blanks around words in quotes, no
\* sign in quotes, one redirection at most, nothing after its file.

Blank0 == [words |-> <<>>, open |-> <<>>, in |-> "gap", redir |-> "none", plain |-> TRUE]
EndWord(m) == [m EXCEPT !.words = Append(@, m.open), !.open = <<>>, !.in = "gap"]
Grow(m, c) == [m EXCEPT !.open = Append(@, c)]
Odd(m) == [m EXCEPT !.plain = FALSE]

InGap(m, c) ==
  IF c = " " THEN m
  ELSE IF c \in Quotes THEN [m EXCEPT !.in = c]
  ELSE IF c \notin Signs THEN Grow([m EXCEPT !.in = "word"], c)
  ELSE IF m.words = <<>> THEN Odd(m) ELSE [m EXCEPT !.redir = c, !.in = "sign"]
InWord(m, c) == IF c = " " THEN EndWord(m)
                ELSE IF c \in Quotes \cup Signs THEN Odd(m) ELSE Grow(m, c)
InQuotes(m, c) == IF c = m.in THEN [EndWord(m) EXCEPT !.in = "closed"]
                  ELSE IF c \in Signs THEN Odd(m) ELSE Grow(m, c)
Closed(m, c) == IF c = " " THEN [m EXCEPT !.in = "gap"] ELSE Odd(m)
ToFile(m, c) == IF m.in = "sign" /\ c = ">" /\ m.redir = ">" THEN [m EXCEPT !.redir = ">>", !.in = "to"]
                ELSE IF c = " " /\ m.in # "file" THEN [m EXCEPT !.in = "to"]
                ELSE IF c \in Signs \cup Quotes \cup {" "} THEN Odd(m)
                ELSE Grow([m EXCEPT !.in = "file"], c)

Read(m, c) == IF m.in = "gap" THEN InGap(m, c)
              ELSE IF m.in = "word" THEN InWord(m, c)
              ELSE IF m.in \in Quotes THEN InQuotes(m, c)
              ELSE IF m.in = "closed" THEN Closed(m, c) ELSE ToFile(m, c)

AllWords(m) == IF m.in \in Quotes \cup {"word"} THEN Append(m.words, m.open) ELSE m.words
Meant(l) == LET read[k \in 0..Len(l)] == IF k = 0 THEN Blank0 ELSE Read(read[k - 1], l[k])
                m == read[Len(l)]
                all == AllWords(m)
            IN  [plain |-> m.plain,
                 cmd |-> [argv |-> SubSeq(all, 1, IF Len(all) < MaxArgs THEN Len(all) ELSE MaxArgs),
                          redir |-> m.redir, file |-> IF m.redir = "none" THEN <<>> ELSE m.open]]

-----------------------------------------------------------------------------
\* Properties.

\* Every variable has its type: the cursor is on the screen, so that every
\* character is stored inside the video memory, also in the last column of the
\* last row; the line leaves room for its terminator and the words fit argv.
ShellTypeOK == /\ screen \in Screen /\ phase \in {"prompt", "read", "run"}
               /\ line \in Seq(Typed) /\ ink \in 0..InkCap /\ Len(line) < LineSize
               /\ Len(cmd.argv) <= MaxArgs /\ start \in Cells \cup {NoCell}

\* What was printed before the cursor is still there after any step but
\* clear, moved up by a row at most, and that only at the bottom.
OldTextStays == [][\/ screen' = Cleared \/ Keeps(screen, screen', 0)
                   \/ screen.cy = Height - 1 /\ Keeps(screen, screen', 1)]_shellVars

\* As long as the line has not reached the end of its row and has no tab, what
\* stands between the prompt and the cursor is the line the shell will run,
\* however it was corrected.  (Nothing goes back over the end of a row, and a
\* tab is one character of the line but up to four columns.)
LineOnScreen == phase = "read" /\ start # NoCell =>
  /\ screen.cy * Width + screen.cx = start + Len(line)
  /\ \A i \in 1..Len(line) : screen.cell[start + i - 1] = line[i]

\* A line whose meaning is plain runs as it was meant: its words, quotes taken
\* off, and its redirection.
ParsesAsWritten == phase = "run" /\ Meant(line).plain => cmd = Meant(line).cmd

\* A builtin gets its words whole, one blank between two of them, and its
\* buffer is never overrun, whatever line was typed.
Joined(argv) ==
  LET text[a \in 1..Len(argv)] == IF a = 1 THEN <<>>
                                   ELSE IF a = 2 THEN argv[2] ELSE text[a - 1] \o <<" ">> \o argv[a]
  IN  text[Len(argv)]
ArgsWhole == phase = "run" => Args(cmd.argv) = Joined(cmd.argv) /\ Len(Args(cmd.argv)) < LineSize
=============================================================================

SPECIFICATION SpecShell
CONSTANTS
  Width = 8
  Height = 2
  Glyph <- MCGlyph
  LineSize = 6
  MaxArgs = 3
  Path <- MCPath
  Typed <- MCTyped
  Printed = {"a", "nl", "cr", "bs"}
  InkCap = 5
INVARIANTS
  ShellTypeOK LineOnScreen ParsesAsWritten ArgsWhole
PROPERTY
  OldTextStays

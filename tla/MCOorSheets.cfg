CONSTANTS
  Arenas = {a1, a2}
  Top = 3
  MaxNodes = 3
  NoArena = NoArena
SPECIFICATION OorSpec
SYMMETRY Symmetry
INVARIANTS NeverForeign ListSound
CHECK_DEADLOCK FALSE

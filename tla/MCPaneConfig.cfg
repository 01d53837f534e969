SPECIFICATION ConfigSpec
CONSTANTS
  Panes = {p1}
  a = a
  b = b
  Names = {a, b}
  Addrs = {1, 2}
  None = None
  MaxDef = 3
  Base = 10
  Defaults <- MCDefaults
  DefaultSel <- MCDefaultSel
  DefaultFont = 50
  Display = Display
  MaxEvents = 6
  MaxStarts = 2
INVARIANTS KeepsChoice SavedWhenQuiet
CHECK_DEADLOCK FALSE

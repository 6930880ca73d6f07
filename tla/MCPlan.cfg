SPECIFICATION Spec
CONSTANTS
  Block = {b1, b2}
  First = {b1}
  Exp = {e1, e2}
  Content = {c1, c2}
  Setting = {s1, s2}
  Preset = s1
  Unused = Unused
  MaxEdits = 2
INVARIANTS TypeOK  LibraryKept
 
CHECK_DEADLOCK FALSE
SYMMETRY Alike

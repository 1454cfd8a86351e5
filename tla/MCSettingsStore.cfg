SPECIFICATION Spec
CONSTANTS
  Instances = {i1, i2}
  Themes = {Light, Dark}
  Filters = {Greater, Containing}
  Light = Light
  Dark = Dark
  Greater = Greater
  Containing = Containing
  ReadBack <- MCReadBack
  Default <- MCDefault
  Absent = Absent
  Partial = Partial
  None = None
  MaxDialogs = 2
  SideWork = FALSE
SYMMETRY Symmetry
INVARIANTS
  ThemeKept
  FilterKept
  FileWhole
  StaysProtected
PROPERTIES
  SavedSpec

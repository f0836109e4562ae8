SPECIFICATION Spec
CONSTANTS
  s = s
  d = d
  c = c
  k = k
  h = h
  Node = {s, d, c, k, h}
  Shape <- MCShape
  ByName = ByName
  Broken = Broken
  MaxTemplates = 2
  MaxSteps <- MCMaxSteps
  MaxDepth = 4
INVARIANTS BuiltIsTheTree ErrorIsTheFirst DefaultsStopAtTheTop
PROPERTIES CyclesNeverReturn BuildsReturn
CHECK_DEADLOCK FALSE

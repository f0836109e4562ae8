SPECIFICATION Spec
CONSTANTS
  Name <- MCName
  EmptyName = ""
  Step <- MCStep
  MaxGroups = 2
  MaxWidth = 2
INVARIANT RefusalsAreReal

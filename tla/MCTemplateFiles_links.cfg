SPECIFICATION Spec
CONSTANTS
  w = w
  g = g
  Unknown = Unknown
  Hole = Hole
  Caller = {c1}
  Document = {w, g}
  Kind <- MCKind
  Length <- MCLength
  Name <- MCName
  Stem <- MCStem
  OutputDir <- MCOutputDir
  FileName <- MCFileName
  Existing <- MCExisting
  Link <- MCLink
INVARIANT LinksAreContained

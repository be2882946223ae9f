SPECIFICATION Spec
CONSTANTS
  Frame = {f1, f2}
  Page = {p1, p2, p3, p4, p5}
  NoFrame = NoFrame
SYMMETRY Symmetry
INVARIANTS
  TypeOK
  ListsMatchMaps
  DirectoryBounds
  TrimFindsGhost
PROPERTIES
  ImplementsReplacer

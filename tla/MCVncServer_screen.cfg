SPECIFICATION FairSpec
CONSTANTS
  c1 = c1  c2 = c2
  W = 3
  H = 2
  Client = {c1, c2}
  Resizes = {c1}
  Zte = FALSE
  InitRotation = {0, 90}
  Rotations = {0, 90}
  Asks <- Screen_Asks
  DrawAt <- Screen_DrawAt
  MaxVersion = 1
  MaxConnect = 2
INVARIANTS TypeOK StaleIsMarked
PROPERTIES MirrorSpec CopyCatchesUp

SPECIFICATION Spec
CONSTANTS
  c1 = c1  c2 = c2
  W = 3
  H = 2
  Client = {c1}
  Resizes = {c1}
  Zte = FALSE
  InitRotation = {180}
  Rotations = {180}
  Asks <- Upside_Asks
  DrawAt <- Screen_DrawAt
  MaxVersion = 1
  MaxConnect = 1
INVARIANTS StaleIsMarked

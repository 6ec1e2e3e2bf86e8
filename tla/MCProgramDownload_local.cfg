SPECIFICATION FairSpec
CONSTANTS
  a1 = a1  a2 = a2  a3 = a3  b1 = b1  p = p  q = q  r = r  s = s  NoItem = NoItem
  Item <- Three_Item
  ProgramId = {p, q}
  pid <- Three_pid
  ver <- Three_ver
  Media = {r, s}
  res <- Three_res
  Inserted = {b1}
  Published = {a3}
  Held = {a1, b1}
  Ending = {a1, b1}
  MaxFault = 1
  MaxRetry = 1
  MaxClean = 1
INVARIANTS TypeOK UpdateIsFetched KeepsItsMedia
PROPERTIES DownloadDecided
CHECK_DEADLOCK FALSE

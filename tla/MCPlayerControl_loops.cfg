SPECIFICATION Spec
CONSTANTS
  l1 = l1  l2 = l2  l1b = l1b  i1 = i1  i1b = i1b  lp = lp  lp2 = lp2  m1 = m1  m2 = m2
  NoTask = NoTask  NoSlot = NoSlot
  Task <- Loop_Task
  ProgramId = {0, 1, 4, 5}
  pid <- Loop_pid
  Entry <- Loop_Entry
  member <- Loop_member
  Local <- Loop_Local
  Command <- Loop_Command
  Held <- Loop_Held
  HeldInsert <- NoTasks
  rank <- Loop_rank
  CmdThread = {c1}
  Slot = {s1, s2}
  Windows <- AllOpen
  MaxQueue = 1
  MaxControl = 1
  MaxClock = 0
  MaxDownload = 1
  MaxMenu = 0
  ControlKinds = {"ChgScreen", "StopPlay"}
INVARIANTS StoppedHoldsNothing DefaultPlayTruthful NoOrphanLoop LoopYields
CHECK_DEADLOCK FALSE
CONSTRAINT VersionsOrControl
SYMMETRY SlotSymmetry

SPECIFICATION FairSpec
CONSTANTS
  l1 = l1  l2 = l2  l1b = l1b  i1 = i1  i1b = i1b  lp = lp  lp2 = lp2  m1 = m1  m2 = m2
  NoTask = NoTask  NoSlot = NoSlot
  Task <- Update_Task
  ProgramId = {1, 3}
  pid <- Update_pid
  Entry <- NoTasks
  member <- NoLoops
  Local <- NoTasks
  Command <- NoTasks
  Held <- Update_Held
  HeldInsert <- Update_HeldInsert
  rank <- Update_rank
  CmdThread = {c1}
  Slot = {}
  Windows <- AnyWindow
  MaxQueue = 2
  MaxControl = 2
  MaxClock = 0
  MaxDownload = 0
  MaxMenu = 0
  ControlKinds = {"ChgScreen"}
PROPERTIES AckedChangeShown
CHECK_DEADLOCK FALSE

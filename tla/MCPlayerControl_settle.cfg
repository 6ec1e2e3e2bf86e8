SPECIFICATION FairSpec
CONSTANTS
  l1 = l1  l2 = l2  l1b = l1b  i1 = i1  i1b = i1b  lp = lp  lp2 = lp2  m1 = m1  m2 = m2
  NoTask = NoTask  NoSlot = NoSlot
  Task <- Plain_Task
  ProgramId = {1, 2, 3}
  pid <- Plain_pid
  Entry <- NoTasks
  member <- NoLoops
  Local <- NoTasks
  Command <- NoTasks
  Held <- Plain_Task
  HeldInsert <- Plain_HeldInsert
  rank <- Plain_rank
  CmdThread = {c1}
  Slot = {}
  Windows <- AnyWindow
  MaxQueue = 1
  MaxControl = 1
  MaxClock = 1
  MaxDownload = 0
  MaxMenu = 0
  ControlKinds = {"ChgScreen", "StopPlay", "OnPlay"}
PROPERTIES StopSettles WindowTakesOver
CHECK_DEADLOCK FALSE

SPECIFICATION FairSpec
CONSTANTS
  l1 = l1  l2 = l2  l1b = l1b  i1 = i1  i1b = i1b  lp = lp  lp2 = lp2  m1 = m1  m2 = m2
  NoTask = NoTask  NoSlot = NoSlot
  Task <- Loop_Task
  ProgramId = {0, 1, 4, 5}
  pid <- Loop_pid
  Entry <- Loop_Entry
  member <- Loop_member
  Local <- NoTasks
  Command <- NoTasks
  Held <- Loop_Held
  HeldInsert <- NoTasks
  rank <- Loop_rank
  CmdThread = {c1}
  Slot = {s1, s2}
  Windows <- AllOpen
  MaxQueue = 2
  MaxControl = 1
  MaxClock = 0
  MaxDownload = 0
  MaxMenu = 0
  ControlKinds = {"StopPlay"}
PROPERTIES StopSettles
CHECK_DEADLOCK FALSE

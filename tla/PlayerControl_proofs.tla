------------------------ MODULE PlayerControl_proofs ------------------------
(***************************************************************************)
(* Proofs about PlayerControl for every set of programs, playlists,        *)
(* commands and command threads.                                           *)
(***************************************************************************)
EXTENDS PlayerControl, SequenceTheorems, TLAPS

(* The scripts are sequences of steps. *)
LEMMA ScriptsAreScripts ==
  /\ StartPlay \in Seq(Step) /\ StopPlay \in Seq(Step) /\ ChangeScreen \in Seq(Step)
  /\ ClearChangeScreen \in Seq(Step)
  /\ InstallChange \in Seq(Step)
<1>1. StartPlay \in Seq(Step) /\ StopPlay \in Seq(Step) /\ ChangeScreen \in Seq(Step)
      /\ ClearChangeScreen \in Seq(Step)
  BY DEF StartPlay, StopPlay, ChangeScreen, ClearChangeScreen, Step
<1>2. <<"priorities">> \in Seq(Step) /\ <<"raise", "setProgram", "setDate">> \in Seq(Step)
  BY DEF Step
<1> QED
  BY <1>1, <1>2 DEF InstallChange

(* The initial state is well typed. *)
LEMMA InitTypeOK == Init => TypeOK
<1> SUFFICES ASSUME Init PROVE TypeOK
  OBVIOUS
<1> USE DEF Init
<1>1. ListTypes /\ TaskTypes
  BY TaskAssumption, DeliveryAssumption DEF ListTypes, TaskTypes, MaybeTask
<1>2. ChangeTypes /\ FlagTypes /\ LockTypes /\ ShowTypes
  BY DEF ChangeTypes, FlagTypes, LockTypes, ShowTypes, MaybeTask
<1>3. ScriptTypes /\ UiTypes
  BY DEF ScriptTypes, UiTypes, MaybeTask
<1>4. runnable \subseteq Task
  BY BoundAssumption
<1>5. WorldTypes
  BY <1>4 DEF WorldTypes, MaybeTask
<1>6. LoopTypes
  BY DEF LoopTypes, NoLoop, LoopThread
<1> QED
  BY <1>1, <1>2, <1>3, <1>5, <1>6 DEF TypeOK

(* What a step leaves alone keeps its type. *)
LEMMA KeptTypes ==
  /\ ListTypes /\ UNCHANGED lists => ListTypes'
  /\ TaskTypes /\ UNCHANGED <<priority, played, currentPlay>> => TaskTypes'
  /\ ChangeTypes /\ UNCHANGED change => ChangeTypes'
  /\ FlagTypes /\ UNCHANGED flags => FlagTypes'
  /\ LockTypes /\ UNCHANGED lock => LockTypes'
  /\ ShowTypes /\ UNCHANGED show => ShowTypes'
  /\ ScriptTypes /\ UNCHANGED script => ScriptTypes'
  /\ UiTypes /\ UNCHANGED ui => UiTypes'
  /\ LoopTypes /\ UNCHANGED loops => LoopTypes'
  /\ WorldTypes /\ UNCHANGED world => WorldTypes'
BY DEF ListTypes, TaskTypes, ChangeTypes, FlagTypes, LockTypes, ShowTypes, ScriptTypes,
       UiTypes, LoopTypes, WorldTypes, lists, change, flags, show, script, ui, page, loops,
       world

(* The remaining script of a thread, and what Continue makes of it. *)
LEMMA ContinueType ==
  ASSUME ScriptTypes, NEW th \in Thread, todo[th] # <<>>, NEW prefix \in Seq(Step),
         Continue(th, prefix)
  PROVE  todo' \in [Thread -> Seq(Step)]
<1>1. todo[th] \in Seq(Step)
  BY DEF ScriptTypes
<1>2. Tail(todo[th]) \in Seq(Step)
  BY <1>1, HeadTailProperties
<1>3. prefix \o Tail(todo[th]) \in Seq(Step)
  BY <1>2, ConcatProperties
<1> QED
  BY <1>3 DEF ScriptTypes, Continue

LEMMA AdvanceType ==
  ASSUME ScriptTypes, NEW th \in Thread, todo[th] # <<>>, Advance(th)
  PROVE  todo' \in [Thread -> Seq(Step)]
<1>1. <<>> \in Seq(Step)
  OBVIOUS
<1> QED
  BY <1>1, ContinueType DEF Advance

(* Messages: what is posted, and what is left when one is handled. *)
LEMMA MessageTypes == Default \in Message /\ \A p \in MaybeTask : Live(p) \in Message
BY DEF Default, Live, Message, MaybeTask

LEMMA PostType ==
  ASSUME UiTypes, NEW m \in Message, Post(m)
  PROVE  queue' \in Seq(Message)
BY DEF UiTypes, Post

LEMMA QueueTailType ==
  ASSUME UiTypes, queue # <<>>
  PROVE  Tail(queue) \in Seq(Message)
BY HeadTailProperties DEF UiTypes

(* The rank of a task is one of the ranks, whatever the change. *)
LEMMA PriorityType ==
  ASSUME TaskTypes
  PROVE  /\ ClearChangePriority =>
             priority' \in [Task -> {0, priorityLive, priorityInsert, priorityChangeScreen}]
         /\ \A t \in Task : Raised(t) \in
             [Task -> {0, priorityLive, priorityInsert, priorityChangeScreen}]
BY DEF TaskTypes, ClearChangePriority, ListPriority, Raised

LEMMA PlayedType ==
  ASSUME NEW f \in [Task -> BOOLEAN]
  PROVE  UnplayLoops(f) \in [Task -> BOOLEAN]
BY DEF UnplayLoops

LEMMA StoppedLoopType == LoopTypes => StoppedLoop \in [Slot -> LoopThread]
BY DEF LoopTypes, StoppedLoop, LoopThread

(* The steps of the show thread. *)
LEMMA ShowTypeOK == TypeOK /\ Show => TypeOK'
<1> SUFFICES ASSUME TypeOK, Show PROVE TypeOK'
  OBVIOUS
<1> USE KeptTypes DEF TypeOK
<1>ShowWake. CASE ShowWake
  BY <1>ShowWake DEF ShowWake, ShowTypes, show
<1>ShowDefault. CASE ShowDefault
  BY <1>ShowDefault, PostType, MessageTypes DEF ShowDefault, ShowTypes, UiTypes, show, ui, page
<1>ShowRead. CASE ShowRead
  BY <1>ShowRead DEF ShowRead, ShowTypes, LockTypes, ChangeTypes, show
<1>ShowChoose. CASE ShowChoose
  <2>1. Targets \subseteq MaybeTask
    BY DEF Targets, FirstCandidate, Candidates, Earliest, ListTypes, ShowTypes, MaybeTask
  <2> QED
    BY <1>ShowChoose, <2>1 DEF ShowChoose, ShowTypes, LockTypes, show
<1>ShowCommit. CASE ShowCommit
  BY <1>ShowCommit
  DEF ShowCommit, ShowTypes, LockTypes, TaskTypes, ChangeTypes, show, change, MaybeTask
<1>ShowCommitDate. CASE ShowCommitDate
  BY <1>ShowCommitDate DEF ShowCommitDate, ShowTypes, LockTypes, ChangeTypes, show, change
<1>ShowSend. CASE ShowSend
  BY <1>ShowSend, PostType, MessageTypes
  DEF ShowSend, ShowTypes, UiTypes, show, ui, page, MaybeTask
<1>ShowRefresh. CASE ShowRefresh
  BY <1>ShowRefresh, PostType, MessageTypes
  DEF ShowRefresh, ShowTypes, UiTypes, TaskTypes, show, ui, page, MaybeTask
<1>ShowRefreshed. CASE ShowRefreshed
  BY <1>ShowRefreshed DEF ShowRefreshed, ShowTypes, FlagTypes, show, flags
<1> QED
  BY <1>ShowWake, <1>ShowDefault, <1>ShowRead, <1>ShowChoose, <1>ShowCommit,
     <1>ShowCommitDate, <1>ShowSend, <1>ShowRefresh, <1>ShowRefreshed DEF Show

(* The steps of the scripts. *)
LEMMA ControlTypeOK == TypeOK /\ (\E th \in Thread : ControlStep(th)) => TypeOK'
<1> SUFFICES ASSUME TypeOK, NEW th \in Thread, ControlStep(th) PROVE TypeOK'
  OBVIOUS
<1> USE KeptTypes, AdvanceType DEF TypeOK, At
<1>EnterStartPlay. CASE EnterStartPlay(th)
  BY <1>EnterStartPlay, PriorityType
  DEF EnterStartPlay, ScriptTypes, script, LockTypes, FlagTypes, flags, TaskTypes
<1>LeaveStartPlay. CASE LeaveStartPlay(th)
  BY <1>LeaveStartPlay DEF LeaveStartPlay, ScriptTypes, script, LockTypes, FlagTypes, flags
<1>SetStatusStop. CASE SetStatusStop(th)
  BY <1>SetStatusStop DEF SetStatusStop, ScriptTypes, script, FlagTypes, flags
<1>ClearPriority. CASE ClearPriority(th)
  BY <1>ClearPriority, PriorityType DEF ClearPriority, ScriptTypes, script, TaskTypes
<1>SetChgScrProgram. CASE SetChgScrProgram(th)
  BY <1>SetChgScrProgram
  DEF SetChgScrProgram, ScriptTypes, script, ChangeTypes, change, MaybeTask
<1>SetChgScrDate. CASE SetChgScrDate(th)
  BY <1>SetChgScrDate DEF SetChgScrDate, ScriptTypes, script, ChangeTypes, change, MaybeTask
<1>TestCurrent. CASE TestCurrent(th)
  <2>1. <<>> \in Seq(Step) /\ <<"unplay">> \in Seq(Step)
    BY DEF Step
  <2> QED
    BY <1>TestCurrent, <2>1, ContinueType DEF TestCurrent, ScriptTypes, script
<1>Unplay. CASE Unplay(th)
  BY <1>Unplay DEF Unplay, ScriptTypes, script, TaskTypes, MaybeTask, WorldTypes, world
<1>NoCurrent. CASE NoCurrent(th)
  BY <1>NoCurrent DEF NoCurrent, ScriptTypes, script, TaskTypes, MaybeTask
<1>StopLoops. CASE StopLoops(th)
  BY <1>StopLoops, PlayedType, StoppedLoopType
  DEF StopLoops, LoopThreadNull, ScriptTypes, script, TaskTypes, LoopTypes, loops,
      WorldTypes, world
<1>CompareCurrent. CASE CompareCurrent(th)
  BY <1>CompareCurrent, ContinueType, ScriptsAreScripts
  DEF CompareCurrent, ScriptTypes, script, MaybeTask
<1>RaisePriority. CASE RaisePriority(th)
  <2>1. Raised(arg[th]) \in [Task -> {0, priorityLive, priorityInsert, priorityChangeScreen}]
    BY DEF Raised, TaskTypes
  <2> QED
    BY <1>RaisePriority, <2>1 DEF RaisePriority, ScriptTypes, script, TaskTypes
<1> QED
  BY <1>EnterStartPlay, <1>LeaveStartPlay, <1>SetStatusStop, <1>ClearPriority,
     <1>SetChgScrProgram, <1>SetChgScrDate, <1>TestCurrent, <1>Unplay, <1>NoCurrent,
     <1>StopLoops, <1>CompareCurrent, <1>RaisePriority
     DEF ControlStep

(* The steps of dispatchCommand. *)
LEMMA AddProgramType ==
  ASSUME TypeOK, NEW t \in Task, NEW type, AddProgram(t, type)
  PROVE  /\ programtasks' \subseteq Task /\ insProgramtasks' \subseteq Task
         /\ arrival' \in [Task -> Int] /\ arrivals' \in Nat
         /\ priority' \in [Task -> {0, priorityLive, priorityInsert, priorityChangeScreen}]
BY DEF TypeOK, ListTypes, TaskTypes, AddProgram, DeleteProgram, Without

LEMMA ItemsType ==
  ASSUME ScriptTypes, items # <<>>
  PROVE  Head(items) \in Task /\ Tail(items) \in Seq(Task)
BY HeadTailProperties DEF ScriptTypes

LEMMA DispatchTypeOK == TypeOK /\ DispatchStep => TypeOK'
<1> SUFFICES ASSUME TypeOK, DispatchStep PROVE TypeOK'
  OBVIOUS
<1> USE KeptTypes, AdvanceType, ItemsType DEF TypeOK, At
<1>0. "tcp" \in Thread
  BY DEF Thread
<1>ClearAllProgram. CASE ClearAllProgram
  BY <1>0, <1>ClearAllProgram DEF ClearAllProgram, ListTypes, ScriptTypes, script
<1>SkipItem. CASE SkipItem
  BY <1>SkipItem DEF SkipItem, ScriptTypes, script
<1>IsProgramInPlaying. CASE IsProgramInPlaying \/ ComparePlaying \/ CommandLost
  <2>1. /\ <<"noCurrent", "add", "item">> \in Seq(Step) /\ <<"add", "item">> \in Seq(Step)
        /\ <<"inPlaying">> \in Seq(Step)
    BY DEF Step
  <2>2. todo' \in [Thread -> Seq(Step)]
    <3>1. CASE IsProgramInPlaying
      BY <1>0, <2>1, <3>1, ContinueType DEF IsProgramInPlaying
    <3>2. CASE ComparePlaying
      BY <1>0, <2>1, <3>2, ContinueType DEF ComparePlaying
    <3>3. CASE CommandLost
      BY <1>0, <3>3, AdvanceType DEF CommandLost
    <3> QED
      BY <1>IsProgramInPlaying, <3>1, <3>2, <3>3
  <2>3. items' \in Seq(Task) /\ last' \in MaybeTask
    <3>1. <<>> \in Seq(Task)
      OBVIOUS
    <3>2. items' \in {items, <<>>} /\ last' \in {last, NoTask}
      BY <1>IsProgramInPlaying DEF IsProgramInPlaying, ComparePlaying, CommandLost
    <3> QED
      BY <3>1, <3>2 DEF ScriptTypes, MaybeTask
  <2> QED
    BY <1>IsProgramInPlaying, <2>2, <2>3
    DEF IsProgramInPlaying, ComparePlaying, CommandLost, ScriptTypes
<1>ChangeLost. CASE ChangeLost
  <2>1. played' \in [Task -> BOOLEAN] /\ loop' \in [Slot -> LoopThread]
    BY <1>ChangeLost, PlayedType, StoppedLoopType DEF ChangeLost, TaskTypes, LoopTypes
  <2>2. ScriptTypes'
    BY <1>0, <1>ChangeLost DEF ChangeLost, ScriptTypes, MaybeTask
  <2> QED
    BY <1>ChangeLost, <2>1, <2>2 DEF ChangeLost, TaskTypes, LoopTypes, loops
<1>AddLoopPlaylist. CASE AddLoopPlaylist
  <2>1. <<"add", "item">> \in Seq(Step)
    BY DEF Step
  <2>2. todo' \in [Thread -> Seq(Step)]
    BY <1>0, <2>1, <1>AddLoopPlaylist, ContinueType DEF AddLoopPlaylist
  <2>3. ListTypes'
    BY <1>AddLoopPlaylist DEF AddLoopPlaylist, Without, ListTypes
  <2> QED
    BY <1>AddLoopPlaylist, <2>2, <2>3 DEF AddLoopPlaylist, ScriptTypes
<1>AddItem. CASE AddItem
  <2>1. Head(items) \in Task /\ Tail(items) \in Seq(Task)
    BY <1>AddItem, ItemsType DEF AddItem
  <2>2. ListTypes' /\ TaskTypes'
    BY <1>AddItem, <2>1, AddProgramType DEF AddItem, ListTypes, TaskTypes
  <2>3. todo' \in [Thread -> Seq(Step)]
    BY <1>0, <1>AddItem, ContinueType, ScriptsAreScripts DEF AddItem
  <2>4. arg' \in [Thread -> MaybeTask] /\ last' \in MaybeTask
    BY <1>AddItem, <2>1 DEF AddItem, ScriptTypes, MaybeTask
  <2> QED
    BY <1>AddItem, <2>1, <2>2, <2>3, <2>4 DEF AddItem, ScriptTypes
<1>EndItems. CASE EndItems
  <2>1. todo' \in [Thread -> Seq(Step)]
    BY <1>0, <1>EndItems, ContinueType, ScriptsAreScripts DEF EndItems
  <2> QED
    BY <1>EndItems, <2>1 DEF EndItems, ScriptTypes, MaybeTask
<1> QED
  BY <1>ClearAllProgram, <1>SkipItem, <1>IsProgramInPlaying,
     <1>ChangeLost, <1>AddLoopPlaylist, <1>AddItem, <1>EndItems DEF DispatchStep

(* What the server sends. *)
LEMMA ServerTypeOK == TypeOK /\ Server => TypeOK'
<1> SUFFICES ASSUME TypeOK, Server PROVE TypeOK'
  OBVIOUS
<1> USE KeptTypes DEF TypeOK
<1>1. ASSUME NEW c \in Command, Dispatch(c) PROVE TypeOK'
  <2>1. c.type \in {"LivePlay", "InterPlay", "Publish"} /\ c.items \in Seq(Task)
    BY DeliveryAssumption
  <2>2. <<"clearAll">> \in Seq(Step) /\ <<>> \in Seq(Step) /\ <<"item">> \in Seq(Step)
    BY DEF Step
  <2>3. (IF c.type = "Publish" THEN <<"clearAll">> ELSE <<>>)
          \o StartPlay \o ClearChangeScreen \o <<"item">> \in Seq(Step)
    BY <2>2, ScriptsAreScripts, ConcatProperties
  <2>4. todo' \in [Thread -> Seq(Step)]
    BY <1>1, <2>3 DEF Dispatch, ScriptTypes
  <2>5. ScriptTypes'
    BY <1>1, <2>1, <2>4 DEF Dispatch, ScriptTypes, MaybeTask
  <2>6. used' \in [control : Nat, clock : Nat, download : Nat, menu : Nat,
                   sent : SUBSET Command]
    BY <1>1 DEF Dispatch, WorldTypes
  <2>7. WorldTypes'
    BY <1>1, <2>6 DEF Dispatch, WorldTypes, MaybeTask
  <2> QED
    BY <1>1, <2>5, <2>7 DEF Dispatch
<1>2. ASSUME NEW th \in CmdThread, NEW steps \in Seq(Step), Begin(th, steps)
      PROVE  /\ todo' \in [Thread -> Seq(Step)]
             /\ used' \in [control : Nat, clock : Nat, download : Nat, menu : Nat,
                           sent : SUBSET Command]
  <2>1. todo' \in [Thread -> Seq(Step)]
    BY <1>2 DEF Begin, ScriptTypes
  <2>2. used' \in [control : Nat, clock : Nat, download : Nat, menu : Nat,
                   sent : SUBSET Command]
    BY <1>2 DEF Begin, WorldTypes
  <2> QED
    BY <2>1, <2>2
<1>3. ASSUME NEW th \in CmdThread, ChgScreenCmd(th) PROVE TypeOK'
  <2>1. \A id : Lookup(id) \subseteq Task
    <3>1. LoopMembers \subseteq Task
      BY TaskAssumption, ElementOfSeq, LenProperties
      DEF LoopMembers, Members, Range, ListTypes
    <3> QED
      BY <3>1 DEF Lookup, ListTypes
  <2>2. arg' \in [Thread -> MaybeTask] /\ acked' \in MaybeTask
    BY <1>3, <2>1 DEF ChgScreenCmd, ScriptTypes, MaybeTask
  <2>3. Begin(th, ChangeScreen)
    BY <1>3 DEF ChgScreenCmd
  <2>4. ScriptTypes' /\ WorldTypes'
    BY <1>2, <1>3, <2>2, <2>3, ScriptsAreScripts DEF ChgScreenCmd, ScriptTypes, WorldTypes
  <2> QED
    BY <1>3, <2>4 DEF ChgScreenCmd
<1>4. ASSUME NEW th \in CmdThread, StopPlayCmd(th) \/ OnPlayCmd(th) PROVE TypeOK'
  BY <1>2, <1>4, ScriptsAreScripts
  DEF StopPlayCmd, OnPlayCmd, ScriptTypes, WorldTypes, MaybeTask
<1> QED
  BY <1>1, <1>3, <1>4 DEF Server

(* The UI thread. *)
LEMMA MembersType == LoopMembers \subseteq Task \/ ~ListTypes
BY TaskAssumption, ElementOfSeq, LenProperties DEF LoopMembers, Members, Range, ListTypes

LEMMA HandleTypeOK == TypeOK /\ Handle => TypeOK'
<1> SUFFICES ASSUME TypeOK, Handle PROVE TypeOK'
  OBVIOUS
<1> USE KeptTypes, QueueTailType DEF TypeOK
<1>1. CASE HandleDefault
  BY <1>1 DEF HandleDefault, UiTypes, FlagTypes, flags, page, MaybeTask
<1>2. ASSUME NEW p \in Task, HandleProgram(p) PROVE TypeOK'
  <2>1. loop' \in [Slot -> LoopThread]
    BY <1>2, StoppedLoopType DEF HandleProgram, LoopTypes
  <2> QED
    BY <1>2, <2>1 DEF HandleProgram, Take, UiTypes, TaskTypes, LoopTypes, MaybeTask
<1>3. ASSUME NEW p \in Task, HandleLoop(p) PROVE TypeOK'
  BY <1>3 DEF HandleLoop, Take, UiTypes, ListTypes, MaybeTask
<1>4. ASSUME NEW p \in Task, HandleLostLoop(p) PROVE TypeOK'
  BY <1>4 DEF HandleLostLoop, Take, UiTypes, page
<1>5. CASE PlayLoop
  <2>1. played' \in [Task -> BOOLEAN] /\ loop' \in [Slot -> LoopThread]
    BY <1>5, StoppedLoopType DEF PlayLoop, TaskTypes, LoopTypes
  <2> QED
    BY <1>5, <2>1 DEF PlayLoop, UiTypes, FlagTypes, TaskTypes, LoopTypes
<1>6. CASE UnplayLoop
  BY <1>6, PlayedType DEF UnplayLoop, UiTypes, TaskTypes
<1>7. CASE Load
  BY <1>7 DEF Load, LoadProgram, UiTypes, FlagTypes, TaskTypes, MaybeTask
<1>8. ASSUME NEW s \in Slot, NewLoop(s) PROVE TypeOK'
  <2>1. [on |-> TRUE, stop |-> FALSE, entry |-> found, next |-> 1, pc |-> "new"] \in LoopThread
    BY DEF LoopThread, UiTypes
  <2> QED
    BY <1>8, <2>1 DEF NewLoop, UiTypes, LoopTypes
<1>9. CASE StartLoop
  BY <1>9 DEF StartLoop, UiTypes, LoopTypes, LoopThread, MaybeTask
<1> QED
  BY <1>1, <1>2, <1>3, <1>4, <1>5, <1>6, <1>7, <1>8, <1>9 DEF Handle

LEMMA ActivityTypeOK == TypeOK /\ (User \/ ListPrograms \/ Resume) => TypeOK'
<1> SUFFICES ASSUME TypeOK, User \/ ListPrograms \/ Resume PROVE TypeOK'
  OBVIOUS
<1> USE KeptTypes DEF TypeOK
<1>0. "ui" \in Thread
  BY DEF Thread
<1>1. CASE OpenRequest
  <2>1. <<"openMenu">> \in Seq(Step)
    BY DEF Step
  <2>2. StopPlay \o <<"openMenu">> \in Seq(Step)
    BY <2>1, ScriptsAreScripts, ConcatProperties
  <2>3. todo' \in [Thread -> Seq(Step)]
    BY <1>1, <2>2 DEF OpenRequest, ScriptTypes
  <2>4. WorldTypes'
    BY <1>1 DEF OpenRequest, WorldTypes, MaybeTask
  <2> QED
    BY <1>1, <2>3, <2>4 DEF OpenRequest, ScriptTypes, UiTypes, page
<1>2. CASE ClickProgram
  <2>1. StopPlay \o ChangeScreen \in Seq(Step)
    BY ScriptsAreScripts, ConcatProperties
  <2>2. ScriptTypes'
    BY <1>2, <2>1 DEF ClickProgram, ScriptTypes, UiTypes, MaybeTask
  <2> QED
    BY <1>2, <2>2 DEF ClickProgram, UiTypes, page, WorldTypes, MaybeTask
<1>3. CASE LeaveRequest
  BY <1>3 DEF LeaveRequest, UiTypes, page
<1>4. CASE ListPrograms
  <2>1. menu' \subseteq Task
    BY <1>4, MembersType DEF ListPrograms, Listed, ListTypes
  <2> QED
    BY <1>0, <1>4, <2>1, AdvanceType DEF ListPrograms, At, ScriptTypes, UiTypes, page
<1>5. CASE Resume
  BY <1>5, ScriptsAreScripts DEF Resume, ScriptTypes, UiTypes, page
<1> QED
  BY <1>1, <1>2, <1>3, <1>4, <1>5 DEF User

(* The loop threads. *)
LEMMA LoopTypeOK == TypeOK /\ LoopInRange /\ (\E s \in Slot : Loop(s)) => TypeOK'
<1> SUFFICES ASSUME TypeOK, LoopInRange, NEW s \in Slot, Loop(s) PROVE TypeOK'
  OBVIOUS
<1> USE KeptTypes DEF TypeOK, LoopAt
<1>1. CASE LoopBroken(s)
  BY <1>1 DEF LoopBroken, WorldTypes
<1>2. CASE LoopTest(s)
  <2>1. NoLoop \in LoopThread
    BY DEF NoLoop, LoopThread
  <2> QED
    BY <1>2, <2>1 DEF LoopTest, LoopTypes, LoopThread, loops
<1>3. CASE LoopSend(s)
  <2>1. loop' \in [Slot -> LoopThread]
    BY <1>3 DEF LoopSend, LoopTypes, LoopThread
  <2>2. loop[s].entry \in Entry /\ loop[s].next \in 1 .. Len(member[loop[s].entry])
    BY <1>3 DEF LoopSend, LoopInRange, LoopEnd
  <2>3. member[loop[s].entry][loop[s].next] \in Task
    BY <2>2, TaskAssumption, ElementOfSeq
  <2>4. Live(member[loop[s].entry][loop[s].next]) \in Message
    BY <2>3, MessageTypes DEF MaybeTask
  <2>5. queue' \in Seq(Message)
    BY <1>3, <2>4, PostType DEF LoopSend
  <2> QED
    BY <1>3, <2>1, <2>5 DEF LoopSend, LoopTypes, UiTypes, page
<1> QED
  BY <1>1, <1>2, <1>3 DEF Loop

(* The clock, the clean-up and the downloads. *)
LEMMA ClockTypeOK == TypeOK /\ Clock => TypeOK'
<1> SUFFICES ASSUME TypeOK, Clock PROVE TypeOK'
  OBVIOUS
<1> USE KeptTypes DEF TypeOK
<1>1. CASE WindowOpens
  BY <1>1 DEF WindowOpens, Tick, ChangeTypes, WorldTypes
<1>2. CASE WindowCloses
  BY <1>2 DEF WindowCloses, Tick, WorldTypes
<1>3. CASE CleanPlayer
  BY <1>3 DEF CleanPlayer, ListTypes
<1>4. CASE DownloadComplete
  BY <1>4 DEF DownloadComplete, FlagTypes, WorldTypes
<1> QED
  BY <1>1, <1>2, <1>3, <1>4 DEF Clock

LEMMA NextTypeOK == TypeOK /\ LoopInRange /\ [Next]_vars => TypeOK'
<1>1. TypeOK /\ UNCHANGED vars => TypeOK'
  BY KeptTypes DEF TypeOK, vars
<1> QED
  BY <1>1, ShowTypeOK, ControlTypeOK, DispatchTypeOK, ServerTypeOK, HandleTypeOK,
     ActivityTypeOK, LoopTypeOK, ClockTypeOK DEF Next

-----------------------------------------------------------------------------
(* The loop threads stay within their playlists, and stopLoopTask reaches all that
   can go on for ever. *)

(* Only the UI thread, stopLoopTask and the loop threads write the loops. *)
LEMMA LoopsUnchanged ==
  /\ Show \/ Server \/ User \/ ListPrograms \/ Resume \/ Clock => UNCHANGED loops
  /\ DispatchStep => UNCHANGED loops \/ (loop' = StoppedLoop /\ UNCHANGED loopTask)
  /\ \A th \in Thread :
       ControlStep(th) => UNCHANGED loops \/ (loop' = StoppedLoop /\ UNCHANGED loopTask)
<1>1. Show \/ Server \/ User \/ ListPrograms \/ Resume \/ Clock => UNCHANGED loops
  BY DEF Show, ShowWake, ShowDefault, ShowRead, ShowChoose, ShowCommit, ShowCommitDate,
         ShowSend, ShowRefresh, ShowRefreshed, Server, Dispatch, ChgScreenCmd, StopPlayCmd,
         OnPlayCmd, User, OpenRequest, ClickProgram, LeaveRequest, ListPrograms, Resume,
         Clock, WindowOpens, WindowCloses, CleanPlayer, DownloadComplete
<1>2. DispatchStep => UNCHANGED loops \/ (loop' = StoppedLoop /\ UNCHANGED loopTask)
  BY DEF DispatchStep, ClearAllProgram, SkipItem, IsProgramInPlaying, ComparePlaying,
         CommandLost, ChangeLost, AddLoopPlaylist, AddItem, EndItems
<1>3. \A th \in Thread :
        ControlStep(th) => UNCHANGED loops \/ (loop' = StoppedLoop /\ UNCHANGED loopTask)
  BY DEF ControlStep, EnterStartPlay, LeaveStartPlay, SetStatusStop, ClearPriority,
         SetChgScrProgram, SetChgScrDate, TestCurrent, Unplay, NoCurrent, StopLoops,
         CompareCurrent, RaisePriority, loops
<1> QED
  BY <1>1, <1>2, <1>3

(* playProgram is left alone by the other threads. *)
LEMMA PageUnchanged ==
  [Next]_vars => Handle \/ UNCHANGED page
<1>1. Show \/ DispatchStep \/ Server \/ User \/ ListPrograms \/ Resume \/ Clock
        => UNCHANGED page
  BY DEF Show, ShowWake, ShowDefault, ShowRead, ShowChoose, ShowCommit, ShowCommitDate,
         ShowSend, ShowRefresh, ShowRefreshed, DispatchStep, ClearAllProgram, SkipItem,
         IsProgramInPlaying, ComparePlaying, CommandLost, ChangeLost, AddLoopPlaylist,
         AddItem, EndItems, Server, Dispatch, ChgScreenCmd, StopPlayCmd, OnPlayCmd, User,
         OpenRequest, ClickProgram, LeaveRequest, ListPrograms, Resume, Clock, WindowOpens,
         WindowCloses, CleanPlayer, DownloadComplete, ui
<1>2. \A th \in Thread : ControlStep(th) => UNCHANGED page
  BY DEF ControlStep, EnterStartPlay, LeaveStartPlay, SetStatusStop, ClearPriority,
         SetChgScrProgram, SetChgScrDate, TestCurrent, Unplay, NoCurrent, StopLoops,
         CompareCurrent, RaisePriority, ui
<1>3. \A s \in Slot : Loop(s) => UNCHANGED page
  BY DEF Loop, LoopBroken, LoopTest, LoopSend, ui
<1>4. UNCHANGED vars => UNCHANGED page
  BY DEF vars, ui
<1> QED
  BY <1>1, <1>2, <1>3, <1>4 DEF Next

LEMMA HandledStep ==
  ASSUME TypeOK, HandledInv, [Next]_vars
  PROVE  HandledInv'
<1> USE TaskAssumption DEF HandledInv
<1>1. UNCHANGED page => HandledInv'
  BY DEF page
<1>2. CASE HandleDefault
  BY <1>1, <1>2 DEF HandleDefault
<1>3. ASSUME NEW p \in Task, HandleProgram(p) PROVE HandledInv'
  BY <1>3 DEF HandleProgram
<1>4. ASSUME NEW p \in Task, HandleLoop(p) PROVE HandledInv'
  BY <1>4 DEF HandleLoop, TypeOK, ListTypes
<1>5. ASSUME NEW p \in Task, HandleLostLoop(p) PROVE HandledInv'
  BY <1>1, <1>5 DEF HandleLostLoop
<1>6. CASE PlayLoop
  BY <1>6 DEF PlayLoop, HandlingAt
<1>7. CASE UnplayLoop
  BY <1>7 DEF UnplayLoop, HandlingAt
<1>8. CASE Load \/ StartLoop
  BY <1>8 DEF Load, StartLoop
<1>9. ASSUME NEW s \in Slot, NewLoop(s) PROVE HandledInv'
  BY <1>9 DEF NewLoop, HandlingAt
<1> QED
  BY <1>1, <1>2, <1>3, <1>4, <1>5, <1>6, <1>7, <1>8, <1>9, PageUnchanged DEF Handle

LEMMA LoopInRangeStep ==
  ASSUME TypeOK, LoopInRange, HandledInv, [Next]_vars
  PROVE  LoopInRange'
<1> USE DEF LoopInRange, LoopEnd, loops
<1>1. UNCHANGED loop => LoopInRange'
  OBVIOUS
<1>2. loop' = StoppedLoop => LoopInRange'
  BY DEF StoppedLoop, TypeOK, LoopTypes, LoopThread
<1>3. ASSUME NEW p \in Task, HandleProgram(p) PROVE LoopInRange'
  BY <1>1, <1>2, <1>3 DEF HandleProgram
<1>4. ASSUME NEW s \in Slot, NewLoop(s) PROVE LoopInRange'
  <2>1. found \in Entry
    BY <1>4 DEF NewLoop, HandlingAt, HandledInv
  <2>2. Len(member[found]) \in Nat
    BY <2>1, TaskAssumption, LenProperties
  <2>3. loop' = [loop EXCEPT ![s] =
          [on |-> TRUE, stop |-> FALSE, entry |-> found, next |-> 1, pc |-> "new"]]
    BY <1>4 DEF NewLoop
  <2> QED
    BY <2>1, <2>2, <2>3 DEF TypeOK, LoopTypes
<1>5. ASSUME NEW s \in Slot, Loop(s) PROVE LoopInRange'
  <2>1. loop[s].on =>
          Len(member[loop[s].entry]) \in Nat /\ Len(member[loop[s].entry]) >= 1
    BY TaskAssumption, EmptySeq
  <2>2. CASE LoopBroken(s)
    BY <1>1, <2>2 DEF LoopBroken
  <2>3. CASE LoopTest(s)
    <3>1. CASE loop' = [loop EXCEPT ![s] = NoLoop]
      BY <3>1 DEF TypeOK, LoopTypes, NoLoop
    <3>2. CASE loop' = [loop EXCEPT ![s].pc = "send",
                                    ![s].next = IF @ > LoopEnd(s) THEN 1 ELSE @]
      <4>1. loop[s].on
        BY <2>3 DEF LoopTest, LoopAt
      <4> QED
        BY <2>1, <3>2, <4>1 DEF TypeOK, LoopTypes, LoopThread
    <3> QED
      BY <2>3, <3>1, <3>2 DEF LoopTest
  <2>4. CASE LoopSend(s)
    BY <2>1, <2>4 DEF LoopSend, LoopAt, TypeOK, LoopTypes, LoopThread
  <2> QED
    BY <1>5, <2>2, <2>3, <2>4 DEF Loop
<1>6. CASE StartLoop
  BY <1>6 DEF StartLoop, TypeOK, LoopTypes, LoopThread
<1>7. Handle => LoopInRange'
  BY <1>1, <1>2, <1>3, <1>4, <1>6
  DEF Handle, HandleDefault, HandleLoop, HandleLostLoop, PlayLoop, UnplayLoop, Load
<1>8. UNCHANGED vars => LoopInRange'
  BY <1>1 DEF vars
<1> QED
  BY <1>1, <1>2, <1>5, <1>7, <1>8, LoopsUnchanged DEF Next

(* Every reachable state is well typed, no loop thread leaves its playlist, and
   playProgram starts loops of the playlists it has found. *)
LEMMA TypesAndRanges == Spec => [](TypeOK /\ LoopInRange /\ HandledInv)
<1>1. Init => LoopInRange /\ HandledInv
  BY DEF Init, LoopInRange, HandledInv, NoLoop
<1> QED
  BY <1>1, InitTypeOK, NextTypeOK, LoopInRangeStep, HandledStep, PTL DEF Spec

THEOREM TypeCorrectness == Spec => []TypeOK
BY TypesAndRanges, PTL

LEMMA LoopRange == Spec => [](LoopInRange /\ HandledInv)
BY TypesAndRanges, PTL

(* Why a new loop leaves no old one behind: those there were have been told to stop
   before. *)
OldLoopsTold ==
  handling \in {"unplay", "new"} => \A s \in Slot : loop[s].on => loop[s].stop

LEMMA NoOrphanLoopStep ==
  ASSUME TypeOK, NoOrphanLoop, OldLoopsTold, [Next]_vars
  PROVE  NoOrphanLoop' /\ OldLoopsTold'
<1> USE DEF NoOrphanLoop, OldLoopsTold, loops, page
<1>0. loop \in [Slot -> LoopThread] /\ loopTask \in Slot \cup {NoSlot}
  BY DEF TypeOK, LoopTypes
<1>1. ASSUME UNCHANGED <<loop, loopTask>>, handling' \in {handling, "idle", "play", "load"}
      PROVE  NoOrphanLoop' /\ OldLoopsTold'
  BY <1>1
<1>2. ASSUME loop' = StoppedLoop, UNCHANGED loopTask PROVE NoOrphanLoop' /\ OldLoopsTold'
  <2>1. \A s \in Slot : loop'[s].on => loop[s].on /\ loop'[s].stop
    BY <1>0, <1>2, BoundAssumption DEF StoppedLoop, LoopThread
  <2> QED
    BY <2>1
<1>3. ASSUME NEW p \in Task, HandleProgram(p) PROVE NoOrphanLoop' /\ OldLoopsTold'
  BY <1>1, <1>2, <1>3 DEF HandleProgram
<1>4. ASSUME NEW s \in Slot, NewLoop(s) PROVE NoOrphanLoop' /\ OldLoopsTold'
  BY <1>0, <1>4 DEF NewLoop, HandlingAt
<1>5. ASSUME NEW s \in Slot, Loop(s) PROVE NoOrphanLoop' /\ OldLoopsTold'
  <2>1. UNCHANGED <<handling, loopTask>>
    BY <1>5 DEF Loop, LoopBroken, LoopTest, LoopSend, ui
  <2>2. \A u \in Slot : loop'[u].on => loop[u].on /\ loop'[u].stop = loop[u].stop
    BY <1>0, <1>5 DEF Loop, LoopBroken, LoopTest, LoopSend, LoopThread, NoLoop
  <2> QED
    BY <2>1, <2>2
<1>6. CASE StartLoop
  <2>1. \A u \in Slot : loop'[u].on = loop[u].on /\ loop'[u].stop = loop[u].stop
    BY <1>0, <1>6 DEF StartLoop, LoopThread
  <2> QED
    BY <1>6, <2>1 DEF StartLoop
<1>7. CASE UnplayLoop
  BY <1>7 DEF UnplayLoop, HandlingAt
<1>8. CASE HandleDefault \/ (\E p \in Task : HandleLoop(p) \/ HandleLostLoop(p)) \/ Load
  BY <1>1, <1>8 DEF HandleDefault, HandleLoop, HandleLostLoop, Load
<1>9. CASE PlayLoop
  BY <1>2, <1>9 DEF PlayLoop
<1>10. CASE ~Handle
  <2>1. UNCHANGED handling
    BY <1>10, PageUnchanged
  <2>2. UNCHANGED <<loop, loopTask>> \/ (loop' = StoppedLoop /\ UNCHANGED loopTask)
          \/ \E s \in Slot : Loop(s)
    BY <1>10, LoopsUnchanged DEF Next, vars
  <2> QED
    BY <1>1, <1>2, <1>5, <2>1, <2>2
<1> QED
  BY <1>3, <1>4, <1>6, <1>7, <1>8, <1>9, <1>10 DEF Handle

(* A loop thread that has not been told to stop is the one loopTask refers to. *)
THEOREM NoOrphans == Spec => []NoOrphanLoop
<1>1. Init => NoOrphanLoop /\ OldLoopsTold
  BY DEF Init, NoOrphanLoop, OldLoopsTold, NoLoop
<1>2. TypeOK /\ NoOrphanLoop /\ OldLoopsTold /\ [Next]_vars => NoOrphanLoop' /\ OldLoopsTold'
  BY NoOrphanLoopStep
<1> QED
  BY <1>1, <1>2, TypeCorrectness, PTL DEF Spec

-----------------------------------------------------------------------------
(* The lists and the ranks of their programs. *)

(* Only the TCP thread and the hourly clean-up write the lists. *)
LEMMA ListsUnchanged ==
  /\ Show \/ Server \/ Handle \/ User \/ ListPrograms \/ Resume => UNCHANGED lists
  /\ \A th \in Thread : ControlStep(th) => UNCHANGED lists
  /\ \A s \in Slot : Loop(s) => UNCHANGED lists
  /\ Clock => CleanPlayer \/ UNCHANGED lists
  /\ DispatchStep => ClearAllProgram \/ AddItem \/ UNCHANGED <<programtasks, insProgramtasks>>
<1>1. Show \/ Server \/ User \/ ListPrograms \/ Resume => UNCHANGED lists
  BY DEF Show, ShowWake, ShowDefault, ShowRead, ShowChoose, ShowCommit, ShowCommitDate,
         ShowSend, ShowRefresh, ShowRefreshed, Server, Dispatch, ChgScreenCmd, StopPlayCmd,
         OnPlayCmd, User, OpenRequest, ClickProgram, LeaveRequest, ListPrograms, Resume
<1>2. Handle => UNCHANGED lists
  BY DEF Handle, HandleDefault, HandleProgram, HandleLoop, HandleLostLoop, PlayLoop,
         UnplayLoop, Load, NewLoop, StartLoop
<1>3. \A th \in Thread : ControlStep(th) => UNCHANGED lists
  BY DEF ControlStep, EnterStartPlay, LeaveStartPlay, SetStatusStop, ClearPriority,
         SetChgScrProgram, SetChgScrDate, TestCurrent, Unplay, NoCurrent, StopLoops,
         CompareCurrent, RaisePriority
<1>4. \A s \in Slot : Loop(s) => UNCHANGED lists
  BY DEF Loop, LoopBroken, LoopTest, LoopSend
<1>5. Clock => CleanPlayer \/ UNCHANGED lists
  BY DEF Clock, WindowOpens, WindowCloses, DownloadComplete
<1>6. DispatchStep => ClearAllProgram \/ AddItem \/ UNCHANGED <<programtasks, insProgramtasks>>
  BY DEF DispatchStep, SkipItem, IsProgramInPlaying, ComparePlaying, CommandLost,
         ChangeLost, AddLoopPlaylist, EndItems, lists
<1> QED
  BY <1>1, <1>2, <1>3, <1>4, <1>5, <1>6

(* addProgram leaves one version of the program it is given. *)
LEMMA AddProgramUnique ==
  ASSUME UniqueProgramIds, NEW t \in Task, NEW type, AddProgram(t, type)
  PROVE  /\ UniqueProgramIds'
         /\ t \notin programtasks' \/ t \notin insProgramtasks'
         /\ t \in (IF type = "InterPlay" THEN insProgramtasks' ELSE programtasks')
         /\ programtasks' \subseteq programtasks \cup {t}
         /\ insProgramtasks' \subseteq insProgramtasks \cup {t}
BY DEF UniqueProgramIds, Listed, AddProgram, DeleteProgram, Without

LEMMA UniqueStep ==
  ASSUME TypeOK, UniqueProgramIds, [Next]_vars
  PROVE  UniqueProgramIds'
<1>1. UNCHANGED <<programtasks, insProgramtasks>> => UniqueProgramIds'
  BY DEF UniqueProgramIds, Listed
<1>2. UNCHANGED lists => UniqueProgramIds'
  BY <1>1 DEF lists
<1>3. CASE ClearAllProgram
  BY <1>3 DEF ClearAllProgram, UniqueProgramIds, Listed
<1>4. CASE AddItem
  <2>1. Head(items) \in Task /\ AddProgram(Head(items), command)
    BY <1>4, ItemsType DEF AddItem, TypeOK
  <2> QED
    BY <2>1, AddProgramUnique
<1>5. CASE CleanPlayer
  BY <1>5 DEF CleanPlayer, UniqueProgramIds, Listed
<1>6. UNCHANGED vars => UniqueProgramIds'
  BY <1>2 DEF vars
<1> QED
  BY <1>1, <1>2, <1>3, <1>4, <1>5, <1>6, ListsUnchanged DEF Next

(* No two listed programs have the same programid. *)
THEOREM UniqueIds == Spec => []UniqueProgramIds
<1>1. Init => UniqueProgramIds
  BY DeliveryAssumption DEF Init, UniqueProgramIds, Listed
<1>2. UniqueProgramIds /\ TypeOK /\ [Next]_vars => UniqueProgramIds'
  BY UniqueStep
<1> QED
  BY <1>1, <1>2, TypeCorrectness, PTL DEF Spec

(* Who writes the ranks. *)
LEMMA PriorityUnchanged ==
  /\ Show \/ Server \/ Handle \/ User \/ ListPrograms \/ Resume \/ Clock
       => UNCHANGED priority
  /\ \A th \in Thread : ControlStep(th) =>
       UNCHANGED priority \/ ClearChangePriority \/ priority' = Raised(arg[th])
  /\ \A s \in Slot : Loop(s) => UNCHANGED priority
  /\ DispatchStep => AddItem \/ UNCHANGED priority
<1>1. Show \/ Server \/ User \/ ListPrograms \/ Resume \/ Clock => UNCHANGED priority
  BY DEF Show, ShowWake, ShowDefault, ShowRead, ShowChoose, ShowCommit, ShowCommitDate,
         ShowSend, ShowRefresh, ShowRefreshed, Server, Dispatch, ChgScreenCmd, StopPlayCmd,
         OnPlayCmd, User, OpenRequest, ClickProgram, LeaveRequest, ListPrograms, Resume,
         Clock, WindowOpens, WindowCloses, CleanPlayer, DownloadComplete
<1>2. Handle => UNCHANGED priority
  BY DEF Handle, HandleDefault, HandleProgram, HandleLoop, HandleLostLoop, PlayLoop,
         UnplayLoop, Load, NewLoop, StartLoop
<1>3. \A th \in Thread : ControlStep(th) =>
        UNCHANGED priority \/ ClearChangePriority \/ priority' = Raised(arg[th])
  BY DEF ControlStep, EnterStartPlay, LeaveStartPlay, SetStatusStop, ClearPriority,
         SetChgScrProgram, SetChgScrDate, TestCurrent, Unplay, NoCurrent, StopLoops,
         CompareCurrent, RaisePriority
<1>4. \A s \in Slot : Loop(s) => UNCHANGED priority
  BY DEF Loop, LoopBroken, LoopTest, LoopSend
<1>5. DispatchStep => AddItem \/ UNCHANGED priority
  BY DEF DispatchStep, ClearAllProgram, SkipItem, IsProgramInPlaying, ComparePlaying,
         CommandLost, ChangeLost, AddLoopPlaylist, EndItems
<1> QED
  BY <1>1, <1>2, <1>3, <1>4, <1>5

(* A program in both lists could have either rank: UniqueProgramIds is needed. *)
LEMMA PriorityStep ==
  ASSUME TypeOK, UniqueProgramIds, PriorityFollowsList, [Next]_vars
  PROVE  PriorityFollowsList'
<1>1. programtasks' \subseteq programtasks /\ insProgramtasks' \subseteq insProgramtasks
        /\ UNCHANGED priority => PriorityFollowsList'
  BY DEF PriorityFollowsList
<1>2. UNCHANGED <<programtasks, insProgramtasks, priority>> => PriorityFollowsList'
  BY <1>1
<1>3. CASE AddItem
  <2>1. Head(items) \in Task /\ AddProgram(Head(items), command)
    BY <1>3, ItemsType DEF AddItem, TypeOK
  <2>2. priority' = [priority EXCEPT ![Head(items)] =
          IF command = "InterPlay" THEN priorityInsert ELSE priorityLive]
    BY <2>1 DEF AddProgram
  <2> QED
    BY <2>1, <2>2, AddProgramUnique
    DEF PriorityFollowsList, TypeOK, TaskTypes, ListTypes
<1>4. ClearChangePriority /\ UNCHANGED lists => PriorityFollowsList'
  BY DEF ClearChangePriority, ListPriority, lists, PriorityFollowsList, UniqueProgramIds,
         TypeOK, TaskTypes, ListTypes
<1>5. \A t : priority' = Raised(t) /\ UNCHANGED lists => PriorityFollowsList'
  BY DEF Raised, lists, PriorityFollowsList, TypeOK, TaskTypes, ListTypes
<1>6. CASE ClearAllProgram
  BY <1>1, <1>6 DEF ClearAllProgram
<1>7. CASE CleanPlayer
  BY <1>1, <1>7 DEF CleanPlayer
<1>8. UNCHANGED lists => UNCHANGED <<programtasks, insProgramtasks>>
  BY DEF lists
<1>9. UNCHANGED vars => PriorityFollowsList'
  BY <1>2, <1>8 DEF vars
<1>10. ASSUME NEW th \in Thread, ControlStep(th) PROVE PriorityFollowsList'
  BY <1>2, <1>4, <1>5, <1>8, <1>10, ListsUnchanged, PriorityUnchanged
<1>11. DispatchStep => PriorityFollowsList'
  BY <1>2, <1>3, <1>6, ListsUnchanged, PriorityUnchanged
<1>12. Clock => PriorityFollowsList'
  BY <1>2, <1>7, <1>8, ListsUnchanged, PriorityUnchanged
<1> QED
  BY <1>2, <1>8, <1>9, <1>10, <1>11, <1>12, ListsUnchanged, PriorityUnchanged DEF Next

(* A listed program has the rank of the list it is in, or that of a change of screen
   (which may outlive the change): clearChangePriority and addProgram never leave it
   the rank of the other list. *)
THEOREM PriorityFollows == Spec => []PriorityFollowsList
<1>1. Init => PriorityFollowsList
  BY DeliveryAssumption DEF Init, PriorityFollowsList
<1>2. PriorityFollowsList /\ TypeOK /\ UniqueProgramIds /\ [Next]_vars => PriorityFollowsList'
  BY PriorityStep
<1> QED
  BY <1>1, <1>2, TypeCorrectness, UniqueIds, PTL DEF Spec

-----------------------------------------------------------------------------
(* defaultPlay. *)

LEMMA DefaultPlayStep == DefaultPlayTruthful /\ [Next]_vars => DefaultPlayTruthful'
<1> SUFFICES ASSUME DefaultPlayTruthful, [Next]_vars PROVE DefaultPlayTruthful'
  OBVIOUS
<1> USE DEF DefaultPlayTruthful
<1>1. UNCHANGED <<defaultPlay, screen>> => DefaultPlayTruthful'
  OBVIOUS
<1>2. ~defaultPlay' => DefaultPlayTruthful'
  OBVIOUS
<1>3. Show => UNCHANGED <<defaultPlay, screen>>
  BY DEF Show, ShowWake, ShowDefault, ShowRead, ShowChoose, ShowCommit, ShowCommitDate,
         ShowSend, ShowRefresh, ShowRefreshed, flags, ui
<1>4. ASSUME NEW th \in Thread, ControlStep(th) PROVE DefaultPlayTruthful'
  BY <1>1, <1>2, <1>4
  DEF ControlStep, EnterStartPlay, LeaveStartPlay, SetStatusStop, ClearPriority,
      SetChgScrProgram, SetChgScrDate, TestCurrent, Unplay, NoCurrent, StopLoops,
      CompareCurrent, RaisePriority, flags, ui
<1>5. DispatchStep \/ Server => UNCHANGED <<defaultPlay, screen>>
  BY DEF DispatchStep, ClearAllProgram, SkipItem, IsProgramInPlaying, ComparePlaying,
         CommandLost, ChangeLost, AddLoopPlaylist, AddItem, EndItems, Server, Dispatch,
         ChgScreenCmd, StopPlayCmd, OnPlayCmd, flags, ui
<1>6. Handle => DefaultPlayTruthful'
  BY <1>1 DEF Handle, HandleDefault, HandleProgram, HandleLoop, HandleLostLoop, PlayLoop,
         UnplayLoop, Load, NewLoop, StartLoop, LoadProgram, flags, ui
<1>7. User \/ ListPrograms \/ Resume \/ Clock => UNCHANGED <<defaultPlay, screen>>
  BY DEF User, OpenRequest, ClickProgram, LeaveRequest, ListPrograms, Resume, Clock,
         WindowOpens, WindowCloses, CleanPlayer, DownloadComplete, flags, ui
<1>8. ASSUME NEW s \in Slot, Loop(s) PROVE UNCHANGED <<defaultPlay, screen>>
  BY <1>8 DEF Loop, LoopBroken, LoopTest, LoopSend, flags, ui
<1>9. UNCHANGED vars => UNCHANGED <<defaultPlay, screen>>
  BY DEF vars, flags, ui
<1> QED
  BY <1>1, <1>3, <1>4, <1>5, <1>6, <1>7, <1>8, <1>9 DEF Next

(* The flag defaultPlay never claims the default page while a program is shown. *)
THEOREM DefaultPlay == Spec => []DefaultPlayTruthful
<1>1. Init => DefaultPlayTruthful
  BY DEF Init, DefaultPlayTruthful
<1> QED
  BY <1>1, DefaultPlayStep, PTL DEF Spec

-----------------------------------------------------------------------------
(* A stopped player holds no current program. *)

(* Sequences of steps. *)
LEMMA HasTail ==
  ASSUME NEW s \in Seq(Step), s # <<>>, NEW x, Has(s, x), Head(s) # x
  PROVE  Has(Tail(s), x)
<1>1. PICK i \in 1 .. Len(s) : s[i] = x
  BY DEF Has
<1>2. Head(s) = s[1]
  OBVIOUS
<1>3. i - 1 \in 1 .. Len(Tail(s)) /\ Tail(s)[i - 1] = s[i]
  BY <1>1, <1>2, HeadTailProperties, LenProperties
<1> QED
  BY <1>1, <1>3 DEF Has

LEMMA HasConcat ==
  ASSUME NEW p \in Seq(Step), NEW s \in Seq(Step), NEW x, Has(s, x)
  PROVE  Has(p \o s, x)
<1>1. PICK i \in 1 .. Len(s) : s[i] = x
  BY DEF Has
<1>2. Len(p) + i \in 1 .. Len(p \o s) /\ (p \o s)[Len(p) + i] = s[i]
  BY <1>1, ConcatProperties, LenProperties
<1> QED
  BY <1>1, <1>2 DEF Has

LEMMA StopFollowedTail ==
  ASSUME NEW s \in Seq(Step), s # <<>>, StopFollowed(s)
  PROVE  /\ StopFollowed(Tail(s))
         /\ Head(s) = "stop" => Has(Tail(s), "noCurrent")
<1>1. /\ Len(s) \in Nat /\ Len(Tail(s)) = Len(s) - 1 /\ Head(s) = s[1]
      /\ \A i \in 1 .. Len(Tail(s)) : Tail(s)[i] = s[i + 1]
  BY HeadTailProperties, LenProperties
<1>2. ASSUME NEW i \in 1 .. Len(s), s[i] = "stop"
      PROVE  \E j \in i .. Len(Tail(s)) : Tail(s)[j] = "noCurrent"
  <2>1. PICK j \in i + 1 .. Len(s) : s[j] = "noCurrent"
    BY <1>2 DEF StopFollowed
  <2>2. j - 1 \in i .. Len(Tail(s)) /\ Tail(s)[j - 1] = "noCurrent"
    BY <1>1, <2>1
  <2> QED
    BY <2>2
<1>3. StopFollowed(Tail(s))
  <2>1. ASSUME NEW i \in 1 .. Len(Tail(s)), Tail(s)[i] = "stop"
        PROVE  \E j \in i + 1 .. Len(Tail(s)) : Tail(s)[j] = "noCurrent"
    BY <1>1, <1>2, <2>1
  <2> QED
    BY <2>1 DEF StopFollowed
<1>4. Head(s) = "stop" => Has(Tail(s), "noCurrent")
  <2>1. s # <<>> => 1 \in 1 .. Len(s)
    BY <1>1, EmptySeq
  <2> QED
    BY <1>1, <1>2, <2>1 DEF Has
<1> QED
  BY <1>3, <1>4

LEMMA StopFollowedConcat ==
  ASSUME NEW p \in Seq(Step), NEW s \in Seq(Step), StopFollowed(p), StopFollowed(s)
  PROVE  StopFollowed(p \o s)
<1>1. /\ Len(p) \in Nat /\ Len(s) \in Nat /\ Len(p \o s) = Len(p) + Len(s)
      /\ \A i \in 1 .. Len(p) + Len(s) :
           (p \o s)[i] = IF i <= Len(p) THEN p[i] ELSE s[i - Len(p)]
  BY ConcatProperties, LenProperties
<1>2. ASSUME NEW i \in 1 .. Len(p \o s), (p \o s)[i] = "stop"
      PROVE  \E j \in i + 1 .. Len(p \o s) : (p \o s)[j] = "noCurrent"
  <2>1. CASE i <= Len(p)
    <3>1. PICK j \in i + 1 .. Len(p) : p[j] = "noCurrent"
      BY <1>1, <1>2, <2>1 DEF StopFollowed
    <3>2. j \in i + 1 .. Len(p \o s) /\ (p \o s)[j] = "noCurrent"
      BY <1>1, <3>1
    <3> QED
      BY <3>2
  <2>2. CASE i > Len(p)
    <3>1. i - Len(p) \in 1 .. Len(s) /\ s[i - Len(p)] = "stop"
      BY <1>1, <1>2, <2>2
    <3>2. PICK j \in i - Len(p) + 1 .. Len(s) : s[j] = "noCurrent"
      BY <3>1 DEF StopFollowed
    <3>3. j + Len(p) \in i + 1 .. Len(p \o s) /\ (p \o s)[j + Len(p)] = "noCurrent"
      BY <1>1, <3>1, <3>2
    <3> QED
      BY <3>3
  <2> QED
    BY <1>1, <2>1, <2>2
<1> QED
  BY <1>2 DEF StopFollowed

LEMMA ScriptsStopFollowed ==
  /\ StopFollowed(StartPlay) /\ StopFollowed(StopPlay) /\ StopFollowed(ChangeScreen)
  /\ StopFollowed(ClearChangeScreen) /\ StopFollowed(InstallChange)
  /\ StopFollowed(<<>>)
  /\ \A x \in Step : x # "stop" => StopFollowed(<<x>>)
<1>1. /\ StopFollowed(StartPlay) /\ StopFollowed(ChangeScreen)
      /\ StopFollowed(ClearChangeScreen) /\ StopFollowed(<<>>)
  BY DEF StopFollowed, StartPlay, ChangeScreen, ClearChangeScreen
<1>2. StopFollowed(StopPlay)
  BY DEF StopFollowed, StopPlay
<1>3. \A x \in Step : x # "stop" => StopFollowed(<<x>>)
  BY DEF StopFollowed
<1>4. <<"priorities">> \in Seq(Step) /\ <<"raise", "setProgram", "setDate">> \in Seq(Step)
  BY DEF Step
<1>5. StopFollowed(<<"priorities">>) /\ StopFollowed(<<"raise", "setProgram", "setDate">>)
  BY DEF StopFollowed
<1>6. StopFollowed(InstallChange)
  BY <1>1, <1>4, <1>5, ScriptsAreScripts, StopFollowedConcat, ConcatProperties
  DEF InstallChange
<1> QED
  BY <1>1, <1>2, <1>3, <1>6

(* What a step does to the scripts: no stop loses its noCurrent, and a pending
   noCurrent stays pending until it is executed. *)
ScriptsKept == StopsClear' /\ (Pending("noCurrent") => Pending("noCurrent")')

LEMMA ContinueKeeps ==
  ASSUME TypeOK, StopsClear, NEW th \in Thread, todo[th] # <<>>,
         NEW prefix \in Seq(Step), StopFollowed(prefix), Continue(th, prefix)
  PROVE  /\ StopsClear'
         /\ Head(todo[th]) # "noCurrent" => ScriptsKept
         /\ Head(todo[th]) = "stop" => Pending("noCurrent")'
<1>1. /\ todo \in [Thread -> Seq(Step)] /\ todo[th] \in Seq(Step)
      /\ Tail(todo[th]) \in Seq(Step)
  BY HeadTailProperties DEF TypeOK, ScriptTypes
<1>2. todo' = [todo EXCEPT ![th] = prefix \o Tail(todo[th])]
  BY DEF Continue
<1>3. StopFollowed(prefix \o Tail(todo[th]))
  BY <1>1, StopFollowedTail, StopFollowedConcat DEF StopsClear
<1>4. StopsClear'
  BY <1>1, <1>2, <1>3 DEF StopsClear
<1>5. ASSUME NEW x, Has(Tail(todo[th]), x) PROVE Pending(x)'
  BY <1>1, <1>2, <1>5, HasConcat DEF Pending
<1>6. ASSUME Head(todo[th]) # "noCurrent", Pending("noCurrent") PROVE Pending("noCurrent")'
  <2>1. PICK u \in Thread : Has(todo[u], "noCurrent")
    BY <1>6 DEF Pending
  <2>2. CASE u = th
    BY <1>1, <1>5, <1>6, <2>1, <2>2, HasTail
  <2>3. CASE u # th
    BY <1>1, <1>2, <2>1, <2>3 DEF Pending
  <2> QED
    BY <2>2, <2>3
<1>7. Head(todo[th]) = "stop" => Pending("noCurrent")'
  BY <1>1, <1>5, StopFollowedTail DEF StopsClear
<1> QED
  BY <1>4, <1>6, <1>7 DEF ScriptsKept

LEMMA BeginKeeps ==
  ASSUME TypeOK, StopsClear, NEW th \in Thread, todo[th] = <<>>, NEW s, StopFollowed(s),
         todo' = [todo EXCEPT ![th] = s]
  PROVE  ScriptsKept
<1>1. ~Has(todo[th], "noCurrent")
  BY DEF Has
<1>2. todo \in [Thread -> Seq(Step)]
  BY DEF TypeOK, ScriptTypes
<1> QED
  BY <1>1, <1>2 DEF ScriptsKept, StopsClear, Pending

LEMMA SameScripts == StopsClear /\ UNCHANGED todo => ScriptsKept
BY DEF ScriptsKept, StopsClear, Pending

(* Every step but the one that clears the current program keeps the scripts. *)
LEMMA ControlKeeps ==
  ASSUME TypeOK, StopsClear, NEW th \in Thread, ControlStep(th)
  PROVE  StopsClear' /\ (ScriptsKept \/ NoCurrent(th))
<1> USE ScriptsStopFollowed, ScriptsAreScripts DEF At, Advance
<1>1. <<>> \in Seq(Step) /\ <<"unplay">> \in Seq(Step) /\ StopFollowed(<<"unplay">>)
  BY DEF Step
<1>2. todo[th] # <<>>
        /\ \E prefix \in {<<>>, <<"unplay">>, InstallChange} : Continue(th, prefix)
  BY DEF ControlStep, EnterStartPlay, LeaveStartPlay, SetStatusStop, ClearPriority,
         SetChgScrProgram, SetChgScrDate, TestCurrent, Unplay, NoCurrent, StopLoops,
         CompareCurrent, RaisePriority
<1>3. NoCurrent(th) \/ Head(todo[th]) # "noCurrent"
  BY DEF ControlStep, EnterStartPlay, LeaveStartPlay, SetStatusStop, ClearPriority,
         SetChgScrProgram, SetChgScrDate, TestCurrent, Unplay, NoCurrent, StopLoops,
         CompareCurrent, RaisePriority
<1> QED
  BY <1>1, <1>2, <1>3, ContinueKeeps

LEMMA DispatchKeeps ==
  ASSUME TypeOK, StopsClear, DispatchStep
  PROVE  ScriptsKept
<1> USE DEF At, Advance
<1>0. "tcp" \in Thread
  BY DEF Thread
<1>1. /\ <<>> \in Seq(Step) /\ StopFollowed(<<>>)
      /\ <<"noCurrent", "add", "item">> \in Seq(Step) /\ <<"add", "item">> \in Seq(Step)
      /\ <<"inPlaying">> \in Seq(Step) /\ StopFollowed(<<"inPlaying">>)
      /\ ChangeScreen \in Seq(Step) /\ StopFollowed(ChangeScreen)
  BY ScriptsAreScripts, ScriptsStopFollowed DEF Step
<1>2. StopFollowed(<<"noCurrent", "add", "item">>) /\ StopFollowed(<<"add", "item">>)
  BY DEF StopFollowed
<1>3. CASE SkipItem
  BY <1>3, SameScripts DEF SkipItem
<1>5. CASE ChangeLost
  <2>1. todo["tcp"] \in {<<"stopLoops", "compare">>, <<"stopLoops", "compare", "item">>}
    BY <1>5 DEF ChangeLost, ChangeScreen
  <2>2. ~Has(todo["tcp"], "noCurrent")
    BY <2>1 DEF Has
  <2>3. todo' = [todo EXCEPT !["tcp"] = <<>>] /\ todo \in [Thread -> Seq(Step)]
    BY <1>5 DEF ChangeLost, TypeOK, ScriptTypes
  <2>4. \A th \in Thread \ {"tcp"} : todo'[th] = todo[th]
    BY <2>3
  <2>5. StopsClear'
    BY <1>0, <2>3, <2>4, ScriptsStopFollowed DEF StopsClear
  <2>6. Pending("noCurrent") => Pending("noCurrent")'
    BY <2>2, <2>4 DEF Pending
  <2> QED
    BY <2>5, <2>6 DEF ScriptsKept
<1>4. CASE ~SkipItem /\ ~ChangeLost
  <2>1. todo["tcp"] # <<>> /\ Head(todo["tcp"]) # "noCurrent"
        /\ \E prefix \in {<<>>, <<"noCurrent", "add", "item">>, <<"add", "item">>,
                           <<"inPlaying">>, ChangeScreen} : Continue("tcp", prefix)
    BY <1>4 DEF DispatchStep, ClearAllProgram, IsProgramInPlaying, ComparePlaying,
                CommandLost, AddLoopPlaylist, AddItem, EndItems
  <2> QED
    BY <1>0, <1>1, <1>2, <2>1, ContinueKeeps
<1> QED
  BY <1>3, <1>4, <1>5

LEMMA ServerKeeps ==
  ASSUME TypeOK, StopsClear, Server
  PROVE  ScriptsKept
<1>0. "tcp" \in Thread /\ CmdThread \subseteq Thread
  BY DEF Thread
<1>1. ASSUME NEW c \in Command, Dispatch(c) PROVE ScriptsKept
  <2> DEFINE first == IF c.type = "Publish" THEN <<"clearAll">> ELSE <<>>
  <2>1. /\ first \in Seq(Step) /\ <<"item">> \in Seq(Step)
        /\ StopFollowed(first) /\ StopFollowed(<<"item">>)
    <3>1. "clearAll" \in Step /\ "item" \in Step
      BY DEF Step
    <3>2. StopFollowed(<<"clearAll">>) /\ StopFollowed(<<"item">>) /\ StopFollowed(<<>>)
      BY <3>1, ScriptsStopFollowed
    <3> QED
      BY <3>1, <3>2
  <2>2. first \o StartPlay \in Seq(Step) /\ StopFollowed(first \o StartPlay)
    BY <2>1, ScriptsAreScripts, ScriptsStopFollowed, StopFollowedConcat, ConcatProperties
  <2>3. /\ first \o StartPlay \o ClearChangeScreen \in Seq(Step)
        /\ StopFollowed(first \o StartPlay \o ClearChangeScreen)
    BY <2>2, ScriptsAreScripts, ScriptsStopFollowed, StopFollowedConcat, ConcatProperties
  <2>4. StopFollowed(first \o StartPlay \o ClearChangeScreen \o <<"item">>)
    BY <2>1, <2>3, StopFollowedConcat
  <2> QED
    BY <1>0, <1>1, <2>4, BeginKeeps DEF Dispatch
<1>2. ASSUME NEW th \in CmdThread, ChgScreenCmd(th) \/ StopPlayCmd(th) \/ OnPlayCmd(th)
      PROVE  ScriptsKept
  BY <1>0, <1>2, BeginKeeps, ScriptsStopFollowed
  DEF ChgScreenCmd, StopPlayCmd, OnPlayCmd, Begin
<1> QED
  BY <1>1, <1>2 DEF Server

LEMMA ActivityKeeps ==
  ASSUME TypeOK, StopsClear, User \/ ListPrograms \/ Resume
  PROVE  ScriptsKept
<1>0. "ui" \in Thread
  BY DEF Thread
<1>1. CASE OpenRequest
  <2>1. <<"openMenu">> \in Seq(Step) /\ StopFollowed(<<"openMenu">>)
    BY ScriptsStopFollowed DEF Step
  <2>2. StopFollowed(StopPlay \o <<"openMenu">>)
    BY <2>1, ScriptsAreScripts, ScriptsStopFollowed, StopFollowedConcat
  <2> QED
    BY <1>0, <1>1, <2>2, BeginKeeps DEF OpenRequest, UiIdle
<1>2. CASE ClickProgram
  <2>1. StopFollowed(StopPlay \o ChangeScreen)
    BY ScriptsAreScripts, ScriptsStopFollowed, StopFollowedConcat
  <2> QED
    BY <1>0, <1>2, <2>1, BeginKeeps DEF ClickProgram, UiIdle
<1>3. CASE LeaveRequest
  BY <1>3, SameScripts DEF LeaveRequest, script
<1>4. CASE ListPrograms
  <2>1. <<>> \in Seq(Step)
    OBVIOUS
  <2> QED
    BY <1>0, <1>4, <2>1, ContinueKeeps, ScriptsStopFollowed DEF ListPrograms, At, Advance
<1>5. CASE Resume
  BY <1>0, <1>5, BeginKeeps, SameScripts, ScriptsStopFollowed DEF Resume, UiIdle
<1> QED
  BY <1>1, <1>2, <1>3, <1>4, <1>5 DEF User

(* A script keeps its noCurrent until it is executed; a stop leaves one behind. *)
LEMMA ScriptsStep ==
  ASSUME TypeOK, StopsClear, [Next]_vars
  PROVE  StopsClear' /\ (ScriptsKept \/ \E th \in Thread : NoCurrent(th))
<1>1. CASE \E th \in Thread : ControlStep(th)
  BY <1>1, ControlKeeps
<1>2. CASE DispatchStep \/ Server \/ User \/ ListPrograms \/ Resume
  BY <1>2, DispatchKeeps, ServerKeeps, ActivityKeeps DEF ScriptsKept
<1>3. CASE Show
  BY <1>3, SameScripts
  DEF Show, ShowWake, ShowDefault, ShowRead, ShowChoose, ShowCommit, ShowCommitDate,
      ShowSend, ShowRefresh, ShowRefreshed, script, ScriptsKept
<1>4. CASE Handle
  BY <1>4, SameScripts
  DEF Handle, HandleDefault, HandleProgram, HandleLoop, HandleLostLoop, PlayLoop,
      UnplayLoop, Load, NewLoop, StartLoop, script, ScriptsKept
<1>5. CASE \E s \in Slot : Loop(s)
  BY <1>5, SameScripts DEF Loop, LoopBroken, LoopTest, LoopSend, script, ScriptsKept
<1>6. CASE Clock
  BY <1>6, SameScripts
  DEF Clock, WindowOpens, WindowCloses, CleanPlayer, DownloadComplete, script, ScriptsKept
<1>7. CASE UNCHANGED vars
  BY <1>7, SameScripts DEF vars, script, ScriptsKept
<1> QED
  BY <1>1, <1>2, <1>3, <1>4, <1>5, <1>6, <1>7 DEF Next

(* Only the show thread, with the monitor, makes a program the current one, and only
   a stop stops play. *)
LEMMA StopStep ==
  ASSUME TypeOK, StopsClear, [Next]_vars
  PROVE  \/ Show
         \/ \E th \in Thread : NoCurrent(th)
         \/ \E th \in Thread : SetStatusStop(th)
         \/ /\ UNCHANGED <<currentPlay, showPc>>
            /\ playStatus' \in {playStatus, "playing"}
            /\ lock = "show" => lock' = "show"
<1> DEFINE Quiet == /\ UNCHANGED <<currentPlay, showPc>>
                    /\ playStatus' \in {playStatus, "playing"}
                    /\ lock = "show" => lock' = "show"
<1>1. ASSUME NEW th \in Thread, ControlStep(th)
      PROVE  NoCurrent(th) \/ SetStatusStop(th) \/ Quiet
  <2>1. th # "show"
    BY ThreadAssumption DEF Thread
  <2> QED
    BY <1>1, <2>1
    DEF ControlStep, EnterStartPlay, LeaveStartPlay, ClearPriority, SetChgScrProgram,
        SetChgScrDate, TestCurrent, Unplay, StopLoops, CompareCurrent, RaisePriority,
        flags, show
<1>2. DispatchStep \/ Server => Quiet
  BY DEF DispatchStep, ClearAllProgram, SkipItem, IsProgramInPlaying, ComparePlaying,
         CommandLost, ChangeLost, AddLoopPlaylist, AddItem, EndItems, Server, Dispatch,
         ChgScreenCmd, StopPlayCmd, OnPlayCmd, flags, show
<1>3. Handle => Quiet
  BY DEF Handle, HandleDefault, HandleProgram, HandleLoop, HandleLostLoop, PlayLoop,
         UnplayLoop, Load, NewLoop, StartLoop, flags, show
<1>4. User \/ ListPrograms \/ Resume \/ Clock => Quiet
  BY DEF User, OpenRequest, ClickProgram, LeaveRequest, ListPrograms, Resume, Clock,
         WindowOpens, WindowCloses, CleanPlayer, DownloadComplete, flags, show
<1>5. ASSUME NEW s \in Slot, Loop(s) PROVE Quiet
  BY <1>5 DEF Loop, LoopBroken, LoopTest, LoopSend, flags, show
<1>6. UNCHANGED vars => Quiet
  BY DEF vars, flags, show
<1> QED
  BY <1>1, <1>2, <1>3, <1>4, <1>5, <1>6 DEF Next

(* The steps of the show thread: it reads the status with the monitor free and keeps
   the monitor until its target is the current program, so a stop in between has its
   noCurrent ahead of it. *)
LEMMA ShowStep ==
  ASSUME ShowHoldsMonitor, StoppedHoldsNothing, Show
  PROVE  ShowHoldsMonitor' /\ StoppedHoldsNothing'
<1>1. todo' = todo /\ playStatus' = playStatus
  BY DEF Show, ShowWake, ShowDefault, ShowRead, ShowChoose, ShowCommit, ShowCommitDate,
         ShowSend, ShowRefresh, ShowRefreshed, script, flags
<1>2. Pending("noCurrent")' <=> Pending("noCurrent")
  BY <1>1 DEF Pending
<1>3. CASE ShowCommit
  BY <1>1, <1>2, <1>3 DEF ShowCommit, ShowAt, ShowHoldsMonitor, StoppedHoldsNothing
<1>4. CASE ~ShowCommit
  BY <1>1, <1>2, <1>4
  DEF Show, ShowAt, ShowWake, ShowDefault, ShowRead, ShowChoose, ShowCommitDate, ShowSend,
      ShowRefresh, ShowRefreshed, ShowHoldsMonitor, StoppedHoldsNothing
<1> QED
  BY <1>3, <1>4

LEMMA StoppedStep == TypeOK /\ StopInv /\ [Next]_vars => StopInv'
<1> SUFFICES ASSUME TypeOK, StopsClear, ShowHoldsMonitor, StoppedHoldsNothing, [Next]_vars
             PROVE  StopsClear' /\ ShowHoldsMonitor' /\ StoppedHoldsNothing'
  BY DEF StopInv
<1>1. StopsClear' /\ (ScriptsKept \/ \E th \in Thread : NoCurrent(th))
  BY ScriptsStep
<1>2. CASE Show
  BY <1>1, <1>2, ShowStep
<1>3. CASE \E th \in Thread : NoCurrent(th)
  BY <1>1, <1>3 DEF NoCurrent, ShowHoldsMonitor, StoppedHoldsNothing, show
<1>4. CASE \E th \in Thread : SetStatusStop(th)
  <2>1. PICK th \in Thread : SetStatusStop(th)
    BY <1>4
  <2>2. <<>> \in Seq(Step) /\ StopFollowed(<<>>)
    BY ScriptsStopFollowed
  <2>3. Pending("noCurrent")'
    BY <2>1, <2>2, ContinueKeeps DEF SetStatusStop, At, Advance
  <2> QED
    BY <1>1, <2>1, <2>3 DEF SetStatusStop, ShowHoldsMonitor, StoppedHoldsNothing, show
<1>5. CASE /\ UNCHANGED <<currentPlay, showPc>>
           /\ playStatus' \in {playStatus, "playing"}
           /\ lock = "show" => lock' = "show"
           /\ ScriptsKept
  BY <1>1, <1>5 DEF ShowHoldsMonitor, StoppedHoldsNothing, ScriptsKept
<1> QED
  BY <1>1, <1>2, <1>3, <1>4, <1>5, StopStep

(* Stopping is safe at every moment of the other threads: StopInv is inductive
   together with TypeOK. *)
THEOREM Stopping == Spec => []StopInv
<1>1. Init => StopInv
  BY DEF Init, StopInv, StopsClear, StopFollowed, ShowHoldsMonitor, StoppedHoldsNothing
<1> QED
  BY <1>1, StoppedStep, TypeCorrectness, PTL DEF Spec

(* When play is stopped no program stays current, whatever the show thread had
   chosen when the stop came. *)
THEOREM StoppedNothing == Spec => []StoppedHoldsNothing
<1>1. StopInv => StoppedHoldsNothing
  BY DEF StopInv
<1> QED
  BY <1>1, Stopping, PTL

-----------------------------------------------------------------------------
(* The controller implements Playout. *)

(* What getRunProgram has chosen stays scheduled until it is in play. *)
Chosen == showPc = "commit" => showTarget \in (Listed \cup {showChg}) \ {NoTask}

(* The locals of the show thread are its own; only it and a stop write what is in play. *)
LEMMA OutsideShow ==
  ASSUME [Next]_vars
  PROVE  Show \/ (UNCHANGED show /\ (UNCHANGED currentPlay \/ currentPlay' = NoTask))
<1>1. ASSUME NEW th \in Thread, ControlStep(th)
      PROVE  UNCHANGED show /\ (UNCHANGED currentPlay \/ currentPlay' = NoTask)
  BY <1>1
  DEF ControlStep, EnterStartPlay, LeaveStartPlay, SetStatusStop, ClearPriority,
      SetChgScrProgram, SetChgScrDate, TestCurrent, Unplay, NoCurrent, StopLoops,
      CompareCurrent, RaisePriority
<1>2. DispatchStep \/ Server => UNCHANGED <<show, currentPlay>>
  BY DEF DispatchStep, ClearAllProgram, SkipItem, IsProgramInPlaying, ComparePlaying,
         CommandLost, ChangeLost, AddLoopPlaylist, AddItem, EndItems, Server, Dispatch,
         ChgScreenCmd, StopPlayCmd, OnPlayCmd
<1>3. Handle => UNCHANGED <<show, currentPlay>>
  BY DEF Handle, HandleDefault, HandleProgram, HandleLoop, HandleLostLoop, PlayLoop,
         UnplayLoop, Load, NewLoop, StartLoop
<1>4. User \/ ListPrograms \/ Resume \/ Clock => UNCHANGED <<show, currentPlay>>
  BY DEF User, OpenRequest, ClickProgram, LeaveRequest, ListPrograms, Resume, Clock,
         WindowOpens, WindowCloses, CleanPlayer, DownloadComplete
<1>5. ASSUME NEW s \in Slot, Loop(s) PROVE UNCHANGED <<show, currentPlay>>
  BY <1>5 DEF Loop, LoopBroken, LoopTest, LoopSend
<1>6. UNCHANGED vars => UNCHANGED <<show, currentPlay>>
  BY DEF vars
<1> QED
  BY <1>1, <1>2, <1>3, <1>4, <1>5, <1>6 DEF Next

(* The lists keep their programs, or are written by a thread that has the monitor. *)
LEMMA ListWriters ==
  ASSUME [Next]_vars
  PROVE  \/ UNCHANGED <<programtasks, insProgramtasks>>
         \/ (ClearAllProgram \/ AddItem \/ CleanPlayer) /\ lock = "free"
<1>1. UNCHANGED lists => UNCHANGED <<programtasks, insProgramtasks>>
  BY DEF lists
<1>2. UNCHANGED vars => UNCHANGED lists
  BY DEF vars
<1>3. ClearAllProgram \/ AddItem \/ CleanPlayer => lock = "free"
  BY DEF ClearAllProgram, AddItem, CleanPlayer
<1> QED
  BY <1>1, <1>2, <1>3, ListsUnchanged DEF Next

LEMMA ChosenStep ==
  ASSUME TypeOK, ShowHoldsMonitor, Chosen, [Next]_vars
  PROVE  Chosen'
<1>1. CASE ShowChoose
  <2>1. UNCHANGED <<programtasks, insProgramtasks, showChg>>
    BY <1>1 DEF ShowChoose, lists
  <2>2. NoTask \notin Listed
    BY TaskAssumption DEF TypeOK, ListTypes, Listed
  <2>3. FirstCandidate \subseteq Listed
    BY DEF FirstCandidate, Earliest, Candidates, Listed
  <2>4. Targets \subseteq (Listed \cup {showChg}) \ {NoTask}
    BY <2>2, <2>3 DEF Targets
  <2> QED
    BY <1>1, <2>1, <2>4 DEF ShowChoose, Chosen, Listed
<1>2. CASE Show /\ ~ShowChoose
  BY <1>2 DEF Show, ShowAt, ShowWake, ShowDefault, ShowRead, ShowCommit, ShowCommitDate,
              ShowSend, ShowRefresh, ShowRefreshed, Chosen
<1>3. CASE UNCHANGED show
  <2>1. showPc = "commit" => UNCHANGED <<programtasks, insProgramtasks>>
    BY ListWriters DEF ShowHoldsMonitor
  <2> QED
    BY <1>3, <2>1 DEF show, Chosen, Listed
<1> QED
  BY <1>1, <1>2, <1>3, OutsideShow

(* What the writers of the lists do to the versions of a program. *)
LEMMA SameSchedule ==
  UNCHANGED <<programtasks, insProgramtasks>> =>
    [id \in ProgramId |-> Scheduled(id)]' = [id \in ProgramId |-> Scheduled(id)]
BY DEF Scheduled

LEMMA AddedSchedule ==
  ASSUME UniqueProgramIds, NEW t \in Task, NEW type, AddProgram(t, type)
  PROVE  LET x == <<t, IF type = "InterPlay" THEN "inserted" ELSE "live">>
         IN  [id \in ProgramId |-> Scheduled(id)]'
               = [[id \in ProgramId |-> Scheduled(id)] EXCEPT ![pid[t]] = {x}]
<1> DEFINE x == <<t, IF type = "InterPlay" THEN "inserted" ELSE "live">>
<1>1. /\ programtasks' = (IF type = "InterPlay" THEN DeleteProgram(pid[t]).live
                          ELSE DeleteProgram(pid[t]).live \cup {t})
      /\ insProgramtasks' = (IF type = "InterPlay" THEN DeleteProgram(pid[t]).ins \cup {t}
                             ELSE DeleteProgram(pid[t]).ins)
  BY DEF AddProgram
<1>2. /\ DeleteProgram(pid[t]).live = {u \in programtasks : pid[u] # pid[t]}
      /\ DeleteProgram(pid[t]).ins = {u \in insProgramtasks : pid[u] # pid[t]}
  BY DEF DeleteProgram, Without, UniqueProgramIds, Listed
<1>3. Scheduled(pid[t])' = {x}
  BY <1>1, <1>2 DEF Scheduled
<1>4. \A id \in ProgramId : id # pid[t] => Scheduled(id)' = Scheduled(id)
  BY <1>1, <1>2 DEF Scheduled
<1> QED
  BY <1>3, <1>4

LEMMA PlayoutStep ==
  ASSUME TypeOK, UniqueProgramIds, ShowHoldsMonitor, Chosen, [Next]_vars
  PROVE  [Play!Next]_(Play!vars)
<1> DEFINE Sched == [id \in ProgramId |-> Scheduled(id)]
<1>1. CASE Sched' = Sched /\ UNCHANGED <<showChg, currentPlay>>
  BY <1>1 DEF Play!vars
<1>2. CASE AddItem
  <2>1. Head(items) \in Task /\ AddProgram(Head(items), command)
    BY <1>2, ItemsType DEF AddItem, TypeOK
  <2>2. PICK x \in Task \X {"live", "inserted"} :
          Sched' = [Sched EXCEPT ![pid[Head(items)]] = {x}]
    BY <2>1, AddedSchedule
  <2>3. UNCHANGED <<showChg, currentPlay>> /\ pid[Head(items)] \in ProgramId
    BY <1>2, <2>1, TaskAssumption DEF AddItem, show
  <2> QED
    BY <2>2, <2>3 DEF Play!Next, Play!Deliver, Play!Slots, Play!List
<1>3. CASE ClearAllProgram
  <2>1. Sched' = [id \in ProgramId |-> {}]
    BY <1>3 DEF ClearAllProgram, Scheduled
  <2>2. UNCHANGED <<showChg, currentPlay>>
    BY <1>3 DEF ClearAllProgram, show
  <2> QED
    BY <2>1, <2>2 DEF Play!Next, Play!Withdraw
<1>4. CASE CleanPlayer
  <2>1. ASSUME NEW id \in ProgramId
        PROVE  Scheduled(id)' \in {Scheduled(id), Scheduled(id) \ (Task \X {"live"})}
    <3>1. CASE \E t \in programtasks \cap expired : pid[t] = id
      <4>1. \A t \in programtasks : pid[t] = id => t \in expired
        BY <3>1 DEF UniqueProgramIds, Listed
      <4>2. programtasks \subseteq Task
        BY DEF TypeOK, ListTypes
      <4> QED
        BY <1>4, <4>1, <4>2 DEF CleanPlayer, Scheduled
    <3>2. CASE ~\E t \in programtasks \cap expired : pid[t] = id
      BY <1>4, <3>2 DEF CleanPlayer, Scheduled
    <3> QED
      BY <3>1, <3>2
  <2>2. UNCHANGED <<showChg, currentPlay>>
    BY <1>4 DEF CleanPlayer, show
  <2>3. /\ Sched' = [id \in ProgramId |-> Sched'[id]]
        /\ \A id \in ProgramId : Sched'[id] \in {Sched[id], Sched[id] \ (Task \X {"live"})}
    BY <2>1
  <2> QED
    BY <2>2, <2>3 DEF Play!Next, Play!Expire
<1>5. CASE UNCHANGED <<programtasks, insProgramtasks>> /\ ~Show
  <2>1. Sched' = Sched /\ UNCHANGED showChg
    BY <1>5, SameSchedule, OutsideShow DEF show
  <2>2. UNCHANGED currentPlay \/ currentPlay' = NoTask
    BY <1>5, OutsideShow
  <2>3. CASE currentPlay' = NoTask
    BY <2>1, <2>3 DEF Play!Next, Play!Stop
  <2> QED
    BY <1>1, <2>1, <2>2, <2>3
<1>6. CASE Show
  <2>1. Sched' = Sched
    BY <1>6, ListsUnchanged, SameSchedule DEF lists
  <2>2. CASE UNCHANGED currentPlay
    <3>1. showChg' \in Task \cup {NoTask}
      BY <1>6 DEF Show, ShowWake, ShowDefault, ShowRead, ShowChoose, ShowCommit,
                  ShowCommitDate, ShowSend, ShowRefresh, ShowRefreshed, TypeOK, ShowTypes,
                  ChangeTypes, MaybeTask
    <3> QED
      BY <2>1, <2>2, <3>1 DEF Play!Next, Play!Request
  <2>3. CASE currentPlay' # currentPlay
    <3>1. ShowCommit
      BY <1>6, <2>3 DEF Show, ShowWake, ShowDefault, ShowRead, ShowChoose,
                        ShowCommitDate, ShowSend, ShowRefresh, ShowRefreshed
    <3>2. showPc = "commit" /\ currentPlay' = showTarget /\ UNCHANGED showChg
      BY <2>3, <3>1 DEF ShowCommit, ShowAt
    <3>3. showTarget \in Task /\ showTarget \in Listed \cup {showChg}
      BY <3>2 DEF Chosen, TypeOK, ShowTypes, MaybeTask
    <3>4. \/ showTarget = showChg
          \/ \E id \in ProgramId, l \in {"live", "inserted"} : <<showTarget, l>> \in Sched[id]
      <4>1. pid[showTarget] \in ProgramId
        BY <3>3, TaskAssumption
      <4>2. showTarget \in Listed =>
              \E l \in {"live", "inserted"} : <<showTarget, l>> \in Scheduled(pid[showTarget])
        BY DEF Scheduled, Listed
      <4> QED
        BY <3>3, <4>1, <4>2
    <3> QED
      BY <2>1, <3>2, <3>3, <3>4 DEF Play!Next, Play!Play, Play!List
  <2> QED
    BY <2>2, <2>3
<1> QED
  BY <1>2, <1>3, <1>4, <1>5, <1>6, ListWriters

LEMMA PlayoutInit == Init => Play!Init
<1> SUFFICES ASSUME Init PROVE Play!Init
  OBVIOUS
<1> DEFINE Sched == [id \in ProgramId |-> Scheduled(id)]
<1>1. Sched \in [ProgramId -> SUBSET (Task \X {"live", "inserted"})]
  BY DeliveryAssumption DEF Init, Scheduled
<1>2. UniqueProgramIds
  BY DeliveryAssumption DEF Init, UniqueProgramIds, Listed
<1>3. \A id \in ProgramId : \A x, y \in Sched[id] : x = y
  BY <1>2 DEF Scheduled, UniqueProgramIds, Listed
<1> QED
  BY <1>1, <1>3 DEF Init, Play!Init, Play!Slots, Play!List

(* One version of each program is scheduled and nothing withdrawn comes into play,
   for all programs, commands and interleavings (addProgram, clearAllProgram,
   cleanPlayer, getRunProgram, setCurrentPlay). *)
THEOREM ControllerImplementsPlayout == Spec => PlayoutSpec
<1>1. Init => Chosen
  BY DEF Init, Chosen
<1>2. StopInv => ShowHoldsMonitor
  BY DEF StopInv
<1>3. TypeOK /\ ShowHoldsMonitor /\ Chosen /\ [Next]_vars => Chosen'
  BY ChosenStep
<1>4. Spec => []Chosen
  BY <1>1, <1>2, <1>3, TypeCorrectness, Stopping, PTL DEF Spec
<1>5. TypeOK /\ UniqueProgramIds /\ ShowHoldsMonitor /\ Chosen /\ [Next]_vars
        => [Play!Next]_(Play!vars)
  BY PlayoutStep
<1> QED
  BY <1>2, <1>4, <1>5, PlayoutInit, TypeCorrectness, UniqueIds, Stopping, PTL
  DEF Spec, PlayoutSpec, Play!Spec
=============================================================================

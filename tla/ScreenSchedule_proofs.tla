------------------------ MODULE ScreenSchedule_proofs ------------------------
(***************************************************************************)
(* What the screen shows follows what the scheduler has in play, though     *)
(* every page goes through the queue of the UI thread: ScreenFollowsSchedule *)
(* for players without loops, and LoopYields for those with loops.          *)
(***************************************************************************)
EXTENDS PlayerControl_proofs

-----------------------------------------------------------------------------
(* The show thread between two steps.  When it is about to ask for the default
   page a stop has cleared the current program or is going to; when it is about to
   send its target, that is the current program unless it has been cleared since. *)
DefaultIsDue == showPc = "default" => currentPlay = NoTask \/ Pending("noCurrent")
TargetIsCurrent == Unsent => currentPlay \in {NoTask, showTarget}
ShowInv == DefaultIsDue /\ TargetIsCurrent

(* Nothing that is to come changes the current program: neither the show thread's
   own message nor a stop. *)
Settled == currentPlay # NoTask /\ ~Unsent /\ ~Pending("noCurrent")

(* The steps of the other threads. *)
LEMMA OthersKeepCurrent ==
  ASSUME TypeOK, StopsClear, [Next]_vars
  PROVE  \/ Show /\ UNCHANGED <<todo, playStatus>>
         \/ \E th \in Thread : NoCurrent(th)
         \/ UNCHANGED <<currentPlay, show>> /\ ScriptsKept
<1>1. ScriptsKept \/ \E th \in Thread : NoCurrent(th)
  BY ScriptsStep
<1> DEFINE Quiet == UNCHANGED <<currentPlay, show>>
<1>2. ASSUME NEW th \in Thread, ControlStep(th) PROVE NoCurrent(th) \/ Quiet
  BY <1>2
  DEF ControlStep, EnterStartPlay, LeaveStartPlay, SetStatusStop, ClearPriority,
      SetChgScrProgram, SetChgScrDate, TestCurrent, Unplay, StopLoops, CompareCurrent,
      RaisePriority
<1>3. DispatchStep \/ Server => Quiet
  BY DEF DispatchStep, ClearAllProgram, SkipItem, IsProgramInPlaying, ComparePlaying,
         CommandLost, ChangeLost, AddLoopPlaylist, AddItem, EndItems, Server, Dispatch,
         ChgScreenCmd, StopPlayCmd, OnPlayCmd
<1>4. Handle => Quiet
  BY DEF Handle, HandleDefault, HandleProgram, HandleLoop, HandleLostLoop, PlayLoop,
         UnplayLoop, Load, NewLoop, StartLoop
<1>5. User \/ ListPrograms \/ Resume \/ Clock => Quiet
  BY DEF User, OpenRequest, ClickProgram, LeaveRequest, ListPrograms, Resume, Clock,
         WindowOpens, WindowCloses, CleanPlayer, DownloadComplete
<1>6. ASSUME NEW s \in Slot, Loop(s) PROVE Quiet
  BY <1>6 DEF Loop, LoopBroken, LoopTest, LoopSend
<1>7. UNCHANGED vars => Quiet
  BY DEF vars
<1>8. Show => UNCHANGED <<todo, playStatus>>
  BY DEF Show, ShowWake, ShowDefault, ShowRead, ShowChoose, ShowCommit, ShowCommitDate,
         ShowSend, ShowRefresh, ShowRefreshed, script, flags
<1> QED
  BY <1>1, <1>2, <1>3, <1>4, <1>5, <1>6, <1>7, <1>8 DEF Next

LEMMA ShowInvStep ==
  ASSUME TypeOK, StopInv, ShowInv, [Next]_vars
  PROVE  ShowInv'
<1> USE DEF ShowInv, DefaultIsDue, TargetIsCurrent, Unsent
<1>1. StopsClear /\ StoppedHoldsNothing
  BY DEF StopInv
<1>2. CASE Show /\ UNCHANGED <<todo, playStatus>>
  <2>1. Pending("noCurrent")' <=> Pending("noCurrent")
    BY <1>2 DEF Pending
  <2>2. CASE ShowWake
    BY <1>1, <2>1, <2>2 DEF ShowWake, StoppedHoldsNothing
  <2>3. CASE ShowCommit
    BY <2>3 DEF ShowCommit
  <2>4. CASE ~ShowWake /\ ~ShowCommit
    BY <1>2, <2>1, <2>4
    DEF Show, ShowAt, ShowDefault, ShowRead, ShowChoose, ShowCommitDate, ShowSend,
        ShowRefresh, ShowRefreshed
  <2> QED
    BY <2>2, <2>3, <2>4
<1>3. CASE \E th \in Thread : NoCurrent(th)
  BY <1>3 DEF NoCurrent, show
<1>4. CASE UNCHANGED <<currentPlay, show>> /\ ScriptsKept
  BY <1>4 DEF show, ScriptsKept
<1> QED
  BY <1>1, <1>2, <1>3, <1>4, OthersKeepCurrent

LEMMA ShowInvariant == Spec => []ShowInv
<1>1. Init => ShowInv
  BY DEF Init, ShowInv, DefaultIsDue, TargetIsCurrent, Unsent
<1> QED
  BY <1>1, ShowInvStep, TypeCorrectness, Stopping, PTL DEF Spec

(* Settling: a step after which nothing is to come either was of no consequence
   for the current program or is the show thread's message about it. *)
LEMMA SettledStep ==
  ASSUME TypeOK, StopInv, ShowInv, [Next]_vars, Settled'
  PROVE  \/ Settled /\ currentPlay' = currentPlay /\ ~ShowSend /\ ~ShowDefault
         \/ ShowSend /\ showTarget = currentPlay /\ currentPlay' = currentPlay
<1> USE DEF Settled, Unsent
<1>1. StopsClear
  BY DEF StopInv
<1>2. CASE Show /\ UNCHANGED <<todo, playStatus>>
  <2>1. Pending("noCurrent")' <=> Pending("noCurrent")
    BY <1>2 DEF Pending
  <2>2. CASE ShowSend
    BY <2>1, <2>2 DEF ShowSend, ShowAt, ShowInv, TargetIsCurrent
  <2>3. CASE ShowDefault
    BY <2>1, <2>3 DEF ShowDefault, ShowAt, ShowInv, DefaultIsDue
  <2>4. CASE ~ShowSend /\ ~ShowDefault
    BY <1>2, <2>1, <2>4
    DEF Show, ShowAt, ShowWake, ShowRead, ShowChoose, ShowCommit, ShowCommitDate,
        ShowRefresh, ShowRefreshed
  <2> QED
    BY <2>2, <2>3, <2>4
<1>3. CASE \E th \in Thread : NoCurrent(th)
  BY <1>3 DEF NoCurrent
<1>4. CASE UNCHANGED <<currentPlay, show>> /\ ScriptsKept
  <2>1. ~ShowSend /\ ~ShowDefault
    BY <1>4 DEF ShowSend, ShowDefault, ShowAt, show
  <2> QED
    BY <1>4, <2>1 DEF show, ScriptsKept
<1> QED
  BY <1>1, <1>2, <1>3, <1>4, OthersKeepCurrent

-----------------------------------------------------------------------------
(* What is on its way to the screen. *)
LEMMA QueueStep ==
  ASSUME TypeOK, NEW m, Post(m)
  PROVE  /\ queue' # <<>> /\ Len(queue') = Len(queue) + 1 /\ queue'[Len(queue')] = m
         /\ \A i \in 1 .. Len(queue) : queue'[i] = queue[i]
<1>1. queue \in Seq(Message) /\ Len(queue) \in Nat
  BY DEF TypeOK, UiTypes
<1> QED
  BY <1>1 DEF Post

LEMMA QueueTail ==
  ASSUME TypeOK, queue # <<>>, queue' = Tail(queue)
  PROVE  /\ Len(queue) \in Nat \ {0} /\ Len(queue') = Len(queue) - 1
         /\ Head(queue) = queue[1]
         /\ \A i \in 1 .. Len(queue') : queue'[i] = queue[i + 1]
         /\ queue' = <<>> <=> Len(queue) = 1
<1>1. queue \in Seq(Message) /\ queue' \in Seq(Message)
  BY HeadTailProperties DEF TypeOK, UiTypes
<1>2. (queue = <<>> <=> Len(queue) = 0) /\ (queue' = <<>> <=> Len(queue') = 0)
  BY <1>1, EmptySeq
<1>3. Len(queue) \in Nat
  BY <1>1, LenProperties
<1>4. /\ Len(queue') = Len(queue) - 1 /\ Head(queue) = queue[1]
      /\ \A i \in 1 .. Len(queue') : queue'[i] = queue[i + 1]
  BY <1>1, <1>3, HeadTailProperties
<1> QED
  BY <1>2, <1>3, <1>4

(* A player without loops: no loop thread sends, no message starts one. *)
NoLoopsAtAll == Entry = {}

(* What the screen shows once the UI thread has handled its messages. *)
WillShow ==
  IF queue # <<>> THEN queue[Len(queue)].program
  ELSE IF handled # NoTask THEN handled ELSE screen
ScreenInv == Settled => WillShow = currentPlay

LEMMA OthersKeepScreen ==
  ASSUME NoLoopsAtAll, TypeOK, LoopInRange, HandledInv, [Next]_vars
  PROVE  \/ UNCHANGED <<queue, screen, handled>>
         \/ ShowDefault \/ ShowSend
         \/ ShowRefresh /\ Post(Live(currentPlay)) /\ UNCHANGED <<screen, handled>>
         \/ HandleDefault \/ Load \/ \E p \in Task : HandleProgram(p)
<1> DEFINE Quiet == UNCHANGED <<queue, screen, handled>>
           Refresh == ShowRefresh /\ Post(Live(currentPlay)) /\ UNCHANGED <<screen, handled>>
<1>1. Show => Quiet \/ ShowDefault \/ ShowSend \/ Refresh
  BY DEF Show, ShowWake, ShowRead, ShowChoose, ShowCommit, ShowCommitDate, ShowRefresh,
         ShowRefreshed, ui, page
<1>2. ASSUME NEW th \in Thread, ControlStep(th) PROVE Quiet
  BY <1>2
  DEF ControlStep, EnterStartPlay, LeaveStartPlay, SetStatusStop, ClearPriority,
      SetChgScrProgram, SetChgScrDate, TestCurrent, Unplay, NoCurrent, StopLoops,
      CompareCurrent, RaisePriority, ui, page
<1>3. DispatchStep \/ Server => Quiet
  BY DEF DispatchStep, ClearAllProgram, SkipItem, IsProgramInPlaying, ComparePlaying,
         CommandLost, ChangeLost, AddLoopPlaylist, AddItem, EndItems, Server, Dispatch,
         ChgScreenCmd, StopPlayCmd, OnPlayCmd, ui, page
<1>4. Handle => Quiet \/ HandleDefault \/ Load \/ \E p \in Task : HandleProgram(p)
  <2>1. ~PlayLoop /\ ~StartLoop /\ \A s \in Slot : ~NewLoop(s)
    BY DEF PlayLoop, StartLoop, NewLoop, HandlingAt, HandledInv, NoLoopsAtAll
  <2> QED
    BY <2>1 DEF Handle, HandleLoop, HandleLostLoop, UnplayLoop, NoLoopsAtAll
<1>5. User \/ ListPrograms \/ Resume \/ Clock => Quiet
  BY DEF User, OpenRequest, ClickProgram, LeaveRequest, ListPrograms, Resume, Clock,
         WindowOpens, WindowCloses, CleanPlayer, DownloadComplete, ui, page
<1>6. ASSUME NEW s \in Slot PROVE ~Loop(s)
  BY DEF Loop, LoopBroken, LoopTest, LoopSend, LoopAt, LoopInRange, NoLoopsAtAll
<1>7. UNCHANGED vars => Quiet
  BY DEF vars, ui, page
<1> QED
  BY <1>1, <1>2, <1>3, <1>4, <1>5, <1>6, <1>7 DEF Next

LEMMA ScreenStep ==
  ASSUME NoLoopsAtAll, TypeOK, LoopInRange, HandledInv, StopInv, ShowInv, ScreenInv,
         [Next]_vars
  PROVE  ScreenInv'
<1> SUFFICES ASSUME Settled' PROVE WillShow' = currentPlay'
  BY DEF ScreenInv
<1>1. CASE ShowSend /\ showTarget = currentPlay /\ currentPlay' = currentPlay
  <2>1. queue' # <<>> /\ queue'[Len(queue')] = Live(showTarget)
    BY <1>1, QueueStep DEF ShowSend
  <2> QED
    BY <1>1, <2>1 DEF WillShow, Live
<1>2. CASE Settled /\ currentPlay' = currentPlay /\ ~ShowSend /\ ~ShowDefault
  <2>1. WillShow = currentPlay
    BY <1>2 DEF ScreenInv
  <2>2. CASE UNCHANGED <<queue, screen, handled>>
    BY <1>2, <2>1, <2>2 DEF WillShow
  <2>3. CASE Post(Live(currentPlay))
    BY <1>2, <2>3, QueueStep DEF WillShow, Live
  <2>4. ASSUME HandleDefault \/ \E p \in Task : HandleProgram(p)
        PROVE  WillShow' = WillShow
    <3>1. /\ queue # <<>> /\ queue' = Tail(queue)
          /\ (IF handled' # NoTask THEN handled' ELSE screen') = Head(queue).program
      BY <2>4, TaskAssumption
      DEF HandleDefault, HandleProgram, Take, UiIdle, HandledInv, page, Default, Live
    <3> QED
      BY <3>1, QueueTail DEF WillShow
  <2>5. CASE Load
    BY <1>2, <2>1, <2>5 DEF Load, LoadProgram, HandlingAt, HandledInv, WillShow
  <2> QED
    BY <1>2, <2>1, <2>2, <2>3, <2>4, <2>5, OthersKeepScreen
<1> QED
  BY <1>1, <1>2, SettledStep

(* Without loops, at rest, the screen shows the program in play: no interleaving of
   the show thread, the UI thread's queue, stops and changes of screen leaves a
   page behind that the schedule has left (PlayerHtmlTask.run, HtmlHandler). *)
THEOREM ScreenFollows == ASSUME NoLoopsAtAll PROVE Spec => []ScreenFollowsSchedule
<1>1. Init => ScreenInv
  BY DEF Init, ScreenInv, Settled
<1>2. ScreenInv => ScreenFollowsSchedule
  BY DEF ScreenInv, Settled, WillShow, ScreenFollowsSchedule
<1>3. TypeOK /\ LoopInRange /\ HandledInv /\ StopInv /\ ShowInv /\ ScreenInv /\ [Next]_vars
        => ScreenInv'
  BY ScreenStep
<1> QED
  BY <1>1, <1>2, <1>3, TypeCorrectness, LoopRange, Stopping, ShowInvariant, PTL DEF Spec

-----------------------------------------------------------------------------
(* Players with loops.  A program outside the loops and one of theirs are different
   programs, not two versions of one. *)
Outside == Task \ (Entry \cup InLoop)
LoopsApart == \A t \in Outside, m \in InLoop : pid[t] # pid[m]

(* When the current program is one outside the loops, either every loop thread has
   been told to stop, or the message that does it is in the queue; and no message
   that starts a loop comes after, in the queue or being handled. *)
StartsLoop(m) == m.what = "PLAY_LIVE" /\ m.program \in Entry
StopsLoop(m) == m.what = "PLAY_LIVE" /\ m.program \in Outside
Starting == handled \in Entry /\ handling # "start"
NoStartAfter(i) == \A j \in i + 1 .. Len(queue) : ~StartsLoop(queue[j])
AllTold == \A s \in Slot : loop[s].on => loop[s].stop
YieldInv ==
  Settled /\ currentPlay \in Outside =>
    \/ AllTold /\ ~Starting /\ NoStartAfter(0)
    \/ \E i \in 1 .. Len(queue) : StopsLoop(queue[i]) /\ NoStartAfter(i)

(* Only the show thread sends a loop. *)
LEMMA QueueOfLoops ==
  ASSUME TypeOK, LoopInRange, [Next]_vars
  PROVE  \/ UNCHANGED queue
         \/ ShowDefault \/ ShowSend
         \/ \E m : Post(m) /\ (StartsLoop(m) => m = Live(currentPlay))
         \/ Handle
<1> DEFINE Posts == \E m : Post(m) /\ (StartsLoop(m) => m = Live(currentPlay))
<1>1. Show => UNCHANGED queue \/ ShowDefault \/ ShowSend \/ Posts
  BY DEF Show, ShowWake, ShowRead, ShowChoose, ShowCommit, ShowCommitDate, ShowRefresh,
         ShowRefreshed, ui
<1>2. ASSUME NEW th \in Thread, ControlStep(th) PROVE UNCHANGED queue
  BY <1>2
  DEF ControlStep, EnterStartPlay, LeaveStartPlay, SetStatusStop, ClearPriority,
      SetChgScrProgram, SetChgScrDate, TestCurrent, Unplay, NoCurrent, StopLoops,
      CompareCurrent, RaisePriority, ui
<1>3. DispatchStep \/ Server => UNCHANGED queue
  BY DEF DispatchStep, ClearAllProgram, SkipItem, IsProgramInPlaying, ComparePlaying,
         CommandLost, ChangeLost, AddLoopPlaylist, AddItem, EndItems, Server, Dispatch,
         ChgScreenCmd, StopPlayCmd, OnPlayCmd, ui
<1>4. User \/ ListPrograms \/ Resume \/ Clock => UNCHANGED queue
  BY DEF User, OpenRequest, ClickProgram, LeaveRequest, ListPrograms, Resume, Clock,
         WindowOpens, WindowCloses, CleanPlayer, DownloadComplete, ui
<1>5. ASSUME NEW s \in Slot, Loop(s) PROVE UNCHANGED queue \/ Posts
  <2>1. CASE LoopSend(s)
    <3> DEFINE t == member[loop[s].entry][loop[s].next]
    <3>1. loop[s].entry \in Entry /\ loop[s].next \in 1 .. Len(member[loop[s].entry])
      BY <2>1 DEF LoopSend, LoopAt, LoopInRange
    <3>2. member[loop[s].entry] \in Seq(Task \ Entry)
      BY <3>1, TaskAssumption
    <3>3. t \in Task \ Entry
      BY <3>1, <3>2, ElementOfSeq
    <3> QED
      BY <2>1, <3>3 DEF LoopSend, StartsLoop, Live
  <2>2. CASE LoopBroken(s) \/ LoopTest(s)
    BY <2>2 DEF LoopBroken, LoopTest, ui
  <2> QED
    BY <1>5, <2>1, <2>2 DEF Loop
<1>6. UNCHANGED vars => UNCHANGED queue
  BY DEF vars, ui
<1> QED
  BY <1>1, <1>2, <1>3, <1>4, <1>5, <1>6 DEF Next

(* Only a new loop lets a loop thread go on that had not. *)
LEMMA ToldStaysTold ==
  ASSUME TypeOK, AllTold, [Next]_vars, \A s \in Slot : ~NewLoop(s)
  PROVE  AllTold'
<1> USE DEF AllTold
<1>0. loop \in [Slot -> LoopThread] /\ loopTask \in Slot \cup {NoSlot}
  BY DEF TypeOK, LoopTypes
<1>1. loop' = StoppedLoop => AllTold'
  BY <1>0 DEF StoppedLoop
<1>2. UNCHANGED loop => AllTold'
  OBVIOUS
<1>3. Handle => UNCHANGED loop \/ loop' = StoppedLoop \/ StartLoop
  BY DEF Handle, HandleDefault, HandleProgram, HandleLoop, HandleLostLoop, PlayLoop,
         UnplayLoop, Load, loops
<1>9. CASE StartLoop
  <2>1. \A u \in Slot : loop'[u].on = loop[u].on /\ loop'[u].stop = loop[u].stop
    BY <1>0, <1>9 DEF StartLoop, LoopThread
  <2> QED
    BY <2>1
<1>4. ASSUME NEW s \in Slot, Loop(s) PROVE AllTold'
  <2>1. CASE LoopBroken(s)
    BY <2>1 DEF LoopBroken, loops
  <2>2. CASE LoopTest(s)
    <3>1. loop[s].stop
      BY <2>2 DEF LoopTest, LoopAt
    <3>2. loop' = [loop EXCEPT ![s] = NoLoop]
      BY <2>2, <3>1 DEF LoopTest
    <3> QED
      BY <1>0, <3>2 DEF NoLoop
  <2>3. CASE LoopSend(s)
    <3>1. loop' = [loop EXCEPT ![s].pc = "test", ![s].next = @ + 1]
      BY <2>3 DEF LoopSend
    <3>2. loop[s].on /\ loop[s].stop
      BY <2>3 DEF LoopSend, LoopAt
    <3>3. \A u \in Slot \ {s} : loop'[u] = loop[u]
      BY <1>0, <3>1
    <3>4. loop'[s].stop = loop[s].stop
      BY <1>0, <3>1 DEF LoopThread
    <3> QED
      BY <3>2, <3>3, <3>4
  <2> QED
    BY <1>4, <2>1, <2>2, <2>3 DEF Loop
<1>5. ASSUME NEW th \in Thread, ControlStep(th) PROVE UNCHANGED loop \/ loop' = StoppedLoop
  BY <1>5, LoopsUnchanged DEF loops
<1>6. Show \/ DispatchStep \/ Server => UNCHANGED loop \/ loop' = StoppedLoop
  BY LoopsUnchanged DEF loops
<1>7. User \/ ListPrograms \/ Resume \/ Clock => UNCHANGED loop
  BY LoopsUnchanged DEF loops
<1>8. UNCHANGED vars => UNCHANGED loop
  BY DEF vars, loops
<1> QED
  BY <1>1, <1>2, <1>3, <1>4, <1>5, <1>6, <1>7, <1>8, <1>9 DEF Next

(* The page of a program outside the loops stops the loop that loopTask refers to,
   and that is the only one that goes on. *)
LEMMA PageStopsLoops ==
  ASSUME LoopsApart, TypeOK, NoOrphanLoop, NEW p \in Outside, HandleProgram(p)
  PROVE  AllTold'
<1>1. LoopMembers \subseteq InLoop
  BY DEF LoopMembers, InLoop, TypeOK, ListTypes
<1>2. loop' = StoppedLoop
  BY <1>1 DEF HandleProgram, LoopsApart
<1>3. loop \in [Slot -> LoopThread] /\ loopTask \in Slot \cup {NoSlot}
  BY DEF TypeOK, LoopTypes
<1> QED
  BY <1>2, <1>3, BoundAssumption DEF StoppedLoop, NoOrphanLoop, AllTold

(* What the UI thread does with the messages, as far as it matters here. *)
LEMMA HandleTakesOne ==
  ASSUME TypeOK, Handle
  PROVE  \/ UNCHANGED queue
         \/ /\ queue # <<>> /\ queue' = Tail(queue)
            /\ \/ HandleDefault
               \/ \E p \in Task : HandleProgram(p) \/ HandleLoop(p) \/ HandleLostLoop(p)
  BY DEF Handle, HandleDefault, HandleProgram, HandleLoop, HandleLostLoop, Take, PlayLoop,
         UnplayLoop, Load, NewLoop, StartLoop

(* Once no loop is being started, only a message of the queue starts one. *)
LEMMA StartsByMessage ==
  ASSUME TypeOK, HandledInv, AllTold, ~Starting, [Next]_vars,
         \A p \in Task : ~HandleLoop(p)
  PROVE  AllTold' /\ ~Starting'
<1>1. \A s \in Slot : ~NewLoop(s)
  BY DEF NewLoop, HandlingAt, HandledInv, Starting
<1>2. AllTold'
  BY <1>1, ToldStaysTold
<1>3. UNCHANGED page => ~Starting'
  BY DEF page, Starting
<1>4. Handle => ~Starting'
  <2>1. ASSUME NEW p \in Task, HandleProgram(p) PROVE ~Starting'
    BY <2>1 DEF HandleProgram, Starting
  <2>2. HandleDefault \/ (\E p \in Task : HandleLostLoop(p)) => ~Starting'
    BY <1>3 DEF HandleDefault, HandleLostLoop
  <2>3. PlayLoop \/ UnplayLoop => ~Starting'
    BY DEF PlayLoop, UnplayLoop, HandlingAt, Starting, HandledInv
  <2>4. Load \/ StartLoop => ~Starting'
    BY TaskAssumption DEF Load, StartLoop, Starting
  <2> QED
    BY <1>1, <2>1, <2>2, <2>3, <2>4 DEF Handle
<1> QED
  BY <1>2, <1>3, <1>4, PageUnchanged DEF Next

LEMMA YieldStep ==
  ASSUME LoopsApart, TypeOK, LoopInRange, HandledInv, NoOrphanLoop, StopInv, ShowInv,
         YieldInv, [Next]_vars
  PROVE  YieldInv'
<1> SUFFICES ASSUME Settled', currentPlay' \in Outside
             PROVE  \/ AllTold' /\ ~Starting' /\ NoStartAfter(0)'
                    \/ \E i \in 1 .. Len(queue') : StopsLoop(queue'[i]) /\ NoStartAfter(i)'
  BY DEF YieldInv
<1>0. Len(queue) \in Nat
  BY DEF TypeOK, UiTypes
<1>1. CASE ShowSend /\ showTarget = currentPlay /\ currentPlay' = currentPlay
  <2>1. Len(queue') = Len(queue) + 1 /\ queue'[Len(queue')] = Live(currentPlay)
    BY <1>1, QueueStep DEF ShowSend
  <2>2. StopsLoop(queue'[Len(queue')])
    BY <1>1, <2>1 DEF StopsLoop, Live
  <2> QED
    BY <1>0, <2>1, <2>2 DEF NoStartAfter
<1>2. CASE Settled /\ currentPlay' = currentPlay /\ ~ShowSend /\ ~ShowDefault
  <2>0. \/ AllTold /\ ~Starting /\ NoStartAfter(0)
        \/ \E i \in 1 .. Len(queue) : StopsLoop(queue[i]) /\ NoStartAfter(i)
    BY <1>2 DEF YieldInv
  <2>1. ASSUME NEW p \in Task, HandleLoop(p)
        PROVE  queue # <<>> /\ queue' = Tail(queue) /\ StartsLoop(queue[1])
    BY <2>1, QueueTail DEF HandleLoop, Take, StartsLoop, Live
  <2>2. CASE UNCHANGED queue
    <3>1. \A p \in Task : ~HandleLoop(p)
      BY <2>1, <2>2, QueueTail
    <3>2. AllTold /\ ~Starting => AllTold' /\ ~Starting'
      BY <3>1, StartsByMessage
    <3> QED
      BY <2>0, <2>2, <3>2 DEF NoStartAfter
  <2>3. ASSUME NEW m, Post(m), StartsLoop(m) => m = Live(currentPlay)
        PROVE  \/ AllTold' /\ ~Starting' /\ NoStartAfter(0)'
               \/ \E i \in 1 .. Len(queue') : StopsLoop(queue'[i]) /\ NoStartAfter(i)'
    <3>1. ~StartsLoop(m)
      BY <1>2, <2>3 DEF StartsLoop, Live, Outside
    <3>2. /\ Len(queue') = Len(queue) + 1 /\ queue'[Len(queue')] = m
          /\ \A i \in 1 .. Len(queue) : queue'[i] = queue[i]
      BY <2>3, QueueStep
    <3>3. \A p \in Task : ~HandleLoop(p)
      BY <1>0, <2>1, <3>2, QueueTail
    <3>4. ASSUME NEW i \in Nat, NoStartAfter(i) PROVE NoStartAfter(i)'
      BY <1>0, <3>1, <3>2, <3>4 DEF NoStartAfter
    <3>5. AllTold /\ ~Starting => AllTold' /\ ~Starting'
      BY <3>3, StartsByMessage
    <3>6. ASSUME NEW i \in 1 .. Len(queue), StopsLoop(queue[i]), NoStartAfter(i)
          PROVE  i \in 1 .. Len(queue') /\ StopsLoop(queue'[i]) /\ NoStartAfter(i)'
      BY <1>0, <3>2, <3>4, <3>6
    <3> QED
      BY <2>0, <3>4, <3>5, <3>6
  <2>4. CASE Handle /\ ~UNCHANGED queue
    <3>1. /\ queue # <<>> /\ queue' = Tail(queue)
          /\ \/ HandleDefault
             \/ \E p \in Task : HandleProgram(p) \/ HandleLoop(p) \/ HandleLostLoop(p)
      BY <2>4, HandleTakesOne
    <3>2. /\ Len(queue) \in Nat \ {0} /\ Len(queue') = Len(queue) - 1
          /\ Head(queue) = queue[1]
          /\ \A i \in 1 .. Len(queue') : queue'[i] = queue[i + 1]
      BY <3>1, QueueTail
    <3>3. ASSUME NEW i \in Nat, NoStartAfter(i + 1) PROVE NoStartAfter(i)'
      <4>1. SUFFICES ASSUME NEW j \in i + 1 .. Len(queue') PROVE ~StartsLoop(queue'[j])
        BY DEF NoStartAfter, StartsLoop
      <4>2. j \in 1 .. Len(queue') /\ j + 1 \in i + 1 + 1 .. Len(queue)
        BY <3>2
      <4>3. queue'[j] = queue[j + 1]
        BY <3>2, <4>2
      <4> QED
        BY <3>3, <4>2, <4>3 DEF NoStartAfter
    <3>4. CASE AllTold /\ ~Starting /\ NoStartAfter(0)
      <4>1. ~StartsLoop(queue[1]) /\ NoStartAfter(0 + 1)
        <5>1. /\ 1 \in 0 + 1 .. Len(queue)
              /\ \A k \in 0 + 1 + 1 .. Len(queue) : k \in 0 + 1 .. Len(queue)
          BY <3>2
        <5>2. \A k \in 0 + 1 .. Len(queue) : ~StartsLoop(queue[k])
          BY <3>4 DEF NoStartAfter
        <5> QED
          BY <5>1, <5>2 DEF NoStartAfter
      <4>2. \A p \in Task : ~HandleLoop(p)
        BY <2>1, <4>1
      <4>3. AllTold' /\ ~Starting'
        BY <3>4, <4>2, StartsByMessage
      <4>4. NoStartAfter(0)'
        BY <3>3, <4>1
      <4> QED
        BY <4>3, <4>4
    <3>5. ASSUME NEW i \in 1 .. Len(queue), StopsLoop(queue[i]), NoStartAfter(i)
          PROVE  \/ AllTold' /\ ~Starting' /\ NoStartAfter(0)'
                 \/ \E j \in 1 .. Len(queue') : StopsLoop(queue'[j]) /\ NoStartAfter(j)'
      <4>1. CASE i = 1
        <5>1. Head(queue).what = "PLAY_LIVE" /\ Head(queue).program \in Task \ (Entry \cup InLoop)
          BY <3>2, <3>5, <4>1 DEF StopsLoop, Outside
        <5>2. ~HandleDefault
          BY <5>1 DEF HandleDefault, Default
        <5>3. ASSUME NEW p \in Task, HandleLoop(p) \/ HandleLostLoop(p) PROVE FALSE
          BY <5>1, <5>3 DEF HandleLoop, HandleLostLoop, Take, Live
        <5>4. PICK p \in Task : HandleProgram(p)
          BY <3>1, <5>2, <5>3
        <5>5. p \in Outside
          BY <5>1, <5>4 DEF HandleProgram, Take, Live, Outside
        <5>6. AllTold'
          BY <5>4, <5>5, PageStopsLoops
        <5>7. ~Starting'
          BY <5>4 DEF HandleProgram, Starting
        <5>8. NoStartAfter(0 + 1)
          BY <3>5, <4>1
        <5> QED
          BY <3>3, <5>6, <5>7, <5>8
      <4>2. CASE i > 1
        <5>1. i - 1 \in 1 .. Len(queue') /\ queue'[i - 1] = queue[i]
          BY <3>2, <4>2
        <5>2. NoStartAfter(i - 1)'
          BY <3>3, <3>5, <4>2
        <5> QED
          BY <3>5, <5>1, <5>2
      <4> QED
        BY <4>1, <4>2
    <3> QED
      BY <2>0, <3>4, <3>5
  <2> QED
    BY <1>2, <2>2, <2>3, <2>4, QueueOfLoops
<1> QED
  BY <1>1, <1>2, SettledStep

(* A loop never goes on behind a program outside the loops that is in play, though a
   message that starts it may have been in the queue when the program was chosen
   (playProgram, stopLoopTask). *)
THEOREM LoopsYield == ASSUME LoopsApart PROVE Spec => []LoopYields
<1>1. Init => YieldInv
  BY DEF Init, YieldInv, Settled
<1>2. TypeOK /\ YieldInv => LoopYields
  <2> SUFFICES ASSUME TypeOK, YieldInv, Settled, queue = <<>>,
                      currentPlay \notin Entry \cup InLoop \cup {NoTask}
               PROVE  AllTold
    BY DEF LoopYields, Settled, AllTold
  <2>1. currentPlay \in Outside /\ Len(queue) = 0
    BY DEF TypeOK, TaskTypes, MaybeTask, Outside
  <2> QED
    BY <2>1 DEF YieldInv
<1>3. TypeOK /\ LoopInRange /\ HandledInv /\ NoOrphanLoop /\ StopInv /\ ShowInv /\ YieldInv
        /\ [Next]_vars => YieldInv'
  BY YieldStep
<1> QED
  BY <1>1, <1>2, <1>3, TypeCorrectness, LoopRange, NoOrphans, Stopping, ShowInvariant,
     PTL DEF Spec
=============================================================================

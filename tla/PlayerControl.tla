---------------------------- MODULE PlayerControl ----------------------------
(***************************************************************************)
(* The play-out scheduler of YSPlayer: PlayerController (the shared state),*)
(* the show thread (MainActivity.PlayerHtmlTask), the UI thread with its   *)
(* message queue (MainActivity.HtmlHandler and the activity callbacks),    *)
(* the loop threads (MainActivity.PlayerLoopTask), the TCP thread that     *)
(* dispatches programs (PlayerCmdCtr) and the one-shot command threads     *)
(* (ChgScreenCmd, StopPlayCmd, OnPlayCmd).                                 *)
(*                                                                         *)
(* PlayerController mixes synchronized methods with plain ones.  A         *)
(* synchronized method is guarded by lock; a plain method is a script of   *)
(* steps, one per shared field it reads or writes, which the other threads *)
(* may interleave.  todo[th] is what thread th has still to execute.       *)
(***************************************************************************)
EXTENDS Integers, Sequences, Functions

CONSTANTS
  Task,        \* Programtask objects; each is the result of one parse
  NoTask,      \* null
  ProgramId,   \* values of programid
  pid,         \* programid of each task
  Entry,       \* tasks made by createLoopProgram; each stands for its playlist too
  member,      \* the programs of the playlist of each entry, in order
  Local,       \* tasks whose onlinemode is local or localfirst
  Command,     \* program commands the server sends: [type, items]
  Held,        \* tasks listed at start (rebuilt outside their window)
  HeldInsert,  \* those of them that arrived by an InterPlay
  rank,        \* order in which the held tasks were added
  CmdThread,   \* threads of ChgScreen, StopPlay and OnPlay commands
  Slot,        \* loop threads that can exist at once
  NoSlot,
  Windows,     \* the sets of tasks that may be in their window at start
  MaxQueue, MaxControl, MaxClock, MaxDownload, MaxMenu, \* bounds
  ControlKinds \* the command threads the server uses

ASSUME TaskAssumption ==
  /\ NoTask \notin Task
  /\ pid \in [Task -> ProgramId]
  /\ Entry \subseteq Task
  /\ member \in [Entry -> Seq(Task \ Entry)]
  /\ \A e \in Entry : member[e] # <<>>
  /\ Local \subseteq Task \ Entry
ASSUME DeliveryAssumption ==
  /\ Command \subseteq [type : {"LivePlay", "InterPlay", "Publish"}, items : Seq(Task)]
  /\ Held \subseteq Task
  /\ HeldInsert \subseteq Held
  /\ rank \in [Task -> Int] /\ \A t \in Held : rank[t] <= 0
  /\ \A t, u \in Held : pid[t] = pid[u] => t = u
ASSUME ThreadAssumption == CmdThread \cap {"ui", "tcp", "show", "free"} = {}
ASSUME BoundAssumption ==
  /\ MaxQueue \in Nat /\ MaxControl \in Nat /\ MaxClock \in Nat
  /\ MaxDownload \in Nat /\ MaxMenu \in Nat
  /\ Windows \subseteq SUBSET Task
  /\ NoSlot \notin Slot
  /\ ControlKinds \subseteq {"ChgScreen", "StopPlay", "OnPlay"}

Thread == {"ui", "tcp"} \cup CmdThread
MaybeTask == Task \cup {NoTask}

priorityChangeScreen == 10
priorityInsert == 9
priorityLive == 8

(* Scripts: the accesses of the methods that are not one critical section.
   Accesses that no other thread can tell apart are one step. *)
StopPlayLate == <<"priorities", "dropProgram", "dropDate", "testCurrent", "noCurrent",
                  "stop", "stopLoops">>  \* mutant of StopPlay
StartPlay == <<"enter", "dropProgram", "dropDate", "leave">>
StopPlay == <<"stop", "priorities", "dropProgram", "dropDate", "testCurrent",
              "noCurrent", "stopLoops">>
ChangeScreen == <<"stopLoops", "compare">>
InstallChange == <<"priorities">> \o StartPlay \o <<"raise", "setProgram", "setDate">>
ClearChangeScreen == <<"priorities", "dropProgram", "dropDate">>
Step == {"enter", "leave", "stop", "priorities", "dropProgram", "dropDate", "testCurrent",
         "unplay", "noCurrent", "stopLoops", "compare", "raise", "setProgram", "setDate",
         "clearAll", "item", "inPlaying", "add", "openMenu"}

VARIABLES
  programtasks, insProgramtasks, loopplaylists, \* the controller's lists
  arrival, arrivals,     \* the lists are in order of arrival
  cleared,               \* playlists whose program list clearAllProgram emptied
  priority, played,      \* fields of every Programtask
  currentPlay, chgScrProgram, chgScrDate,
  openedSince,           \* tasks whose window opened after chgScrDate
  sinceNow,              \* and after the now of a setChangeScreen under way
  playStatus, defaultPlay, downloadRefresh,
  lock,                  \* owner of the controller's monitor
  showPc, showTarget, showChg,  \* show thread and its locals
  todo, arg,             \* scripts and the program of a pending setChangeScreen
  command, items, last,  \* locals of dispatchCommand
  queue, screen,         \* messages of the UI thread; what the WebView shows
  front, menu,           \* activity in front; programs its list offers
  handling, handled, found, \* playProgram: where it is, its program, its playlist
  loopTask, loopThread, loop, \* static fields (loopThread: not null); the loop threads
  runnable, expired,     \* tasks in their window; tasks past their end date
  acked,                 \* history: last acknowledged change of screen
  crashed,               \* an uncaught exception has ended the process
  used                   \* commands, clock events and menu visits so far

lists == <<programtasks, insProgramtasks, loopplaylists, arrival, arrivals, cleared>>
change == <<chgScrProgram, chgScrDate, openedSince, sinceNow>>
flags == <<playStatus, defaultPlay, downloadRefresh>>
show == <<showPc, showTarget, showChg>>
script == <<todo, arg, command, items, last>>
page == <<handling, handled, found>>
ui == <<queue, screen, front, menu, page>>
loops == <<loopTask, loopThread, loop>>
world == <<runnable, expired, acked, crashed, used>>
vars == <<lists, priority, played, currentPlay, change, flags, lock, show, script,
          ui, loops, world>>

Message == [what : {"PLAY_LIVE", "PLAY_DEFAULT"}, program : MaybeTask]
Live(p) == [what |-> "PLAY_LIVE", program |-> p]
Default == [what |-> "PLAY_DEFAULT", program |-> NoTask]

LoopThread == [on : BOOLEAN, stop : BOOLEAN, entry : Entry \cup {NoTask}, next : Nat,
               pc : {"new", "test", "send"}]
NoLoop == [on |-> FALSE, stop |-> FALSE, entry |-> NoTask, next |-> 1, pc |-> "test"]

ListTypes ==
  /\ programtasks \subseteq Task /\ insProgramtasks \subseteq Task
  /\ loopplaylists \subseteq Entry /\ cleared \subseteq Entry
  /\ arrival \in [Task -> Int] /\ arrivals \in Nat
TaskTypes ==
  /\ priority \in [Task -> {0, priorityLive, priorityInsert, priorityChangeScreen}]
  /\ played \in [Task -> BOOLEAN]
  /\ currentPlay \in MaybeTask
ChangeTypes ==
  /\ chgScrProgram \in MaybeTask /\ chgScrDate \in BOOLEAN
  /\ openedSince \subseteq Task /\ sinceNow \in [Thread -> SUBSET Task]
FlagTypes ==
  /\ playStatus \in {"playing", "stop"}
  /\ defaultPlay \in BOOLEAN /\ downloadRefresh \in BOOLEAN
LockTypes == lock \in Thread \cup {"show", "free"}
ShowTypes ==
  /\ showPc \in {"sleep", "default", "read", "choose", "commit", "commitDate", "send",
                 "refresh", "refreshed"}
  /\ showTarget \in MaybeTask /\ showChg \in MaybeTask
ScriptTypes ==
  /\ todo \in [Thread -> Seq(Step)] /\ arg \in [Thread -> MaybeTask]
  /\ command \in {"none", "LivePlay", "InterPlay", "Publish"}
  /\ items \in Seq(Task) /\ last \in MaybeTask
UiTypes ==
  /\ queue \in Seq(Message) /\ screen \in MaybeTask
  /\ front \in {"main", "menu", "leaving"} /\ menu \subseteq Task
  /\ handling \in {"idle", "play", "unplay", "load", "new", "start"}
  /\ handled \in MaybeTask /\ found \in Entry \cup {NoTask}
LoopTypes ==
  loopTask \in Slot \cup {NoSlot} /\ loopThread \in BOOLEAN /\ loop \in [Slot -> LoopThread]
WorldTypes ==
  /\ runnable \subseteq Task /\ expired \subseteq Task /\ acked \in MaybeTask
  /\ crashed \in BOOLEAN
  /\ used \in [control : Nat, clock : Nat, download : Nat, menu : Nat, sent : SUBSET Command]
TypeOK ==
  /\ ListTypes /\ TaskTypes /\ ChangeTypes /\ FlagTypes /\ LockTypes /\ ShowTypes
  /\ ScriptTypes /\ UiTypes /\ LoopTypes /\ WorldTypes

Init ==
  /\ programtasks = Held \ HeldInsert /\ insProgramtasks = HeldInsert
  /\ loopplaylists = Held \cap Entry
  /\ arrival = rank /\ arrivals = 0
  /\ cleared = {}
  /\ priority = [t \in Task |-> IF t \in HeldInsert THEN priorityInsert
                                ELSE IF t \in Held THEN priorityLive ELSE 0]
  /\ played = [t \in Task |-> FALSE]
  /\ currentPlay = NoTask /\ chgScrProgram = NoTask /\ chgScrDate = FALSE
  /\ openedSince = {} /\ sinceNow = [th \in Thread |-> {}]
  /\ playStatus = "playing" /\ defaultPlay = TRUE /\ downloadRefresh = FALSE
  /\ lock = "free"
  /\ showPc = "sleep" /\ showTarget = NoTask /\ showChg = NoTask
  /\ todo = [th \in Thread |-> <<>>] /\ arg = [th \in Thread |-> NoTask]
  /\ command = "none" /\ items = <<>> /\ last = NoTask
  /\ queue = <<>> /\ screen = NoTask
  /\ front = "main" /\ menu = {}
  /\ handling = "idle" /\ handled = NoTask /\ found = NoTask
  /\ loopTask = NoSlot /\ loopThread = FALSE
  /\ loop = [s \in Slot |-> NoLoop]
  /\ runnable \in Windows
  /\ expired = {} /\ acked = NoTask /\ crashed = FALSE
  /\ used = [control |-> 0, clock |-> 0, download |-> 0, menu |-> 0, sent |-> {}]

-----------------------------------------------------------------------------
(* The controller's lists. *)

Without(S, id) == {t \in S : pid[t] # id}
Earliest(S) == {t \in S : \A u \in S : arrival[t] <= arrival[u]}
Members(e) == Range(member[e])
LoopMembers == UNION {Members(e) : e \in loopplaylists}
Listed == programtasks \cup insProgramtasks

(* Mutant of DeleteProgram: the inserted versions are removed from the live list. *)
DeleteFromLive(id) == [live |-> Without(programtasks, id), ins |-> insProgramtasks]

(* deletePorgram: a program found among the live ones is not looked for among
   the inserted ones. *)
DeleteProgram(id) ==
  IF \E t \in programtasks : pid[t] = id
  THEN [live |-> Without(programtasks, id), ins |-> insProgramtasks]
  ELSE [live |-> programtasks, ins |-> Without(insProgramtasks, id)]

(* addProgram: synchronized, so one step of thread th. *)
AddProgram(t, type) ==
  LET rest == DeleteProgram(pid[t])
      insert == type = "InterPlay"
  IN /\ programtasks' = IF insert THEN rest.live ELSE rest.live \cup {t}
     /\ insProgramtasks' = IF insert THEN rest.ins \cup {t} ELSE rest.ins
     /\ priority' = [priority EXCEPT ![t] = IF insert THEN priorityInsert ELSE priorityLive]
     /\ arrivals' = arrivals + 1
     /\ arrival' = [arrival EXCEPT ![t] = arrivals + 1]

(* Mutant of ListPriority: the same rank for both lists. *)
OneRank(t) == IF t \in Listed \cup LoopMembers THEN priorityLive ELSE priority[t]

(* clearChangePriority: the rank of the list replaces the rank of a change. *)
ListPriority(t) ==
  IF t \in insProgramtasks THEN priorityInsert
  ELSE IF t \in programtasks \cup LoopMembers THEN priorityLive ELSE priority[t]
ClearChangePriority ==
  priority' = [t \in Task |-> IF priority[t] = priorityChangeScreen
                              THEN ListPriority(t) ELSE priority[t]]

(* setAllLoopPlayed(false) on the field played, after change f of it. *)
UnplayLoops(f) == [t \in Task |-> IF t \in LoopMembers THEN FALSE ELSE f[t]]

(* Mutant of StoppedLoop: the thread is interrupted, its flag is not set. *)
InterruptedLoop == loop

(* stopLoopTask *)
StoppedLoop == IF loopTask = NoSlot THEN loop ELSE [loop EXCEPT ![loopTask].stop = TRUE]

(* getProgram: live, then inserted, then the loops' programs. *)
Lookup(id) ==
  LET with(S) == {t \in S : pid[t] = id}
  IN IF with(programtasks) # {} THEN with(programtasks)
     ELSE IF with(insProgramtasks) # {} THEN with(insProgramtasks)
     ELSE with(LoopMembers)

(* isAfterChangeScreen: without a date every program comes after the change. *)
AfterChangeScreen(t) == ~chgScrDate \/ t \in openedSince

(* Mutant of Post: sendMessageAtFrontOfQueue. *)
PostAtFront(m) == Len(queue) < MaxQueue /\ queue' = <<m>> \o queue

Post(m) == Len(queue) < MaxQueue /\ queue' = Append(queue, m)

-----------------------------------------------------------------------------
(* The show thread: PlayerHtmlTask.run, one round every two seconds. *)

ShowAt(pc) == ~crashed /\ showPc = pc

ShowWake ==
  /\ ShowAt("sleep")
  /\ showPc' = IF playStatus = "stop" THEN "default" ELSE "read"
  /\ UNCHANGED <<lists, priority, played, currentPlay, change, flags, lock,
                 showTarget, showChg, script, ui, loops, world>>

ShowDefault ==
  /\ ShowAt("default")
  /\ showPc' = "sleep"
  /\ IF defaultPlay THEN UNCHANGED queue ELSE Post(Default)
  /\ UNCHANGED <<lists, priority, played, currentPlay, change, flags, lock,
                 showTarget, showChg, script, screen, front, menu, page, loops, world>>

(* Mutant of ShowRead: getRunProgram is not synchronized. *)
ShowReadUnlocked ==
  /\ ShowAt("read")
  /\ IF playStatus = "stop"
     THEN showPc' = "refresh" /\ UNCHANGED <<lock, showChg>>
     ELSE showPc' = "choose" /\ UNCHANGED lock /\ showChg' = chgScrProgram
  /\ UNCHANGED <<lists, priority, played, currentPlay, change, flags, showTarget, script,
                 ui, loops, world>>

(* getRunProgram holds the monitor, which setCurrentPlay and the lists respect but
   the status and the change of screen do not.  It reads those first. *)
ShowRead ==
  /\ ShowAt("read") /\ lock = "free"
  /\ IF playStatus = "stop"
     THEN showPc' = "refresh" /\ UNCHANGED <<lock, showChg>>
     ELSE showPc' = "choose" /\ lock' = "show" /\ showChg' = chgScrProgram
  /\ UNCHANGED <<lists, priority, played, currentPlay, change, flags, showTarget, script,
                 ui, loops, world>>

(* The first candidate of the inserted programs, or else of the live ones, is the
   only one compared with the program in play. *)
Candidates(S) ==
  {t \in S : t # currentPlay /\ t # showChg /\ t \in runnable /\ ~played[t]}
FirstCandidate ==
  IF Candidates(insProgramtasks) # {} THEN Earliest(Candidates(insProgramtasks))
  ELSE Earliest(Candidates(programtasks))
(* Mutant of HoldsScreen: the window of the program in play is not looked at. *)
HoldsScreenForEver(t) == currentPlay # NoTask /\ priority[t] <= priority[currentPlay]
HoldsScreen(t) ==
  currentPlay # NoTask /\ currentPlay \in runnable /\ priority[t] <= priority[currentPlay]
Supersedes(t) == ~HoldsScreen(t) /\ (showChg # NoTask => AfterChangeScreen(t))
Targets ==
  LET winners == {t \in FirstCandidate : Supersedes(t)}
  IN IF winners # {} THEN winners ELSE {showChg} \ {NoTask}

ShowChoose ==
  /\ ShowAt("choose")
  /\ \/ /\ \E t \in Targets : showTarget' = t
        /\ showPc' = "commit" /\ UNCHANGED lock
     \/ /\ Targets = {}
        /\ showPc' = "refresh" /\ lock' = "free" /\ UNCHANGED showTarget
  /\ UNCHANGED <<lists, priority, played, currentPlay, change, flags, showChg, script, ui,
                 loops, world>>

(* getRunProgram, from the test of played on.  A change of screen that loses to
   the target is dropped whatever chgScrProgram is by now. *)
ShowCommit ==
  /\ ShowAt("commit")
  /\ IF played[showTarget]
     THEN /\ showPc' = "refresh" /\ lock' = "free"
          /\ UNCHANGED <<played, currentPlay, chgScrProgram>>
     ELSE /\ played' = IF currentPlay \in {NoTask, showTarget} THEN played
                       ELSE [played EXCEPT ![currentPlay] = FALSE]
          /\ currentPlay' = showTarget
          /\ IF showChg \notin {NoTask, showTarget}
             THEN chgScrProgram' = NoTask /\ showPc' = "commitDate" /\ UNCHANGED lock
             ELSE showPc' = "send" /\ lock' = "free" /\ UNCHANGED chgScrProgram
  /\ UNCHANGED <<lists, priority, chgScrDate, openedSince, sinceNow, flags, showTarget,
                 showChg, script, ui, loops, world>>

ShowCommitDate ==
  /\ ShowAt("commitDate")
  /\ chgScrDate' = FALSE /\ openedSince' = {}
  /\ showPc' = "send" /\ lock' = "free"
  /\ UNCHANGED <<lists, priority, played, currentPlay, chgScrProgram, sinceNow, flags,
                 showTarget, showChg, script, ui, loops, world>>

ShowSend ==
  /\ ShowAt("send")
  /\ Post(Live(showTarget))
  /\ showPc' = "sleep" /\ showTarget' = NoTask /\ showChg' = NoTask
  /\ UNCHANGED <<lists, priority, played, currentPlay, change, flags, lock, script,
                 screen, front, menu, page, loops, world>>

(* No new target: after a finished download a local program is loaded again. *)
ShowRefresh ==
  /\ ShowAt("refresh")
  /\ IF downloadRefresh /\ currentPlay \in Local
     THEN Post(Live(currentPlay)) ELSE UNCHANGED queue
  /\ showPc' = IF downloadRefresh THEN "refreshed" ELSE "sleep"
  /\ showTarget' = NoTask /\ showChg' = NoTask
  /\ UNCHANGED <<lists, priority, played, currentPlay, change, flags, lock, script,
                 screen, front, menu, page, loops, world>>

ShowRefreshed ==
  /\ ShowAt("refreshed")
  /\ downloadRefresh' = FALSE /\ showPc' = "sleep"
  /\ UNCHANGED <<lists, priority, played, currentPlay, change, playStatus, defaultPlay,
                 lock, showTarget, showChg, script, ui, loops, world>>

Show ==
  \/ ShowWake \/ ShowDefault \/ ShowRead \/ ShowChoose \/ ShowCommit \/ ShowCommitDate
  \/ ShowSend \/ ShowRefresh \/ ShowRefreshed

-----------------------------------------------------------------------------
(* Steps of the scripts that the UI, TCP and command threads execute. *)

At(th, step) == ~crashed /\ todo[th] # <<>> /\ Head(todo[th]) = step
Continue(th, prefix) == todo' = [todo EXCEPT ![th] = prefix \o Tail(todo[th])]
Advance(th) == Continue(th, <<>>)

(* startPlay is synchronized, but the fields it writes are also written elsewhere
   without the monitor: it takes the monitor, sets the status and clears the
   priorities; then the change of screen; then defaultPlay, and gives it back. *)
EnterStartPlay(th) ==
  /\ At(th, "enter") /\ lock = "free"
  /\ lock' = th /\ playStatus' = "playing" /\ ClearChangePriority
  /\ Advance(th)
  /\ UNCHANGED <<lists, played, currentPlay, change, defaultPlay, downloadRefresh, show,
                 arg, command, items, last, ui, loops, world>>

LeaveStartPlay(th) ==
  /\ At(th, "leave") /\ lock = th
  /\ defaultPlay' = FALSE /\ lock' = "free"
  /\ Advance(th)
  /\ UNCHANGED <<lists, priority, played, currentPlay, change, playStatus,
                 downloadRefresh, show, arg, command, items, last, ui, loops, world>>

SetStatusStop(th) ==
  /\ At(th, "stop")
  /\ playStatus' = "stop" /\ Advance(th)
  /\ UNCHANGED <<lists, priority, played, currentPlay, change, defaultPlay,
                 downloadRefresh, lock, show, arg, command, items, last, ui, loops, world>>

ClearPriority(th) ==
  /\ At(th, "priorities") /\ lock = "free"
  /\ ClearChangePriority /\ Advance(th)
  /\ UNCHANGED <<lists, played, currentPlay, change, flags, lock, show, arg, command,
                 items, last, ui, loops, world>>

SetChgScrProgram(th) ==
  /\ \/ At(th, "dropProgram") /\ chgScrProgram' = NoTask
     \/ At(th, "setProgram") /\ chgScrProgram' = arg[th]
  /\ Advance(th)
  /\ UNCHANGED <<lists, priority, played, currentPlay, chgScrDate, openedSince, sinceNow,
                 flags, lock, show, arg, command, items, last, ui, loops, world>>

(* The date of a change is the now that setChangeScreen took before it raised the
   priority: a window that has opened since then comes after the change. *)
SetChgScrDate(th) ==
  /\ \/ At(th, "dropDate") /\ chgScrDate' = FALSE /\ openedSince' = {}
        /\ UNCHANGED <<arg, sinceNow>>
     \/ At(th, "setDate") /\ chgScrDate' = TRUE /\ openedSince' = sinceNow[th]
        /\ arg' = [arg EXCEPT ![th] = NoTask] /\ sinceNow' = [sinceNow EXCEPT ![th] = {}]
  /\ Advance(th)
  /\ UNCHANGED <<lists, priority, played, currentPlay, chgScrProgram, flags, lock, show,
                 command, items, last, ui, loops, world>>

(* stopPlay reads currentPlay twice: to test it and to write its field played.
   The second read throws when another thread has set it to null in between. *)
TestCurrent(th) ==
  /\ At(th, "testCurrent")
  /\ Continue(th, IF currentPlay = NoTask THEN <<>> ELSE <<"unplay">>)
  /\ UNCHANGED <<lists, priority, played, currentPlay, change, flags, lock, show, arg,
                 command, items, last, ui, loops, world>>

Unplay(th) ==
  /\ At(th, "unplay")
  /\ IF currentPlay = NoTask THEN crashed' = TRUE /\ UNCHANGED played
     ELSE played' = [played EXCEPT ![currentPlay] = FALSE] /\ UNCHANGED crashed
  /\ Advance(th)
  /\ UNCHANGED <<lists, priority, currentPlay, change, flags, lock, show, arg, command,
                 items, last, ui, loops, runnable, expired, acked, used>>

NoCurrent(th) ==
  /\ At(th, "noCurrent") /\ lock = "free"
  /\ currentPlay' = NoTask /\ Advance(th)
  /\ UNCHANGED <<lists, priority, played, change, flags, lock, show, arg, command,
                 items, last, ui, loops, world>>

(* setAllLoopPlayed(false), then stopLoopTask.  That sets the flag of loopTask and
   interrupts loopThread, which is null while the UI thread is between the two
   assignments for the first loop: the exception ends the process. *)
LoopThreadNull == loopTask # NoSlot /\ ~loopThread
StopLoops(th) ==
  /\ At(th, "stopLoops") /\ lock = "free"
  /\ th = "tcp" => ~LoopThreadNull
  /\ played' = UnplayLoops(played) /\ loop' = StoppedLoop
  /\ crashed' = (crashed \/ LoopThreadNull)
  /\ Advance(th)
  /\ UNCHANGED <<lists, priority, currentPlay, change, flags, lock, show, arg, command,
                 items, last, ui, loopTask, loopThread, runnable, expired, acked, used>>

(* setChangeScreen does nothing more when the program is the one in play. *)
CompareCurrent(th) ==
  /\ At(th, "compare")
  /\ \/ arg[th] # currentPlay /\ Continue(th, InstallChange) /\ UNCHANGED arg
     \/ arg[th] = currentPlay /\ Advance(th) /\ arg' = [arg EXCEPT ![th] = NoTask]
  /\ UNCHANGED <<lists, priority, played, currentPlay, change, flags, lock, show, command,
                 items, last, ui, loops, world>>

(* Mutant of Raised: the rank of the change is added to that of the list. *)
RaisedBy(t) == [priority EXCEPT ![t] = @ + priorityChangeScreen]
Raised(t) == [priority EXCEPT ![t] = priorityChangeScreen]
RaisePriority(th) ==
  /\ At(th, "raise")
  /\ priority' = Raised(arg[th])
  /\ Advance(th)
  /\ UNCHANGED <<lists, played, currentPlay, change, flags, lock, show, arg, command,
                 items, last, ui, loops, world>>

ControlStep(th) ==
  \/ EnterStartPlay(th) \/ LeaveStartPlay(th) \/ SetStatusStop(th) \/ ClearPriority(th)
  \/ SetChgScrProgram(th) \/ SetChgScrDate(th) \/ TestCurrent(th) \/ Unplay(th)
  \/ NoCurrent(th) \/ StopLoops(th) \/ CompareCurrent(th) \/ RaisePriority(th)

-----------------------------------------------------------------------------
(* The TCP thread: PlayerCmdCtr.dispatchCommand for LivePlay, InterPlay and
   Publish.  One task per element of items; an Entry stands for a loop playlist. *)

Dispatch(c) ==
  /\ ~crashed /\ todo["tcp"] = <<>> /\ c \notin used.sent
  /\ command' = c.type /\ items' = c.items /\ last' = NoTask
  /\ todo' = [todo EXCEPT !["tcp"] =
                (IF c.type = "Publish" THEN <<"clearAll">> ELSE <<>>)
                  \o StartPlay \o ClearChangeScreen \o <<"item">>]
  /\ acked' = NoTask
  /\ used' = [used EXCEPT !.sent = @ \cup {c}]
  /\ UNCHANGED <<lists, priority, played, currentPlay, change, flags, lock, show, arg,
                 ui, loops, runnable, expired, crashed>>

(* clearAllProgram also empties the program list of every playlist. *)
ClearAllProgram ==
  /\ At("tcp", "clearAll") /\ lock = "free"
  /\ programtasks' = {} /\ insProgramtasks' = {} /\ loopplaylists' = {}
  /\ cleared' = cleared \cup loopplaylists
  /\ Advance("tcp")
  /\ UNCHANGED <<arrival, arrivals, priority, played, currentPlay, change, flags, lock,
                 show, arg, command, items, last, ui, loops, world>>

(* A program whose old version is being downloaded is skipped. *)
SkipItem ==
  /\ At("tcp", "item") /\ lock = "free" /\ items # <<>>
  /\ Head(items) \in Local /\ Lookup(pid[Head(items)]) \cap Local # {}
  /\ items' = Tail(items)
  /\ UNCHANGED <<lists, priority, played, currentPlay, change, flags, lock, show, todo, arg,
                 command, last, ui, loops, world>>

(* isProgramInPlaying reads currentPlay twice, and setCurrentPlay(null) is a step of
   its own.  When the second read finds null, the exception ends the command, whose
   other programs are lost: TcpSessionThread.run catches it. *)
IsProgramInPlaying ==
  /\ At("tcp", "item") /\ items # <<>> /\ Head(items) \notin Entry
  /\ Continue("tcp", IF currentPlay = NoTask THEN <<"add", "item">> ELSE <<"inPlaying">>)
  /\ UNCHANGED <<lists, priority, played, currentPlay, change, flags, lock, show, arg,
                 command, items, last, ui, loops, world>>

ComparePlaying ==
  /\ At("tcp", "inPlaying") /\ currentPlay # NoTask
  /\ Continue("tcp", IF pid[currentPlay] = pid[Head(items)]
                     THEN <<"noCurrent", "add", "item">> ELSE <<"add", "item">>)
  /\ UNCHANGED <<lists, priority, played, currentPlay, change, flags, lock, show, arg,
                 command, items, last, ui, loops, world>>

CommandLost ==
  /\ At("tcp", "inPlaying") /\ currentPlay = NoTask
  /\ items' = <<>> /\ last' = NoTask /\ Advance("tcp")
  /\ UNCHANGED <<lists, priority, played, currentPlay, change, flags, lock, show, arg,
                 command, ui, loops, world>>

(* So is the rest of a command whose change of screen finds loopThread null. *)
ChangeLost ==
  /\ ~crashed /\ todo["tcp"] \in {ChangeScreen, ChangeScreen \o <<"item">>}
  /\ lock = "free" /\ LoopThreadNull
  /\ played' = UnplayLoops(played) /\ loop' = StoppedLoop
  /\ items' = <<>> /\ last' = NoTask /\ arg' = [arg EXCEPT !["tcp"] = NoTask]
  /\ todo' = [todo EXCEPT !["tcp"] = <<>>]
  /\ UNCHANGED <<lists, priority, currentPlay, change, flags, lock, show, command, ui,
                 loopTask, loopThread, world>>

AddLoopPlaylist ==
  /\ At("tcp", "item") /\ lock = "free" /\ items # <<>> /\ Head(items) \in Entry
  /\ loopplaylists' = Without(loopplaylists, pid[Head(items)]) \cup {Head(items)}
  /\ Continue("tcp", <<"add", "item">>)
  /\ UNCHANGED <<programtasks, insProgramtasks, arrival, arrivals, cleared, priority,
                 played, currentPlay, change, flags, lock, show, arg, command, items, last,
                 ui, loops, world>>

(* A loop is put on screen at once, with any runnable program before it; other
   programs only after the whole command, the last runnable one. *)
AddItem ==
  /\ At("tcp", "add") /\ lock = "free" /\ items # <<>>
  /\ LET t == Head(items)
         shown == IF t \in runnable THEN t ELSE last
     IN /\ AddProgram(t, command)
        /\ IF t \in Entry /\ shown # NoTask
           THEN /\ arg' = [arg EXCEPT !["tcp"] = shown] /\ last' = NoTask
                /\ Continue("tcp", ChangeScreen)
           ELSE last' = shown /\ UNCHANGED arg /\ Advance("tcp")
  /\ items' = Tail(items)
  /\ UNCHANGED <<loopplaylists, cleared, played, currentPlay, change, flags, lock, show,
                 command, ui, loops, world>>

EndItems ==
  /\ At("tcp", "item") /\ items = <<>>
  /\ IF last = NoTask THEN UNCHANGED arg /\ Advance("tcp")
     ELSE arg' = [arg EXCEPT !["tcp"] = last] /\ Continue("tcp", ChangeScreen)
  /\ last' = NoTask
  /\ UNCHANGED <<lists, priority, played, currentPlay, change, flags, lock, show, command,
                 items, ui, loops, world>>

DispatchStep ==
  \/ ClearAllProgram \/ SkipItem \/ IsProgramInPlaying \/ ComparePlaying \/ CommandLost
  \/ ChangeLost \/ AddLoopPlaylist \/ AddItem \/ EndItems

-----------------------------------------------------------------------------
(* One-shot command threads. *)

Begin(th, steps) ==
  /\ ~crashed /\ todo[th] = <<>> /\ used.control < MaxControl
  /\ todo' = [todo EXCEPT ![th] = steps]
  /\ used' = [used EXCEPT !.control = @ + 1]

(* ChgScreenCmd acknowledges the change before it makes it. *)
ChgScreenCmd(th) ==
  /\ "ChgScreen" \in ControlKinds /\ lock = "free"
  /\ \E id \in ProgramId : \E p \in Lookup(id) :
       arg' = [arg EXCEPT ![th] = p] /\ acked' = p
  /\ Begin(th, ChangeScreen)
  /\ UNCHANGED <<lists, priority, played, currentPlay, change, flags, lock, show, command,
                 items, last, ui, loops, runnable, expired, crashed>>

StopPlayCmd(th) ==
  /\ "StopPlay" \in ControlKinds
  /\ Begin(th, StopPlay) /\ acked' = NoTask
  /\ UNCHANGED <<lists, priority, played, currentPlay, change, flags, lock, show, arg,
                 command, items, last, ui, loops, runnable, expired, crashed>>

OnPlayCmd(th) ==
  /\ "OnPlay" \in ControlKinds
  /\ Begin(th, StartPlay) /\ acked' = NoTask
  /\ UNCHANGED <<lists, priority, played, currentPlay, change, flags, lock, show, arg,
                 command, items, last, ui, loops, runnable, expired, crashed>>

Server ==
  \/ \E c \in Command : Dispatch(c)
  \/ \E th \in CmdThread : ChgScreenCmd(th) \/ StopPlayCmd(th) \/ OnPlayCmd(th)

-----------------------------------------------------------------------------
(* The UI thread: messages of HtmlHandler and callbacks of the activities, one
   after the other. *)

UiIdle == ~crashed /\ todo["ui"] = <<>> /\ handling = "idle"

HandleDefault ==
  /\ UiIdle /\ queue # <<>> /\ Head(queue) = Default
  /\ queue' = Tail(queue)
  /\ screen' = NoTask /\ defaultPlay' = TRUE
  /\ UNCHANGED <<lists, priority, played, currentPlay, change, playStatus,
                 downloadRefresh, lock, show, script, front, menu, page, loops, world>>

Take(p) == UiIdle /\ queue # <<>> /\ Head(queue) = Live(p) /\ queue' = Tail(queue)
HandlingAt(pc) == ~crashed /\ handling = pc

(* playProgram for a program: outside the loops it tells the running loop to stop.
   The lists are looked at with the monitor, the rest is done without it. *)
HandleProgram(p) ==
  /\ Take(p) /\ lock = "free" /\ p \notin Entry
  /\ handled' = p
  /\ LET inLoopList == \E m \in LoopMembers : pid[m] = pid[p]
     IN /\ loop' = IF inLoopList THEN loop ELSE StoppedLoop
        /\ handling' = IF inLoopList \/ loopTask = NoSlot THEN "load" ELSE "unplay"
  /\ UNCHANGED <<lists, priority, played, currentPlay, change, flags, lock, show, script,
                 screen, front, menu, found, loopTask, loopThread, world>>

(* playProgram for a loop, whose playlist may have been withdrawn. *)
HandleLoop(p) ==
  /\ Take(p) /\ lock = "free" /\ p \in Entry
  /\ \E e \in loopplaylists : pid[e] = pid[p] /\ found' = e
  /\ handled' = p /\ handling' = "play"
  /\ UNCHANGED <<lists, priority, played, currentPlay, change, flags, lock, show, script,
                 screen, front, menu, loops, world>>

HandleLostLoop(p) ==
  /\ Take(p) /\ lock = "free" /\ p \in Entry
  /\ \A e \in loopplaylists : pid[e] # pid[p]
  /\ UNCHANGED <<lists, priority, played, currentPlay, change, flags, lock, show, script,
                 screen, front, menu, page, loops, world>>

PlayLoop ==
  /\ HandlingAt("play")
  /\ defaultPlay' = FALSE /\ played' = [played EXCEPT ![handled] = TRUE]
  /\ loop' = StoppedLoop
  /\ handling' = IF loopTask = NoSlot THEN "new" ELSE "unplay"
  /\ UNCHANGED <<lists, priority, currentPlay, change, playStatus, downloadRefresh, lock,
                 show, script, queue, screen, front, menu, handled, found, loopTask,
                 loopThread, world>>

(* setAllLoopPlayed(false), when a loop has been told to stop. *)
UnplayLoop ==
  /\ HandlingAt("unplay") /\ lock = "free"
  /\ played' = UnplayLoops(played)
  /\ handling' = IF handled \in Entry THEN "new" ELSE "load"
  /\ UNCHANGED <<lists, priority, currentPlay, change, flags, lock, show, script, queue,
                 screen, front, menu, handled, found, loops, world>>

(* Mutant of LoadProgram: the flag is lowered by startPlay alone. *)
LoadPage(p) == screen' = p /\ UNCHANGED defaultPlay

(* The page of program p is loaded; from then on the default page is not shown. *)
LoadProgram(p) == screen' = p /\ defaultPlay' = FALSE

Load ==
  /\ HandlingAt("load")
  /\ LoadProgram(handled) /\ played' = [played EXCEPT ![handled] = TRUE]
  /\ handled' = NoTask /\ handling' = "idle"
  /\ UNCHANGED <<lists, priority, currentPlay, change, playStatus, downloadRefresh, lock,
                 show, script, queue, front, menu, found, loops, world>>

(* The new loop is loopTask from here on, though its thread is not there yet. *)
NewLoop(s) ==
  /\ HandlingAt("new") /\ ~loop[s].on
  /\ loop' = [loop EXCEPT ![s] = [on |-> TRUE, stop |-> FALSE, entry |-> found,
                                  next |-> 1, pc |-> "new"]]
  /\ loopTask' = s
  /\ found' = NoTask /\ handling' = "start"
  /\ UNCHANGED <<lists, priority, played, currentPlay, change, flags, lock, show, script,
                 queue, screen, front, menu, handled, loopThread, world>>

StartLoop ==
  /\ HandlingAt("start")
  /\ loopThread' = TRUE /\ loop' = [loop EXCEPT ![loopTask].pc = "test"]
  /\ handled' = NoTask /\ handling' = "idle"
  /\ UNCHANGED <<lists, priority, played, currentPlay, change, flags, lock, show, script,
                 queue, screen, front, menu, found, loopTask, world>>

Handle ==
  \/ HandleDefault
  \/ \E p \in Task : HandleProgram(p) \/ HandleLoop(p) \/ HandleLostLoop(p)
  \/ PlayLoop \/ UnplayLoop \/ Load \/ StartLoop
  \/ \E s \in Slot : NewLoop(s)

(* Opening the list of programs pauses MainActivity, which stops play. *)
OpenRequest ==
  /\ UiIdle /\ front = "main" /\ used.menu < MaxMenu
  /\ front' = "menu"
  /\ todo' = [todo EXCEPT !["ui"] = StopPlay \o <<"openMenu">>]
  /\ used' = [used EXCEPT !.menu = @ + 1] /\ acked' = NoTask
  /\ UNCHANGED <<lists, priority, played, currentPlay, change, flags, lock, show, arg,
                 command, items, last, queue, screen, menu, page, loops, runnable, expired,
                 crashed>>

ListPrograms ==
  /\ At("ui", "openMenu")
  /\ menu' = (Listed \ Entry) \cup LoopMembers
  /\ Advance("ui")
  /\ UNCHANGED <<lists, priority, played, currentPlay, change, flags, lock, show, arg,
                 command, items, last, queue, screen, front, page, loops, world>>

ClickProgram ==
  /\ UiIdle /\ front = "menu"
  /\ \E p \in menu : arg' = [arg EXCEPT !["ui"] = p]
  /\ todo' = [todo EXCEPT !["ui"] = StopPlay \o ChangeScreen]
  /\ front' = "leaving" /\ menu' = {} /\ acked' = NoTask
  /\ UNCHANGED <<lists, priority, played, currentPlay, change, flags, lock, show,
                 command, items, last, queue, screen, page, loops, runnable, expired, crashed,
                 used>>

LeaveRequest ==
  /\ UiIdle /\ front = "menu"
  /\ front' = "leaving" /\ menu' = {}
  /\ UNCHANGED <<lists, priority, played, currentPlay, change, flags, lock, show, script,
                 queue, screen, page, loops, world>>

(* onResume starts play again only if it is stopped. *)
Resume ==
  /\ UiIdle /\ front = "leaving"
  /\ front' = "main"
  /\ todo' = IF playStatus = "stop" THEN [todo EXCEPT !["ui"] = StartPlay] ELSE todo
  /\ UNCHANGED <<lists, priority, played, currentPlay, change, flags, lock, show, arg,
                 command, items, last, queue, screen, menu, page, loops, world>>

User == OpenRequest \/ ClickProgram \/ LeaveRequest

-----------------------------------------------------------------------------
(* Loop threads: PlayerLoopTask.run iterates over the playlist's own list. *)

LoopAt(s, pc) == ~crashed /\ loop[s].on /\ loop[s].pc = pc
LoopEnd(s) == Len(member[loop[s].entry])

(* The iterator of a list emptied under it throws when it has elements left. *)
Broken(s) == loop[s].entry \in cleared /\ loop[s].next \in 2 .. LoopEnd(s)
LoopBroken(s) ==
  /\ LoopAt(s, "test") /\ Broken(s)
  /\ crashed' = TRUE
  /\ UNCHANGED <<lists, priority, played, currentPlay, change, flags, lock, show, script,
                 ui, loops, runnable, expired, acked, used>>

LoopTest(s) ==
  /\ LoopAt(s, "test")
  /\ ~Broken(s)
  /\ \/ loop[s].stop /\ loop' = [loop EXCEPT ![s] = NoLoop]
     \/ /\ ~loop[s].stop /\ loop[s].entry \notin cleared
        /\ loop' = [loop EXCEPT ![s].pc = "send",
                                ![s].next = IF @ > LoopEnd(s) THEN 1 ELSE @]
  /\ UNCHANGED <<lists, priority, played, currentPlay, change, flags, lock, show, script,
                 ui, loopTask, loopThread, world>>

LoopSend(s) ==
  /\ LoopAt(s, "send")
  /\ Post(Live(member[loop[s].entry][loop[s].next]))
  /\ loop' = [loop EXCEPT ![s].pc = "test", ![s].next = @ + 1]
  /\ UNCHANGED <<lists, priority, played, currentPlay, change, flags, lock, show, script,
                 screen, front, menu, page, loopTask, loopThread, world>>

Loop(s) == LoopBroken(s) \/ LoopTest(s) \/ LoopSend(s)

-----------------------------------------------------------------------------
(* The clock, the hourly clean-up and the downloads. *)

Tick == ~crashed /\ used.clock < MaxClock /\ used' = [used EXCEPT !.clock = @ + 1]

(* A window opens, perhaps that of the next day. *)
HasNow(th) == todo[th] # <<>> /\ Head(todo[th]) \in {"setProgram", "setDate"}
WindowOpens ==
  /\ Tick
  /\ \E t \in Task \ expired :
       /\ runnable' = runnable \cup {t}
       /\ openedSince' = IF chgScrDate THEN openedSince \cup {t} ELSE openedSince
       /\ sinceNow' = [th \in Thread |-> IF HasNow(th) THEN sinceNow[th] \cup {t}
                                         ELSE sinceNow[th]]
  /\ UNCHANGED <<lists, priority, played, currentPlay, chgScrProgram, chgScrDate, flags,
                 lock, show, script, ui, loops, expired, acked, crashed>>

WindowCloses ==
  /\ Tick
  /\ \E t \in runnable :
       /\ runnable' = runnable \ {t}
       /\ expired' \in {expired, expired \cup {t}}
  /\ UNCHANGED <<lists, priority, played, currentPlay, change, flags, lock, show, script,
                 ui, loops, acked, crashed>>

(* cleanPlayer drops the live programs past their end date; the expired inserted
   ones stay listed: removeAll is given the list of the live ones.  A program whose
   resources are being downloaded stays until a later hour; here, without the
   downloads, it may go at once. *)
CleanPlayer ==
  /\ ~crashed /\ lock = "free" /\ programtasks \cap expired # {}
  /\ programtasks' = programtasks \ expired
  /\ UNCHANGED <<insProgramtasks, loopplaylists, arrival, arrivals, cleared, priority,
                 played, currentPlay, change, flags, lock, show, script, ui, loops, world>>

DownloadComplete ==
  /\ ~crashed /\ used.download < MaxDownload
  /\ used' = [used EXCEPT !.download = @ + 1]
  /\ (Listed \cup LoopMembers) \cap Local # {}
  /\ downloadRefresh' = TRUE
  /\ UNCHANGED <<lists, priority, played, currentPlay, change, playStatus, defaultPlay,
                 lock, show, script, ui, loops, runnable, expired, acked, crashed>>

Clock == WindowOpens \/ WindowCloses \/ CleanPlayer \/ DownloadComplete

-----------------------------------------------------------------------------
Next ==
  \/ Show
  \/ \E th \in Thread : ControlStep(th)
  \/ DispatchStep \/ Server
  \/ Handle \/ User \/ ListPrograms \/ Resume
  \/ \E s \in Slot : Loop(s)
  \/ Clock

(* The threads run; the server, the user and the clock need not.  A thread that
   waits for the monitor gets it in the end: its holders keep it for a few
   statements, and the show thread sleeps two seconds between two rounds. *)
Fairness ==
  /\ SF_vars(Show)
  /\ \A th \in Thread : SF_vars(ControlStep(th))
  /\ SF_vars(DispatchStep)
  /\ SF_vars(Handle)
  /\ WF_vars(ListPrograms)
  /\ WF_vars(Resume)
  /\ \A s \in Slot : WF_vars(Loop(s))

Spec == Init /\ [][Next]_vars
FairSpec == Spec /\ Fairness

-----------------------------------------------------------------------------
(* Invariants. *)

(* No program is listed twice: addProgram replaces the version of a program that
   is in either list, though deletePorgram searches the inserted programs only
   when it finds nothing among the live ones. *)
UniqueProgramIds ==
  /\ programtasks \cap insProgramtasks = {}
  /\ \A t, u \in Listed : pid[t] = pid[u] => t = u

(* A listed program has the rank of the list it is in now or that of a change of
   screen: when a change is lowered, the program gets the rank of its present list,
   though it may have moved to the other list since it was raised.  The rank of a
   change may outlive the change: getRunProgram drops a change without lowering the
   rank, so this says nothing of programs of rank priorityChangeScreen. *)
PriorityFollowsList ==
  /\ \A t \in programtasks : priority[t] \in {priorityLive, priorityChangeScreen}
  /\ \A t \in insProgramtasks : priority[t] \in {priorityInsert, priorityChangeScreen}

(* A stopped player holds no current program, except while a stopPlay has still
   to clear it: getRunProgram, which may have read the status before the stop,
   cannot leave its target behind. *)
Has(s, step) == \E i \in 1 .. Len(s) : s[i] = step
Pending(step) == \E th \in Thread : Has(todo[th], step)
StoppedHoldsNothing ==
  playStatus = "stop" => currentPlay = NoTask \/ Pending("noCurrent")

(* Why: a script that stops play goes on to clear the current program, and the show
   thread chooses its target with the monitor that setCurrentPlay needs too. *)
StopFollowed(s) ==
  \A i \in 1 .. Len(s) : s[i] = "stop" => \E j \in i + 1 .. Len(s) : s[j] = "noCurrent"
StopsClear == \A th \in Thread : StopFollowed(todo[th])
ShowHoldsMonitor ==
  showPc \in {"choose", "commit", "commitDate"} =>
    /\ lock = "show"
    /\ showPc # "commitDate" /\ playStatus = "stop" => Pending("noCurrent")
StopInv == StopsClear /\ ShowHoldsMonitor /\ StoppedHoldsNothing

(* The show thread stops asking for the default page when defaultPlay says it is
   shown; the flag never says so of another page. *)
DefaultPlayTruthful == defaultPlay => screen = NoTask

(* At rest the WebView shows the program the scheduler has in play (without
   loops, whose threads send messages of their own). *)
Unsent == showPc \in {"commitDate", "send"}
ScreenFollowsSchedule ==
  currentPlay # NoTask /\ queue = <<>> /\ handled = NoTask /\ ~Unsent
    /\ ~Pending("noCurrent")
  => screen = currentPlay

(* Of the loop threads only the one loopTask refers to can go on for ever: a
   thread that is replaced has been told to stop, so stopLoopTask reaches all. *)
NoOrphanLoop == \A s \in Slot : loop[s].on /\ ~loop[s].stop => loopTask = s

(* What the types of a loop thread's message rest on: the iterator of its playlist
   stays within the list, and the loop that playProgram starts has a playlist. *)
HandledInv ==
  /\ handling = "idle" <=> handled = NoTask
  /\ handling \in {"play", "new", "start"} => handled \in Entry
  /\ handling \in {"play", "unplay", "new"} /\ handled \in Entry => found \in Entry
LoopInRange ==
  \A s \in Slot : loop[s].on =>
    /\ loop[s].entry \in Entry
    /\ loop[s].next \in 1 .. Len(member[loop[s].entry]) + 1
    /\ loop[s].pc = "send" => loop[s].next \in 1 .. Len(member[loop[s].entry])

(* A loop never goes on behind a program of the schedule: at rest, when a program
   outside the loops is in play, every loop thread has been told to stop, also one
   that was started by a message older than the change.  (Behind one of its own
   programs it may: playProgram does not stop the loop for those.) *)
InLoop == UNION {Members(e) : e \in Entry}
LoopYields ==
  currentPlay \notin Entry \cup InLoop \cup {NoTask} /\ queue = <<>> /\ ~Unsent
    /\ ~Pending("noCurrent")
  => \A s \in Slot : loop[s].on => loop[s].stop

(* However the threads interleave, the controller schedules one version of each
   program and puts in play only what is scheduled at that moment or the target
   of a change of screen: a program that a Publish, a new version or the clean-up
   withdraws while getRunProgram is choosing does not come into play. *)
Scheduled(id) ==
  {<<t, "live">> : t \in {u \in programtasks : pid[u] = id}}
    \cup {<<t, "inserted">> : t \in {u \in insProgramtasks : pid[u] = id}}
Play == INSTANCE Playout WITH
  Id <- ProgramId, Version <- Task, NoVersion <- NoTask,
  scheduled <- [id \in ProgramId |-> Scheduled(id)],
  requested <- showChg, playing <- currentPlay
PlayoutSpec == Play!Spec

-----------------------------------------------------------------------------
(* Liveness. *)

(* A player that stays stopped ends on the default page and stays there, though
   programs chosen before the stop may still be shown after it. *)
StopSettles == <>[](playStatus = "stop") => <>[](screen = NoTask)

(* When the window of the program in play is over, or none is in play, the programs
   that may run do not wait for ever, if those in the list at the last change of
   screen leave them the way: a program whose window was open already then
   blocks those behind it, as getRunProgram compares the first candidate only. *)
MayRun == {t \in Listed \cap runnable : ~played[t]}
Waiting ==
  /\ playStatus = "playing" /\ currentPlay \notin runnable
  /\ MayRun # {}
  /\ \A t \in MayRun : t = chgScrProgram \/ AfterChangeScreen(t)
WindowTakesOver == []<>(~Waiting \/ crashed)

(* A change of screen that has been acknowledged, and that no later command, stop
   or visit to the menu replaces, is shown. *)
AckedChangeShown == \A t \in Task : acked = t ~> screen = t \/ acked # t \/ crashed
=============================================================================

# A verification project for YSPlayer

YSPlayer is the player of an Android digital-signage system: it keeps a TCP session with
a server, receives programs (web pages, videos, loops of programs) with the windows of time
in which they may run, downloads their resources, and decides every two seconds what the
screen shows.  A native server (`src/jni/vnc/droidvncserver.c`, on LibVNCServer) lets a
viewer see and turn the device's screen.  This directory holds TLA+ modules of the program's own
logic (`src/src/com/bsi/dms`, `src/jni/vnc`), the TLC configurations that check them on small instances, and
proofs checked by TLAPS.  `PROJECT.json` lists components, runs, mutants, the map from
definitions to source lines, findings, hazards and theorems.

## 1. Inventory

The repository has no documentation of its own and one test (`test/XmlTest.java`, of the
XML format); what the code promises is said by comments, log lines and the protocol.  An
uncaught exception on any thread but the TCP thread ends the process.

| Component | State | Operations | Hard behaviour | What makes it correct |
|---|---|---|---|---|
| Play-out controller (`PlayerController`) | lists of live and inserted programs and of loop playlists; current program; change of screen (program, date); status; `defaultPlay`; rank and `played` of each program | `addProgram`, `setChangeScreen`, `startPlay`, `stopPlay`, `getRunProgram`, `cleanPlayer`, `clearAllProgram` | half of the methods are synchronized, the other half write the same fields without the monitor, from five kinds of threads | one version per program, rank follows list, a stop holds nothing, the screen follows the schedule, windows are honoured in the end |
| Show, message and loop threads (`MainActivity`) | locals of the show thread, queue of the UI thread, WebView, static `loopTask`, loop threads | `PlayerHtmlTask.run`, `HtmlHandler.handleMessage`, `PlayerLoopTask.run`, `onPause`, `onResume` | messages handled after the state that caused them is gone | the last page is that of the schedule; at most one loop goes on |
| Command dispatch (`PlayerCmdCtr`, `cmd/*`) | one command on the TCP thread, one thread for each other command | `dispatchCommand`, `ChgScreenCmd.run`, ... | a command works program by program while others run | no half-made change |
| Request list (`RequestPlayActivity`) | programs offered | open, choose, leave | stops and changes on the UI thread, lists read without the monitor | same promises as the server's commands |
| TCP session (`TcpSessionThread`, `PlayerService`) | socket, streams, `online`, `inRebuild` | register loop, main loop, heartbeat, `receiveString`, `sendString` | end of stream, exceptions, commands split over or joined in reads, a buffer that fills up | every command whole and once; a lost server is found again |
| Task store (`CommonUtil`, `rebuildTaskList`) | task files, flag files | `writeTaskXml`, `createFlagFile`, `clearAllLocalData`, rebuild at start | crash between two writes, a file that does not parse | after a restart the programs are those acknowledged |
| Download (`Downloader`, `DownloadEngine`, `InfoDao`, `Programtask.downloadLocal`, `ProgramAllDownloadThread`) | part files, records, flags | download in three parts, resume, mark complete | crash, failed part, deletion or replacement while downloading | complete means every byte is there |
| Configuration store (`PlayerApplication`) | configuration and its copy | read, save | crash window | a readable configuration remains |
| Update manager (`update/*`) | state in the preferences | check, download, install | receiver against service | no state that blocks updates |
| Text to speech (`tts/*`) | texts in conversion, queue of sounds | convert, play | callbacks, queue of 10 | no text converted twice or lost |
| Prompts, network watcher (`prompt/*`) | runnable that posts itself | start, stop | stop against the next post | stop stops |
| Video and audio (`video/*`) | media player, retries | play, pause, release | UI thread against JavaScript thread | no use after release |
| Pure time logic (`Programtask`) | none | `isInDateTime`, `isInWeek`, `overDate`, `isAfterChangeScreen` | boundaries, windows over midnight | agrees with the window it is given |
| Remote control server (`droidvncserver.c`, `updateScreen.c`, LibVNCServer) | buffer with the device's screen in some orientation; per client: state, modified and requested region, size due, deferred update; listening sockets | `rfbCheckFds`, `rfbProcessEvents`, `rfbUpdateClient`, `rfbSendFramebufferUpdate`, `update_screen`, `rotate`, shutdown | messages of several viewers between two grabs of the screen; a turn of the screen with clients in every state; updates that are deferred | no change is lost; a viewer shows each pixel at its place and never goes back; it catches up |
| XML, logging, screens, receivers, device commands, web service | | | format, platform glue, third-party code | not modelled (reasons in `PROJECT.json`) |

How they interact: the TCP thread parses a command and dispatches it; program commands change
the controller's lists on that thread, all others start a thread.  The show thread asks the
controller for a program and posts a message to the UI thread, which loads the page or starts
a loop thread; loop threads post messages of their own.  The download thread sets a flag that
makes the show thread load a page again.  The service's thread cleans the lists every hour.

The hazards (`PROJECT.json`, "hazards") name the lines where this goes wrong and
the properties that would catch it.

## 2. Plan

The order is that of importance: what the screen shows, how commands come and survive, how
resources arrive, what a viewer sees.

1. `PlayerControl`: controller, threads, dispatch and request list together, since what is
   hard is between them; `Playout`, what the controller promises (done, section 3).
2. `PlayerControl_proofs`: type correctness, the safety invariants and the refinement of
   `Playout` (done, section 5).
3. `Downloader`, `MediaDownload` and `Downloader_proofs`: part threads, records, resume and
   crash; refinement of an abstract download (done, section 6).
4. `TcpSession`, `CommandChannel` and `TcpSession_proofs`: connection, framing, dispatch,
   task files, rebuild and crash in one module, because what a restart restores depends on
   what was dispatched; refinement of an abstract channel (done, section 7).
5. `VncServer`, `VncMirror` and their proofs: the server's loop, regions and orientations;
   refinement of an abstract mirror (done, section 8).
6. `ProgramDownload` and `ProgramDownload_proofs`: the flags of a program, `downloadLocal`,
   dispatch and clean-up together, as the three meet in files without a lock (done, section 9).
7. `ProgramWindow`: the time logic as operators, proved against a reference definition, with
   the facts the other modules assume of the clock (done, section 10).
8. Left: small modules for the configuration store, the update manager, the network watcher
   and the media player (section 11 says what they hold).

## 3. PlayerControl

### State and actions

Variables carry the names of the fields.  `show*` is the show thread with its locals, `todo`
the accesses a UI, TCP or command thread has still to make, `queue` the messages of the UI
thread, `loop` the loop threads.  `runnable` is the set of programs whose window is open:
the clock opens and closes windows, `openedSince` remembers which opened after the date of the
change of screen, which is all `isAfterChangeScreen` compares (`setChangeScreen` reads the clock before it
raises the priority and sets the program; `sinceNow` is what opens from then on).  An `Entry` is the program
`createLoopProgram` makes, and stands for its playlist too.

A synchronized method is one action that needs the monitor (`lock`), or, where
fields it writes are also written without the monitor, several that hold it (`startPlay`:
`EnterStartPlay` ... `LeaveStartPlay`; `getRunProgram`: `ShowRead`, `ShowChoose`, `ShowCommit`,
`ShowCommitDate`).  A plain method is a script (`StopPlay`, `ChangeScreen`,
`InstallChange`) of one step for each shared access, so that all interleavings of
`stopPlay`, `setChangeScreen` and `getRunProgram` are explored; `CompareCurrent` and
`TestCurrent` extend a script by what the code does next.

The handler of a PLAY_LIVE takes the message out of the queue (`HandleProgram`, `HandleLoop`; `handling`,
`handled` and `found` are its place and its locals), and the rest is made of steps that other
threads see: `Load` for a program; for a loop `PlayLoop`, `UnplayLoop`, `NewLoop` (`loopTask` is assigned) and
`StartLoop` (`loopThread` is assigned and started).  `setPlayed` and its like run without the
monitor.  A stop of the loop between `NewLoop` and `StartLoop` meets a `loopThread` that is null before the
first loop (`LoopThreadNull`) or is that of an older loop, which is interrupted while the new one has
its flag set.  `HandleLostLoop` is a loop that is listed no more.

Exceptions are part of the model: `Unplay`, `LoopBroken` and a null `loopThread` end the process
(`crashed`); `CommandLost` and `ChangeLost` end the command only, as `TcpSessionThread.run`
catches everything.

Fields are read and written one after the other in one order for all threads: they
are not volatile, but each thread takes the monitor or sleeps between any two uses.

Left out: `conflictProgram` and the status of a program (written, never used in a decision),
`turndown`, the threads that only send acknowledgements, logging and toasts.  A program
that is skipped because its old version is being downloaded is a choice (`SkipItem`), since
downloads are not in this module; `CleanPlayer` may for the same reason remove an expired program that
the code keeps while it is being downloaded, which only adds behaviours; an online-first program behaves as a local one there
and is not told apart.

### Runs

| Run | Instance | Shows |
|---|---|---|
| `update` | a live program and an inserted one; a new version of the latter comes as a live one; one command of any kind or one visit to the request list; at most one program outside its window | `TypeOK`, `UniqueProgramIds`, `PriorityFollowsList`, `ScreenFollowsSchedule`, `DefaultPlayTruthful`, `StopInv` (a stop clears the current program whatever the show thread had chosen), `PlayoutSpec` |
| `settle` | three programs, one command, any windows at first and one event of the clock, fair threads | `StopSettles`: a player that stays stopped ends on the default page; `WindowTakesOver` |
| `loops` | a loop of two programs, a live program, two loop threads; either new versions of both, or a finished download of local resources, or a change or stop and a Publish | `StoppedHoldsNothing`, `DefaultPlayTruthful`, `NoOrphanLoop`, `LoopYields` |
| `acked` | one change of screen after another, fair threads | violated: see findings |
| `loopstop` | a loop and one stop, fair threads | violated: see findings |

`PlayoutSpec`: `PlayerControl` implements `Playout`, which has no monitor, threads or scripts:
one version of each program is scheduled, and a step puts into play only what is scheduled at
that moment, or the target of the change of screen the show thread is looking at.  The show
thread chooses and commits in two steps, and a Publish, a new version or `cleanPlayer` may want
to come between them.  The refinement is checked in `update`; in `loops`, with a Publish, TLC
takes too long for it, and the theorem of section 5 covers both.

Deadlock is not checked: when the bounds are used up and everything is handled the model
has nothing to do but the show thread's rounds, and a crashed player does stop.

`PriorityFollowsList` says that a listed program has the rank of its list or that of a change of screen,
never the rank of the other list.  It does not say that the rank of a change ends with the
change: when `getRunProgram` drops a change of screen, or two changes are made at once, the code
leaves that rank behind, until the next `clearChangePriority` or a new version of the program.

Bounds: `MaxQueue` is the number of messages that wait in the UI thread's queue, beside the one
that is being handled (posting waits when it is full, so that the order of messages is kept; one in the
handler and one behind it are enough for an old message with a new one),
`MaxControl` the commands that start a thread, `MaxClock` the windows that open or close,
`MaxMenu` the visits to the request list, `MaxDownload` the finished downloads; each program
command is sent once.  Two constraints of `MCPlayerControl` keep apart stories that TLC cannot
explore together: `MenuOrNews` a visit to the request list (with all windows open) and a new
version of a program,
`VersionsOrControl` the new versions, the download, and the change or stop with the
Publish.  `MenuOrNews` also lets only one message wait once a command of the server has started its
thread.  The slots of the loop threads are interchangeable, which `loops` uses as a symmetry (its properties
are invariants).  The races are between two actors and one show round, so a command or a visit
(which runs the same scripts) makes each of them happen; the coverage of the
runs shows that every action is taken.

### Fairness

Threads are scheduled (`WF`, and `SF` for threads that wait for the monitor, whose holders keep
it for a few statements while the show thread sleeps two seconds between rounds); the UI
thread handles its messages; a loop thread goes on.  The server, the user and the clock
are under no obligation.

### Findings

* `acked`: `ChgScreenCmd` acknowledges a change of screen, under a comment that calls this its
  result, before it makes it.  `setChangeScreen` is not synchronized: between
  `setChgScrProgram` and `setChgScrDate`, `getRunProgram` treats every program as
  newer than the change and drops it.  The change is acknowledged and never shown.
* `loopstop`: `stopPlay` stops the loop thread that exists.  A loop that `getRunProgram` had
  chosen before the stop is handled after it, starts a new loop thread and plays on while
  the status is stop, until the next stop or change.

The model has more behaviours that no document speaks of: a stale PLAY_LIVE leaves a program
`played` that is not the current one and is never a candidate again; a ChgScreen to the
loop in play stops it and does not start it again; a ChgScreen to a member of a loop leaves
the loop running (`LoopYields` leaves loop members out for that reason); a candidate
that may not replace the program in play hides those behind it in the list
(`Waiting` leaves these out); two stops at once may end the process; the old version of a
program that `getRunProgram` puts in play between `isProgramInPlaying` and `addProgram` stays in
play, listed no more, until its window closes or another program takes over (`Playout` says what
may come into play, not how long it stays).

## 4. Mutants

Each property of a passing run has a mutant, an operator beside the original, that makes the
run fail: the two lists confused, the flag of a loop thread not set, the current
program cleared before the status is set, and so on.

## 5. Proofs

`PlayerControl_proofs` proves for every set of programs, commands and threads and all bounds
(assumptions: those in `PlayerControl`, that is, types of the constants, one version per
program at start, and names of command threads that are not those of the others):

* `TypeCorrectness`: `TypeOK`, together with `LoopInRange` (a loop thread reads its list at
  its position, so the type of what it sends needs the range) and `HandledInv` (what the handler of
  a PLAY_LIVE holds at each of its steps); the three are proved together.
* `UniqueIds`, `DefaultPlay`.
* `NoOrphans`, which needs `OldLoopsTold`: between the stop of the old loop and the assignment of the new
  `loopTask` every loop thread has been told to stop.
* `PriorityFollows`, which needs `UniqueProgramIds`: a program in both lists would have two
  ranks.  It says what `PriorityFollowsList` says (section 3), with its limit.
* `ControllerImplementsPlayout`: `Spec => PlayoutSpec`.  Every action is a step of `Playout` or
  leaves its variables alone.  What is not local to one action is `ShowCommit`: the target was
  listed when the show thread chose it, and must still be when it is put in play.  `Chosen` says
  so, and is inductive because the show thread holds the monitor from the choice to the commit
  (`ShowHoldsMonitor`, of `Stopping` below) and no action writes the lists without it
  (`ListWriters`, one case per action that does).  `addProgram` replaces what is scheduled by one version,
  in whichever list it was, because of `UniqueProgramIds` (`AddedSchedule`).
* `Stopping` and `StoppedNothing`.  `StoppedHoldsNothing` alone is not inductive: when the
  show thread is about to make its target the current program, nothing in it says that a stop
  in between has its `noCurrent` still to come.  `StopInv` adds the two facts that do:
  every script that has a stop ahead has a `noCurrent` after it (`StopsClear`), and
  the show thread keeps the monitor from its reading of the status to the end
  (`ShowHoldsMonitor`), so `noCurrent`, which needs the monitor, is executed after it.
  `update` checks `StopInv` with TLC.  The lemmas on sequences say what taking the
  head of a script and putting steps before it keep.

`ScreenSchedule_proofs` proves the two properties that relate the screen to the schedule through
the queue of the UI thread, whose invariants speak of every message in it:

* `ScreenFollows`, for players without loops (`NoLoopsAtAll`: loop threads post messages of
  their own, which are not about the current program).  When nothing is to come that changes
  the current program (`Settled`: the show thread has sent its target and no stop has
  its `noCurrent` ahead), the last message in the queue, the message in the handler if there is none
  behind it, or the screen if there is neither, is that of the current program (`ScreenInv`).  It needs `ShowInv`, on the show thread between two steps.
* `LoopsYield`, if no program outside the loops has the program id of a member of one
  (`LoopsApart`: `playProgram` stops the loop thread by comparing ids, so it does not for
  such a program).  Either every loop thread has been told to stop and the handler is not about to start
  one (`Starting`), or the message that stops the loop is in the queue; and no message that starts a
  loop comes after it (`YieldInv`).

Only model-checked in this module: the liveness properties `StopSettles` and `WindowTakesOver`.

Over all modules, every invariant, every action property and every refinement that a passing run checks is
the statement of a theorem, under the assumptions the sections name.  Six properties remain model-checked
only: `StopSettles`, `WindowTakesOver`, `DownloadEnds`, `DownloadDecided`, `OnlineAgain`
and `CopyCatchesUp`.  They are liveness under fairness, which needs ENABLED, and that the prover
does not reason about.

## 6. Downloader

### State and actions

One media file, downloaded in `thCount` = 3 parts (the number `DownloadEngine` passes).
`file` is the set of positions that hold the server's byte (`setLength` makes the file as long
as the server's at once, so its length says nothing), `record` the rows of the table `info`,
`complete` the flag file of the resource; these are on disk.  `main` is the downloading
thread, `pc` and `info` are the part threads with their `info.done`, `done` is the counter
they share.

A part thread is `Query` (its row, inserted when there is none), `Connect` (the range
request), `Receive` and `Update` for each buffer, `EndOfStream`, then `deleteAll` as two
statements, `Sum` and `DeleteAll`, with any thread in between.  `Fail` is the IOException that
ends it.  `Poll` is one turn of the waiting loop with its test of the counter;
`AddDone` leaves the counter any value a lost update can give it.  `Crash` keeps
the disk and loses the rest; the file is then downloaded again until it is complete, which
is what `downloadLocal` does with a resource without its flag.

The server is external: it sends the same file each time, cuts a range at the end of the
file (as the comment at `Downloader.java:215` says), and refuses a range that ends before it
starts or starts behind the file; `getInputStream` then throws and the part fails.  The refusal of a range that
ends before it starts is an assumption about the server: RFC 2616 (14.35.1) has a server ignore such
a range and send the whole file, and `Downloader` does not test for 206, so that with such a server a
part that was complete before a restart would be written over from its end on.  A
buffer is written by one step: what a crash leaves of half of it is not counted by any
record.  `pause` and `resume` have no caller.

### Runs

| Run | Instance | Shows |
|---|---|---|
| `download` | 7 bytes (parts of 3, 3 and 1), buffers of 2, one failure, one crash, fair threads | `TypeOK`, `RecordBehindFile`, `WholeWhenComplete`, `NoEarlyDelete`, `NoRecordLeft`, `DownloadEnds`, `MediaSpec` |
| `retry` | one failure, no crash, fair threads | violated: a part that has failed is not started again |

* `MediaSpec`: `Downloader` implements `MediaDownload`, which knows no parts, records or threads:
  while a download runs the file gets bytes and loses none, a download that returns true has them
  all, and only then is the file marked complete; failures and crashes keep what is on disk.

Seven bytes give a part of several buffers, a last buffer that is shorter, and a last part
that the end of the file cuts off; 1, 2 and 4 bytes, where a part is empty, pass as
well.  A second crash or failure starts from the same states on disk as the first.

Fairness: part threads and the downloading thread are scheduled, and a part's connection has a
timeout (`setReadTimeout`), so a read ends with bytes or with `Fail`.

### Findings

* `retry`: the waiting loop restarts a thread whose `getDownloadedLength` is -1, which the
  comments say stands for failure, but the method returns a counter that only grows from 0.
  One lost connection, and the only download thread waits until the process ends.

Behaviours no document speaks of: a part that was complete before a crash is asked for
again, refused, and hence fails (the file can be completed only if the other parts delete
the records first); in that case a row stays behind, which is why `NoRecordLeft` speaks of
downloads without a crash.

### Proofs

`Downloader_proofs` proves for files of every length, all buffer sizes and any number of
failures and crashes (assumption: `FileAssumption`, the types of the constants):

* `DownloadInvariant`: the inductive `DownloadInv`.  `RecordBehindFile` alone does not survive
  `Update`, as it says nothing of `info`; `Progress` adds that what a thread counts
  is in the file, that no count exceeds its part and that a thread that has ended has all of it.
* `ResumeLeavesNoHole`, `CompleteIsWhole`, `DeleteIsLate` follow.  They rest on the arithmetic
  of the split: three parts cover the file (`PartsCover`), their sizes add up to its length
  (`SizesAddUp`), so records with that sum are records of whole parts (`FullRecords`).
* `RecordsAreDeleted` (`NoRecordLeft`): before the deletion the records follow the threads,
  and a thread that ends without deleting leaves one that has not ended (`Undeleted`);
  after it nobody writes one but the thread of an empty part, which cannot end (`Deleted`).

* `DownloaderImplementsMedia` (`MediaSpec`): the invariant says that a downloading thread that has seen
  all its parts finish has the whole file, and that no part thread outlives its download.

`DownloadEnds` is only model-checked: with a part that has failed `download` never returns (the
finding), which the property therefore excepts.

`DownloadTypes` (`TypeOK`) is a part of the same invariant.

## 7. TcpSession

### State and actions

`pc` is the TCP thread: `rebuild` (`rebuildTaskList`), `open`, `register`, `receive` and `lost`
(`startSession` and `receiveString`), `parse`, and the steps of `dispatchCommand`.  `started`
says that `startSession` is over and the loop of `run` has begun; `online` and `inRebuild` are
the fields.  `socket` and `wire` are the connection with what has arrived and is not read;
`registered`, `registers` and `heartbeat` what the server knows of this connection and has
still to answer; `mem` is the schedule (the latest command of each program in the controller),
`disk` the task files.  A message is two halves, so that a read may return half a message or
the end of one with the beginning of the next; `IsCommandEnd` is the loop condition of
`receiveString`, and `Parse` succeeds only on exactly one message, as an XML parser does.

One action is one statement that another party (the server, the network, a crash) can tell
from the next: `Open`, `Register`, `ReadSome`, `EndOfStream`, `ReadFails`, `NoStream`,
`Parse` (after which `receiveString` begins with fresh locals, `ReadAnew`), then `Clear`, `Wipe`
(file by file), `Create` (`createFlagFile` and the stream that empties the file), `Write`, `Add`.  `Skip` is
the program that is passed over because its old version is being downloaded, and the command
with an empty playlist: nothing is stored or added.  `Return` is where each of them leads
back to, with the exceptions: `isProgramInPlaying` may throw (`AddFails`), and a file that does
not parse leaves `rebuildTaskList` with `inRebuild` still set.  `Crash` keeps the files.

Assumed: one program per command and one file per program; the commands that bring programs
(the others are in `PlayerControl`); deleting and writing files succeed unless the process ends; a
file torn by a crash is empty, which is skipped, or holds the flag, which does not parse.  The server
answers heartbeats of registered connections and has at most one answer outstanding; a connection it
closes delivers what was sent, one that breaks does not.  Left out: the configuration saved by
`RegisterCmd`, the limit of 12288 characters, acknowledgements.

### Run

`session`: a live program, a Publish of another and a new version of the first
(the shortest sequence in which a Publish withdraws something that comes back); two connections
that end or break, two restarts, one odd read.  Two restarts let a crash hit the
rebuild that an earlier crash caused; two breaks let an answer of one connection meet
the next; one odd read splits or joins any two messages.

* `ChannelSpec`: the session implements `CommandChannel`: commands are handled in the order
  sent, none twice, some lost (nothing is acknowledged before it is dispatched).
* `OnlineIsRegistered`, `WithdrawnStaysGone`, `ScheduleSurvives`, `TypeOK`.
* `RestartRestores`: a restart that ends has brought the schedule back: every program that was
  scheduled when the process ended is scheduled again, with that command or a later one, in whatever
  order the files come and however often the process ends again during the rebuild.  `owed` is
  the schedule at the crash; a Publish takes it back (`Clear`), as it withdraws what is owed.
* `OnlineAgain`: the player comes back online after every end of a connection.

`ScheduleSurvives` has two exceptions, which the code needs: a Publish read from its own file
by `rebuildTaskList` deletes that file and, being in rebuild, does not write it again (`unsaved`);
and after an exception in `rebuildTaskList` nothing is stored any more.  `RestartRestores` has three: a
rebuild that an exception ends (`inRebuild` stays set, and the files behind the torn one are not
read), the file that the crash tore, and again the program of a Publish read from its file.  The last
two cost one program each, the first any number.  `OnlineAgain` excepts
a connection that breaks with an IOException: `receiveString` returns null and leaves the
broken streams in place, and no other place opens a connection.

Fairness: the TCP thread and the heartbeat run (`WF`); the server answers what it
receives; opening a connection, which may fail any number of times, succeeds in the end if it is
tried again and again (`SF`), as nothing the player does can replace a server that is gone.
`Send`, `Break` and `Crash` are under no obligation.

### Proofs

`TcpSession_proofs` proves for any commands and programs and all bounds (assumption:
`SessionAssumption`, types) the inductive `SessionInvariant`, a conjunction of

* `TypeOK`;
* `Order`: the messages in `msg` and on the wire are in order, newer than `handled`,
  not newer than `sent`; this is what makes `Deliver` move forward;
* `Connection`: an answer to Register on the wire, whole or in halves, is one of this
  connection, which is then registered, or of one that has ended;
* `Schedule`: nothing in memory, in a file, or in dispatch is older than the last
  Publish, unless its files are just being wiped;
* `Dispatch`: where in a dispatch the thread is tells what is in memory and on disk;
* `Survival`: `ScheduleSurvives` with the file that is being written.

`RestartIsComplete` (`RestartRestores`) needs the steps of the rebuild as well (`Restart`): what is owed is in
the files until the rebuild is over, the programs of the files read before are scheduled but for
the one in dispatch, and a Publish that is in dispatch has left nothing owed.

From `SessionInvariant` follow `SessionTypes`, `OnlineIsTrue`, `WithdrawnIsGone`, `ScheduleIsStored` (with the exceptions named above) and, step by step, the
refinement `SessionImplementsChannel`.  `OnlineAgain` is only model-checked.

## 8. VncServer

### State and actions

`dev` is the device's screen: a content is named by its pixel and the number of times
that pixel has changed.  `fb` is `vncbuf` (with `cmpbuf`, which always equals it), in the orientation
`rotation`; `modified`, `requested`, `useNewFBSize`, `newFBSizePending` and `deferring` are the
fields of `rfbClientRec`, regions being sets of pixels; `told` and `view` are the
viewer's side, the size it was told last and its picture.  `phase` and `todo` are the main loop:
`select` is `rfbCheckFds`, which stays there while anything can be read; then each client is
visited (`Visit`: `rfbUpdateClient`, or its removal), then `Grab` is `update_screen`.

The handlers of messages are `Connect`, `ClientInit`, `SetEncodings`, `Request`, `Hangup`, and the keys
F4 (`Rotate`) and F11 (`Shutdown`).  `Update` is `rfbUpdateClient` with its deferral;
`SendNewFBSize` and `SendPixels` are the two kinds of update `rfbSendFramebufferUpdate` sends.
`Rotate` keeps the bytes of the buffer, hence `Restride`: until the next `Grab` its pixels are
rows of the old width.  `Pos`, `Source` and `Recorded` are the loops of `update_screen` for each
orientation: where a pixel is written, what is read, and what coordinates are recorded
for the rectangle that is marked (`Box`).

The library can run two threads for each client, but `droidvncserver.c` drives it by
`rfbProcessEvents` alone (`backgroundLoop` stays false), so one thread executes every handler and
each is one action; the device draws between any two of them.
Assumed: scaling 100; viewers send SetEncodings before their first request and ask for the
whole screen, in either orientation; the cursor is drawn by the viewer; no copies are scheduled, so
`copyRegion` is empty.  Pixels outside
the screen that an update reads are `Strange`.  Left out: pointer and keyboard
injection, encodings, authentication, the IPC thread and `ServerManager`, which starts and kills the
server, and the exit on F12.

### Runs

| Run | Instance | Shows |
|---|---|---|
| `screen` | a screen of 3 by 2; two viewers, one of which follows the size; orientations 0 and 90; one pixel in the last column and row changes | `TypeOK`, `StaleIsMarked`, `MirrorSpec`, `CopyCatchesUp` |
| `upside` | orientation 180, one viewer | violated: see findings |

The screen is the smallest in which the two sizes differ in both directions, the bounding
box with its two extra columns does not cover everything, and a pixel of one size lies outside the
other.  The pixel that changes is the one at the corner, where a box that is one too short
shows; one change and two connections let a viewer leave, come back and meet a change and a
turn at every point of its handshake and of a deferred update.  F4 turns the screen by 90 degrees, so
that within these orientations it is turned once; the next turn leads to 180, which is a run of its own.

* `StaleIsMarked`: the picture differs from the buffer only where `modified` says so.
* `MirrorSpec`: `VncServer` implements `VncMirror`, which knows neither buffers nor regions
  nor timers: each pixel of a viewer that follows the size is not shown, or has a content
  that it had, and moves forward only.
* `CopyCatchesUp`: once the device is still, every viewer that stays shows it.

Fairness: the main loop goes on (`WF` of `CheckTimeout`, `Visit`, `Grab`: `select` has a timeout, and
viewers do not send without a pause), and a viewer keeps asking (`SF`, as a request is read only
in `rfbCheckFds`).

### Findings

* `upside`: in the orientation 180 `update_screen` marks a rectangle that is mirrored against the
  one it has written (270 likewise), so that a change may not be sent at all.

Behaviours no document speaks of: `-z` with 180 or 270 has no branch and freezes the
picture; after a turn a viewer that does not follow the size is sent rectangles beside the
screen; after F11 the server runs on with closed sockets.

### Proofs

For screens of every size, any set of viewers with any requests, and all other bounds, under
`VncAssumption`; the last two also under `Upright` (no `-z`, orientations 0 and 90), which the finding
makes necessary:

* `ServerTypes` (`VncServer_proofs`): `TypeOK`, in every orientation and with `-z`.

* `NoUpdateIsLost` (`VncServer_proofs`): `StaleIsMarked`.  The inductive `MarkInvariant` adds
  that a client in its handshake has the whole screen marked (`WholeMarked`: `rfbNewClient`
  marks it, and both `rotate` and `update_screen` add to it) and that a client that follows the size and has none
  due was told the present one (`SizeFollowed`).
* `ServerImplementsMirror` (`VncMirror_proofs`): `Spec => MirrorSpec`.  `MirrorInvariant` adds that
  pictures hold real contents of the right pixel (`PictureIsReal`) and, the point of the proof, that
  when an update may be sent the buffer is the device's in the present
  orientation and not behind the viewer (`UpdateIsReady`): between `rotate` and the next
  `update_screen` the size is due, and the size goes out alone and is deferred first.
  It needs `Oblong` (width and height differ): on a square screen the viewer cannot tell
  that it was turned and keeps its old picture, and the refinement is false.

## 9. ProgramDownload

### State and actions

An *item* is a program as one command brings it, an object of its own; items with the same
`pid` are versions of one program.  Playlists have one program each here, so that the flags of a
program are those of its id.  `listed` is `programtasks` with `insProgramtasks`, `stored` the
task files.  On disk a program has a `page`, a flag that it is `complete` and one that it failed
(`err`); a media file has its content (`media`) and its flag (`whole`), and programs share
media files.

Three threads work on them.  The TCP thread is `tcp`: `Send` (the server changes
the page and sends the command), `ClearAllProgram`, `WipeTasks`, `WipeMedia` for a Publish,
then `GetProgram`, `TestDownloading`, `DropFlag`, `WriteTask`, `AddProgram`, one action for
each statement that another thread can tell from the next.  The download thread is `dl`:
`GetDownloadPro`, `DownloadLocal` (which sets `inDownloading`), the page, the media files one by
one (`SkipMedia` when the flag is there), `SetComplete` or `SetErr`, `EndDownload`, then the
test for free space.  `cleanPlayer`, by the service's timer or the download thread,
is synchronized and holds `lock` for all its steps: it works through the live
programs, then the inserted ones, and deletes media, page and flag of the expired.  `DeleteMedia` and `WipeMedia`
delete in one step what the code deletes file by file: the listed programs are fixed while the
monitor is held, and the lists are empty while the files are wiped, so that no program is listed that
could tell the difference.  `Restart` is
`rebuildTaskList`, which dispatches a stored Publish again and so clears the files once more.

`complete` holds the item whose download set the flag, `heir` and `had` are history; no guard
reads them but for "is there a flag".  Left out: members of loops, local
resources that are no media (they have no flags of their own), programs whose protocol is not
http (`downloadLocal` does nothing with them), a wipe that the process's end interrupts.

### Runs

| Run | Instance | Shows |
|---|---|---|
| `local` | a live program in three versions, the last by a Publish, and an inserted program; a media file in common; both programs may expire; one failure or restart, one clean-up, one retry; fair threads | `TypeOK`, `UpdateIsFetched`, `KeepsItsMedia`, `DownloadDecided` |
| `overtake` | the same | violated: a program is replaced while it is being downloaded |

Three versions are needed for a program that is replaced while its predecessor's
copy is still counted; a Publish for the copy that outlives its program; the inserted program for
the two lists, which `getProgram` and `cleanPlayer` treat differently, and for the shared file.
A second failure or restart meets no state the first does not.

* `UpdateIsFetched`: a page that counts as complete is of the listed version.  It speaks of the
  item that was downloaded and the one that replaced it: after a Publish or two updates during
  one download a complete flag stays that no step of the code deletes, and a later program
  with that id is not fetched.  Pages of expired programs are being deleted.
* `KeepsItsMedia`: no listed program loses a media file to the clean-up of another.
* `DownloadDecided`: a program that needs files gets them, is marked as failed or
  leaves the lists; none is passed over for ever.

Fairness: the three threads run, and a download ends with the file or a failure.  The `retry`
finding of section 6, a part that hangs, is the exception.

Behaviours no document speaks of: the flag of a media file stays when the file is deleted, so a
later program skips the file and is complete without it; expired inserted programs stay
listed (`cleanPlayer` removes the live ones from their list only) and are fetched and deleted
again.

### Finding

* `overtake`: `dispatchCommand` skips a program in download ("not update downloading program"),
  but tests the flag several statements before `addProgram`, and the download thread may
  set it in between.

### Proofs

`ProgramDownload_proofs` proves for any programs, versions and media files and all bounds
(assumption: `ItemAssumption`, types and one version per program at start) the inductive
`DownloadInvariant`, from which `LocalTypes`, `FetchedUpdates` and `MediaStay` follow.

`UpdateIsFetched` says nothing while no flag is set, so the invariant follows an item
from its command to its flag: what was listed, downloaded or found is an item that was sent
(`Known`), one item of each program is listed (`Ids`), where in `dispatchCommand` the thread is
tells what is listed and stored (`Dispatched`, `Files`), what the download still lacks
(`Downloading`), what `cleanPlayer` holds and deletes (`Cleaning`), and that the page a download has
fetched will do for its item and for the one that replaces it (`Copies`).  `Replacing` is the heart: between the test of `isInDownloading` and the
new task file a download may begin, and then its item is the one that will be replaced, so
`heir` connects the flag it sets with the program that is listed.  `Kept` is `KeepsItsMedia`
for every item that may be listed again, with the flags of its files.  `DownloadDecided` is only model-checked.

## 10. ProgramWindow

`canProgramRun`, `overDate` and `isAfterChangeScreen` as operators on a program's dates, hours
and days and on the readings of the clock: now, the date as a string, the day of the week,
in the order in which the code takes them.  An instant is a date with a moment of the
day; hours are given in whole seconds, the clock in milliseconds.  The module has no state and no run;
its theorems hold for all programs and instants.

* `RunsInWindow`: with one reading of the clock, a program may run exactly on the days and
  hours its fields name.
* `MidnightOpensNothing`: midnight between two readings lets no program run out of its dates and
  hours; only the day of the week may be tomorrow's, for one round of the show thread.
* `OverMidnightNeverRuns`: hours that go over midnight are never open.
* `OverIsForEver` and `AfterChangeIsOpenedSince` are what `PlayerControl` and `ProgramDownload`
  assume when they keep `expired`, `runnable` and `openedSince` as sets that the clock changes.  The
  latter also shows that every program that runs all day becomes newer than a change of
  screen at midnight.

Left out: a clock that is set back, changes of the time zone, and fields that do not parse.

## 11. Not modelled

`PROJECT.json` lists every part with its status.  Most of the repository's C code is vendored: OpenSSL, libpng,
libjpeg, zlib and the codecs and examples of LibVNCServer.  They are third-party libraries,
which the program's own code calls for their results; of them only the part of LibVNCServer that
carries the state of a viewer is modelled.  Of the program's own code the following is left:

* the configuration store (a file and a copy that is written once; read when the file is
  empty), the update manager (a state in the preferences, of which `INSTALLING` with the type
  "immediately" skips further updates), the network watcher and the media player: the plan
  still has them;
* text to speech: the engine with the queue of sounds is never selected
  (`MainActivity.java:1131`), and the other one hands its text to a third-party service;
* the XML formats, the device commands, the screens, the receivers, the web service
  and logging: format code and platform glue without state that decides what is shown;
* injection of input (`input.c`, `suinput.c`) and the ways to read the screen
  (`screenMethods`): device files of the platform; classes that nothing calls.

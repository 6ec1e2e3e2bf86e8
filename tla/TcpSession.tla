----------------------------- MODULE TcpSession -----------------------------
(***************************************************************************)
(* TcpSessionThread: the one connection to the server, over which the      *)
(* player registers, sends heartbeats and receives commands; the dispatch  *)
(* of the commands that bring a program (PlayerCmdCtr); and the task files *)
(* from which rebuildTaskList restores the schedule after a restart.       *)
(*                                                                         *)
(* Command i of the server brings the program prog[i]; its task file is    *)
(* named after the program.  A message on the wire is two halves, so that  *)
(* a read may return less than a message, or more than one.                *)
(***************************************************************************)
EXTENDS Integers, Sequences

CONSTANTS
  Prog,        \* programs
  kind, prog,  \* per command: "Publish" or "LivePlay", its program
  MaxBreak,    \* bound: connections the server ends
  MaxCrash,    \* bound: restarts of the player
  MaxOdd       \* bound: reads that do not return just one message

N == Len(kind)
ASSUME SessionAssumption ==
  /\ kind \in Seq({"Publish", "LivePlay"}) /\ prog \in Seq(Prog) /\ Len(prog) = N
  /\ {MaxBreak, MaxCrash, MaxOdd} \subseteq Nat

None == 0     \* no program, no file
Torn == -1    \* a file between its creation and the write of the command
RegisterReply == -1
HeartbeatReply == -2
Messages == (1..N) \cup {RegisterReply, HeartbeatReply}

VARIABLES
  socket,      \* the player's connection
  wire,        \* halves of messages it has not read yet
  registers,   \* Register messages the server has not answered yet
  heartbeat,   \* a Heartbeat message it has not answered yet
  registered,  \* server: the player of this connection is known
  sent,        \* server: commands sent
  pc, started, \* the thread; startSession is over
  msg,         \* what receiveString has read
  cmd,         \* the command being dispatched
  online, inRebuild,
  mem,         \* the schedule (PlayerController): command per program
  disk,        \* the task files: command per program
  filesList,   \* rebuildTaskList: files not read yet
  handled,     \* history: the last command taken from the connection
  taken,       \* history: how many were
  published,   \* history: the last Publish that was dispatched to its end
  unsaved,     \* history: a Publish read from its file, which it deletes
  owed,        \* history: the schedule a restart has to bring back
  breaks, crashes, odd
net == <<socket, wire, registers, heartbeat, registered>>
thread == <<pc, started, msg, cmd>>
store == <<mem, disk, filesList>>
history == <<handled, taken, published, unsaved, owed>>
bounds == <<breaks, crashes, odd>>
vars == <<net, sent, thread, online, inRebuild, store, history, bounds>>

Half == Messages \X {"head", "tail"}
Message(m) == <<<<m, "head">>, <<m, "tail">>>>
IsCommandEnd(s) == \E i \in 1..Len(s) : s[i][2] = "tail"
Files == {p \in Prog : disk[p] # None}

TypeOK ==
  /\ socket \in {"null", "up", "eof", "reset"}
  /\ wire \in Seq(Half) /\ msg \in Seq(Half)
  /\ registers \in Nat /\ heartbeat \in BOOLEAN /\ registered \in BOOLEAN
  /\ sent \in 0..N /\ handled \in 0..sent /\ taken \in 0..handled
  /\ published \in 0..sent /\ unsaved \in 0..sent
  /\ pc \in {"rebuild", "open", "register", "receive", "lost", "parse",
             "clear", "wipe", "create", "write", "add"}
  /\ started \in BOOLEAN /\ cmd \in 0..sent
  /\ pc \in {"rebuild", "open", "register"} => ~started
  /\ online \in BOOLEAN /\ inRebuild \in BOOLEAN
  /\ mem \in [Prog -> 0..sent] /\ disk \in [Prog -> -1..sent] /\ filesList \subseteq Prog
  /\ owed \in [Prog -> 0..sent]
  /\ breaks \in 0..MaxBreak /\ crashes \in 0..MaxCrash /\ odd \in 0..MaxOdd

Init ==
  /\ socket = "null" /\ wire = <<>> /\ registers = 0 /\ heartbeat = FALSE /\ registered = FALSE
  /\ pc = "rebuild" /\ started = FALSE /\ msg = <<>> /\ cmd = 0
  /\ online = FALSE /\ inRebuild = TRUE
  /\ mem = [p \in Prog |-> None] /\ disk = [p \in Prog |-> None] /\ filesList = {}
  /\ sent = 0 /\ handled = 0 /\ taken = 0 /\ published = 0 /\ unsaved = 0
  /\ owed = [p \in Prog |-> None]
  /\ breaks = 0 /\ crashes = 0 /\ odd = 0

-----------------------------------------------------------------------------
(* Connections.  A failed initSession leaves the old socket and its streams. *)
InitSession(ok) ==
  IF ok
  THEN /\ socket' = "up" /\ wire' = <<>> /\ registers' = 0
       /\ heartbeat' = FALSE /\ registered' = FALSE
  ELSE UNCHANGED net

(* The top of startSession's loop, or of run's. *)
TopOnline == IF online THEN "receive" ELSE "open"  \* mutant of Top
Top == IF started THEN "receive" ELSE "open"

Open(ok) ==
  /\ pc = "open" /\ pc' = "register"
  /\ InitSession(ok) /\ (ok => socket = "null")
  /\ UNCHANGED <<sent, started, msg, cmd, online, inRebuild, store, history, bounds>>

(* register() of the loop and, after an end of stream, of receiveString. *)
Register ==
  /\ pc \in {"register", "lost"}
  /\ online' = FALSE
  /\ registers' = IF socket = "up" THEN registers + 1 ELSE registers
  /\ pc' = IF pc = "register" THEN "receive" ELSE Top
  /\ UNCHANGED <<socket, wire, heartbeat, registered, sent, started, msg, cmd, inRebuild,
                 store, history, bounds>>

-----------------------------------------------------------------------------
(* receiveString. *)
NoStream(ok) ==
  /\ pc = "receive" /\ socket = "null"
  /\ InitSession(ok)
  /\ pc' = Top
  /\ UNCHANGED <<sent, started, msg, cmd, online, inRebuild, store, history, bounds>>

(* A read returns the rest of one message, as a rule, or any part of what has
   arrived; the loop goes on until what it has contains the end of a command. *)
ReadSome(k) ==
  LET first == SubSeq(wire, 1, k) IN
  /\ pc = "receive" /\ socket \in {"up", "eof"} /\ k \in 1..Len(wire)
  /\ IF (k = Len(wire) \/ wire[k][2] = "tail") /\ ~IsCommandEnd(SubSeq(wire, 1, k - 1))
     THEN odd' = odd
     ELSE odd < MaxOdd /\ odd' = odd + 1
  /\ msg' = msg \o first
  /\ wire' = SubSeq(wire, k + 1, Len(wire))
  /\ pc' = IF IsCommandEnd(msg') THEN "parse" ELSE "receive"
  /\ UNCHANGED <<socket, registers, heartbeat, registered, sent, started, cmd, online,
                 inRebuild, store, history, breaks, crashes>>

EndOfStreamQuiet(ok) ==  \* mutant of EndOfStream: no register()
  /\ pc = "receive" /\ socket = "eof" /\ wire = <<>>
  /\ IF msg = <<>> THEN InitSession(ok) /\ pc' = Top
     ELSE ~ok /\ pc' = "parse" /\ UNCHANGED net
  /\ UNCHANGED <<sent, started, msg, cmd, online, inRebuild, store, history, bounds>>
EndOfStream(ok) ==
  /\ pc = "receive" /\ socket = "eof" /\ wire = <<>>
  /\ IF msg = <<>> THEN InitSession(ok) /\ pc' = "lost"
     ELSE ~ok /\ pc' = "parse" /\ UNCHANGED net
  /\ UNCHANGED <<sent, started, msg, cmd, online, inRebuild, store, history, bounds>>

(* The IOException is caught and null returned: isConnected stays true. *)
ReadFails ==
  /\ pc = "receive" /\ socket = "reset"
  /\ msg' = <<>> /\ pc' = Top
  /\ UNCHANGED <<net, sent, started, cmd, online, inRebuild, store, history, bounds>>

-----------------------------------------------------------------------------
(* getCommand and dispatchCommand.  Anything but one whole message is no
   document: the exception is caught and the content is gone. *)
IsMessage(m) == msg = Message(m)

Begin(i) == IF kind[i] = "Publish" THEN "clear" ELSE "create"

(* What was read is used once: len and content are local to receiveString. *)
KeepBuf ==  \* mutant of ReadAnew: what was of use is found again
  msg' = IF \E m \in Messages : IsMessage(m) THEN msg ELSE <<>>
ReadAnew == msg' = <<>>

Parse ==
  /\ pc = "parse"
  /\ ReadAnew
  /\ \/ /\ \A m \in Messages : ~IsMessage(m)
        /\ pc' = Top /\ UNCHANGED <<started, cmd, online, handled, taken>>
     \/ /\ IsMessage(RegisterReply)
        /\ started' = TRUE /\ pc' = "receive"
        /\ online' = IF started THEN online ELSE TRUE
        /\ UNCHANGED <<cmd, handled, taken>>
     \/ /\ IsMessage(HeartbeatReply)
        /\ online' = IF started THEN TRUE ELSE online
        /\ pc' = Top /\ UNCHANGED <<started, cmd, handled, taken>>
     \/ \E i \in 1..N :
          /\ IsMessage(i)
          /\ IF started THEN cmd' = i /\ handled' = i /\ taken' = taken + 1 /\ pc' = Begin(i)
             ELSE pc' = Top /\ UNCHANGED <<cmd, handled, taken>>
          /\ UNCHANGED <<started, online>>
  /\ UNCHANGED <<net, sent, inRebuild, store, published, unsaved, owed, bounds>>

(* clearAllProgram, then clearAllLocalData file by file.  A Publish withdraws
   what a restart owed, even one that the restart has read from its file. *)
Clear ==
  /\ pc = "clear" /\ pc' = "wipe"
  /\ mem' = [p \in Prog |-> None] /\ owed' = [p \in Prog |-> None]
  /\ UNCHANGED <<net, sent, started, msg, cmd, online, inRebuild, disk, filesList, handled,
                 taken, published, unsaved, bounds>>

WipeOwn ==  \* mutant of Wipe: only the file of the command's own program
  /\ pc = "wipe"
  /\ disk' = [disk EXCEPT ![prog[cmd]] = None]
  /\ pc' = IF inRebuild THEN "add" ELSE "create"
  /\ unsaved' = IF inRebuild THEN cmd ELSE unsaved
  /\ UNCHANGED <<net, sent, started, msg, cmd, online, inRebuild, mem, filesList, handled,
                 taken, published, owed, bounds>>
Wipe ==
  /\ pc = "wipe"
  /\ \/ /\ \E p \in Files : disk' = [disk EXCEPT ![p] = None]
        /\ UNCHANGED <<pc, unsaved>>
     \/ /\ Files = {} /\ UNCHANGED disk
        /\ pc' = IF inRebuild THEN "add" ELSE "create"
        /\ unsaved' = IF inRebuild THEN cmd ELSE unsaved
  /\ UNCHANGED <<net, sent, started, msg, cmd, online, inRebuild, mem, filesList, handled,
                 taken, published, owed, bounds>>

(* writeTaskXml, unless in rebuild: createFlagFile and the new stream make the
   file, or empty it; then it is written. *)
CreateAlways ==  \* mutant of Create: the rebuild writes the files it reads
  /\ pc = "create" /\ pc' = "write"
  /\ disk' = [disk EXCEPT ![prog[cmd]] = Torn]
  /\ UNCHANGED <<net, sent, started, msg, cmd, online, inRebuild, mem, filesList, history,
                 bounds>>
CreateOnce ==  \* mutant of Create: a file that exists is kept
  /\ pc = "create"
  /\ IF inRebuild \/ disk[prog[cmd]] # None THEN pc' = "add" /\ UNCHANGED disk
     ELSE pc' = "write" /\ disk' = [disk EXCEPT ![prog[cmd]] = Torn]
  /\ UNCHANGED <<net, sent, started, msg, cmd, online, inRebuild, mem, filesList, history,
                 bounds>>
Create ==
  /\ pc = "create"
  /\ IF inRebuild THEN pc' = "add" /\ UNCHANGED disk
     ELSE pc' = "write" /\ disk' = [disk EXCEPT ![prog[cmd]] = Torn]
  /\ UNCHANGED <<net, sent, started, msg, cmd, online, inRebuild, mem, filesList, history,
                 bounds>>

(* A command without a program leaves after the Publish branch, and a program
   in download is passed over: nothing is stored and nothing added. *)
Skip ==
  /\ started /\ (pc = "create" \/ (pc = "add" /\ inRebuild))
  /\ pc' = "receive"
  /\ published' = IF kind[cmd] = "Publish" THEN cmd ELSE published
  /\ UNCHANGED <<net, sent, started, msg, cmd, online, inRebuild, store, handled, taken,
                 unsaved, owed, bounds>>

Write ==
  /\ pc = "write" /\ pc' = "add"
  /\ disk' = [disk EXCEPT ![prog[cmd]] = cmd]
  /\ UNCHANGED <<net, sent, started, msg, cmd, online, inRebuild, mem, filesList, history,
                 bounds>>

(* Where the thread goes on: the next file, or startSession's loop when an
   exception leaves rebuildTaskList, which then stays in rebuild. *)
Return(thrown) ==
  IF started THEN "receive"
  ELSE IF pc \in {"rebuild", "add"} /\ ~thrown THEN "rebuild" ELSE "open"

(* addProgram.  Before it isProgramInPlaying may throw (currentPlay is set to
   null by another thread between its two reads). *)
Add ==
  /\ pc = "add"
  /\ mem' = [mem EXCEPT ![prog[cmd]] = cmd]
  /\ published' = IF kind[cmd] = "Publish" THEN cmd ELSE published
  /\ pc' = Return(FALSE)
  /\ UNCHANGED <<net, sent, started, msg, cmd, online, inRebuild, disk, filesList, handled,
                 taken, unsaved, owed, bounds>>
AddFails ==
  /\ pc = "add"
  /\ pc' = Return(TRUE)
  /\ UNCHANGED <<net, sent, started, msg, cmd, online, inRebuild, store, history, bounds>>

-----------------------------------------------------------------------------
(* rebuildTaskList: the files as they were listed at the start, in any order.
   A file that is gone or holds only the flag throws, an empty one is skipped. *)
NextFile ==
  /\ pc = "rebuild"
  /\ \E p \in filesList :
       /\ filesList' = filesList \ {p}
       /\ \/ /\ disk[p] > 0
             /\ cmd' = disk[p] /\ pc' = Begin(disk[p])
          \/ disk[p] \in {None, Torn} /\ pc' = Return(TRUE) /\ UNCHANGED cmd
          \/ disk[p] = Torn /\ UNCHANGED <<pc, cmd>>
  /\ UNCHANGED <<net, sent, started, msg, online, inRebuild, mem, disk, history, bounds>>

EndRebuild ==
  /\ pc = "rebuild" /\ filesList = {}
  /\ inRebuild' = FALSE
  /\ pc' = "open"
  /\ UNCHANGED <<net, sent, started, msg, cmd, online, store, history, bounds>>

-----------------------------------------------------------------------------
(* HeartRunnable, started after startSession; the one before is answered. *)
Heartbeat ==
  /\ started /\ socket = "up" /\ ~heartbeat
  /\ \A i \in 1..Len(wire) : wire[i][1] # HeartbeatReply
  /\ heartbeat' = TRUE
  /\ UNCHANGED <<socket, wire, registers, registered, sent, thread, online, inRebuild,
                 store, history, bounds>>

(* The server, as the player's code expects it. *)
AnswerRegister ==
  /\ socket = "up" /\ registers > 0
  /\ registers' = registers - 1 /\ registered' = TRUE
  /\ wire' = wire \o Message(RegisterReply)
  /\ UNCHANGED <<socket, heartbeat, sent, thread, online, inRebuild, store, history, bounds>>

AnswerHeartbeat ==
  /\ socket = "up" /\ heartbeat
  /\ heartbeat' = FALSE
  /\ wire' = IF registered THEN wire \o Message(HeartbeatReply) ELSE wire
  /\ UNCHANGED <<socket, registers, registered, sent, thread, online, inRebuild, store,
                 history, bounds>>

Send ==
  /\ socket = "up" /\ registered /\ sent < N
  /\ sent' = sent + 1
  /\ wire' = wire \o Message(sent')
  /\ UNCHANGED <<socket, registers, heartbeat, registered, thread, online, inRebuild, store,
                 history, bounds>>

(* The connection is closed, perhaps within a message, or it breaks. *)
Break(how) ==
  /\ socket = "up" /\ breaks < MaxBreak
  /\ breaks' = breaks + 1
  /\ socket' = how
  /\ IF how = "reset" THEN wire' = <<>>
     ELSE \E cut \in {0, 1} : cut <= Len(wire) /\ wire' = SubSeq(wire, 1, Len(wire) - cut)
  /\ registers' = 0 /\ heartbeat' = FALSE /\ registered' = FALSE
  /\ UNCHANGED <<sent, thread, online, inRebuild, store, history, crashes, odd>>

(* The process ends, and starts again.  The restart owes the schedule of that
   moment (that of the restart before, if it was not over), but for the file
   being written and the program of a Publish read from its file. *)
Crash ==
  /\ crashes < MaxCrash
  /\ owed' = [p \in Prog |->
       IF inRebuild THEN owed[p]
       ELSE IF mem[p] = unsaved \/ (pc = "write" /\ prog[cmd] = p) THEN None ELSE mem[p]]
  /\ crashes' = crashes + 1
  /\ socket' = "null" /\ wire' = <<>>
  /\ registers' = 0 /\ heartbeat' = FALSE /\ registered' = FALSE
  /\ pc' = "rebuild" /\ started' = FALSE /\ msg' = <<>> /\ cmd' = 0
  /\ online' = FALSE /\ inRebuild' = TRUE
  /\ mem' = [p \in Prog |-> None] /\ filesList' = Files /\ unsaved' = 0
  /\ UNCHANGED <<sent, disk, handled, taken, published, breaks, odd>>

-----------------------------------------------------------------------------
Connect == Open(TRUE) \/ NoStream(TRUE) \/ EndOfStream(TRUE)

TcpThread ==
  \/ NextFile \/ EndRebuild
  \/ Open(FALSE) \/ Register \/ NoStream(FALSE)
  \/ \E k \in 1..Len(wire) : ReadSome(k)
  \/ EndOfStream(FALSE) \/ ReadFails
  \/ Parse \/ Clear \/ Wipe \/ Create \/ Skip \/ Write \/ Add \/ AddFails
  \/ Connect

Server == AnswerRegister \/ AnswerHeartbeat \/ Send \/ \E how \in {"eof", "reset"} : Break(how)

Next == TcpThread \/ Heartbeat \/ Server \/ Crash

Spec == Init /\ [][Next]_vars

(* Both threads run; the server answers and lets the player connect in the end. *)
FairSpec ==
  /\ Spec
  /\ WF_vars(TcpThread) /\ SF_vars(Connect)
  /\ WF_vars(Heartbeat) /\ WF_vars(AnswerRegister) /\ WF_vars(AnswerHeartbeat)
-----------------------------------------------------------------------------
(* Over lost connections, split and joined reads and restarts, the commands
   are handled in the order sent and none of them twice. *)
Channel == INSTANCE CommandChannel
ChannelSpec == Channel!Spec

(* A player that takes itself for online (it shows so and downloads only then)
   over a connection that works is known to the server: an answer that came
   over the connection before never counts for the new one. *)
OnlineIsRegistered ==
  online /\ socket = "up" => registered \/ pc \in {"register", "lost"}

(* A program withdrawn by a Publish that has been dispatched is never scheduled
   or stored again, whatever crash and rebuild follow. *)
WithdrawnStaysGone ==
  \A p \in Prog : /\ mem[p] # None => mem[p] >= published
                  /\ disk[p] > 0 => disk[p] >= published

(* The schedule survives a crash at any moment: every program of it is in a
   task file that holds its command or a later one, but for the file being
   written, unless the player is (or, after an exception, stays) in rebuild or
   the program is that of a Publish read from its file. *)
ScheduleSurvives ==
  \A p \in Prog : mem[p] \notin {None, unsaved} /\ ~inRebuild =>
    disk[p] >= mem[p] \/ (pc = "write" /\ prog[cmd] = p)

(* A restart that ends brings the schedule back, in whatever order the files are
   read and however often the process ends again before it is over: every
   program that was scheduled at the crash is, with that command or a later one,
   until a Publish withdraws it.  Three losses are not counted: a rebuild that
   an exception ends (the player stays in rebuild), the file the crash tore, and
   the program of a Publish read from its file, which deleted it. *)
RestartRestores ==
  ~inRebuild => \A p \in Prog : owed[p] # None => mem[p] >= owed[p]

(* However connections end and reads split, the player is known to the server
   and online again in the end and stays so, unless the connection broke with
   an exception: then receiveString never opens another. *)
OnlineAgain == <>[](socket = "reset" \/ (socket = "up" /\ registered /\ online))
=============================================================================

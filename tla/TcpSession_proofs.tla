-------------------------- MODULE TcpSession_proofs --------------------------
(***************************************************************************)
(* Proofs about TcpSession for every list of commands and any number of    *)
(* lost connections, restarts and split or joined reads.                   *)
(***************************************************************************)
EXTENDS TcpSession, SequenceTheorems, TLAPS

-----------------------------------------------------------------------------
(* The inductive invariant.  The halves of commands stand in the order sent, in
   what has been read and in what has not, and belong to commands not handled. *)
Before(x, y) ==
  x[1] > 0 /\ y[1] > 0 => x[1] < y[1] \/ (x[1] = y[1] /\ x[2] = "head" /\ y[2] = "tail")
InOrder(s) == \A i, j \in 1..Len(s) : i < j => Before(s[i], s[j])
Follows(s, t) == \A i \in 1..Len(s), j \in 1..Len(t) : Before(s[i], t[j])
Pending(s) == \A i \in 1..Len(s) : s[i][1] > 0 => handled < s[i][1] /\ s[i][1] <= sent

Order ==
  /\ InOrder(msg) /\ InOrder(wire) /\ Follows(msg, wire)
  /\ Pending(msg) /\ Pending(wire)

(* Over a connection the server does not know yet nothing has arrived. *)
Connection ==
  /\ socket = "null" => ~online /\ msg = <<>> /\ wire = <<>>
  /\ socket = "up" /\ ~registered => msg = <<>> /\ wire = <<>>
  /\ OnlineIsRegistered

(* Nothing is scheduled or stored but commands handled, none before the last
   Publish, each in the file of its program. *)
Schedule ==
  /\ published <= handled
  /\ \A p \in Prog : mem[p] <= handled /\ disk[p] <= handled
  /\ \A p \in Prog : disk[p] > 0 => prog[disk[p]] = p
  /\ WithdrawnStaysGone

(* The command being dispatched. *)
Dispatching == pc \in {"clear", "wipe", "create", "write", "add"}
IsPublish == kind[cmd] = "Publish"
Dispatch ==
  /\ pc = "rebuild" => inRebuild
  /\ Dispatching => /\ cmd \in 1..handled /\ published <= cmd
                    /\ IF started THEN cmd = handled ELSE inRebuild
  /\ pc \in {"clear", "wipe"} => IsPublish
  /\ pc = "wipe" => \A p \in Prog : mem[p] = None
  /\ pc \in {"create", "write", "add"} /\ IsPublish =>
       \A p \in Prog : mem[p] = None /\ disk[p] \in {None, Torn, cmd}
  /\ pc = "write" \/ (pc = "create" /\ IsPublish) => ~inRebuild
  /\ pc = "add" /\ ~inRebuild => disk[prog[cmd]] = cmd
  /\ pc \in {"create", "add"} /\ ~started /\ ~IsPublish => disk[prog[cmd]] = cmd
  /\ pc = "add" /\ ~started /\ IsPublish => unsaved = cmd

(* ScheduleSurvives, and during the rebuild at the start of the process too. *)
Survival ==
  \A p \in Prog : mem[p] \notin {None, unsaved} /\ (inRebuild => ~started) =>
    disk[p] >= mem[p] \/ (pc = "write" /\ prog[cmd] = p)

SessionInvariant == TypeOK /\ Order /\ Connection /\ Schedule /\ Dispatch /\ Survival

-----------------------------------------------------------------------------
(* Facts about sequences of halves. *)
LEMMA CountType == N \in Nat
BY SessionAssumption DEF N

LEMMA TypeFacts ==
  /\ N \in Nat /\ MaxBreak \in Nat /\ MaxCrash \in Nat /\ MaxOdd \in Nat
  /\ <<>> \in Seq(Half)
BY CountType, SessionAssumption, EmptySeq

LEMMA MessageType ==
  ASSUME NEW m \in Messages
  PROVE  /\ Message(m) \in Seq(Half) /\ Len(Message(m)) = 2 /\ Message(m) # <<>>
         /\ Message(m)[1] = <<m, "head">> /\ Message(m)[2] = <<m, "tail">>
<1>1. <<m, "head">> \in Half /\ <<m, "tail">> \in Half
  BY DEF Half
<1> QED
  BY <1>1 DEF Message

(* A command that has been read has been sent and not handled yet. *)
LEMMA ReadIsPending ==
  ASSUME SessionInvariant, NEW i \in 1..N, IsMessage(i)
  PROVE  handled < i /\ i <= sent
<1>1. i \in Messages /\ i > 0
  BY CountType DEF Messages
<1>2. Len(msg) = 2 /\ msg[1] = <<i, "head">>
  BY <1>1, MessageType DEF IsMessage
<1>3. msg[1][1] = i /\ 1 \in 1..Len(msg)
  BY <1>2
<1> QED
  BY <1>1, <1>3 DEF SessionInvariant, Order, Pending

LEMMA HalfType == \A x \in Half : x[1] \in Int /\ x[2] \in {"head", "tail"}
BY CountType DEF Half, Messages, RegisterReply, HeartbeatReply

LEMMA Prefix ==
  ASSUME NEW s \in Seq(Half), NEW k \in 0..Len(s)
  PROVE  /\ SubSeq(s, 1, k) \in Seq(Half) /\ Len(SubSeq(s, 1, k)) = k
         /\ \A i \in 1..k : SubSeq(s, 1, k)[i] = s[i]
<1>1. \A i \in 1..k : s[i] \in Half
  BY ElementOfSeq
<1>2. 1 \in Int /\ k \in Int
  OBVIOUS
<1> QED
  BY <1>1, <1>2, SubSeqProperties

LEMMA Suffix ==
  ASSUME NEW s \in Seq(Half), NEW k \in 0..Len(s)
  PROVE  /\ SubSeq(s, k + 1, Len(s)) \in Seq(Half) /\ Len(SubSeq(s, k + 1, Len(s))) = Len(s) - k
         /\ \A i \in 1..Len(s) - k : SubSeq(s, k + 1, Len(s))[i] = s[k + i]
<1>1. \A i \in k + 1..Len(s) : s[i] \in Half
  BY ElementOfSeq
<1>2. k + 1 \in Int /\ Len(s) \in Int
  OBVIOUS
<1> QED
  BY <1>1, <1>2, SubSeqProperties

(* The actions, in the order of the module. *)
Action ==
  \/ NextFile
  \/ EndRebuild
  \/ \E ok \in BOOLEAN : Open(ok)
  \/ Register
  \/ \E ok \in BOOLEAN : NoStream(ok)
  \/ \E k \in 1..Len(wire) : ReadSome(k)
  \/ \E ok \in BOOLEAN : EndOfStream(ok)
  \/ ReadFails
  \/ Parse
  \/ Clear
  \/ Wipe
  \/ Create
  \/ Skip
  \/ Write
  \/ Add
  \/ AddFails
  \/ Heartbeat
  \/ AnswerRegister
  \/ AnswerHeartbeat
  \/ Send
  \/ \E how \in {"eof", "reset"} : Break(how)
  \/ Crash

LEMMA ActionsOfNext == [Next]_vars => Action \/ UNCHANGED vars
BY DEF Next, TcpThread, Connect, Server, Action

-----------------------------------------------------------------------------
(* TypeOK in three parts. *)
NetType ==
  /\ socket \in {"null", "up", "eof", "reset"}
  /\ wire \in Seq(Half) /\ msg \in Seq(Half)
  /\ registers \in Nat /\ heartbeat \in BOOLEAN /\ registered \in BOOLEAN
ThreadType ==
  /\ pc \in {"rebuild", "open", "register", "receive", "lost", "parse",
             "clear", "wipe", "create", "write", "add"}
  /\ started \in BOOLEAN /\ (pc \in {"rebuild", "open", "register"} => ~started)
  /\ online \in BOOLEAN /\ inRebuild \in BOOLEAN
StoreType ==
  /\ sent \in 0..N /\ handled \in 0..sent /\ taken \in 0..handled
  /\ published \in 0..sent /\ unsaved \in 0..sent /\ cmd \in 0..sent
  /\ mem \in [Prog -> 0..sent] /\ disk \in [Prog -> -1..sent] /\ filesList \subseteq Prog
  /\ owed \in [Prog -> 0..sent]
  /\ breaks \in 0..MaxBreak /\ crashes \in 0..MaxCrash /\ odd \in 0..MaxOdd

LEMMA InitSessionType ==
  ASSUME NEW ok \in BOOLEAN, NetType, InitSession(ok) \/ UNCHANGED net, msg' = msg
  PROVE  NetType'
<1>1. CASE ok /\ InitSession(ok)
  <2>1. /\ socket' = "up" /\ wire' = <<>> /\ registers' = 0
        /\ heartbeat' = FALSE /\ registered' = FALSE
    BY <1>1 DEF InitSession
  <2>2. msg' \in Seq(Half)
    BY DEF NetType
  <2> QED
    BY <2>1, <2>2, TypeFacts DEF NetType
<1>2. CASE UNCHANGED net
  BY <1>2 DEF net, NetType
<1> QED
  BY <1>1, <1>2 DEF InitSession

(* Every step of every action keeps the types, *)
LEMMA TypeStep ==
  ASSUME SessionInvariant, [Next]_vars
  PROVE  TypeOK'
<1>1. CASE NextFile
  BY <1>1, TypeFacts DEF NextFile, Return, Begin, TypeOK, SessionInvariant, None, Torn, net, thread, store, history, bounds
<1>2. CASE EndRebuild
  BY <1>2, TypeFacts DEF EndRebuild, TypeOK, SessionInvariant, None, Torn, net, thread, store, history, bounds
<1>3. ASSUME NEW ok \in BOOLEAN, Open(ok) PROVE TypeOK'
  <2>1. NetType'
    BY <1>3, InitSessionType DEF Open, TypeOK, SessionInvariant, NetType
  <2>2. ThreadType'
    BY <1>3, TypeFacts DEF Open, InitSession, net, TypeOK, SessionInvariant, ThreadType, None, Torn, net, thread, store, history, bounds
  <2>3. StoreType'
    BY <1>3, TypeFacts DEF Open, InitSession, net, TypeOK, SessionInvariant, StoreType, None, Torn, net, thread, store, history, bounds
  <2> QED
    BY <2>1, <2>2, <2>3 DEF NetType, ThreadType, StoreType, TypeOK
<1>4. CASE Register
  <2>1. NetType'
    BY <1>4, TypeFacts DEF Register, Top, TypeOK, SessionInvariant, NetType, None, Torn, net, thread, store, history, bounds
  <2>2. ThreadType'
    BY <1>4, TypeFacts DEF Register, Top, TypeOK, SessionInvariant, ThreadType, None, Torn, net, thread, store, history, bounds
  <2>3. StoreType'
    BY <1>4, TypeFacts DEF Register, Top, TypeOK, SessionInvariant, StoreType, None, Torn, net, thread, store, history, bounds
  <2> QED
    BY <2>1, <2>2, <2>3 DEF NetType, ThreadType, StoreType, TypeOK
<1>5. ASSUME NEW ok \in BOOLEAN, NoStream(ok) PROVE TypeOK'
  <2>1. NetType'
    BY <1>5, InitSessionType DEF NoStream, TypeOK, SessionInvariant, NetType
  <2>2. ThreadType'
    BY <1>5, TypeFacts DEF NoStream, InitSession, net, Top, TypeOK, SessionInvariant, ThreadType, None, Torn, net, thread, store, history, bounds
  <2>3. StoreType'
    BY <1>5, TypeFacts DEF NoStream, InitSession, net, Top, TypeOK, SessionInvariant, StoreType, None, Torn, net, thread, store, history, bounds
  <2> QED
    BY <2>1, <2>2, <2>3 DEF NetType, ThreadType, StoreType, TypeOK
<1>6. ASSUME NEW k \in 1..Len(wire), ReadSome(k) PROVE TypeOK'
  <2>1. SubSeq(wire, 1, k) \in Seq(Half) /\ SubSeq(wire, k + 1, Len(wire)) \in Seq(Half)
    BY Prefix, Suffix DEF TypeOK, SessionInvariant
  <2>2. msg \o SubSeq(wire, 1, k) \in Seq(Half)
    BY <2>1, ConcatProperties DEF TypeOK, SessionInvariant
  <2>3. NetType'
    BY <1>6, <2>1, <2>2 DEF ReadSome, NetType, TypeOK, SessionInvariant
  <2>4. ThreadType'
    BY <1>6 DEF ReadSome, ThreadType, TypeOK, SessionInvariant
  <2>5. StoreType'
    <3>1. odd' \in 0..MaxOdd
      <4>1. odd' = odd \/ (odd < MaxOdd /\ odd' = odd + 1)
        BY <1>6 DEF ReadSome
      <4>2. odd \in 0..MaxOdd
        BY DEF TypeOK, SessionInvariant
      <4> QED
        BY <4>1, <4>2, TypeFacts
    <3> QED
      BY <1>6, <3>1 DEF ReadSome, StoreType, TypeOK, SessionInvariant, store, history
  <2> QED
    BY <2>3, <2>4, <2>5 DEF NetType, ThreadType, StoreType, TypeOK
<1>7. ASSUME NEW ok \in BOOLEAN, EndOfStream(ok) PROVE TypeOK'
  <2>1. NetType'
    BY <1>7, InitSessionType DEF EndOfStream, TypeOK, SessionInvariant, NetType
  <2>2. ThreadType'
    BY <1>7, TypeFacts DEF EndOfStream, InitSession, net, Top, TypeOK, SessionInvariant, ThreadType, None, Torn, net, thread, store, history, bounds
  <2>3. StoreType'
    BY <1>7, TypeFacts DEF EndOfStream, InitSession, net, Top, TypeOK, SessionInvariant, StoreType, None, Torn, net, thread, store, history, bounds
  <2> QED
    BY <2>1, <2>2, <2>3 DEF NetType, ThreadType, StoreType, TypeOK
<1>8. CASE ReadFails
  BY <1>8, TypeFacts DEF ReadFails, Top, TypeOK, SessionInvariant, None, Torn, net, thread, store, history, bounds
<1>9. CASE Parse
  <2>1. ASSUME NEW i \in 1..N, IsMessage(i) PROVE handled < i /\ i <= sent
    BY <2>1, ReadIsPending
  <2>2. NetType'
    BY <1>9, TypeFacts DEF Parse, ReadAnew, NetType, TypeOK, SessionInvariant, net
  <2>3. UNCHANGED <<net, sent, inRebuild, store, published, unsaved, owed, bounds>>
    BY <1>9 DEF Parse
  <2>4. CASE pc' = Top /\ online' \in BOOLEAN /\ UNCHANGED <<started, cmd, handled, taken>>
    <3>1. ThreadType'
      BY <2>3, <2>4 DEF Top, ThreadType, TypeOK, SessionInvariant
    <3>2. StoreType'
      BY <2>3, <2>4 DEF StoreType, TypeOK, SessionInvariant, store, bounds
    <3> QED
      BY <2>2, <3>1, <3>2 DEF NetType, ThreadType, StoreType, TypeOK
  <2>5. CASE started' = TRUE /\ pc' = "receive" /\ online' \in BOOLEAN
              /\ UNCHANGED <<cmd, handled, taken>>
    <3>1. ThreadType'
      BY <2>3, <2>5 DEF ThreadType, TypeOK, SessionInvariant
    <3>2. StoreType'
      BY <2>3, <2>5 DEF StoreType, TypeOK, SessionInvariant, store, bounds
    <3> QED
      BY <2>2, <3>1, <3>2 DEF NetType, ThreadType, StoreType, TypeOK
  <2>6. ASSUME NEW i \in 1..N, IsMessage(i), started, cmd' = i, handled' = i,
               taken' = taken + 1, pc' = Begin(i), UNCHANGED <<started, online>>
        PROVE  TypeOK'
    <3>1. ThreadType'
      BY <2>3, <2>6 DEF Begin, ThreadType, TypeOK, SessionInvariant
    <3>2. handled < i /\ i <= sent
      BY <2>1, <2>6
    <3>3. StoreType'
      BY <2>3, <2>6, <3>2, TypeFacts DEF StoreType, TypeOK, SessionInvariant, store, bounds
    <3> QED
      BY <2>2, <3>1, <3>3 DEF NetType, ThreadType, StoreType, TypeOK
  <2> QED
    BY <1>9, <2>4, <2>5, <2>6 DEF Parse, TypeOK, SessionInvariant
<1>10. CASE Clear
  BY <1>10, TypeFacts DEF Clear, TypeOK, SessionInvariant, None, Torn, net, thread, store, history, bounds
<1>11. CASE Wipe
  <2>1. NetType'
    BY <1>11, TypeFacts DEF Wipe, TypeOK, SessionInvariant, NetType, None, Torn, net, thread, store, history, bounds
  <2>2. ThreadType'
    BY <1>11, TypeFacts DEF Wipe, TypeOK, SessionInvariant, ThreadType, None, Torn, net, thread, store, history, bounds
  <2>3. StoreType'
    <3>1. None \in -1..sent /\ disk \in [Prog -> -1..sent]
      BY TypeFacts DEF TypeOK, SessionInvariant, None
    <3>2. disk' \in [Prog -> -1..sent]
      BY <1>11, <3>1 DEF Wipe
    <3> QED
      BY <1>11, <3>2 DEF Wipe, TypeOK, SessionInvariant, StoreType, net, thread, store, history, bounds
  <2> QED
    BY <2>1, <2>2, <2>3 DEF NetType, ThreadType, StoreType, TypeOK
<1>12. CASE Create
  <2>1. NetType'
    BY <1>12 DEF Create, TypeOK, SessionInvariant, NetType, net, thread
  <2>2. ThreadType'
    BY <1>12 DEF Create, TypeOK, SessionInvariant, ThreadType
  <2>3. StoreType'
    <3>1. Torn \in -1..sent /\ disk \in [Prog -> -1..sent]
      BY TypeFacts DEF TypeOK, SessionInvariant, Torn
    <3>2. disk' \in [Prog -> -1..sent]
      BY <1>12, <3>1 DEF Create
    <3> QED
      BY <1>12, <3>2 DEF Create, TypeOK, SessionInvariant, StoreType, history, bounds
  <2> QED
    BY <2>1, <2>2, <2>3 DEF NetType, ThreadType, StoreType, TypeOK
<1>13. CASE Write
  <2>1. NetType'
    BY <1>13, TypeFacts DEF Write, TypeOK, SessionInvariant, NetType, None, Torn, net, thread, store, history, bounds
  <2>2. ThreadType'
    BY <1>13, TypeFacts DEF Write, TypeOK, SessionInvariant, ThreadType, None, Torn, net, thread, store, history, bounds
  <2>3. StoreType'
    <3>1. cmd \in -1..sent /\ disk \in [Prog -> -1..sent]
      BY TypeFacts DEF TypeOK, SessionInvariant
    <3>2. disk' \in [Prog -> -1..sent]
      BY <1>13, <3>1 DEF Write
    <3> QED
      BY <1>13, <3>2 DEF Write, TypeOK, SessionInvariant, StoreType, net, thread, store, history, bounds
  <2> QED
    BY <2>1, <2>2, <2>3 DEF NetType, ThreadType, StoreType, TypeOK
<1>14. CASE Add
  BY <1>14, TypeFacts DEF Add, Return, TypeOK, SessionInvariant, None, Torn, net, thread, store, history, bounds
<1>15. CASE AddFails
  BY <1>15, TypeFacts DEF AddFails, Return, TypeOK, SessionInvariant, None, Torn, net, thread, store, history, bounds
<1>16. CASE Heartbeat
  BY <1>16, TypeFacts DEF Heartbeat, TypeOK, SessionInvariant, None, Torn, net, thread, store, history, bounds
<1>17. CASE AnswerRegister
  <2>1. RegisterReply \in Messages
    BY <1>17, CountType DEF AnswerRegister, Messages, TypeOK, SessionInvariant
  <2>2. wire \o Message(RegisterReply) \in Seq(Half)
    BY <2>1, MessageType, ConcatProperties DEF TypeOK, SessionInvariant
  <2> QED
    BY <1>17, <2>2, TypeFacts DEF AnswerRegister, TypeOK, SessionInvariant, None, Torn, net, thread, store, history, bounds
<1>18. CASE AnswerHeartbeat
  <2>1. HeartbeatReply \in Messages
    BY <1>18, CountType DEF AnswerHeartbeat, Messages, TypeOK, SessionInvariant
  <2>2. wire \o Message(HeartbeatReply) \in Seq(Half)
    BY <2>1, MessageType, ConcatProperties DEF TypeOK, SessionInvariant
  <2> QED
    BY <1>18, <2>2, TypeFacts DEF AnswerHeartbeat, TypeOK, SessionInvariant, None, Torn, net, thread, store, history, bounds
<1>19. CASE Send
  <2>1. sent' \in Messages
    BY <1>19, CountType DEF Send, Messages, TypeOK, SessionInvariant
  <2>2. wire \o Message(sent') \in Seq(Half)
    BY <2>1, MessageType, ConcatProperties DEF TypeOK, SessionInvariant
  <2> QED
    BY <1>19, <2>2, TypeFacts DEF Send, TypeOK, SessionInvariant, None, Torn, net, thread, store, history, bounds
<1>20. ASSUME NEW how \in {"eof", "reset"}, Break(how) PROVE TypeOK'
  <2>1. wire' \in Seq(Half)
    <3>1. \A cut \in {0, 1} : cut <= Len(wire) => SubSeq(wire, 1, Len(wire) - cut) \in Seq(Half)
      BY Prefix DEF TypeOK, SessionInvariant
    <3> QED
      BY <1>20, <3>1, TypeFacts DEF Break
  <2>2. NetType'
    BY <1>20, <2>1, TypeFacts DEF Break, TypeOK, SessionInvariant, NetType, None, Torn, net, thread, store, history, bounds
  <2>3. ThreadType'
    BY <1>20, <2>1, TypeFacts DEF Break, TypeOK, SessionInvariant, ThreadType, None, Torn, net, thread, store, history, bounds
  <2>4. StoreType'
    BY <1>20, <2>1, TypeFacts DEF Break, TypeOK, SessionInvariant, StoreType, None, Torn, net, thread, store, history, bounds
  <2> QED
    BY <2>2, <2>3, <2>4 DEF NetType, ThreadType, StoreType, TypeOK
<1>21. CASE Crash
  <2>1. NetType'
    BY <1>21, TypeFacts DEF Crash, Files, TypeOK, SessionInvariant, NetType, None, Torn, net, thread, store, history, bounds
  <2>2. ThreadType'
    BY <1>21, TypeFacts DEF Crash, Files, TypeOK, SessionInvariant, ThreadType, None, Torn, net, thread, store, history, bounds
  <2>3. StoreType'
    BY <1>21, TypeFacts DEF Crash, Files, TypeOK, SessionInvariant, StoreType, None, Torn, net, thread, store, history, bounds
  <2> QED
    BY <2>1, <2>2, <2>3 DEF NetType, ThreadType, StoreType, TypeOK
<1>23. CASE Skip
  BY <1>23, TypeFacts DEF Skip, TypeOK, SessionInvariant, None, Torn, net, thread, store, history, bounds
<1>22. CASE UNCHANGED vars
  BY <1>22, TypeFacts DEF vars, net, thread, store, history, bounds, TypeOK, SessionInvariant, None, Torn, net, thread, store, history, bounds
<1> QED
  BY <1>1, <1>2, <1>3, <1>4, <1>5, <1>6, <1>7, <1>8, <1>9, <1>10, <1>11, <1>12, <1>13, <1>14, <1>15, <1>16, <1>17, <1>18, <1>19, <1>20, <1>21, <1>22, <1>23, ActionsOfNext DEF Action

(* and the order of what is under way. *)
LEMMA Drop ==
  ASSUME NEW s \in Seq(Half), NEW k \in 0..Len(s), InOrder(s), Pending(s)
  PROVE  /\ InOrder(SubSeq(s, 1, k)) /\ Pending(SubSeq(s, 1, k))
         /\ InOrder(SubSeq(s, k + 1, Len(s))) /\ Pending(SubSeq(s, k + 1, Len(s)))
         /\ Follows(SubSeq(s, 1, k), SubSeq(s, k + 1, Len(s)))
<1> DEFINE a == SubSeq(s, 1, k)
           b == SubSeq(s, k + 1, Len(s))
<1>1. /\ Len(a) = k /\ Len(b) = Len(s) - k
      /\ \A i \in 1..k : a[i] = s[i]
      /\ \A i \in 1..Len(s) - k : b[i] = s[k + i]
  BY Prefix, Suffix
<1>2. Len(s) \in Nat
  OBVIOUS
<1> HIDE DEF a, b
<1>3. InOrder(a) /\ Pending(a)
  BY <1>1, <1>2 DEF InOrder, Pending
<1>4. InOrder(b) /\ Pending(b)
  <2>1. ASSUME NEW i \in 1..Len(b), NEW j \in 1..Len(b), i < j PROVE Before(b[i], b[j])
    <3>1. k + i \in 1..Len(s) /\ k + j \in 1..Len(s) /\ k + i < k + j
      BY <1>1, <1>2, <2>1
    <3> QED
      BY <1>1, <3>1 DEF InOrder
  <2>2. ASSUME NEW i \in 1..Len(b), b[i][1] > 0 PROVE handled < b[i][1] /\ b[i][1] <= sent
    <3>1. k + i \in 1..Len(s)
      BY <1>1, <1>2
    <3> QED
      BY <1>1, <2>2, <3>1 DEF Pending
  <2> QED
    BY <2>1, <2>2 DEF InOrder, Pending
<1>5. Follows(a, b)
  <2>1. ASSUME NEW i \in 1..Len(a), NEW j \in 1..Len(b) PROVE Before(a[i], b[j])
    <3>1. i \in 1..Len(s) /\ k + j \in 1..Len(s) /\ i < k + j
      BY <1>1, <1>2
    <3> QED
      BY <1>1, <3>1 DEF InOrder
  <2> QED
    BY <2>1 DEF Follows
<1> QED
  BY <1>3, <1>4, <1>5 DEF a, b

LEMMA Join ==
  ASSUME NEW s \in Seq(Half), NEW t \in Seq(Half), InOrder(s), InOrder(t), Follows(s, t)
  PROVE  InOrder(s \o t)
<1>1. /\ Len(s \o t) = Len(s) + Len(t)
      /\ \A i \in 1..Len(s) + Len(t) : (s \o t)[i] = IF i <= Len(s) THEN s[i] ELSE t[i - Len(s)]
  BY ConcatProperties
<1> SUFFICES ASSUME NEW i \in 1..Len(s \o t), NEW j \in 1..Len(s \o t), i < j
             PROVE  Before((s \o t)[i], (s \o t)[j])
  BY DEF InOrder
<1>2. CASE j <= Len(s)
  BY <1>1, <1>2 DEF InOrder
<1>3. CASE i <= Len(s) /\ j > Len(s)
  <2>1. i \in 1..Len(s) /\ j - Len(s) \in 1..Len(t)
    BY <1>1, <1>3
  <2> QED
    BY <1>1, <1>3, <2>1 DEF Follows
<1>4. CASE i > Len(s)
  <2>1. i - Len(s) \in 1..Len(t) /\ j - Len(s) \in 1..Len(t) /\ i - Len(s) < j - Len(s)
    BY <1>1, <1>4
  <2> QED
    BY <1>1, <1>4, <2>1 DEF InOrder
<1> QED
  BY <1>2, <1>3, <1>4

LEMMA JoinAt ==
  ASSUME NEW s \in Seq(Half), NEW t \in Seq(Half), NEW i \in 1..Len(s \o t)
  PROVE  \/ i \in 1..Len(s) /\ (s \o t)[i] = s[i]
         \/ i - Len(s) \in 1..Len(t) /\ (s \o t)[i] = t[i - Len(s)]
<1>1. /\ Len(s \o t) = Len(s) + Len(t)
      /\ \A j \in 1..Len(s) + Len(t) : (s \o t)[j] = IF j <= Len(s) THEN s[j] ELSE t[j - Len(s)]
  BY ConcatProperties
<1> QED
  BY <1>1

LEMMA JoinEach ==
  ASSUME NEW s \in Seq(Half), NEW t \in Seq(Half), NEW u \in Seq(Half)
  PROVE  /\ Pending(s) /\ Pending(t) => Pending(s \o t)
         /\ Follows(s, u) /\ Follows(t, u) => Follows(s \o t, u)
         /\ Follows(u, s) /\ Follows(u, t) => Follows(u, s \o t)
<1>2. \A i \in 1..Len(s \o t) :
         \/ i \in 1..Len(s) /\ (s \o t)[i] = s[i]
         \/ i - Len(s) \in 1..Len(t) /\ (s \o t)[i] = t[i - Len(s)]
  BY JoinAt
<1>3. ASSUME Pending(s), Pending(t) PROVE Pending(s \o t)
  BY <1>2, <1>3 DEF Pending
<1>4. ASSUME Follows(s, u), Follows(t, u) PROVE Follows(s \o t, u)
  BY <1>2, <1>4 DEF Follows
<1>5. ASSUME Follows(u, s), Follows(u, t) PROVE Follows(u, s \o t)
  BY <1>2, <1>5 DEF Follows
<1> QED
  BY <1>3, <1>4, <1>5

LEMMA SplitFollows ==
  ASSUME NEW s \in Seq(Half), NEW t \in Seq(Half), NEW k \in 0..Len(t), Follows(s, t)
  PROVE  Follows(s, SubSeq(t, 1, k)) /\ Follows(s, SubSeq(t, k + 1, Len(t)))
<1>1. Follows(s, SubSeq(t, 1, k))
  BY Prefix DEF Follows
<1>2. ASSUME NEW i \in 1..Len(s), NEW j \in 1..Len(t) - k
      PROVE  Before(s[i], SubSeq(t, k + 1, Len(t))[j])
  <2>1. k + j \in 1..Len(t)
    OBVIOUS
  <2> QED
    BY <2>1, Suffix DEF Follows
<1> QED
  BY <1>1, <1>2, Suffix DEF Follows

LEMMA EmptyOrder ==
  /\ InOrder(<<>>) /\ Pending(<<>>)
  /\ \A s : Follows(<<>>, s) /\ Follows(s, <<>>)
BY DEF InOrder, Pending, Follows

LEMMA OrderStep ==
  ASSUME SessionInvariant, [Next]_vars
  PROVE  Order'
<1> USE DEF SessionInvariant
<1>0. wire \in Seq(Half) /\ msg \in Seq(Half) /\ sent \in Nat /\ handled \in Nat /\ Order
  BY TypeFacts DEF TypeOK
<1>1. CASE UNCHANGED <<wire, msg, handled, sent>>
  BY <1>0, <1>1 DEF Order, InOrder, Follows, Pending
<1>2. CASE /\ wire' \in {wire, <<>>} /\ msg' \in {msg, <<>>}
           /\ UNCHANGED <<handled, sent>>
  <2>1. /\ InOrder(wire') /\ InOrder(msg') /\ Follows(msg', wire')
        /\ Pending(wire') /\ Pending(msg')
    BY <1>0, <1>2, EmptyOrder DEF Order
  <2> QED
    BY <1>2, <2>1 DEF Order, InOrder, Follows, Pending
<1>3. ASSUME NEW k \in 1..Len(wire), ReadSome(k) PROVE Order'
  <2> DEFINE a == SubSeq(wire, 1, k)
             b == SubSeq(wire, k + 1, Len(wire))
  <2>1. k \in 0..Len(wire)
    OBVIOUS
  <2>2. a \in Seq(Half) /\ b \in Seq(Half) /\ msg' = msg \o a /\ wire' = b
    BY <1>0, <1>3, <2>1, Prefix, Suffix DEF ReadSome
  <2>3. /\ InOrder(a) /\ Pending(a) /\ InOrder(b) /\ Pending(b) /\ Follows(a, b)
        /\ Follows(msg, a) /\ Follows(msg, b)
    BY <1>0, <2>1, Drop, SplitFollows DEF Order
  <2> HIDE DEF a, b
  <2>4. /\ InOrder(msg \o a) /\ Pending(msg \o a) /\ Follows(msg \o a, b)
    BY <1>0, <2>2, <2>3, Join, JoinEach DEF Order
  <2>5. UNCHANGED <<handled, sent>>
    BY <1>3 DEF ReadSome, history
  <2> QED
    BY <2>2, <2>3, <2>4, <2>5 DEF Order, InOrder, Follows, Pending
<1>4. ASSUME NEW i \in 1..N, IsMessage(i), msg' = <<>>, handled' = i, UNCHANGED <<wire, sent>>
      PROVE  Order'
  <2>1. Len(msg) = 2 /\ msg[2] = <<i, "tail">>
    BY <1>4, MessageType DEF IsMessage, Messages
  <2>2. ASSUME NEW j \in 1..Len(wire), wire[j][1] > 0 PROVE i < wire[j][1] /\ wire[j][1] <= sent
    <3>1. Before(msg[2], wire[j]) /\ wire[j] \in Half
      BY <1>0, <2>1, ElementOfSeq DEF Order, Follows
    <3>2. wire[j][1] <= sent
      BY <1>0, <2>2 DEF Order, Pending
    <3> QED
      BY <2>1, <2>2, <3>1, <3>2, HalfType, CountType DEF Before
  <2>3. Pending(wire)'
    BY <1>4, <2>2 DEF Pending
  <2> QED
    BY <1>0, <1>4, <2>3, EmptyOrder DEF Order, InOrder, Follows, Pending
<1>5. ASSUME NEW m \in Messages, wire' = wire \o Message(m), UNCHANGED <<msg, handled>>,
             (m < 0 /\ sent' = sent) \/ (m = sent + 1 /\ sent' = m)
      PROVE  Order'
  <2>1. /\ Message(m) \in Seq(Half) /\ Len(Message(m)) = 2
        /\ Message(m)[1] = <<m, "head">> /\ Message(m)[2] = <<m, "tail">>
    BY MessageType
  <2>2. InOrder(Message(m))
    BY <2>1 DEF InOrder, Before
  <2>3. /\ \A i \in 1..Len(wire) : wire[i] \in Half /\ (wire[i][1] > 0 => wire[i][1] <= sent)
        /\ \A i \in 1..Len(msg) : msg[i] \in Half /\ (msg[i][1] > 0 => msg[i][1] <= sent)
    BY <1>0, ElementOfSeq DEF Order, Pending
  <2>4. Follows(wire, Message(m)) /\ Follows(msg, Message(m))
    <3>1. m \in Int
      BY TypeFacts DEF Messages, RegisterReply, HeartbeatReply
    <3>2. ASSUME NEW x \in Half, x[1] > 0 => x[1] <= sent PROVE \A j \in 1..2 : Before(x, Message(m)[j])
      <4>1. \A j \in 1..2 : Message(m)[j][1] = m
        BY <2>1
      <4>2. x[1] > 0 /\ m > 0 => x[1] < m
        BY <1>0, <1>5, <3>1, <3>2, HalfType
      <4> QED
        BY <4>1, <4>2 DEF Before
    <3> QED
      BY <2>1, <2>3, <3>2 DEF Follows
  <2>5. InOrder(wire') /\ Follows(msg', wire')
    BY <1>0, <1>5, <2>1, <2>2, <2>4, Join, JoinEach DEF Order
  <2>6. sent <= sent'
    BY <1>0, <1>5
  <2>7. Pending(wire)'
    <3>1. ASSUME NEW i \in 1..Len(wire'), wire'[i][1] > 0
          PROVE  handled < wire'[i][1] /\ wire'[i][1] <= sent'
      <4>0. wire' = wire \o Message(m) /\ i \in 1..Len(wire \o Message(m))
        BY <1>5, <3>1, Zenon
      <4>1. \/ i \in 1..Len(wire) /\ wire'[i] = wire[i]
            \/ i - Len(wire) \in 1..2 /\ wire'[i] = Message(m)[i - Len(wire)]
        BY <1>0, <2>1, <4>0, JoinAt
      <4>2. CASE i \in 1..Len(wire) /\ wire'[i] = wire[i]
        <5>2. handled < wire[i][1] /\ wire[i][1] <= sent /\ wire[i][1] \in Int
          BY <1>0, <2>3, <3>1, <4>2, HalfType DEF Order, Pending
        <5> QED
          BY <1>0, <1>5, <2>6, <4>2, <5>2
      <4>3. CASE i - Len(wire) \in 1..2 /\ wire'[i] = Message(m)[i - Len(wire)]
        <5>1. i - Len(wire) = 1 \/ i - Len(wire) = 2
          BY <1>0, <4>3
        <5>2. wire'[i][1] = m
          BY <2>1, <4>3, <5>1
        <5>3. handled <= sent
          BY DEF TypeOK
        <5>4. m = sent + 1 /\ sent' = m
          BY <1>5, <3>1, <5>2, TypeFacts DEF Messages, RegisterReply, HeartbeatReply
        <5> QED
          BY <1>0, <5>2, <5>3, <5>4
      <4> QED
        BY <4>1, <4>2, <4>3
    <3> QED
      BY <1>5, <3>1 DEF Pending
  <2>8. Pending(msg)'
    BY <1>0, <1>5, <2>3, <2>6, HalfType DEF Order, Pending
  <2> QED
    BY <1>0, <1>5, <2>5, <2>7, <2>8 DEF Order, InOrder
<1>6. ASSUME NEW how \in {"eof", "reset"}, Break(how) PROVE Order'
  <2>1. UNCHANGED <<msg, handled, sent>>
    BY <1>6 DEF Break, thread, history
  <2>2. ASSUME NEW cut \in {0, 1}, cut <= Len(wire), wire' = SubSeq(wire, 1, Len(wire) - cut)
        PROVE  Order'
    <3>1. Len(wire) - cut \in 0..Len(wire)
      BY <1>0, <2>2
    <3>2. InOrder(wire') /\ Pending(wire') /\ Follows(msg, wire')
      BY <1>0, <2>2, <3>1, Drop, SplitFollows DEF Order
    <3> QED
      BY <1>0, <2>1, <3>2 DEF Order, InOrder, Follows, Pending
  <2> QED
    BY <1>2, <1>6, <2>1, <2>2 DEF Break
<1>7. CASE AnswerRegister
  <2>1. RegisterReply \in Messages /\ RegisterReply < 0
    BY DEF Messages, RegisterReply
  <2>2. /\ wire' = wire \o Message(RegisterReply)
        /\ UNCHANGED <<msg, handled>>
        /\ RegisterReply < 0 /\ sent' = sent
    BY <1>7, <2>1 DEF AnswerRegister, thread, history
  <2> QED
    <3>1. \A m \in Messages :
            wire' = wire \o Message(m) /\ m < 0 => Order'
      BY <1>5, <2>2
    <3> QED
      BY <2>1, <2>2, <3>1
<1>8. CASE AnswerHeartbeat
  <2>1. HeartbeatReply \in Messages /\ HeartbeatReply < 0
    BY DEF Messages, HeartbeatReply
  <2>2. wire' = wire \o Message(HeartbeatReply) \/ wire' = wire
    BY <1>8 DEF AnswerHeartbeat
  <2>3. UNCHANGED <<msg, handled>> /\ sent' = sent
    BY <1>8 DEF AnswerHeartbeat, thread, history
  <2>4. CASE wire' = wire
    BY <1>1, <2>3, <2>4
  <2> QED
    <3>1. \A m \in Messages :
            wire' = wire \o Message(m) /\ m < 0 => Order'
      BY <1>5, <2>3
    <3> QED
      BY <2>1, <2>2, <2>4, <3>1
<1>9. CASE Send
  <2>1. sent' \in Messages
    BY <1>9, TypeFacts DEF Send, Messages, TypeOK
  <2> QED
    BY <1>5, <1>9, <2>1 DEF Send, thread, history
<1>10. CASE Parse
  <2>1. UNCHANGED <<wire, sent>> /\ msg' = <<>>
    BY <1>10 DEF Parse, ReadAnew, net
  <2>2. CASE UNCHANGED handled
    BY <1>2, <2>1, <2>2
  <2>3. CASE ~UNCHANGED handled
    BY <1>4, <1>10, <2>1, <2>3 DEF Parse
  <2> QED
    BY <2>2, <2>3
<1>11. ASSUME NEW ok \in BOOLEAN, Open(ok) \/ NoStream(ok) \/ EndOfStream(ok) PROVE Order'
  <2>1. UNCHANGED <<msg, handled, sent>>
    BY <1>11 DEF Open, NoStream, EndOfStream, history
  <2>2. wire' \in {wire, <<>>}
    BY <1>11 DEF Open, NoStream, EndOfStream, InitSession, net
  <2> QED
    BY <1>2, <2>1, <2>2
<1>12. CASE ReadFails
  BY <1>2, <1>12 DEF ReadFails, net, history
<1>13. CASE Crash
  BY <1>2, <1>13 DEF Crash
<1>14. CASE NextFile \/ EndRebuild \/ Register \/ Heartbeat
  BY <1>1, <1>14 DEF NextFile, EndRebuild, Register, Heartbeat, net, thread, history
<1>15. CASE Clear \/ Wipe \/ Create \/ Skip \/ Write \/ Add \/ AddFails
  BY <1>1, <1>15 DEF Clear, Wipe, Create, Skip, Write, Add, AddFails, net, thread, history
<1>16. CASE UNCHANGED vars
  BY <1>1, <1>16 DEF vars, net, thread, history
<1> QED
  BY <1>3, <1>6, <1>7, <1>8, <1>9, <1>10, <1>11, <1>12, <1>13, <1>14, <1>15, <1>16,
     ActionsOfNext DEF Action

-----------------------------------------------------------------------------
(* What online says of the connection. *)
LEMMA ConnectionStep ==
  ASSUME SessionInvariant, [Next]_vars
  PROVE  Connection'
<1> USE DEF SessionInvariant
<1>0. /\ socket \in {"null", "up", "eof", "reset"} /\ online \in BOOLEAN
      /\ registered \in BOOLEAN /\ wire \in Seq(Half) /\ msg \in Seq(Half)
  BY DEF TypeOK
<1>1. CASE UNCHANGED <<socket, online, registered, msg, wire>> /\ pc \notin {"register", "lost"}
  BY <1>1 DEF Connection, OnlineIsRegistered
<1>2. ASSUME NEW ok \in BOOLEAN, Open(ok) \/ NoStream(ok) PROVE Connection'
  <2>1. UNCHANGED <<online, msg>> /\ (ok => socket = "null") /\ pc \notin {"register", "lost"}
    BY <1>2 DEF Open, NoStream
  <2>2. CASE ok
    <3>1. socket' = "up" /\ wire' = <<>> /\ msg' = <<>> /\ ~online'
      BY <1>2, <2>1, <2>2 DEF Open, NoStream, InitSession, Connection
    <3> QED
      BY <3>1 DEF Connection, OnlineIsRegistered
  <2>3. CASE ~ok
    <3>1. UNCHANGED net
      BY <1>2, <2>3 DEF Open, NoStream, InitSession
    <3> QED
      BY <1>1, <2>1, <3>1 DEF net
  <2> QED
    BY <2>2, <2>3
<1>3. ASSUME NEW ok \in BOOLEAN, EndOfStream(ok) PROVE Connection'
  <2>1. UNCHANGED <<online, msg>> /\ socket = "eof" /\ pc = "receive"
    BY <1>3 DEF EndOfStream
  <2>2. CASE ok /\ msg = <<>>
    <3>1. socket' = "up" /\ wire' = <<>> /\ msg' = <<>> /\ pc' = "lost"
      BY <1>3, <2>1, <2>2 DEF EndOfStream, InitSession
    <3> QED
      BY <3>1 DEF Connection, OnlineIsRegistered
  <2>3. CASE ~(ok /\ msg = <<>>)
    <3>1. UNCHANGED net
      BY <1>3, <2>3 DEF EndOfStream, InitSession
    <3> QED
      BY <1>1, <2>1, <3>1 DEF net
  <2> QED
    BY <2>2, <2>3
<1>4. CASE Register
  BY <1>4 DEF Register, Connection, OnlineIsRegistered
<1>5. ASSUME NEW k \in 1..Len(wire), ReadSome(k) PROVE Connection'
  <2>1. wire # <<>> /\ UNCHANGED <<socket, online, registered>> /\ pc = "receive"
    BY <1>0, <1>5 DEF ReadSome
  <2> QED
    BY <2>1 DEF Connection, OnlineIsRegistered
<1>6. CASE ReadFails
  BY <1>6 DEF ReadFails, net, Connection, OnlineIsRegistered
<1>7. CASE Parse
  <2>1. UNCHANGED <<socket, wire, registered>> /\ msg' = <<>> /\ pc = "parse"
    BY <1>7 DEF Parse, ReadAnew, net
  <2>2. CASE UNCHANGED online
    BY <2>1, <2>2 DEF Connection, OnlineIsRegistered
  <2>3. CASE ~UNCHANGED online
    <3>1. IsMessage(RegisterReply) \/ IsMessage(HeartbeatReply)
      BY <1>7, <2>3 DEF Parse
    <3>2. msg # <<>>
      BY <3>1, MessageType DEF IsMessage, Messages
    <3> QED
      BY <2>1, <3>2 DEF Connection, OnlineIsRegistered
  <2> QED
    BY <2>2, <2>3
<1>8. CASE AnswerRegister \/ AnswerHeartbeat \/ Send
  <2>1. /\ socket = "up" /\ UNCHANGED <<socket, online, msg, pc>> /\ (registered => registered')
        /\ registered' \/ wire' = wire
    BY <1>8 DEF AnswerRegister, AnswerHeartbeat, Send, thread
  <2> QED
    BY <2>1 DEF Connection, OnlineIsRegistered
<1>9. ASSUME NEW how \in {"eof", "reset"}, Break(how) PROVE Connection'
  BY <1>9 DEF Break, Connection, OnlineIsRegistered
<1>10. CASE Crash
  BY <1>10 DEF Crash, Connection, OnlineIsRegistered
<1>11. CASE NextFile \/ EndRebuild \/ Clear \/ Wipe \/ Create \/ Skip \/ Write \/ Add \/ AddFails
  <2>1. UNCHANGED <<socket, online, registered, msg, wire>> /\ pc \notin {"register", "lost"}
    BY <1>11 DEF NextFile, EndRebuild, Clear, Wipe, Create, Skip, Write, Add, AddFails, net
  <2> QED
    BY <1>1, <2>1
<1>12. CASE Heartbeat
  BY <1>12 DEF Heartbeat, thread, Connection, OnlineIsRegistered
<1>13. CASE UNCHANGED vars
  BY <1>13 DEF vars, net, thread, Connection, OnlineIsRegistered
<1> QED
  BY <1>2, <1>3, <1>4, <1>5, <1>6, <1>7, <1>8, <1>9, <1>10, <1>11, <1>12, <1>13,
     ActionsOfNext DEF Action

-----------------------------------------------------------------------------
(* The schedule, the task files and the command being dispatched. *)
Stores == Schedule /\ Dispatch /\ Survival

LEMMA StoreTypes ==
  ASSUME SessionInvariant
  PROVE  /\ mem \in [Prog -> Int] /\ disk \in [Prog -> Int]
         /\ \A p \in Prog : mem[p] >= 0 /\ disk[p] >= -1
         /\ owed \in [Prog -> Int] /\ \A p \in Prog : owed[p] >= 0
         /\ handled \in Nat /\ sent \in Nat /\ published \in Nat /\ cmd \in Nat /\ unsaved \in Nat
         /\ handled <= sent /\ sent <= N
         /\ started \in BOOLEAN /\ inRebuild \in BOOLEAN
         /\ \A i \in 1..N : prog[i] \in Prog
<1>1. \A i \in 1..N : prog[i] \in Prog
  BY ElementOfSeq, SessionAssumption, CountType
<1> QED
  BY <1>1, TypeFacts DEF SessionInvariant, TypeOK

(* A step that leaves them alone, the thread being outside of dispatch. *)
Outside(c) == c \in {"open", "register", "receive", "lost", "parse"}
LEMMA StoresKept ==
  ASSUME SessionInvariant, UNCHANGED <<mem, disk, handled, published, unsaved, inRebuild>>,
         Outside(pc), Outside(pc'), started' = started \/ started'
  PROVE  Stores'
<1>1. Schedule'
  BY DEF SessionInvariant, Schedule, WithdrawnStaysGone
<1>2. Dispatch'
  BY DEF Dispatch, Dispatching, Outside
<1>3. Survival'
  BY StoreTypes DEF SessionInvariant, Survival, Outside
<1> QED
  BY <1>1, <1>2, <1>3 DEF Stores

LEMMA StoresStep ==
  ASSUME SessionInvariant, [Next]_vars
  PROVE  Stores'
<1> USE StoreTypes DEF Stores
<1>1. CASE /\ UNCHANGED <<mem, disk, handled, published, unsaved, inRebuild>>
           /\ UNCHANGED <<started, pc, cmd>>
  BY <1>1 DEF SessionInvariant, Schedule, Dispatch, Dispatching, IsPublish, Survival,
              WithdrawnStaysGone
<1>2. CASE NextFile
  <2>1. PICK p \in filesList :
          \/ disk[p] > 0 /\ cmd' = disk[p] /\ pc' = Begin(disk[p])
          \/ disk[p] \in {None, Torn} /\ pc' = Return(TRUE) /\ UNCHANGED cmd
          \/ disk[p] = Torn /\ UNCHANGED <<pc, cmd>>
    BY <1>2 DEF NextFile
  <2>2. /\ UNCHANGED <<mem, disk, handled, published, unsaved, inRebuild, started>>
        /\ pc = "rebuild" /\ ~started /\ inRebuild /\ p \in Prog
    BY <1>2 DEF NextFile, SessionInvariant, TypeOK, Dispatch, history
  <2>3. CASE disk[p] > 0 /\ cmd' = disk[p] /\ pc' = Begin(disk[p])
    <3>1. /\ cmd' \in 1..handled /\ published <= cmd' /\ prog[cmd'] = p
      BY <2>2, <2>3 DEF SessionInvariant, Schedule, WithdrawnStaysGone
    <3>2. pc' = IF kind[cmd'] = "Publish" THEN "clear" ELSE "create"
      BY <2>3 DEF Begin
    <3>3. Schedule'
      BY <2>2 DEF SessionInvariant, Schedule, WithdrawnStaysGone
    <3>4. Dispatch'
      BY <2>2, <2>3, <3>1, <3>2 DEF Dispatch, Dispatching, IsPublish
    <3>5. Survival'
      BY <2>2, <3>2 DEF SessionInvariant, Survival
    <3> QED
      BY <3>3, <3>4, <3>5
  <2>4. CASE pc' = Return(TRUE)
    <3>1. pc' = "open"
      BY <2>2, <2>4 DEF Return
    <3>2. Schedule' /\ Survival'
      BY <2>2, <3>1 DEF SessionInvariant, Schedule, WithdrawnStaysGone, Survival
    <3>3. Dispatch'
      BY <3>1 DEF Dispatch, Dispatching
    <3> QED
      BY <3>2, <3>3
  <2> QED
    BY <1>1, <2>1, <2>2, <2>3, <2>4
<1>3. CASE EndRebuild
  <2>1. /\ UNCHANGED <<mem, disk, handled, published, unsaved, started>> /\ ~started
        /\ pc = "rebuild" /\ pc' = "open" /\ ~inRebuild'
    BY <1>3 DEF EndRebuild, SessionInvariant, TypeOK, store, history
  <2>2. Schedule' /\ Survival'
    BY <2>1 DEF SessionInvariant, Schedule, WithdrawnStaysGone, Survival
  <2>3. Dispatch'
    BY <2>1 DEF Dispatch, Dispatching
  <2> QED
    BY <2>2, <2>3
<1>4. CASE Parse
  <2>1. UNCHANGED <<mem, disk, published, unsaved, inRebuild>> /\ pc = "parse"
    BY <1>4 DEF Parse, store
  <2>2. CASE UNCHANGED handled /\ Outside(pc') /\ (started' = started \/ started')
    BY <2>1, <2>2, StoresKept DEF Outside
  <2>3. ASSUME NEW i \in 1..N, IsMessage(i), started, cmd' = i, handled' = i, pc' = Begin(i),
               UNCHANGED started
        PROVE  Stores'
    <3>1. handled < i
      BY <2>3, ReadIsPending
    <3>2. pc' = IF kind[cmd'] = "Publish" THEN "clear" ELSE "create"
      BY <2>3 DEF Begin
    <3>3. Schedule'
      BY <2>1, <2>3, <3>1 DEF SessionInvariant, Schedule, WithdrawnStaysGone
    <3>4. Dispatch'
      <4>1. cmd' \in 1..handled' /\ published' <= cmd' /\ started' /\ cmd' = handled'
        BY <2>1, <2>3, <3>1 DEF SessionInvariant, Schedule
      <4>2. pc' \in {"clear", "create"} /\ (pc' = "clear" <=> IsPublish')
        BY <3>2 DEF IsPublish
      <4> QED
        BY <4>1, <4>2 DEF Dispatch, Dispatching
    <3>5. Survival'
      BY <2>1, <2>3, <3>2 DEF SessionInvariant, Survival
    <3> QED
      BY <3>3, <3>4, <3>5
  <2>4. ASSUME NEW i \in 1..N, IsMessage(i),
               IF started
               THEN cmd' = i /\ handled' = i /\ taken' = taken + 1 /\ pc' = Begin(i)
               ELSE pc' = Top /\ UNCHANGED <<cmd, handled, taken>>,
               UNCHANGED <<started, online>>
        PROVE  Stores'
    BY <2>2, <2>3, <2>4 DEF Top, Outside
  <2> QED
    <3>1. \/ UNCHANGED handled /\ Outside(pc') /\ (started' = started \/ started')
          \/ \E i \in 1..N :
               /\ IsMessage(i)
               /\ IF started
                  THEN cmd' = i /\ handled' = i /\ taken' = taken + 1 /\ pc' = Begin(i)
                  ELSE pc' = Top /\ UNCHANGED <<cmd, handled, taken>>
               /\ UNCHANGED <<started, online>>
      BY <1>4 DEF Parse, Top, Outside
    <3> QED
      BY <2>2, <2>4, <3>1
<1>5. CASE Clear
  <2>1. /\ UNCHANGED <<disk, handled, published, unsaved, inRebuild, started, cmd>>
        /\ pc = "clear" /\ pc' = "wipe" /\ mem' = [p \in Prog |-> None]
    BY <1>5 DEF Clear, history
  <2>2. Schedule' /\ Survival'
    BY <2>1 DEF SessionInvariant, Schedule, WithdrawnStaysGone, Survival, None
  <2>3. Dispatch'
    BY <2>1 DEF SessionInvariant, Dispatch, Dispatching, IsPublish
  <2> QED
    BY <2>2, <2>3
<1>6. CASE Wipe
  <2>1. /\ UNCHANGED <<mem, handled, published, inRebuild, started, cmd>>
        /\ pc = "wipe" /\ IsPublish /\ \A p \in Prog : mem[p] = None
    BY <1>6 DEF Wipe, SessionInvariant, Dispatch
  <2>2. Survival'
    BY <2>1 DEF Survival
  <2>3. CASE (\E p \in Files : disk' = [disk EXCEPT ![p] = None]) /\ UNCHANGED <<pc, unsaved>>
    <3>1. \A p \in Prog : disk'[p] \in {None, disk[p]}
      BY <2>3 DEF Files
    <3>2. Schedule'
      BY <2>1, <3>1 DEF SessionInvariant, Schedule, WithdrawnStaysGone, None
    <3>3. Dispatch'
      BY <2>1, <2>3 DEF SessionInvariant, Dispatch, Dispatching, IsPublish
    <3> QED
      BY <2>2, <3>2, <3>3
  <2>4. CASE /\ Files = {} /\ UNCHANGED disk
             /\ pc' = IF inRebuild THEN "add" ELSE "create"
             /\ unsaved' = IF inRebuild THEN cmd ELSE unsaved
    <3>1. \A p \in Prog : disk[p] = None
      BY <2>4 DEF Files
    <3>2. Schedule'
      BY <2>1, <2>4 DEF SessionInvariant, Schedule, WithdrawnStaysGone
    <3>3. Dispatch'
      BY <2>1, <2>4, <3>1 DEF SessionInvariant, Dispatch, Dispatching, IsPublish
    <3> QED
      BY <2>2, <3>2, <3>3
  <2> QED
    BY <1>6, <2>3, <2>4 DEF Wipe
<1>7. CASE Create \/ Write
  <2>1. /\ UNCHANGED <<mem, handled, published, unsaved, inRebuild, started, cmd>>
        /\ cmd \in 1..handled /\ published <= cmd /\ prog[cmd] \in Prog
        /\ IF started THEN cmd = handled ELSE inRebuild
    <3>1. UNCHANGED <<mem, handled, published, unsaved, inRebuild, started, cmd>>
      BY <1>7 DEF Create, Write, history
    <3>2. pc = "create" \/ pc = "write"
      BY <1>7 DEF Create, Write
    <3>3. /\ cmd \in 1..handled /\ published <= cmd
          /\ IF started THEN cmd = handled ELSE inRebuild
      BY <3>2 DEF SessionInvariant, Dispatch, Dispatching
    <3>4. prog[cmd] \in Prog
      BY <3>3, CountType
    <3> QED
      BY <3>1, <3>3, <3>4
  <2>2. CASE Create /\ inRebuild
    <3>1. UNCHANGED disk /\ pc = "create" /\ pc' = "add"
      BY <2>2 DEF Create
    <3>2. Schedule' /\ Survival'
      BY <2>1, <3>1 DEF SessionInvariant, Schedule, WithdrawnStaysGone, Survival
    <3>3. Dispatch'
      BY <2>1, <2>2, <3>1 DEF SessionInvariant, Dispatch, Dispatching, IsPublish
    <3> QED
      BY <3>2, <3>3
  <2>3. CASE Create /\ ~inRebuild
    <3>1. disk' = [disk EXCEPT ![prog[cmd]] = Torn] /\ pc = "create" /\ pc' = "write"
      BY <2>3 DEF Create
    <3>2. \A p \in Prog : disk'[p] = IF p = prog[cmd] THEN Torn ELSE disk[p]
      BY <2>1, <3>1
    <3>3. Schedule' /\ Survival'
      BY <2>1, <2>3, <3>1, <3>2 DEF SessionInvariant, Schedule, WithdrawnStaysGone, Survival, Torn
    <3>4. Dispatch'
      BY <2>1, <2>3, <3>1, <3>2 DEF SessionInvariant, Dispatch, Dispatching, IsPublish
    <3> QED
      BY <3>3, <3>4
  <2>4. CASE Write
    <3>1. /\ disk' = [disk EXCEPT ![prog[cmd]] = cmd] /\ pc = "write" /\ pc' = "add"
          /\ ~inRebuild
      BY <2>4 DEF Write, SessionInvariant, Dispatch
    <3>2. \A p \in Prog : disk'[p] = IF p = prog[cmd] THEN cmd ELSE disk[p]
      BY <2>1, <3>1
    <3>3. Schedule' /\ Survival'
      BY <2>1, <3>1, <3>2 DEF SessionInvariant, Schedule, WithdrawnStaysGone, Survival
    <3>4. Dispatch'
      BY <2>1, <3>1, <3>2 DEF SessionInvariant, Dispatch, Dispatching, IsPublish
    <3> QED
      BY <3>3, <3>4
  <2> QED
    BY <1>7, <2>2, <2>3, <2>4
<1>8. CASE Add
  <2>1. /\ UNCHANGED <<disk, handled, unsaved, inRebuild, started, cmd>>
        /\ cmd \in 1..handled /\ published <= cmd /\ prog[cmd] \in Prog
        /\ IF started THEN cmd = handled ELSE inRebuild
        /\ pc = "add" /\ published' = (IF IsPublish THEN cmd ELSE published)
        /\ mem' = [mem EXCEPT ![prog[cmd]] = cmd]
    <3>1. /\ cmd \in 1..handled /\ published <= cmd
          /\ IF started THEN cmd = handled ELSE inRebuild
      BY <1>8 DEF Add, SessionInvariant, Dispatch, Dispatching
    <3>2. prog[cmd] \in Prog
      BY <3>1, CountType
    <3> QED
      BY <1>8, <3>1, <3>2 DEF Add, IsPublish
  <2>2. \A p \in Prog : mem'[p] = IF p = prog[cmd] THEN cmd ELSE mem[p]
    BY <2>1
  <2>3. pc' \in {"receive", "rebuild"} /\ (pc' = "rebuild" => ~started)
    BY <1>8, <2>1 DEF Add, Return
  <2>4. IsPublish => \A p \in Prog : mem[p] = None /\ disk[p] \in {None, Torn, cmd}
    BY <2>1 DEF SessionInvariant, Dispatch
  <2>5. Schedule'
    BY <2>1, <2>2, <2>4 DEF SessionInvariant, Schedule, WithdrawnStaysGone, None, Torn
  <2>6. Dispatch'
    BY <2>1, <2>3 DEF Dispatch, Dispatching
  <2>7. Survival'
    <3>1. CASE inRebuild /\ started
      BY <2>1, <3>1 DEF Survival
    <3>2. CASE ~(inRebuild /\ started)
      <4>1. disk[prog[cmd]] = cmd \/ unsaved = cmd
        BY <2>1, <3>2 DEF SessionInvariant, Dispatch
      <4> QED
        BY <2>1, <2>2, <3>2, <4>1 DEF SessionInvariant, Survival
    <3> QED
      BY <3>1, <3>2
  <2> QED
    BY <2>5, <2>6, <2>7
<1>9. CASE AddFails
  <2>1. /\ UNCHANGED <<mem, disk, handled, published, unsaved, inRebuild, started>>
        /\ pc = "add" /\ Outside(pc')
    BY <1>9 DEF AddFails, Return, Outside, store, history
  <2>2. Schedule' /\ Survival'
    BY <2>1 DEF SessionInvariant, Schedule, WithdrawnStaysGone, Survival
  <2>3. Dispatch'
    BY <2>1 DEF Dispatch, Dispatching, Outside
  <2> QED
    BY <2>2, <2>3
<1>15. CASE Skip
  <2>1. /\ UNCHANGED <<mem, disk, handled, unsaved, inRebuild, started>>
        /\ started /\ pc \in {"create", "add"} /\ pc' = "receive"
        /\ published' = IF IsPublish THEN cmd ELSE published
    BY <1>15 DEF Skip, IsPublish, store
  <2>2. /\ cmd \in 1..handled
        /\ IsPublish => \A p \in Prog : mem[p] = None /\ disk[p] \in {None, Torn, cmd}
    BY <2>1 DEF SessionInvariant, Dispatch, Dispatching
  <2>3. Schedule'
    BY <2>1, <2>2 DEF SessionInvariant, Schedule, WithdrawnStaysGone, None, Torn
  <2>4. Survival'
    BY <2>1 DEF SessionInvariant, Survival
  <2>5. Dispatch'
    BY <2>1 DEF Dispatch, Dispatching
  <2> QED
    BY <2>3, <2>4, <2>5
<1>10. CASE Crash
  <2>1. /\ mem' = [p \in Prog |-> None] /\ UNCHANGED <<disk, handled, published>>
        /\ pc' = "rebuild" /\ inRebuild'
    BY <1>10 DEF Crash
  <2>2. Schedule' /\ Survival'
    BY <2>1 DEF SessionInvariant, Schedule, WithdrawnStaysGone, Survival, None
  <2>3. Dispatch'
    BY <2>1 DEF Dispatch, Dispatching
  <2> QED
    BY <2>2, <2>3
<1>11. ASSUME NEW ok \in BOOLEAN, Open(ok) \/ NoStream(ok) \/ EndOfStream(ok) PROVE Stores'
  <2>1. /\ UNCHANGED <<mem, disk, handled, published, unsaved, inRebuild, started>>
        /\ Outside(pc) /\ Outside(pc')
    BY <1>11 DEF Open, NoStream, EndOfStream, Top, Outside, store, history
  <2> QED
    BY <2>1, StoresKept
<1>12. CASE Register \/ ReadFails \/ \E k \in 1..Len(wire) : ReadSome(k)
  <2>1. /\ UNCHANGED <<mem, disk, handled, published, unsaved, inRebuild, started>>
        /\ Outside(pc) /\ Outside(pc')
    BY <1>12 DEF Register, ReadFails, ReadSome, Top, Outside, store, history
  <2> QED
    BY <2>1, StoresKept
<1>13. CASE \/ Heartbeat \/ AnswerRegister \/ AnswerHeartbeat \/ Send
            \/ \E how \in {"eof", "reset"} : Break(how)
  BY <1>1, <1>13 DEF Heartbeat, AnswerRegister, AnswerHeartbeat, Send, Break, thread, store, history
<1>14. CASE UNCHANGED vars
  BY <1>1, <1>14 DEF vars, thread, store, history
<1> QED
  BY <1>2, <1>3, <1>4, <1>5, <1>6, <1>7, <1>8, <1>9, <1>10, <1>11, <1>12, <1>13, <1>14,
     <1>15, ActionsOfNext DEF Action

-----------------------------------------------------------------------------
(* It holds initially. *)
LEMMA InitInvariant == Init => SessionInvariant
<1> SUFFICES ASSUME Init PROVE SessionInvariant
  OBVIOUS
<1>1. TypeOK
  <2>1. NetType
    BY TypeFacts DEF Init, NetType
  <2>2. ThreadType
    BY DEF Init, ThreadType
  <2>3. StoreType
    BY TypeFacts DEF Init, StoreType, None
  <2> QED
    BY <2>1, <2>2, <2>3 DEF NetType, ThreadType, StoreType, TypeOK
<1>2. Order /\ Connection
  BY DEF Init, Order, InOrder, Follows, Pending, Connection, OnlineIsRegistered
<1>3. Schedule /\ Dispatch /\ Survival
  BY DEF Init, Schedule, WithdrawnStaysGone, Dispatch, Dispatching, Survival, None
<1> QED
  BY <1>1, <1>2, <1>3 DEF SessionInvariant

(* The invariant holds in every state, for any list of commands and any bounds. *)
THEOREM SessionIsInvariant == Spec => []SessionInvariant
<1>1. SessionInvariant /\ [Next]_vars => SessionInvariant'
  BY TypeStep, OrderStep, ConnectionStep, StoresStep DEF SessionInvariant, Stores
<1> QED
  BY <1>1, InitInvariant, PTL DEF Spec

-----------------------------------------------------------------------------
(* The control state and the data of the session, the store and the server's
   side stay within their types whatever connections end and processes restart. *)
THEOREM SessionTypes == Spec => []TypeOK
BY SessionIsInvariant, PTL DEF SessionInvariant

(* A player that takes itself for online over a working connection is known to
   the server (initSession, register and the replies of run). *)
THEOREM OnlineIsTrue == Spec => []OnlineIsRegistered
BY SessionIsInvariant, PTL DEF SessionInvariant, Connection

(* What a dispatched Publish withdrew stays withdrawn (dispatchCommand,
   clearAllLocalData, rebuildTaskList). *)
THEOREM WithdrawnIsGone == Spec => []WithdrawnStaysGone
BY SessionIsInvariant, PTL DEF SessionInvariant, Schedule

LEMMA SurvivalSuffices == SessionInvariant => ScheduleSurvives
BY StoreTypes DEF SessionInvariant, Survival, ScheduleSurvives

(* Outside of a rebuild every program of the schedule is in a task file, but for
   the one whose file is being written and that of a Publish read from its file,
   which clearAllLocalData deleted (writeTaskXml before addProgram,
   clearAllProgram before clearAllLocalData). *)
THEOREM ScheduleIsStored == Spec => []ScheduleSurvives
BY SessionIsInvariant, SurvivalSuffices, PTL

-----------------------------------------------------------------------------
(* The restart.  What it owes stays in the files until the rebuild is over; the
   programs of the files read before are scheduled; a Publish owes nothing. *)
NothingOwed == \A p \in Prog : owed[p] = None
Scheduled(p) == owed[p] # None => mem[p] >= owed[p]
Restart ==
  /\ RestartRestores
  /\ inRebuild => \A p \in Prog : owed[p] # None => disk[p] >= owed[p]
  /\ pc = "rebuild" => \A p \in Prog \ filesList : Scheduled(p)
  /\ pc \in {"create", "add"} /\ ~started =>
       \A p \in Prog \ filesList : p # prog[cmd] => Scheduled(p)
  /\ pc \in {"wipe", "create", "write", "add"} /\ IsPublish => NothingOwed

(* A step that leaves the store alone and the thread outside of dispatch. *)
LEMMA RestartKept ==
  ASSUME SessionInvariant, Restart, UNCHANGED <<mem, disk, owed, inRebuild>>, Outside(pc')
  PROVE  Restart'
BY DEF Restart, RestartRestores, NothingOwed, Scheduled, Outside

LEMMA RestartStep ==
  ASSUME SessionInvariant, Restart, [Next]_vars
  PROVE  Restart'
<1> USE StoreTypes
<1>1. CASE UNCHANGED <<mem, disk, filesList, owed, inRebuild, started, pc, cmd>>
  BY <1>1 DEF Restart, RestartRestores, NothingOwed, Scheduled, IsPublish
<1>2. CASE NextFile
  <2>1. PICK p \in filesList :
          /\ filesList' = filesList \ {p}
          /\ \/ disk[p] > 0 /\ cmd' = disk[p] /\ pc' = Begin(disk[p])
             \/ disk[p] \in {None, Torn} /\ pc' = Return(TRUE)
             \/ disk[p] = Torn /\ UNCHANGED <<pc, cmd>>
    BY <1>2 DEF NextFile
  <2>2. /\ UNCHANGED <<mem, disk, owed, inRebuild, started>>
        /\ pc = "rebuild" /\ ~started /\ inRebuild /\ p \in Prog
    BY <1>2 DEF NextFile, SessionInvariant, TypeOK, Dispatch, history
  <2>3. \A q \in Prog \ filesList' : q # p => Scheduled(q)'
    BY <2>1, <2>2 DEF Restart, Scheduled
  <2>4. CASE disk[p] > 0 /\ cmd' = disk[p] /\ pc' = Begin(disk[p])
    <3>1. prog[cmd'] = p
      BY <2>2, <2>4 DEF SessionInvariant, Schedule
    <3>2. pc' = "clear" \/ (pc' = "create" /\ ~IsPublish')
      BY <2>4 DEF Begin, IsPublish
    <3> QED
      BY <2>2, <2>3, <3>1, <3>2 DEF Restart, RestartRestores
  <2>5. CASE disk[p] \in {None, Torn} /\ pc' = Return(TRUE)
    BY <2>2, <2>5, RestartKept DEF Return, Outside
  <2>6. CASE disk[p] = Torn /\ UNCHANGED <<pc, cmd>>
    <3>1. owed[p] = None
      BY <2>2, <2>6 DEF Restart, Torn, None
    <3>2. \A q \in Prog \ filesList' : Scheduled(q)'
      BY <2>2, <2>3, <3>1 DEF Scheduled
    <3> QED
      BY <2>2, <2>6, <3>2 DEF Restart, RestartRestores
  <2> QED
    BY <2>1, <2>4, <2>5, <2>6
<1>3. CASE EndRebuild
  <2>1. /\ UNCHANGED <<mem, owed>> /\ pc = "rebuild" /\ filesList = {}
        /\ pc' = "open" /\ ~inRebuild'
    BY <1>3 DEF EndRebuild, store, history
  <2>2. \A p \in Prog : owed'[p] # None => mem'[p] >= owed'[p]
    BY <2>1 DEF Restart, Scheduled
  <2> QED
    BY <2>1, <2>2 DEF Restart, RestartRestores
<1>4. CASE Parse
  <2>1. UNCHANGED <<mem, disk, owed, inRebuild>>
    BY <1>4 DEF Parse, store
  <2>2. \/ Outside(pc')
        \/ started /\ UNCHANGED started /\ pc' = Begin(cmd')
    BY <1>4 DEF Parse, Top, Outside
  <2>3. CASE started /\ UNCHANGED started /\ pc' = Begin(cmd')
    <3>1. pc' = "clear" \/ (pc' = "create" /\ ~IsPublish')
      BY <2>3 DEF Begin, IsPublish
    <3> QED
      BY <2>1, <2>3, <3>1 DEF Restart, RestartRestores
  <2> QED
    BY <2>1, <2>2, <2>3, RestartKept
<1>5. CASE Clear
  <2>1. pc' = "wipe" /\ \A p \in Prog : owed'[p] = None
    BY <1>5 DEF Clear
  <2> QED
    BY <2>1 DEF Restart, RestartRestores, NothingOwed
<1>6. CASE Wipe
  <2>1. /\ UNCHANGED <<mem, owed, inRebuild, started, cmd>> /\ pc = "wipe" /\ IsPublish
        /\ pc' \in {"wipe", "create", "add"}
    BY <1>6 DEF Wipe, SessionInvariant, Dispatch
  <2>2. \A p \in Prog : owed'[p] = None
    BY <2>1 DEF Restart, NothingOwed
  <2> QED
    BY <2>1, <2>2 DEF Restart, RestartRestores, NothingOwed, Scheduled
<1>7. CASE Create
  <2>1. /\ UNCHANGED <<mem, filesList, owed, inRebuild, started, cmd>> /\ pc = "create"
        /\ IF inRebuild THEN pc' = "add" /\ UNCHANGED disk ELSE pc' = "write"
    BY <1>7 DEF Create, history
  <2> QED
    BY <2>1 DEF Restart, RestartRestores, NothingOwed, Scheduled, IsPublish
<1>8. CASE Write
  <2>1. /\ UNCHANGED <<mem, filesList, owed, inRebuild, started, cmd>>
        /\ pc = "write" /\ pc' = "add"
    BY <1>8 DEF Write, history
  <2>2. ~inRebuild /\ started
    BY <2>1 DEF SessionInvariant, Dispatch, Dispatching
  <2> QED
    BY <2>1, <2>2 DEF Restart, RestartRestores, NothingOwed, IsPublish
<1>9. CASE Add
  <2>1. /\ pc = "add" /\ UNCHANGED <<disk, filesList, owed, inRebuild, started, cmd>>
        /\ mem' = [mem EXCEPT ![prog[cmd]] = cmd]
        /\ pc' = IF started THEN "receive" ELSE "rebuild"
    BY <1>9 DEF Add, Return
  <2>2. \A p \in Prog : mem'[p] = IF p = prog[cmd] THEN cmd ELSE mem[p]
    BY <2>1
  <2>3. cmd \in 1..handled /\ \A p \in Prog : mem[p] <= handled
    BY <2>1 DEF SessionInvariant, Schedule, Dispatch, Dispatching
  <2>4. CASE IsPublish
    <3>1. \A p \in Prog : owed'[p] = None
      BY <2>1, <2>4 DEF Restart, NothingOwed
    <3> QED
      BY <2>1, <3>1 DEF Restart, RestartRestores, NothingOwed, Scheduled
  <2>5. CASE ~IsPublish /\ started
    <3>1. cmd = handled
      BY <2>1, <2>5 DEF SessionInvariant, Dispatch, Dispatching
    <3>2. \A p \in Prog : Scheduled(p) => Scheduled(p)'
      BY <2>1, <2>2, <2>3, <3>1 DEF Scheduled
    <3> QED
      BY <2>1, <2>5, <3>2 DEF Restart, RestartRestores, Scheduled
  <2>6. CASE ~IsPublish /\ ~started
    <3>1. inRebuild /\ disk[prog[cmd]] = cmd
      BY <2>1, <2>6 DEF SessionInvariant, Dispatch, Dispatching
    <3>2. \A p \in Prog \ filesList : Scheduled(p)'
      BY <2>1, <2>2, <2>6, <3>1 DEF Restart, Scheduled
    <3> QED
      BY <2>1, <2>6, <3>1, <3>2 DEF Restart, RestartRestores
  <2> QED
    BY <2>4, <2>5, <2>6
<1>10. CASE AddFails \/ Skip
  <2>1. UNCHANGED <<mem, disk, owed, inRebuild>> /\ Outside(pc')
    BY <1>10 DEF AddFails, Skip, Return, Outside, store, history
  <2> QED
    BY <2>1, RestartKept
<1>11. CASE Crash
  <2>1. /\ pc' = "rebuild" /\ inRebuild' /\ UNCHANGED disk /\ filesList' = Files
    BY <1>11 DEF Crash
  <2>2. \A p \in Prog : owed'[p] =
          IF inRebuild THEN owed[p]
          ELSE IF mem[p] = unsaved \/ (pc = "write" /\ prog[cmd] = p) THEN None ELSE mem[p]
    BY <1>11 DEF Crash
  <2>3. \A p \in Prog : owed'[p] # None => disk'[p] >= owed'[p]
    BY <2>1, <2>2 DEF Restart, SessionInvariant, Survival
  <2>4. \A p \in Prog \ filesList' : owed'[p] = None
    BY <2>1, <2>2, <2>3 DEF Files, None
  <2> QED
    BY <2>1, <2>3, <2>4 DEF Restart, RestartRestores, Scheduled
<1>12. ASSUME NEW ok \in BOOLEAN, Open(ok) \/ NoStream(ok) \/ EndOfStream(ok) PROVE Restart'
  <2>1. UNCHANGED <<mem, disk, owed, inRebuild>> /\ Outside(pc')
    BY <1>12 DEF Open, NoStream, EndOfStream, Top, Outside, store, history
  <2> QED
    BY <2>1, RestartKept
<1>13. CASE Register \/ ReadFails \/ \E k \in 1..Len(wire) : ReadSome(k)
  <2>1. UNCHANGED <<mem, disk, owed, inRebuild>> /\ Outside(pc')
    BY <1>13 DEF Register, ReadFails, ReadSome, Top, Outside, store, history
  <2> QED
    BY <2>1, RestartKept
<1>14. CASE \/ Heartbeat \/ AnswerRegister \/ AnswerHeartbeat \/ Send
            \/ \E how \in {"eof", "reset"} : Break(how)
  BY <1>1, <1>14 DEF Heartbeat, AnswerRegister, AnswerHeartbeat, Send, Break, thread, store, history
<1>15. CASE UNCHANGED vars
  BY <1>1, <1>15 DEF vars, thread, store, history
<1> QED
  BY <1>2, <1>3, <1>4, <1>5, <1>6, <1>7, <1>8, <1>9, <1>10, <1>11, <1>12, <1>13, <1>14,
     <1>15, ActionsOfNext DEF Action

(* A restart that ends has brought back what the crash before it left scheduled,
   for any programs, commands and crashes, crashes of the rebuild included, in
   whatever order the files are listed (writeTaskXml, rebuildTaskList). *)
THEOREM RestartIsComplete == Spec => []RestartRestores
<1>1. Init => Restart
  BY DEF Init, Restart, RestartRestores, NothingOwed, Scheduled, None
<1>2. SessionInvariant /\ Restart /\ [Next]_vars => Restart'
  BY RestartStep
<1>3. Restart => RestartRestores
  BY DEF Restart
<1> QED
  BY <1>1, <1>2, <1>3, SessionIsInvariant, PTL DEF Spec

-----------------------------------------------------------------------------
(* The session implements the channel: a step of it is a Send, a Deliver, or
   leaves the channel alone. *)
LEMMA ChannelStep ==
  ASSUME SessionInvariant, [Next]_vars
  PROVE  [Channel!Next]_(Channel!vars)
<1>1. CASE UNCHANGED <<sent, history>>
  BY <1>1 DEF Channel!vars, history
<1>2. CASE Send
  <2>1. sent' = sent + 1 /\ UNCHANGED <<handled, taken>>
    BY <1>2 DEF Send, history
  <2> QED
    BY <2>1 DEF Channel!Next, Channel!Send
<1>3. CASE Parse
  <2>1. UNCHANGED sent
    BY <1>3 DEF Parse
  <2>2. CASE UNCHANGED <<handled, taken>>
    BY <2>1, <2>2 DEF Channel!vars
  <2>3. ASSUME NEW i \in 1..N, IsMessage(i), handled' = i, taken' = taken + 1
        PROVE  Channel!Next
    <3>1. handled < i /\ i <= sent
      BY <2>3, ReadIsPending
    <3>2. handled' \in handled + 1..sent
      BY <2>3, <3>1, StoreTypes
    <3> QED
      BY <2>1, <2>3, <3>2 DEF Channel!Next, Channel!Deliver
  <2> QED
    BY <1>3, <2>2, <2>3 DEF Parse
<1>4. CASE UNCHANGED <<sent, handled, taken>>
  BY <1>4 DEF Channel!vars
<1>5. CASE NextFile \/ EndRebuild \/ Clear \/ Wipe \/ Create \/ Skip \/ Write \/ Add \/ AddFails
  BY <1>4, <1>5 DEF NextFile, EndRebuild, Clear, Wipe, Create, Skip, Write, Add, AddFails, history
<1>6. ASSUME NEW ok \in BOOLEAN, Open(ok) \/ NoStream(ok) \/ EndOfStream(ok)
      PROVE  UNCHANGED <<sent, handled, taken>>
  BY <1>6 DEF Open, NoStream, EndOfStream, history
<1>7. CASE \/ Register \/ ReadFails \/ Heartbeat \/ AnswerRegister \/ AnswerHeartbeat \/ Crash
           \/ \E k \in 1..Len(wire) : ReadSome(k)
           \/ \E how \in {"eof", "reset"} : Break(how)
  BY <1>4, <1>7 DEF Register, ReadFails, Heartbeat, AnswerRegister, AnswerHeartbeat, Crash,
                    ReadSome, Break, history
<1>8. CASE UNCHANGED vars
  BY <1>1, <1>8 DEF vars
<1> QED
  BY <1>2, <1>3, <1>4, <1>5, <1>6, <1>7, <1>8, ActionsOfNext DEF Action

(* Commands are handled in the order sent, none twice, for every number of
   commands, lost connections and restarts (receiveString, getCommand, run). *)
THEOREM SessionImplementsChannel == Spec => ChannelSpec
<1>1. Init => Channel!Init
  BY DEF Init, Channel!Init
<1>2. SessionInvariant /\ [Next]_vars => [Channel!Next]_(Channel!vars)
  BY ChannelStep
<1> QED
  BY <1>1, <1>2, SessionIsInvariant, PTL DEF Spec, ChannelSpec, Channel!Spec
=============================================================================

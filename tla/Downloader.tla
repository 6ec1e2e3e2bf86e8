----------------------------- MODULE Downloader -----------------------------
(***************************************************************************)
(* The download of one media file in parts (Downloader.download, called by *)
(* DownloadEngine.download for a resource of Programtask.downloadLocal):   *)
(* the downloading thread, one thread per part, the records of InfoDao     *)
(* that let a later download go on where this one stopped, and the flag    *)
(* file that says the resource is complete.                                *)
(*                                                                         *)
(* The file is the set of positions that hold the server's byte; the rest  *)
(* of its length, which setLength gives it at once, holds zeros.  A crash  *)
(* keeps file, record and complete and loses everything else.              *)
(***************************************************************************)
EXTENDS Integers

CONSTANTS
  FileLen,     \* length of the server's file
  BufferSize,  \* most bytes one read returns
  NoRecord,    \* no row in the table info
  MaxFail,     \* bound: connections that fail
  MaxCrash     \* bound: crashes of the process

ASSUME FileAssumption ==
  /\ FileLen \in Nat \ {0} /\ BufferSize \in Nat \ {0}
  /\ NoRecord \notin Nat
  /\ MaxFail \in Nat /\ MaxCrash \in Nat

thCount == 3
Part == 0..thCount - 1
Byte == 0..FileLen - 1

(* The split: part i is the positions Start(i) .. End(i).  The last parts of a
   short file are cut off by the server, or empty. *)
partLen == (FileLen + thCount - 1) \div thCount
Start(i) == i * partLen
EndPast(i) == (i + 1) * partLen  \* mutant of End
End(i) == (i + 1) * partLen - 1
Size(i) ==
  IF End(i) < FileLen THEN partLen ELSE IF Start(i) < FileLen THEN FileLen - Start(i) ELSE 0
First(i, n) == {b \in Byte : Start(i) <= b /\ b < Start(i) + n}

VARIABLES
  file, record, complete,  \* on disk: right bytes, table info, flag file
  main,                    \* the downloading thread
  pc, info,                \* part threads; their info.done
  done,                    \* field done, shared by the part threads
  fails, crashes
vars == <<file, record, complete, main, pc, info, done, fails, crashes>>
disk == <<file, record, complete>>

TypeOK ==
  /\ file \subseteq Byte
  /\ record \in [Part -> 0..partLen \cup {NoRecord}]
  /\ complete \in BOOLEAN
  /\ main \in {"off", "wait", "true"}
  /\ pc \in [Part -> {"off", "query", "connect", "read", "update", "sum",
                      "delete", "finished", "dead"}]
  /\ info \in [Part -> 0..partLen]
  /\ done \in Nat
  /\ fails \in 0..MaxFail /\ crashes \in 0..MaxCrash

Init ==
  /\ file = {} /\ record = [i \in Part |-> NoRecord] /\ complete = FALSE
  /\ main = "off" /\ pc = [i \in Part |-> "off"] /\ info = [i \in Part |-> 0]
  /\ done = 0 /\ fails = 0 /\ crashes = 0

Goto(i, l) == pc' = [pc EXCEPT ![i] = l]

(* An addition to done is a read and a write without a lock: those of other threads
   in between are lost. *)
AddDone(n) == done' \in n..(done + n)

-----------------------------------------------------------------------------
(* The downloading thread.  Answers other than 200 return false before anything
   is written; the program is then tried again later. *)
Refused ==
  /\ main = "off" /\ ~complete
  /\ fails < MaxFail
  /\ fails' = fails + 1
  /\ UNCHANGED <<disk, main, pc, info, done, crashes>>

Download ==
  /\ main = "off" /\ ~complete
  /\ main' = "wait"
  /\ pc' = [i \in Part |-> "query"]
  /\ done' = 0
  /\ UNCHANGED <<disk, info, fails, crashes>>

IsRecorded(i) == record[i] = Size(i)  \* mutant of IsFinished
IsFinished(i) == pc[i] = "finished"
DownloadedLength == done
AnyFinished == \E i \in Part : IsFinished(i)  \* mutant of AllFinished
AllFinished == \A i \in Part : IsFinished(i)

(* One turn of the waiting loop: a thread that has failed is started again.  done is
   never -1, as it only ever grows from 0. *)
Poll ==
  /\ main = "wait"
  /\ main' = IF AllFinished THEN "true" ELSE "wait"
  /\ pc' = [i \in Part |-> IF ~IsFinished(i) /\ DownloadedLength = -1 THEN "query" ELSE pc[i]]
  /\ UNCHANGED <<disk, info, done, fails, crashes>>

(* downloadLocal: setMediaComplete after download has returned true. *)
SetMediaComplete ==
  /\ main = "true"
  /\ main' = "off" /\ complete' = TRUE
  /\ pc' = [i \in Part |-> "off"] /\ info' = [i \in Part |-> 0] /\ done' = 0
  /\ UNCHANGED <<file, record, fails, crashes>>

-----------------------------------------------------------------------------
(* A part thread.  (pause and resume have no caller: isPause is false.) *)
Recorded(r, i) == IF r[i] = NoRecord THEN 0 ELSE r[i]
Total(r) == Recorded(r, 0) + Recorded(r, 1) + Recorded(r, 2)

Query(i) ==
  /\ pc[i] = "query"
  /\ info' = [info EXCEPT ![i] = Recorded(record, i)]
  /\ record' = [record EXCEPT ![i] = Recorded(record, i)]
  /\ AddDone(Recorded(record, i))
  /\ Goto(i, "connect")
  /\ UNCHANGED <<file, complete, main, fails, crashes>>

(* The server is assumed to refuse a range that starts behind the part's or the
   file's end, so that getInputStream throws.  RFC 2616, 14.35.1 also lets it ignore
   a range whose last position is before its first and answer 200 with the whole
   file; the code does not look for 206, and a resumed part that is complete would
   then write over the parts behind it.  That server is not modelled. *)
Connect(i) ==
  /\ pc[i] = "connect"
  /\ LET start == Start(i) + info[i] IN
       Goto(i, IF start <= End(i) /\ start < FileLen THEN "read" ELSE "dead")
  /\ UNCHANGED <<disk, main, info, done, fails, crashes>>

(* The stream ends at the end of the range, or of the file. *)
Left(i) == {n \in 1..BufferSize : Start(i) + info[i] + n - 1 <= End(i)
                                   /\ Start(i) + info[i] + n <= FileLen}

(* Reading a buffer and writing it ("rws": what is written is on the disk).  Another
   thread sees file, done and info only after a crash or when it polls, so this is one
   step. *)
WrittenShort(i, n) == First(i, info[i] + n - 1) \ First(i, info[i])  \* mutant of Written
Written(i, n) == First(i, info[i] + n) \ First(i, info[i])
Receive(i) ==
  /\ pc[i] = "read"
  /\ \E n \in Left(i) :
       /\ file' = file \cup Written(i, n)
       /\ info' = [info EXCEPT ![i] = info[i] + n]
       /\ AddDone(n)
  /\ Goto(i, "update")
  /\ UNCHANGED <<record, complete, main, fails, crashes>>

(* UPDATE info: nothing happens when there is no row. *)
Update(i) ==
  /\ pc[i] = "update"
  /\ record' = IF record[i] = NoRecord THEN record ELSE [record EXCEPT ![i] = info[i]]
  /\ Goto(i, "read")
  /\ UNCHANGED <<file, complete, main, info, done, fails, crashes>>

EndOfStream(i) ==
  /\ pc[i] = "read" /\ Left(i) = {}
  /\ Goto(i, "sum")
  /\ UNCHANGED <<disk, main, info, done, fails, crashes>>

(* InfoDao.deleteAll: SELECT SUM(done), then DELETE. *)
FullTotal(i) == Total(record) = thCount * partLen  \* mutant of IsTotal
OwnTotal(i) == Recorded(record, i) = Size(i)  \* mutant of IsTotal
IsTotal(i) == Total(record) = FileLen
Sum(i) ==
  /\ pc[i] = "sum"
  /\ Goto(i, IF IsTotal(i) THEN "delete" ELSE "finished")
  /\ UNCHANGED <<disk, main, info, done, fails, crashes>>

DeleteAll(i) ==
  /\ pc[i] = "delete"
  /\ record' = [j \in Part |-> NoRecord]
  /\ Goto(i, "finished")
  /\ UNCHANGED <<file, complete, main, info, done, fails, crashes>>

(* An IOException while connecting, reading or writing ends the thread. *)
Fail(i) ==
  /\ pc[i] \in {"connect", "read"}
  /\ fails < MaxFail
  /\ fails' = fails + 1
  /\ Goto(i, "dead")
  /\ UNCHANGED <<disk, main, info, done, crashes>>

-----------------------------------------------------------------------------
Crash ==
  /\ main # "off"
  /\ crashes < MaxCrash
  /\ crashes' = crashes + 1
  /\ main' = "off"
  /\ pc' = [i \in Part |-> "off"] /\ info' = [i \in Part |-> 0] /\ done' = 0
  /\ UNCHANGED <<disk, fails>>

Main == Download \/ Poll \/ SetMediaComplete
Run(i) ==
  \/ Query(i) \/ Connect(i) \/ Receive(i) \/ Update(i) \/ EndOfStream(i)
  \/ Sum(i) \/ DeleteAll(i)

Next == Main \/ Refused \/ (\E i \in Part : Run(i) \/ Fail(i)) \/ Crash

Spec == Init /\ [][Next]_vars
FairSpec == Spec /\ WF_vars(Main) /\ \A i \in Part : WF_vars(Run(i))

-----------------------------------------------------------------------------
(* A record never promises more than is on the disk: whatever was running when the
   process crashed, a download that goes on from it leaves no hole. *)
RecordBehindFile ==
  \A i \in Part : record[i] # NoRecord => First(i, record[i]) \subseteq file

(* The resource is marked complete only when every byte is in the file, whatever parts
   were downloaded before a crash. *)
WholeWhenComplete == complete => file = Byte

(* A part thread that deletes the records of all the parts, also those of the threads
   still running, does so when the file is whole. *)
NoEarlyDelete == (\E i \in Part : pc[i] = "delete") => file = Byte

(* The last part thread to end sees the records of all and deletes them, however their
   updates, sums and deletions interleave.  (After a crash a row can stay behind.) *)
NoRecordLeft == complete /\ crashes = 0 => \A i \in Part : record[i] = NoRecord

(* The downloader keeps its promise to the program that needs the file: it is written
   only while a download runs, by the threads of that download, never loses a byte, and
   a download that returns true has them all. *)
Media == INSTANCE MediaDownload WITH
  Position <- Byte, have <- file, flagged <- complete,
  at <- IF main = "off" THEN "idle" ELSE IF main = "wait" THEN "busy" ELSE "returned"
MediaSpec == Media!Spec

(* The inductive invariant: what a thread believes to have is on the disk, and a thread
   that has ended has its whole part. *)
Progress ==
  \A i \in Part :
    /\ info[i] <= Size(i) /\ First(i, info[i]) \subseteq file
    /\ record[i] # NoRecord => record[i] <= Size(i)
    /\ pc[i] \in {"sum", "delete", "finished"} => info[i] = Size(i)
DownloadInv ==
  /\ TypeOK /\ Progress /\ RecordBehindFile /\ NoEarlyDelete /\ WholeWhenComplete
  /\ main = "true" => AllFinished
  /\ main = "off" => \A i \in Part : pc[i] = "off"

(* Without a crash the records are in one of two states.  Until a thread deletes them
   they follow the threads, and of threads that have all ended one has its sum or its
   deletion still to come; a thread deletes when every part is recorded in full.
   Afterwards they are gone, but for an empty part, whose thread cannot end. *)
Undeleted ==
  /\ \A i \in Part :
       /\ pc[i] # "off" /\ (pc[i] = "query" => record[i] = NoRecord)
       /\ pc[i] = "connect" => info[i] = 0
       /\ pc[i] \in {"connect", "read", "sum", "delete", "finished"} => record[i] = info[i]
       /\ pc[i] = "update" => record[i] <= info[i] /\ record[i] # NoRecord
       /\ pc[i] = "delete" => \A j \in Part : Recorded(record, j) = Size(j)
  /\ \E i \in Part : pc[i] # "finished"
Deleted ==
  \A i \in Part :
    \/ record[i] = NoRecord /\ pc[i] \in {"sum", "delete", "finished", "dead"}
    \/ record[i] = NoRecord /\ pc[i] \in {"read", "update"} /\ info[i] = Size(i)
    \/ Size(i) = 0 /\ pc[i] \in {"query", "connect", "dead"}
RecordInv ==
  crashes = 0 =>
    /\ main = "off" => \A i \in Part : /\ pc[i] = "off"
                                      /\ record[i] = NoRecord /\ info[i] = 0
    /\ main # "off" => ~complete /\ (Undeleted \/ Deleted)

(* The downloading thread goes on to the next program, unless a part has failed. *)
DownloadEnds == <>[](complete \/ \E i \in Part : pc[i] = "dead")

(* Downloader.java:88: a part that has failed is downloaded again from what it has. *)
FailedPartRestarted == \A i \in Part : pc[i] = "dead" ~> pc[i] # "dead"

=============================================================================

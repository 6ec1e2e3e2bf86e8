-------------------------- MODULE Downloader_proofs --------------------------
(***************************************************************************)
(* Proofs about Downloader for files of every length, buffers of every     *)
(* size and any number of failures and crashes.                            *)
(***************************************************************************)
EXTENDS Downloader, TLAPS

(* The arithmetic of the split. *)
LEMMA PartLenCovers == partLen \in Nat \ {0} /\ 3 * partLen >= FileLen
BY FileAssumption DEF partLen, thCount

LEMMA SizeType == \A i \in Part : Size(i) \in 0..partLen
BY PartLenCovers, FileAssumption DEF Size, Start, End, Part, thCount

LEMMA SizesAddUp == Size(0) + Size(1) + Size(2) = FileLen
BY PartLenCovers, FileAssumption DEF Size, Start, End

(* When every part has its bytes the file is whole. *)
LEMMA PartsCover ==
  ASSUME NEW f \in SUBSET Byte, \A i \in Part : First(i, Size(i)) \subseteq f
  PROVE  f = Byte
<1> SUFFICES ASSUME NEW b \in Byte PROVE b \in f
  OBVIOUS
<1>1. \E i \in Part : b \in First(i, Size(i))
  <2>1. CASE b < partLen
    <3>1. 0 \in Part /\ b \in First(0, Size(0))
      BY <2>1, PartLenCovers, FileAssumption DEF First, Size, Start, End, Part, Byte, thCount
    <3> QED  BY <3>1
  <2>2. CASE partLen <= b /\ b < 2 * partLen
    <3>1. 1 \in Part /\ b \in First(1, Size(1))
      BY <2>2, PartLenCovers, FileAssumption DEF First, Size, Start, End, Part, Byte, thCount
    <3> QED  BY <3>1
  <2>3. CASE 2 * partLen <= b
    <3>1. 2 \in Part /\ b \in First(2, Size(2))
      BY <2>3, PartLenCovers, FileAssumption DEF First, Size, Start, End, Part, Byte, thCount
    <3> QED  BY <3>1
  <2> QED
    BY <2>1, <2>2, <2>3, PartLenCovers, FileAssumption DEF Byte
<1> QED
  BY <1>1

(* Records that add up to the length of the file are those of whole parts. *)
LEMMA FullRecords ==
  ASSUME TypeOK, Progress, RecordBehindFile, Total(record) = FileLen
  PROVE  file = Byte /\ \A i \in Part : Recorded(record, i) = Size(i)
<1>1. \A i \in Part : Recorded(record, i) \in 0..Size(i)
  BY SizeType, PartLenCovers DEF TypeOK, Progress, Recorded
<1>2. 0 \in Part /\ 1 \in Part /\ 2 \in Part
  BY DEF Part, thCount
<1>3. \A i \in Part : Recorded(record, i) = Size(i)
  <2>1. Recorded(record, 0) = Size(0) /\ Recorded(record, 1) = Size(1)
        /\ Recorded(record, 2) = Size(2)
    <3>1. \A i \in Part : Recorded(record, i) \in Nat /\ Size(i) \in Nat
                            /\ Recorded(record, i) <= Size(i)
      BY <1>1, SizeType, PartLenCovers
    <3>2. Recorded(record, 0) + Recorded(record, 1) + Recorded(record, 2)
          = Size(0) + Size(1) + Size(2)
      BY SizesAddUp DEF Total
    <3> QED
      BY <1>2, <3>1, <3>2
  <2> QED
    BY <2>1 DEF Part, thCount
<1>4. \A i \in Part : First(i, Size(i)) \subseteq file
  <2> SUFFICES ASSUME NEW i \in Part PROVE First(i, Size(i)) \subseteq file
    OBVIOUS
  <2>1. CASE record[i] = NoRecord
    <3>1. Size(i) = 0
      BY <1>3, <2>1 DEF Recorded
    <3> QED
      BY <3>1, PartLenCovers, FileAssumption DEF First, Start, Part, thCount, Byte
  <2>2. CASE record[i] # NoRecord
    BY <1>3, <2>2 DEF Recorded, RecordBehindFile
  <2> QED
    BY <2>1, <2>2
<1> QED
  BY <1>3, <1>4, PartsCover DEF TypeOK

(* Nothing has been downloaded of no bytes; one buffer more is what is written. *)
LEMMA FirstNone == \A i \in Part : First(i, 0) = {}
BY PartLenCovers DEF First, Start, Part, thCount, Byte

LEMMA LeftFits ==
  ASSUME NEW i \in Part, info[i] \in 0..partLen, info[i] <= Size(i), NEW n \in Left(i)
  PROVE  n \in Nat \ {0} /\ info[i] + n <= Size(i)
<1>1. n \in Nat \ {0} /\ Start(i) + info[i] + n - 1 <= End(i) /\ Start(i) + info[i] + n <= FileLen
  BY FileAssumption DEF Left
<1> QED
  BY <1>1, PartLenCovers, FileAssumption DEF Size, Start, End, Part, thCount

LEMMA NoneLeft ==
  ASSUME NEW i \in Part, info[i] \in 0..partLen, info[i] <= Size(i), Left(i) = {}
  PROVE  info[i] = Size(i)
<1>1. 1 \in 1..BufferSize
  BY FileAssumption
<1>2. ~(Start(i) + info[i] + 1 - 1 <= End(i) /\ Start(i) + info[i] + 1 <= FileLen)
  BY <1>1 DEF Left
<1> QED
  BY <1>2, PartLenCovers, FileAssumption DEF Size, Start, End, Part, thCount

LEMMA InitInv == Init => DownloadInv
<1> SUFFICES ASSUME Init PROVE DownloadInv
  OBVIOUS
<1> USE DEF Init
<1>1. TypeOK
  <2>1. 0 \in 0..partLen /\ 0 \in 0..MaxFail /\ 0 \in 0..MaxCrash /\ 0 \in Nat
    BY PartLenCovers, FileAssumption
  <2> QED
    BY <2>1 DEF TypeOK
<1>2. Progress
  BY FirstNone, SizeType DEF Progress
<1>3. RecordBehindFile /\ NoEarlyDelete /\ WholeWhenComplete /\ (main = "true" => AllFinished)
      /\ (main = "off" => \A i \in Part : pc[i] = "off")
  BY DEF RecordBehindFile, NoEarlyDelete, WholeWhenComplete
<1> QED
  BY <1>1, <1>2, <1>3 DEF DownloadInv

(* The steps of the downloading thread. *)
LEMMA MainKeeps == DownloadInv /\ (Main \/ Refused) => DownloadInv'
<1> SUFFICES ASSUME DownloadInv, Main \/ Refused PROVE DownloadInv'
  OBVIOUS
<1> USE DEF DownloadInv
<1>1. CASE Refused
  BY <1>1, FileAssumption DEF Refused, disk, TypeOK, Progress, RecordBehindFile, NoEarlyDelete,
              WholeWhenComplete, AllFinished, IsFinished
<1>2. CASE Download
  <2>1. TypeOK'
    BY <1>2 DEF Download, disk, TypeOK
  <2>2. Progress' /\ NoEarlyDelete'
    BY <1>2 DEF Download, disk, Progress, NoEarlyDelete
  <2> QED
    BY <1>2, <2>1, <2>2 DEF Download, disk, RecordBehindFile, WholeWhenComplete
<1>3. CASE Poll
  <2>1. pc' = pc
    BY <1>3 DEF Poll, DownloadedLength, TypeOK
  <2> QED
    BY <1>3, <2>1 DEF Poll, disk, TypeOK, Progress, RecordBehindFile, NoEarlyDelete,
                      WholeWhenComplete, AllFinished, IsFinished
<1>4. CASE SetMediaComplete
  <2>1. file = Byte
    <3>1. \A i \in Part : First(i, Size(i)) \subseteq file
      BY <1>4 DEF SetMediaComplete, AllFinished, IsFinished, Progress
    <3> QED
      BY <3>1, PartsCover DEF TypeOK
  <2>2. TypeOK'
    BY <1>4, PartLenCovers DEF SetMediaComplete, TypeOK
  <2>3. Progress'
    BY <1>4, FirstNone, SizeType DEF SetMediaComplete, Progress
  <2> QED
    BY <1>4, <2>1, <2>2, <2>3
       DEF SetMediaComplete, RecordBehindFile, NoEarlyDelete, WholeWhenComplete
<1> QED
  BY <1>1, <1>2, <1>3, <1>4 DEF Main

(* The steps of the part threads: what each adds is in the file before it is recorded. *)
LEMMA ReceiveKeeps ==
  ASSUME DownloadInv, NEW i \in Part, Receive(i)
  PROVE  DownloadInv'
<1> USE DEF DownloadInv
<1>1. PICK n \in Left(i) : /\ file' = file \cup Written(i, n)
                          /\ info' = [info EXCEPT ![i] = info[i] + n]
                          /\ done' \in n..(done + n)
  BY DEF Receive, AddDone
<1>2. n \in Nat \ {0} /\ info[i] + n <= Size(i)
  BY LeftFits DEF TypeOK, Progress
<1>3. info[i] + n \in 0..partLen
  BY <1>2, SizeType, PartLenCovers DEF TypeOK
<1>4. Written(i, n) \subseteq Byte /\ First(i, info[i] + n) \subseteq file'
  BY <1>1, <1>2 DEF Written, First, Progress
<1>5. TypeOK'
  BY <1>1, <1>2, <1>3, <1>4 DEF Receive, Goto, TypeOK
<1>6. Progress'
  BY <1>1, <1>2, <1>4 DEF Receive, Goto, Progress, TypeOK
<1>7. RecordBehindFile'
  BY <1>1 DEF Receive, RecordBehindFile
<1>8. NoEarlyDelete' /\ WholeWhenComplete'
  BY <1>1, <1>4 DEF Receive, Goto, NoEarlyDelete, WholeWhenComplete, TypeOK
<1>9. (main' = "true" => AllFinished') /\ (main' = "off" => \A j \in Part : pc'[j] = "off")
  BY DEF Receive, Goto, AllFinished, IsFinished, TypeOK
<1> QED
  BY <1>5, <1>6, <1>7, <1>8, <1>9

LEMMA RunKeeps ==
  ASSUME DownloadInv, NEW i \in Part, Run(i) \/ Fail(i)
  PROVE  DownloadInv'
<1> USE DEF DownloadInv, AllFinished, IsFinished
<1>1. CASE Query(i)
  <2>1. Recorded(record, i) \in 0..partLen /\ Recorded(record, i) <= Size(i)
    BY SizeType, PartLenCovers DEF Recorded, TypeOK, Progress
  <2>2. First(i, Recorded(record, i)) \subseteq file
    BY FirstNone DEF Recorded, RecordBehindFile
  <2>3. TypeOK'
    BY <1>1, <2>1 DEF Query, AddDone, Goto, TypeOK
  <2>4. Progress' /\ RecordBehindFile'
    BY <1>1, <2>1, <2>2 DEF Query, Goto, Progress, RecordBehindFile, TypeOK
  <2> QED
    BY <1>1, <2>3, <2>4 DEF Query, Goto, NoEarlyDelete, WholeWhenComplete, TypeOK
<1>2. CASE Connect(i)
  <2>1. TypeOK'
    BY <1>2 DEF Connect, disk, Goto, TypeOK
  <2> QED
    BY <1>2, <2>1 DEF Connect, disk, Goto, TypeOK, Progress, RecordBehindFile,
                      NoEarlyDelete, WholeWhenComplete
<1>3. CASE Receive(i)
  BY <1>3, ReceiveKeeps
<1>4. CASE Update(i)
  <2>1. TypeOK'
    BY <1>4 DEF Update, Goto, TypeOK
  <2>2. Progress' /\ RecordBehindFile'
    BY <1>4 DEF Update, Goto, Progress, RecordBehindFile, TypeOK
  <2> QED
    BY <1>4, <2>1, <2>2 DEF Update, Goto, NoEarlyDelete, WholeWhenComplete, TypeOK
<1>5. CASE EndOfStream(i)
  <2>1. info[i] = Size(i)
    BY <1>5, NoneLeft DEF EndOfStream, TypeOK, Progress
  <2>2. TypeOK'
    BY <1>5 DEF EndOfStream, disk, Goto, TypeOK
  <2> QED
    BY <1>5, <2>1, <2>2 DEF EndOfStream, disk, Goto, TypeOK, Progress, RecordBehindFile,
                            NoEarlyDelete, WholeWhenComplete
<1>6. CASE Sum(i)
  <2>1. IsTotal(i) => file = Byte
    BY FullRecords DEF IsTotal
  <2>2. TypeOK'
    BY <1>6 DEF Sum, disk, Goto, TypeOK
  <2> QED
    BY <1>6, <2>1, <2>2 DEF Sum, disk, Goto, TypeOK, Progress, RecordBehindFile,
                            NoEarlyDelete, WholeWhenComplete
<1>7. CASE DeleteAll(i)
  <2>1. TypeOK'
    BY <1>7 DEF DeleteAll, Goto, TypeOK
  <2> QED
    BY <1>7, <2>1 DEF DeleteAll, Goto, TypeOK, Progress, RecordBehindFile,
                      NoEarlyDelete, WholeWhenComplete
<1>8. CASE Fail(i)
  <2>1. TypeOK'
    BY <1>8, FileAssumption DEF Fail, disk, Goto, TypeOK
  <2> QED
    BY <1>8, <2>1 DEF Fail, disk, Goto, TypeOK, Progress, RecordBehindFile,
                      NoEarlyDelete, WholeWhenComplete
<1> QED
  BY <1>1, <1>2, <1>3, <1>4, <1>5, <1>6, <1>7, <1>8 DEF Run

LEMMA CrashKeeps == DownloadInv /\ Crash => DownloadInv'
<1> SUFFICES ASSUME DownloadInv, Crash PROVE DownloadInv'
  OBVIOUS
<1> USE DEF DownloadInv, Crash, disk
<1>1. TypeOK'
  BY PartLenCovers, FileAssumption DEF TypeOK
<1>2. Progress'
  BY FirstNone, SizeType DEF Progress
<1> QED
  BY <1>1, <1>2 DEF RecordBehindFile, NoEarlyDelete, WholeWhenComplete

(* What a part thread or a record counts as downloaded is in the file, and the file is
   whole when the records are deleted: DownloadInv holds in every reachable state. *)
THEOREM DownloadInvariant == Spec => []DownloadInv
<1>1. DownloadInv /\ [Next]_vars => DownloadInv'
  <2> SUFFICES ASSUME DownloadInv, [Next]_vars PROVE DownloadInv'
    OBVIOUS
  <2>1. CASE Next
    BY <2>1, MainKeeps, RunKeeps, CrashKeeps DEF Next
  <2>2. CASE UNCHANGED vars
    BY <2>2 DEF vars, DownloadInv, TypeOK, Progress, RecordBehindFile, NoEarlyDelete,
                WholeWhenComplete, AllFinished, IsFinished
  <2> QED
    BY <2>1, <2>2
<1> QED
  BY <1>1, InitInv, PTL DEF Spec

(* Positions, counters and records stay in their ranges: a part thread never leaves the part
   Downloader.java:54-68 gives it. *)
THEOREM DownloadTypes == Spec => []TypeOK
BY DownloadInvariant, PTL DEF DownloadInv

(* A record is never ahead of the file (Downloader.java:198, 236). *)
THEOREM ResumeLeavesNoHole == Spec => []RecordBehindFile
BY DownloadInvariant, PTL DEF DownloadInv

(* A resource marked complete has every byte (Programtask.java:508). *)
THEOREM CompleteIsWhole == Spec => []WholeWhenComplete
BY DownloadInvariant, PTL DEF DownloadInv

(* deleteAll deletes records only of a whole file (InfoDao.java:49). *)
THEOREM DeleteIsLate == Spec => []NoEarlyDelete
BY DownloadInvariant, PTL DEF DownloadInv

-----------------------------------------------------------------------------
(* The downloader implements MediaDownload: a step of it is one of that module's or
   leaves what it shows alone. *)
LEMMA MediaStep ==
  ASSUME DownloadInv, [Next]_vars
  PROVE  [Media!Next]_(Media!vars)
<1> USE DEF DownloadInv
<1>1. CASE UNCHANGED <<file, complete, main>>
  BY <1>1 DEF Media!vars
<1>2. CASE Main
  <2>1. CASE Download
    BY <2>1 DEF Download, disk, Media!Next, Media!Ask
  <2>2. CASE Poll
    <3>1. CASE AllFinished
      <4>1. \A i \in Part : First(i, Size(i)) \subseteq file
        BY <3>1 DEF AllFinished, IsFinished, Progress
      <4>2. file = Byte
        BY <4>1, PartsCover DEF TypeOK
      <4> QED
        BY <2>2, <3>1, <4>2 DEF Poll, disk, Media!Next, Media!Return
    <3>2. CASE ~AllFinished
      BY <1>1, <2>2, <3>2 DEF Poll, disk
    <3> QED
      BY <3>1, <3>2
  <2>3. CASE SetMediaComplete
    BY <2>3 DEF SetMediaComplete, Media!Next, Media!Mark
  <2> QED
    BY <1>2, <2>1, <2>2, <2>3 DEF Main
<1>3. ASSUME NEW i \in Part, Receive(i) PROVE Media!Next
  <2>1. main = "wait"
    BY <1>3 DEF Receive, AllFinished, IsFinished, TypeOK
  <2>2. file \subseteq file' /\ file' \subseteq Byte
    <3>1. PICK n \in Left(i) : file' = file \cup Written(i, n)
      BY <1>3 DEF Receive
    <3> QED
      BY <3>1 DEF Written, First, TypeOK
  <2> QED
    BY <1>3, <2>1, <2>2 DEF Receive, Media!Next, Media!Fetch
<1>4. ASSUME NEW i \in Part, Run(i) \/ Fail(i), ~Receive(i)
      PROVE  UNCHANGED <<file, complete, main>>
  BY <1>4 DEF Run, Query, Connect, Update, EndOfStream, Sum, DeleteAll, Fail, disk
<1>5. CASE Crash
  BY <1>5 DEF Crash, disk, TypeOK, Media!Next, Media!Break
<1>6. CASE Refused \/ UNCHANGED vars
  BY <1>1, <1>6 DEF Refused, vars, disk
<1> QED
  BY <1>1, <1>2, <1>3, <1>4, <1>5, <1>6 DEF Next

(* For every file, buffer and number of failures and crashes the file only grows, only
   while a download runs, and is whole when download returns true (Downloader.java:78-107,
   Programtask.java:508). *)
THEOREM DownloaderImplementsMedia == Spec => MediaSpec
<1>1. Init => Media!Init
  BY DEF Init, Media!Init
<1>2. DownloadInv /\ [Next]_vars => [Media!Next]_(Media!vars)
  BY MediaStep
<1> QED
  BY <1>1, <1>2, DownloadInvariant, PTL DEF Spec, MediaSpec, Media!Spec

-----------------------------------------------------------------------------
(* Without a crash no record is left behind. *)
LEMMA InitRecords == Init => RecordInv
BY DEF Init, RecordInv

LEMMA MainRecords ==
  ASSUME DownloadInv, RecordInv, Main \/ Refused
  PROVE  RecordInv'
<1> SUFFICES ASSUME crashes' = 0
             PROVE  /\ main' = "off" => \A i \in Part : /\ pc'[i] = "off"
                                                       /\ record'[i] = NoRecord /\ info'[i] = 0
                    /\ main' # "off" => ~complete' /\ (Undeleted' \/ Deleted')
  BY DEF RecordInv
<1>0. crashes = 0
  BY DEF Main, Refused, Download, Poll, SetMediaComplete
<1>1. CASE Refused
  BY <1>0, <1>1 DEF Refused, disk, RecordInv
<1>2. CASE Download
  <2>1. Undeleted'
    <3>1. 0 \in Part
      BY DEF Part, thCount
    <3> QED
      BY <1>0, <1>2, <3>1 DEF Download, disk, RecordInv, Undeleted
  <2> QED
    BY <1>2, <2>1 DEF Download, disk
<1>3. CASE Poll
  <2>1. pc' = pc
    BY <1>3 DEF Poll, DownloadedLength, DownloadInv, TypeOK
  <2> QED
    BY <1>0, <1>3, <2>1 DEF Poll, disk, RecordInv, Undeleted, Deleted, Recorded
<1>4. CASE SetMediaComplete
  <2>1. AllFinished
    BY <1>4 DEF SetMediaComplete, DownloadInv
  <2>2. Deleted
    BY <1>0, <1>4, <2>1 DEF SetMediaComplete, RecordInv, Undeleted, AllFinished, IsFinished
  <2>3. \A i \in Part : record[i] = NoRecord
    BY <2>1, <2>2 DEF Deleted, AllFinished, IsFinished
  <2> QED
    BY <1>4, <2>3 DEF SetMediaComplete
<1> QED
  BY <1>1, <1>2, <1>3, <1>4 DEF Main

(* Until the records are deleted: a thread that ends without deleting them leaves
   another that has not ended. *)
LEMMA UndeletedRun ==
  ASSUME DownloadInv, Undeleted, NEW i \in Part, Run(i) \/ Fail(i)
  PROVE  Undeleted' \/ Deleted'
<1> USE DEF DownloadInv, Goto
<1>1. CASE Query(i)
  BY <1>1 DEF Query, Undeleted, TypeOK, Recorded
<1>2. CASE Connect(i)
  BY <1>2 DEF Connect, disk, Undeleted, TypeOK
<1>3. CASE Receive(i)
  <2>1. PICK n \in Left(i) : info' = [info EXCEPT ![i] = info[i] + n]
    BY <1>3 DEF Receive
  <2>2. record[i] = info[i] /\ record[i] <= info'[i] /\ record[i] # NoRecord
    BY <1>3, <2>1, LeftFits, PartLenCovers, FileAssumption
       DEF Receive, Undeleted, TypeOK, Progress
  <2> QED
    BY <1>3, <2>1, <2>2 DEF Receive, Undeleted, TypeOK
<1>4. CASE Update(i)
  BY <1>4 DEF Update, Undeleted, TypeOK, Recorded, Progress
<1>5. CASE EndOfStream(i)
  BY <1>5 DEF EndOfStream, disk, Undeleted, TypeOK
<1>6. CASE Sum(i)
  <2>1. CASE IsTotal(i)
    <3>1. \A j \in Part : Recorded(record, j) = Size(j)
      BY <2>1, FullRecords DEF IsTotal
    <3> QED
      BY <1>6, <2>1, <3>1 DEF Sum, disk, Undeleted, TypeOK, Recorded
  <2>2. CASE ~IsTotal(i)
    <3>1. \E j \in Part : Recorded(record, j) # Size(j)
      BY <2>2, SizesAddUp DEF IsTotal, Total, Part, thCount
    <3>2. \E j \in Part : pc[j] \notin {"sum", "delete", "finished"}
      BY <3>1, PartLenCovers, FileAssumption DEF Undeleted, Progress, Recorded, TypeOK
    <3> QED
      BY <1>6, <2>2, <3>2 DEF Sum, disk, Undeleted, TypeOK, Recorded
  <2> QED
    BY <2>1, <2>2
<1>7. CASE DeleteAll(i)
  <2>1. \A j \in Part : Recorded(record, j) = Size(j)
    BY <1>7 DEF DeleteAll, Undeleted
  <2>2. \A j \in Part : \/ pc[j] \in {"sum", "delete", "finished", "dead"}
                        \/ pc[j] \in {"read", "update"} /\ info[j] = Size(j)
                        \/ Size(j) = 0 /\ pc[j] \in {"query", "connect", "dead"}
    <3> SUFFICES ASSUME NEW j \in Part, pc[j] \in {"query", "connect", "read", "update"}
                 PROVE  \/ pc[j] \in {"read", "update"} /\ info[j] = Size(j)
                        \/ Size(j) = 0 /\ pc[j] \in {"query", "connect"}
      BY <1>7 DEF DeleteAll, TypeOK, Undeleted
    <3>1. Size(j) \in Nat /\ info[j] \in Nat /\ info[j] <= Size(j)
      BY SizeType, PartLenCovers DEF TypeOK, Progress
    <3>2. CASE pc[j] = "query"
      BY <2>1, <3>2 DEF Undeleted, Recorded
    <3>3. CASE pc[j] = "connect"
      BY <2>1, <3>1, <3>3, FileAssumption DEF Undeleted, Recorded
    <3>4. CASE pc[j] = "read"
      BY <2>1, <3>1, <3>4, FileAssumption DEF Undeleted, Recorded
    <3>5. CASE pc[j] = "update"
      BY <2>1, <3>1, <3>5 DEF Undeleted, Recorded
    <3> QED
      BY <3>2, <3>3, <3>4, <3>5
  <2> QED
    BY <1>7, <2>2 DEF DeleteAll, Deleted, TypeOK
<1>8. CASE Fail(i)
  BY <1>8 DEF Fail, disk, Undeleted, TypeOK, Recorded
<1> QED
  BY <1>1, <1>2, <1>3, <1>4, <1>5, <1>6, <1>7, <1>8 DEF Run

(* Once they are deleted no thread writes one again but that of an empty part. *)
LEMMA DeletedRun ==
  ASSUME DownloadInv, Deleted, NEW i \in Part, Run(i) \/ Fail(i)
  PROVE  Deleted'
<1> USE DEF DownloadInv, Goto, Deleted
<1>1. CASE Query(i)
  BY <1>1 DEF Query, TypeOK
<1>2. CASE Connect(i)
  <2>1. Size(i) = 0
    BY <1>2 DEF Connect
  <2>2. ~(Start(i) + info[i] < FileLen)
    BY <2>1, PartLenCovers, FileAssumption DEF Size, Start, End, Part, thCount, TypeOK
  <2> QED
    BY <1>2, <2>1, <2>2 DEF Connect, disk, TypeOK
<1>3. CASE Receive(i)
  BY <1>3, LeftFits DEF Receive, TypeOK
<1>4. CASE Update(i)
  BY <1>4 DEF Update, TypeOK
<1>5. CASE EndOfStream(i)
  BY <1>5 DEF EndOfStream, disk, TypeOK
<1>6. CASE Sum(i)
  BY <1>6 DEF Sum, disk, TypeOK
<1>7. CASE DeleteAll(i)
  BY <1>7 DEF DeleteAll, TypeOK
<1>8. CASE Fail(i)
  BY <1>8 DEF Fail, disk, TypeOK
<1> QED
  BY <1>1, <1>2, <1>3, <1>4, <1>5, <1>6, <1>7, <1>8 DEF Run

(* When nothing has crashed and a download has ended, its records are gone
   (Downloader.java:240). *)
THEOREM RecordsAreDeleted == Spec => []NoRecordLeft
<1>1. DownloadInv /\ RecordInv /\ [Next]_vars => RecordInv'
  <2> SUFFICES ASSUME DownloadInv, RecordInv, [Next]_vars PROVE RecordInv'
    OBVIOUS
  <2>1. CASE Main \/ Refused
    BY <2>1, MainRecords
  <2>2. ASSUME NEW i \in Part, Run(i) \/ Fail(i) PROVE RecordInv'
    <3>1. UNCHANGED <<main, complete, crashes>> /\ pc[i] # "off"
      BY <2>2 DEF Run, Query, Connect, Receive, Update, EndOfStream, Sum, DeleteAll, Fail, disk
    <3> QED
      BY <2>2, <3>1, UndeletedRun, DeletedRun DEF RecordInv
  <2>3. CASE Crash
    BY <2>3, FileAssumption DEF Crash, RecordInv, DownloadInv, TypeOK
  <2>4. CASE UNCHANGED vars
    BY <2>4 DEF vars, RecordInv, Undeleted, Deleted, Recorded
  <2> QED
    BY <2>1, <2>2, <2>3, <2>4 DEF Next
<1>2. RecordInv => NoRecordLeft
  BY DEF RecordInv, NoRecordLeft
<1> QED
  BY <1>1, <1>2, InitRecords, DownloadInvariant, PTL DEF Spec
=============================================================================

----------------------- MODULE ProgramDownload_proofs -----------------------
(***************************************************************************)
(* Proofs about ProgramDownload for any programs, versions and media files, *)
(* and any number of failed downloads, restarts and runs of cleanPlayer.    *)
(***************************************************************************)
EXTENDS ProgramDownload, TLAPS

-----------------------------------------------------------------------------
(* The inductive invariant.  Nothing is known of an item before it is sent. *)
LookedUp == tcp \in {"test", "drop", "write", "add"}
Known ==
  /\ listed \subseteq sent
  /\ tcp # "idle" => item \in sent
  /\ LookedUp /\ old # NoItem => old \in sent
  /\ dl \in {"picked", "page", "media", "mark", "fail", "end"} => program \in sent
  /\ \A p \in ProgramId : {stored[p], complete[p]} \subseteq sent \cup {NoItem}
  /\ \A t \in Item : /\ heir[t] \in sent \cup {NoItem}
                     /\ heir[t] # NoItem \/ had[t] # {} => t \in sent
  /\ \A t \in sent : ver[t] <= remote[pid[t]]

(* What is kept for a program belongs to it; one item of each program is listed. *)
Ids ==
  /\ \A t, u \in listed : pid[t] = pid[u] => t = u
  /\ \A p \in ProgramId : /\ stored[p] # NoItem => pid[stored[p]] = p
                          /\ complete[p] # NoItem => pid[complete[p]] = p
  /\ \A t \in Item : heir[t] # NoItem => pid[heir[t]] = pid[t]
  /\ \A t \in Item : had[t] \subseteq res[t]

(* The command in dispatch: its item is new, and old is what it replaces. *)
Dispatched ==
  /\ tcp # "idle" =>
       /\ item \notin listed /\ had[item] = {} /\ heir[item] = NoItem
       /\ dl \in {"picked", "page", "media", "mark", "fail", "end"} => program # item
       /\ \A p \in ProgramId : complete[p] # item
       /\ tcp # "add" => \A p \in ProgramId : stored[p] # item
       /\ \A t \in Item : heir[t] = item => tcp = "add" /\ t = old
  /\ tcp = "add" => stored[pid[item]] = item
  /\ tcp \in {"wipeTasks", "wipeMedia"} => listed = {}
  /\ tcp = "wipeMedia" => \A p \in ProgramId : stored[p] = NoItem
  /\ LookedUp => /\ old # item /\ (old # NoItem => pid[old] = pid[item])
                 /\ \A t \in listed : pid[t] = pid[item] => t = old

(* The task files hold what is listed, and what has come to its end. *)
InDispatch(t) == tcp = "add" /\ t = item
Files ==
  /\ \A t \in listed : stored[pid[t]] \in {t, NoItem} \/ InDispatch(stored[pid[t]])
  /\ \A p \in ProgramId : stored[p] # NoItem =>
       stored[p] \in listed \cup expired \/ InDispatch(stored[p]) \/ tcp = "wipeTasks"

Downloading ==
  /\ dl \in {"page", "media", "mark", "fail", "end"} => program \in inDownloading
  /\ dl \in {"picked", "page", "media", "mark", "fail"} => complete[pid[program]] = NoItem
  /\ dl \in {"page", "media", "mark"} => left \subseteq res[program]
  /\ dl = "mark" => resource \in res[program]

(* cleanPlayer deletes files of a program that is listed and has come to its end. *)
Cleaning ==
  /\ Free => cleaner = "test" /\ unclean = {} /\ delList = {}
  /\ unclean \subseteq listed /\ delList \subseteq expired
  /\ cleaner # "test" => victim \in listed \cap expired /\ victim \notin unclean

(* The page that item u has fetched will do for item t.  It does for u and for the
   item that replaces it, as long as one of them may be listed again. *)
Fetched(u, t) == t \in expired \/ u \in expired \/ ver[t] <= page[pid[u]]
Alive(t) ==
  \/ t \in listed
  \/ \E p \in ProgramId : stored[p] = t
  \/ tcp # "idle" /\ item = t
WillDo(u) == \A t \in Item : Alive(t) /\ (t = u \/ heir[u] = t) => Fetched(u, t)

Fetching == dl \in {"media", "mark"}
Copies ==
  /\ \A u \in Item : complete[pid[u]] = u => WillDo(u)
  /\ Fetching => WillDo(program)

(* Between the test of isInDownloading and the new task file. *)
Replacing ==
  /\ tcp \in {"drop", "write"} /\ old # NoItem /\ Fetching /\ program = old =>
       Fetched(old, item)
  /\ tcp = "write" /\ old # NoItem /\ complete[pid[old]] = old => Fetched(old, item)

Kept ==
  \A t \in Item : Alive(t) =>
    had[t] \subseteq whole /\ (t \in expired \/ had[t] \subseteq media)

DownloadInv ==
  /\ TypeOK /\ Known /\ Ids /\ Dispatched /\ Files /\ Downloading /\ Cleaning
  /\ Copies /\ Replacing /\ Kept

-----------------------------------------------------------------------------
LEMMA InitHolds == Init => DownloadInv
<1> SUFFICES ASSUME Init PROVE DownloadInv
  OBVIOUS
<1> USE ItemAssumption DEF Init
<1>1. \A p \in ProgramId : /\ HeldItem(p) \in Held \cup {NoItem}
                           /\ HeldItem(p) # NoItem => pid[HeldItem(p)] = p
  BY DEF HeldItem
<1>2. \A t \in Held : HeldItem(pid[t]) = t
  BY DEF HeldItem
<1>3. TypeOK
  <2>1. /\ stored \in [ProgramId -> Item \cup {NoItem}] /\ remote \in [ProgramId -> Nat]
        /\ page \in [ProgramId -> Nat] /\ complete \in [ProgramId -> Item \cup {NoItem}]
    BY <1>1 DEF NoVersion
  <2>2. used \in [fault : Nat, retry : Nat, clean : Nat]
    OBVIOUS
  <2> QED
    BY <2>1, <2>2 DEF TypeOK
<1>4. Known /\ Ids
  <2>1. ASSUME NEW t \in sent PROVE ver[t] <= remote[pid[t]]
    <3>1. t \in Held /\ t # NoItem /\ pid[t] \in ProgramId /\ HeldItem(pid[t]) = t
      BY <1>2
    <3>2. remote[pid[t]] = ver[t]
      BY <3>1
    <3> QED
      BY <3>1, <3>2
  <2>2. \A p \in ProgramId : {stored[p], complete[p]} \subseteq sent \cup {NoItem}
    BY <1>1
  <2>3. Known
    BY <2>1, <2>2 DEF Known, LookedUp
  <2>4. Ids
    BY <1>1 DEF Ids
  <2> QED
    BY <2>3, <2>4
<1>5. Dispatched /\ Files
  BY <1>1, <1>2 DEF Dispatched, Files, LookedUp, InDispatch
<1>6. Downloading /\ Cleaning
  BY DEF Downloading, Cleaning, Free
<1>7. Copies /\ Replacing /\ Kept
  BY DEF Copies, Replacing, Kept, Fetching
<1> QED
  BY <1>3, <1>4, <1>5, <1>6, <1>7 DEF DownloadInv

LEMMA TypeStep == TypeOK /\ [Next]_vars => TypeOK'
<1> SUFFICES ASSUME TypeOK, [Next]_vars PROVE TypeOK'
  OBVIOUS
<1> USE ItemAssumption DEF TypeOK, copies, mediaFiles, dispatch, download, cleaning, server,
                         Count, Fault, Free
<1>1. ASSUME NEW t \in Item, Send(t) PROVE TypeOK'
  BY <1>1 DEF Send
<1>2. ASSUME NEW t \in Item, GetPlayUrl(t) \/ Expire(t) PROVE TypeOK'
  BY <1>2 DEF GetPlayUrl, Expire
<1>3. CASE Tcp
  <2>1. CASE ClearAllProgram
    BY <2>1 DEF ClearAllProgram
  <2>2. CASE WipeTasks
    BY <2>2 DEF WipeTasks
  <2>3. CASE WipeMedia
    BY <2>3 DEF WipeMedia, NoFiles, NoVersion
  <2>4. CASE GetProgram
    BY <2>4 DEF GetProgram, WithId, LiveFirst
  <2>5. CASE TestDownloading
    BY <2>5 DEF TestDownloading
  <2>6. CASE DropFlag
    BY <2>6 DEF DropFlag, DropComplete
  <2>7. CASE WriteTask
    BY <2>7 DEF WriteTask
  <2>8. CASE AddProgram
    BY <2>8 DEF AddProgram
  <2> QED
    BY <1>3, <2>1, <2>2, <2>3, <2>4, <2>5, <2>6, <2>7, <2>8 DEF Tcp
<1>4. CASE Download
  <2>1. CASE GetDownloadPro
    BY <2>1 DEF GetDownloadPro, Needing, LiveFirst
  <2>2. CASE DownloadLocal
    BY <2>2 DEF DownloadLocal
  <2>3. CASE DownloadPage
    BY <2>3 DEF DownloadPage, NoVersion
  <2>4. CASE SkipMedia
    BY <2>4 DEF SkipMedia, Asked
  <2>5. CASE DownloadMedia
    BY <2>5 DEF DownloadMedia
  <2>6. CASE SetMediaComplete
    BY <2>6 DEF SetMediaComplete, Asked
  <2>7. CASE SetComplete
    BY <2>7 DEF SetComplete
  <2>8. CASE SetErr
    BY <2>8 DEF SetErr
  <2>9. CASE EndDownload
    BY <2>9 DEF EndDownload
  <2>10. CASE EnoughSpace
    BY <2>10 DEF EnoughSpace
  <2> QED
    BY <1>4, <2>1, <2>2, <2>3, <2>4, <2>5, <2>6, <2>7, <2>8, <2>9, <2>10 DEF Download
<1>5. CASE Clean
  <2>1. CASE TestExpired
    BY <2>1 DEF TestExpired, LiveFirst
  <2>2. CASE DeleteMedia
    BY <2>2 DEF DeleteMedia
  <2>3. CASE DeletePage
    BY <2>3 DEF DeletePage, NoVersion
  <2>4. CASE DeleteFlag
    BY <2>4 DEF DeleteFlag, DropComplete
  <2>5. CASE RemoveDeleted
    BY <2>5 DEF RemoveDeleted
  <2>6. CASE LeaveClean
    BY <2>6 DEF LeaveClean
  <2> QED
    BY <1>5, <2>1, <2>2, <2>3, <2>4, <2>5, <2>6 DEF Clean
<1>6. CASE Restart
  BY <1>6 DEF Restart, Stored, NoFiles, NoVersion
<1>7. ASSUME NEW th \in {"service", "download"}, EnterClean(th) PROVE TypeOK'
  BY <1>7 DEF EnterClean
<1>8. CASE UNCHANGED vars
  BY <1>8 DEF vars
<1> QED
  BY <1>1, <1>2, <1>3, <1>4, <1>5, <1>6, <1>7, <1>8 DEF Next

(* One step keeps each part of the invariant. *)
LEMMA KnownStep == TypeOK /\ Known /\ [Next]_vars => Known'
<1> SUFFICES ASSUME TypeOK, Known, [Next]_vars PROVE Known'
  OBVIOUS
<1> USE ItemAssumption DEF TypeOK, Known, LookedUp, copies, mediaFiles, dispatch, download,
   cleaning, server
<1>1. ASSUME NEW t \in Item, Send(t) PROVE Known'
  BY <1>1 DEF Send
<1>2. CASE ClearAllProgram
  BY <1>2 DEF ClearAllProgram
<1>3. CASE WipeTasks
  BY <1>3 DEF WipeTasks
<1>4. CASE WipeMedia
  BY <1>4 DEF WipeMedia, NoFiles
<1>5. CASE GetProgram
  BY <1>5 DEF GetProgram, WithId, LiveFirst
<1>6. CASE TestDownloading
  BY <1>6 DEF TestDownloading
<1>7. CASE DropFlag
  BY <1>7 DEF DropFlag, DropComplete
<1>8. CASE WriteTask
  <2> USE <1>8 DEF WriteTask
  <2>1. UNCHANGED <<listed, sent, dl, program, complete, had, remote, item, old>>
    OBVIOUS
  <2>2. item \in sent /\ (old # NoItem => old \in sent) /\ tcp' = "add"
    OBVIOUS
  <2>3. \A p \in ProgramId : stored'[p] \in sent \cup {NoItem}
    BY <2>2
  <2>4. \A t \in Item : heir'[t] \in sent \cup {NoItem} /\ (heir'[t] # heir[t] => t = old)
    BY <2>2
  <2> QED
    BY <2>1, <2>2, <2>3, <2>4
<1>9. CASE AddProgram
  BY <1>9 DEF AddProgram, LiveFirst, WithId
<1>10. CASE GetDownloadPro
  BY <1>10 DEF GetDownloadPro, Needing, LiveFirst
<1>11. CASE DownloadLocal
  BY <1>11 DEF DownloadLocal
<1>12. CASE DownloadPage
  BY <1>12 DEF DownloadPage, Fault, Count
<1>13. CASE SkipMedia
  BY <1>13 DEF SkipMedia, Asked
<1>14. CASE DownloadMedia
  BY <1>14 DEF DownloadMedia, Fault, Count
<1>15. CASE SetMediaComplete
  BY <1>15 DEF SetMediaComplete, Asked
<1>16. CASE SetComplete
  BY <1>16 DEF SetComplete
<1>17. CASE SetErr
  BY <1>17 DEF SetErr
<1>18. CASE EndDownload
  BY <1>18 DEF EndDownload
<1>19. CASE EnoughSpace
  BY <1>19 DEF EnoughSpace
<1>20. ASSUME NEW th \in {"service", "download"}, EnterClean(th) PROVE Known'
  BY <1>20 DEF EnterClean, Free, Count
<1>21. CASE DeleteFlag
  BY <1>21 DEF DeleteFlag, DropComplete
<1>22. CASE RemoveDeleted
  BY <1>22 DEF RemoveDeleted, Free
<1>23. CASE LeaveClean
  BY <1>23 DEF LeaveClean, Free
<1>24. CASE Restart
  BY <1>24 DEF Restart, Stored, NoFiles, Fault, Count
<1>25. CASE UNCHANGED <<listed, sent, tcp, item, old, dl, program, stored, complete, heir,
                      had, remote>>
  BY <1>25 DEF Known
<1> QED
  BY <1>1, <1>2, <1>3, <1>4, <1>5, <1>6, <1>7, <1>8, <1>9, <1>10, <1>11, <1>12, <1>13,
     <1>14, <1>15, <1>16, <1>17, <1>18, <1>19, <1>20, <1>21, <1>22, <1>23, <1>24, <1>25 DEF
     Next, Tcp, Download, Clean, vars, copies, mediaFiles, dispatch, download, cleaning,
     server, GetPlayUrl, Expire, TestExpired, DeleteMedia, DeletePage

LEMMA IdsStep ==
  TypeOK /\ Known /\ Ids /\ Dispatched /\ Downloading /\ [Next]_vars => Ids'
<1> SUFFICES ASSUME TypeOK, Known, Ids, Dispatched, Downloading, [Next]_vars PROVE Ids'
  OBVIOUS
<1> USE ItemAssumption DEF Ids, copies, mediaFiles, dispatch, download, cleaning, server
<1>1. ASSUME NEW t \in Item, Send(t) PROVE Ids'
  BY <1>1 DEF Send
<1>2. CASE ClearAllProgram
  BY <1>2 DEF ClearAllProgram
<1>3. CASE WipeTasks
  BY <1>3 DEF WipeTasks
<1>4. CASE WipeMedia
  BY <1>4 DEF WipeMedia, NoFiles
<1>5. CASE GetProgram
  BY <1>5 DEF GetProgram, WithId, LiveFirst
<1>6. CASE TestDownloading
  BY <1>6 DEF TestDownloading
<1>7. CASE DropFlag
  BY <1>7 DEF DropFlag, DropComplete, TypeOK
<1>8. CASE WriteTask
  BY <1>8 DEF WriteTask, TypeOK, Dispatched, LookedUp, Known
<1>9. CASE AddProgram
  BY <1>9 DEF AddProgram, LiveFirst, WithId, TypeOK
<1>10. CASE SkipMedia
  BY <1>10 DEF SkipMedia, Asked, TypeOK, Downloading
<1>11. CASE SetMediaComplete
  BY <1>11 DEF SetMediaComplete, Asked, TypeOK, Downloading
<1>12. CASE SetComplete
  BY <1>12 DEF SetComplete, TypeOK
<1>13. CASE DeleteFlag
  BY <1>13 DEF DeleteFlag, DropComplete, TypeOK
<1>14. CASE RemoveDeleted
  BY <1>14 DEF RemoveDeleted, Free
<1>15. CASE Restart
  BY <1>15 DEF Restart, Stored, NoFiles, Fault, Count, TypeOK
<1>16. CASE UNCHANGED <<listed, stored, complete, heir, had, item, tcp>>
  BY <1>16 DEF Ids
<1> QED
  BY <1>1, <1>2, <1>3, <1>4, <1>5, <1>6, <1>7, <1>8, <1>9, <1>10, <1>11, <1>12, <1>13,
     <1>14, <1>15, <1>16 DEF Next, Tcp, Download, Clean, vars, copies, mediaFiles,
     dispatch, download, cleaning, server, GetPlayUrl, Expire, GetDownloadPro,
     DownloadLocal, DownloadPage, DownloadMedia, SetErr, EndDownload, EnoughSpace,
     EnterClean, TestExpired, DeleteMedia, DeletePage, LeaveClean

LEMMA DispatchedStep == TypeOK /\ Known /\ Ids /\ Dispatched /\ [Next]_vars => Dispatched'
<1> SUFFICES ASSUME TypeOK, Known, Ids, Dispatched, [Next]_vars PROVE Dispatched'
  OBVIOUS
<1> USE ItemAssumption DEF TypeOK, Known, Ids, Dispatched, LookedUp, copies, mediaFiles,
   dispatch, download, cleaning, server
<1>1. ASSUME NEW t \in Item, Send(t) PROVE Dispatched'
  BY <1>1 DEF Send
<1>2. CASE ClearAllProgram
  BY <1>2 DEF ClearAllProgram
<1>3. CASE WipeTasks
  BY <1>3 DEF WipeTasks
<1>4. CASE WipeMedia
  BY <1>4 DEF WipeMedia, NoFiles
<1>5. CASE GetProgram
  BY <1>5 DEF GetProgram, WithId, LiveFirst
<1>6. CASE TestDownloading
  BY <1>6 DEF TestDownloading
<1>7. CASE DropFlag
  BY <1>7 DEF DropFlag, DropComplete
<1>8. CASE WriteTask
  <2> USE <1>8 DEF WriteTask
  <2>1. /\ UNCHANGED <<listed, dl, program, complete, had, item, old>>
        /\ tcp = "write" /\ tcp' = "add" /\ item \in Item
    OBVIOUS
  <2>2. heir'[item] = NoItem
    BY <2>1
  <2>3. \A t \in Item : heir'[t] = item => t = old
    BY <2>1
  <2>4. stored'[pid[item]] = item
    BY <2>1
  <2> QED
    BY <2>1, <2>2, <2>3, <2>4
<1>9. CASE AddProgram
  BY <1>9 DEF AddProgram, LiveFirst, WithId
<1>10. CASE GetDownloadPro
  BY <1>10 DEF GetDownloadPro, Needing, LiveFirst
<1>11. CASE DownloadLocal
  BY <1>11 DEF DownloadLocal
<1>12. CASE DownloadPage
  BY <1>12 DEF DownloadPage, Fault, Count
<1>13. CASE SkipMedia
  BY <1>13 DEF SkipMedia, Asked
<1>14. CASE DownloadMedia
  BY <1>14 DEF DownloadMedia, Fault, Count
<1>15. CASE SetMediaComplete
  BY <1>15 DEF SetMediaComplete, Asked
<1>16. CASE SetComplete
  BY <1>16 DEF SetComplete
<1>17. CASE SetErr
  BY <1>17 DEF SetErr
<1>18. CASE EndDownload
  BY <1>18 DEF EndDownload
<1>19. CASE EnoughSpace
  BY <1>19 DEF EnoughSpace
<1>20. ASSUME NEW th \in {"service", "download"}, EnterClean(th) PROVE Dispatched'
  BY <1>20 DEF EnterClean, Free, Count
<1>21. CASE DeleteFlag
  BY <1>21 DEF DeleteFlag, DropComplete
<1>22. CASE RemoveDeleted
  BY <1>22 DEF RemoveDeleted, Free
<1>23. CASE LeaveClean
  BY <1>23 DEF LeaveClean, Free
<1>24. CASE Restart
  BY <1>24 DEF Restart, Stored, NoFiles, Fault, Count
<1>25. CASE UNCHANGED <<listed, tcp, item, old, had, heir, dl, program, complete, stored>>
  BY <1>25 DEF Dispatched
<1> QED
  BY <1>1, <1>2, <1>3, <1>4, <1>5, <1>6, <1>7, <1>8, <1>9, <1>10, <1>11, <1>12, <1>13,
     <1>14, <1>15, <1>16, <1>17, <1>18, <1>19, <1>20, <1>21, <1>22, <1>23, <1>24, <1>25 DEF
     Next, Tcp, Download, Clean, vars, copies, mediaFiles, dispatch, download, cleaning,
     server, GetPlayUrl, Expire, TestExpired, DeleteMedia, DeletePage

LEMMA FilesStep ==
  TypeOK /\ Known /\ Ids /\ Dispatched /\ Files /\ Cleaning /\ [Next]_vars => Files'
<1> SUFFICES ASSUME TypeOK, Known, Ids, Dispatched, Files, Cleaning, [Next]_vars
            PROVE Files'
  OBVIOUS
<1> USE ItemAssumption DEF TypeOK, Ids, Files, InDispatch, copies, mediaFiles, dispatch,
   download, cleaning, server
<1>1. ASSUME NEW t \in Item, Send(t) PROVE Files'
  BY <1>1 DEF Send
<1>2. ASSUME NEW t \in Item, Expire(t) PROVE Files'
  BY <1>2 DEF Expire
<1>3. CASE ClearAllProgram
  BY <1>3 DEF ClearAllProgram, Dispatched
<1>4. CASE WipeTasks
  BY <1>4 DEF WipeTasks
<1>5. CASE WipeMedia
  BY <1>5 DEF WipeMedia, NoFiles, Dispatched
<1>6. CASE GetProgram
  BY <1>6 DEF GetProgram, WithId, LiveFirst
<1>7. CASE TestDownloading
  BY <1>7 DEF TestDownloading
<1>8. CASE DropFlag
  BY <1>8 DEF DropFlag, DropComplete
<1>9. CASE WriteTask
  BY <1>9 DEF WriteTask, Dispatched, LookedUp
<1>10. CASE AddProgram
  BY <1>10 DEF AddProgram, LiveFirst, WithId, Dispatched, LookedUp
<1>11. CASE RemoveDeleted
  BY <1>11 DEF RemoveDeleted, Free, Cleaning
<1>12. CASE Restart
  BY <1>12 DEF Restart, Stored, NoFiles, Fault, Count
<1>13. CASE UNCHANGED <<listed, stored, tcp, item, expired>>
  BY <1>13 DEF Files
<1> QED
  BY <1>1, <1>2, <1>3, <1>4, <1>5, <1>6, <1>7, <1>8, <1>9, <1>10, <1>11, <1>12, <1>13 DEF
     Next, Tcp, Download, Clean, vars, copies, mediaFiles, dispatch, download, cleaning,
     server, GetPlayUrl, GetDownloadPro, DownloadLocal, DownloadPage, SkipMedia,
     DownloadMedia, SetMediaComplete, SetComplete, SetErr, EndDownload, EnoughSpace,
     EnterClean, TestExpired, DeleteMedia, DeletePage, DeleteFlag, LeaveClean

LEMMA DownloadingStep ==
  TypeOK /\ Known /\ Ids /\ Downloading /\ [Next]_vars => Downloading'
<1> SUFFICES ASSUME TypeOK, Known, Ids, Downloading, [Next]_vars PROVE Downloading'
  OBVIOUS
<1> USE ItemAssumption DEF TypeOK, Ids, Downloading, copies, mediaFiles, dispatch,
   download, cleaning, server
<1>1. CASE WipeMedia
  BY <1>1 DEF WipeMedia, NoFiles
<1>2. CASE DropFlag
  BY <1>2 DEF DropFlag, DropComplete
<1>3. CASE GetDownloadPro
  BY <1>3 DEF GetDownloadPro, Needing, LiveFirst, IsNeedDownload
<1>4. CASE DownloadLocal
  BY <1>4 DEF DownloadLocal
<1>5. CASE DownloadPage
  BY <1>5 DEF DownloadPage, Fault, Count
<1>6. CASE SkipMedia
  BY <1>6 DEF SkipMedia, Asked
<1>7. CASE DownloadMedia
  BY <1>7 DEF DownloadMedia, Fault, Count
<1>8. CASE SetMediaComplete
  BY <1>8 DEF SetMediaComplete, Asked
<1>9. CASE SetComplete
  BY <1>9 DEF SetComplete
<1>10. CASE SetErr
  BY <1>10 DEF SetErr
<1>11. CASE EndDownload
  BY <1>11 DEF EndDownload
<1>12. CASE EnoughSpace
  BY <1>12 DEF EnoughSpace
<1>13. ASSUME NEW th \in {"service", "download"}, EnterClean(th) PROVE Downloading'
  BY <1>13 DEF EnterClean, Free, Count
<1>14. CASE DeleteFlag
  BY <1>14 DEF DeleteFlag, DropComplete
<1>15. CASE LeaveClean
  BY <1>15 DEF LeaveClean, Free
<1>16. CASE Restart
  BY <1>16 DEF Restart, Stored, NoFiles, Fault, Count
<1>17. CASE UNCHANGED <<inDownloading, program, dl, complete, left, resource>>
  BY <1>17 DEF Downloading
<1> QED
  BY <1>1, <1>2, <1>3, <1>4, <1>5, <1>6, <1>7, <1>8, <1>9, <1>10, <1>11, <1>12, <1>13,
     <1>14, <1>15, <1>16, <1>17 DEF Next, Tcp, Download, Clean, vars, copies, mediaFiles,
     dispatch, download, cleaning, server, Send, GetPlayUrl, Expire, ClearAllProgram,
     WipeTasks, GetProgram, TestDownloading, WriteTask, AddProgram, TestExpired,
     DeleteMedia, DeletePage, RemoveDeleted

LEMMA CleaningStep == TypeOK /\ Cleaning /\ [Next]_vars => Cleaning'
<1> SUFFICES ASSUME TypeOK, Cleaning, [Next]_vars PROVE Cleaning'
  OBVIOUS
<1> USE ItemAssumption DEF TypeOK, Cleaning, Free, copies, mediaFiles, dispatch, download,
   cleaning, server
<1>1. ASSUME NEW t \in Item, Expire(t) PROVE Cleaning'
  BY <1>1 DEF Expire
<1>2. CASE ClearAllProgram
  BY <1>2 DEF ClearAllProgram
<1>3. CASE AddProgram
  BY <1>3 DEF AddProgram, LiveFirst, WithId
<1>4. ASSUME NEW th \in {"service", "download"}, EnterClean(th) PROVE Cleaning'
  BY <1>4 DEF EnterClean, Free, Count
<1>5. CASE TestExpired
  BY <1>5 DEF TestExpired, LiveFirst, CanDelete, Free
<1>6. CASE DeleteMedia
  BY <1>6 DEF DeleteMedia
<1>7. CASE DeletePage
  BY <1>7 DEF DeletePage
<1>8. CASE DeleteFlag
  BY <1>8 DEF DeleteFlag, DropComplete
<1>9. CASE RemoveDeleted
  BY <1>9 DEF RemoveDeleted, Free
<1>10. CASE LeaveClean
  BY <1>10 DEF LeaveClean, Free
<1>11. CASE Restart
  BY <1>11 DEF Restart, Stored, NoFiles, Fault, Count
<1>12. CASE UNCHANGED <<lock, cleaner, unclean, delList, listed, expired, victim>>
  BY <1>12 DEF Cleaning
<1> QED
  BY <1>1, <1>2, <1>3, <1>4, <1>5, <1>6, <1>7, <1>8, <1>9, <1>10, <1>11, <1>12 DEF Next,
     Tcp, Download, Clean, vars, copies, mediaFiles, dispatch, download, cleaning, server,
     Send, GetPlayUrl, WipeTasks, WipeMedia, GetProgram, TestDownloading, DropFlag,
     WriteTask, GetDownloadPro, DownloadLocal, DownloadPage, SkipMedia, DownloadMedia,
     SetMediaComplete, SetComplete, SetErr, EndDownload, EnoughSpace

(* An item comes to life when it is sent, and only then. *)
LEMMA AliveStep == TypeOK /\ [Next]_vars =>
  \A u \in Item : u \in sent /\ Alive(u)' => Alive(u)
<1> SUFFICES ASSUME TypeOK, [Next]_vars, NEW u \in Item, u \in sent, Alive(u)'
             PROVE Alive(u)
  OBVIOUS
<1> USE ItemAssumption DEF TypeOK, Alive, copies, mediaFiles, dispatch, download, cleaning,
   server
<1>1. ASSUME NEW t \in Item, Send(t) PROVE Alive(u)
  BY <1>1 DEF Send
<1>2. CASE ClearAllProgram
  BY <1>2 DEF ClearAllProgram
<1>3. CASE WipeTasks
  BY <1>3 DEF WipeTasks
<1>4. CASE WipeMedia
  BY <1>4 DEF WipeMedia, NoFiles
<1>5. CASE GetProgram
  BY <1>5 DEF GetProgram, WithId, LiveFirst
<1>6. CASE TestDownloading
  BY <1>6 DEF TestDownloading
<1>7. CASE DropFlag
  BY <1>7 DEF DropFlag, DropComplete
<1>8. CASE WriteTask
  BY <1>8 DEF WriteTask
<1>9. CASE AddProgram
  BY <1>9 DEF AddProgram, LiveFirst, WithId
<1>10. CASE RemoveDeleted
  BY <1>10 DEF RemoveDeleted, Free
<1>11. CASE Restart
  BY <1>11 DEF Restart, Stored, NoFiles, Fault, Count
<1>12. CASE UNCHANGED <<listed, stored, tcp, item>>
  BY <1>12 DEF Alive
<1> QED
  BY <1>1, <1>2, <1>3, <1>4, <1>5, <1>6, <1>7, <1>8, <1>9, <1>10, <1>11, <1>12 DEF Next,
     Tcp, Download, Clean, vars, copies, mediaFiles, dispatch, download, cleaning, server,
     GetPlayUrl, Expire, GetDownloadPro, DownloadLocal, DownloadPage, SkipMedia,
     DownloadMedia, SetMediaComplete, SetComplete, SetErr, EndDownload, EnoughSpace,
     EnterClean, TestExpired, DeleteMedia, DeletePage, DeleteFlag, LeaveClean

(* The page a copy has been fetched with: what deletes a page leaves no flag of a program
   that may be listed again, and a page that is fetched is of the server's version. *)
LEMMA CopiesStep ==
  TypeOK /\ Known /\ Ids /\ Dispatched /\ Files /\ Downloading /\ Cleaning /\ Copies /\
  Replacing /\ [Next]_vars => Copies'
<1> SUFFICES ASSUME TypeOK, Known, Ids, Dispatched, Files, Downloading, Cleaning,
                   Copies, Replacing, [Next]_vars
            PROVE Copies'
  OBVIOUS
<1>0. \A u \in Item : u \in sent /\ Alive(u)' => Alive(u)
  BY AliveStep
<1> USE <1>0, ItemAssumption DEF TypeOK, Known, Copies, WillDo, Fetched, Fetching, copies,
      mediaFiles, dispatch, download, cleaning, server
<1>1. ASSUME NEW t \in Item, Expire(t) PROVE Copies'
  BY <1>1 DEF Expire
<1>2. CASE WipeMedia
  BY <1>2 DEF WipeMedia, NoFiles, Alive, Dispatched
<1>3. CASE DropFlag
  BY <1>3 DEF DropFlag, DropComplete
<1>4. CASE WriteTask
  BY <1>4 DEF WriteTask, Replacing
<1>5. CASE GetDownloadPro
  BY <1>5 DEF GetDownloadPro, Needing, LiveFirst
<1>6. CASE DownloadLocal
  BY <1>6 DEF DownloadLocal
<1>7. CASE DownloadPage
  BY <1>7 DEF DownloadPage, Downloading, Ids, Fault, Count
<1>8. CASE DownloadMedia
  BY <1>8 DEF DownloadMedia, Fault, Count
<1>9. CASE SetMediaComplete
  BY <1>9 DEF SetMediaComplete, Asked
<1>10. CASE SetComplete
  BY <1>10 DEF SetComplete
<1>11. CASE SetErr
  BY <1>11 DEF SetErr
<1>12. CASE EndDownload
  BY <1>12 DEF EndDownload
<1>13. CASE EnoughSpace
  BY <1>13 DEF EnoughSpace
<1>14. ASSUME NEW th \in {"service", "download"}, EnterClean(th) PROVE Copies'
  BY <1>14 DEF EnterClean, Free, Count
<1>15. CASE DeletePage
  BY <1>15 DEF DeletePage, Ids, Files, Dispatched, Cleaning, Alive, InDispatch, LookedUp,
     NoVersion
<1>16. CASE DeleteFlag
  BY <1>16 DEF DeleteFlag, DropComplete
<1>17. CASE LeaveClean
  BY <1>17 DEF LeaveClean, Free
<1>18. CASE Restart
  BY <1>18 DEF Restart, Stored, NoFiles, Fault, Count
<1>19. CASE UNCHANGED <<complete, page, heir, dl, program, expired>>
  BY <1>19 DEF Copies
<1> QED
  BY <1>1, <1>2, <1>3, <1>4, <1>5, <1>6, <1>7, <1>8, <1>9, <1>10, <1>11, <1>12, <1>13,
     <1>14, <1>15, <1>16, <1>17, <1>18, <1>19 DEF Next, Tcp, Download, Clean, vars, copies,
     mediaFiles, dispatch, download, cleaning, server, Send, GetPlayUrl, ClearAllProgram,
     WipeTasks, GetProgram, TestDownloading, AddProgram, SkipMedia, TestExpired,
     DeleteMedia, RemoveDeleted

(* The test of isInDownloading keeps the download that is fetching the page away from the
   program that is replaced; one that begins later fetches the new page. *)
LEMMA ReplacingStep ==
  TypeOK /\ Known /\ Ids /\ Dispatched /\ Downloading /\ Cleaning /\ Replacing /\
  [Next]_vars => Replacing'
<1> SUFFICES ASSUME TypeOK, Known, Ids, Dispatched, Downloading, Cleaning, Replacing,
                   [Next]_vars
            PROVE Replacing'
  OBVIOUS
<1> USE ItemAssumption DEF TypeOK, Known, Replacing, Fetched, Fetching, copies, mediaFiles,
   dispatch, download, cleaning, server
<1>1. ASSUME NEW t \in Item, Send(t) PROVE Replacing'
  BY <1>1 DEF Send
<1>2. ASSUME NEW t \in Item, Expire(t) PROVE Replacing'
  BY <1>2 DEF Expire
<1>3. CASE ClearAllProgram
  BY <1>3 DEF ClearAllProgram
<1>4. CASE WipeTasks
  BY <1>4 DEF WipeTasks
<1>5. CASE WipeMedia
  BY <1>5 DEF WipeMedia, NoFiles
<1>6. CASE GetProgram
  BY <1>6 DEF GetProgram, WithId, LiveFirst
<1>7. CASE TestDownloading
  BY <1>7 DEF TestDownloading, IsInDownloading, Downloading
<1>8. CASE DropFlag
  BY <1>8 DEF DropFlag, DropComplete
<1>9. CASE WriteTask
  BY <1>9 DEF WriteTask
<1>10. CASE AddProgram
  BY <1>10 DEF AddProgram, LiveFirst, WithId
<1>11. CASE GetDownloadPro
  BY <1>11 DEF GetDownloadPro, Needing, LiveFirst
<1>12. CASE DownloadLocal
  BY <1>12 DEF DownloadLocal
<1>13. CASE DownloadPage
  BY <1>13 DEF DownloadPage, Fault, Count, Ids, Dispatched, Downloading, LookedUp
<1>14. CASE DownloadMedia
  BY <1>14 DEF DownloadMedia, Fault, Count
<1>15. CASE SetMediaComplete
  BY <1>15 DEF SetMediaComplete, Asked
<1>16. CASE SetComplete
  BY <1>16 DEF SetComplete
<1>17. CASE SetErr
  BY <1>17 DEF SetErr
<1>18. CASE EndDownload
  BY <1>18 DEF EndDownload
<1>19. CASE EnoughSpace
  BY <1>19 DEF EnoughSpace
<1>20. ASSUME NEW th \in {"service", "download"}, EnterClean(th) PROVE Replacing'
  BY <1>20 DEF EnterClean, Free, Count
<1>21. CASE DeletePage
  BY <1>21 DEF DeletePage, Ids, Dispatched, LookedUp, Cleaning, NoVersion
<1>22. CASE DeleteFlag
  BY <1>22 DEF DeleteFlag, DropComplete
<1>23. CASE LeaveClean
  BY <1>23 DEF LeaveClean, Free
<1>24. CASE Restart
  BY <1>24 DEF Restart, Stored, NoFiles, Fault, Count
<1>25. CASE UNCHANGED <<tcp, old, item, dl, program, complete, page, expired>>
  BY <1>25 DEF Replacing
<1> QED
  BY <1>1, <1>2, <1>3, <1>4, <1>5, <1>6, <1>7, <1>8, <1>9, <1>10, <1>11, <1>12, <1>13,
     <1>14, <1>15, <1>16, <1>17, <1>18, <1>19, <1>20, <1>21, <1>22, <1>23, <1>24, <1>25 DEF
     Next, Tcp, Download, Clean, vars, copies, mediaFiles, dispatch, download, cleaning,
     server, GetPlayUrl, SkipMedia, TestExpired, DeleteMedia, RemoveDeleted

(* Files are deleted of programs that have come to their end, and only those no listed
   program needs; after a Publish nothing that had a file is left. *)
LEMMA KeptStep ==
  TypeOK /\ Known /\ Ids /\ Dispatched /\ Files /\ Cleaning /\ Kept /\
  [Next]_vars => Kept'
<1> SUFFICES ASSUME TypeOK, Known, Ids, Dispatched, Files, Cleaning, Kept, [Next]_vars
            PROVE Kept'
  OBVIOUS
<1>0. \A u \in Item : u \in sent /\ Alive(u)' => Alive(u)
  BY AliveStep
<1> USE <1>0, ItemAssumption DEF TypeOK, Known, Kept, copies, mediaFiles, dispatch, download,
      cleaning, server
<1>1. ASSUME NEW t \in Item, Expire(t) PROVE Kept'
  BY <1>1 DEF Expire
<1>2. CASE WipeMedia
  BY <1>2 DEF WipeMedia, NoFiles, Alive, Dispatched
<1>3. CASE SkipMedia
  BY <1>3 DEF SkipMedia, Asked
<1>4. CASE DownloadMedia
  BY <1>4 DEF DownloadMedia, Fault, Count
<1>5. CASE SetMediaComplete
  BY <1>5 DEF SetMediaComplete, Asked
<1>6. CASE DeleteMedia
  BY <1>6 DEF DeleteMedia, CanDeleteResItem, Ids, Files, Dispatched, Cleaning, Alive,
     InDispatch
<1>7. CASE Restart
  BY <1>7 DEF Restart, Stored, NoFiles, Fault, Count
<1>8. CASE UNCHANGED <<had, whole, media, expired>>
  BY <1>8 DEF Kept
<1> QED
  BY <1>1, <1>2, <1>3, <1>4, <1>5, <1>6, <1>7, <1>8 DEF Next, Tcp, Download, Clean, vars,
     copies, mediaFiles, dispatch, download, cleaning, server, Send, GetPlayUrl,
     ClearAllProgram, WipeTasks, GetProgram, TestDownloading, DropFlag, WriteTask,
     AddProgram, GetDownloadPro, DownloadLocal, DownloadPage, SetComplete, SetErr,
     EndDownload, EnoughSpace, EnterClean, TestExpired, DeletePage, DeleteFlag,
     RemoveDeleted, LeaveClean

-----------------------------------------------------------------------------
LEMMA StepHolds == DownloadInv /\ [Next]_vars => DownloadInv'
<1> SUFFICES ASSUME DownloadInv, [Next]_vars PROVE DownloadInv'
  OBVIOUS
<1>1. TypeOK' /\ Known' /\ Ids' /\ Dispatched'
  BY TypeStep, KnownStep, IdsStep, DispatchedStep DEF DownloadInv
<1>2. Files' /\ Downloading' /\ Cleaning'
  BY FilesStep, DownloadingStep, CleaningStep DEF DownloadInv
<1>3. Copies' /\ Replacing' /\ Kept'
  BY CopiesStep, ReplacingStep, KeptStep DEF DownloadInv
<1> QED
  BY <1>1, <1>2, <1>3 DEF DownloadInv

(* The inductive invariant of the local copies. *)
THEOREM DownloadInvariant == Spec => []DownloadInv
<1>1. Init => DownloadInv
  BY InitHolds
<1>2. DownloadInv /\ [Next]_vars => DownloadInv'
  BY StepHolds
<1> QED
  BY <1>1, <1>2, PTL DEF Spec

(* Every variable keeps its type, for any programs and any number of failures, restarts
   and runs of cleanPlayer; in particular the download thread is in cleanPlayer exactly
   when it holds the monitor. *)
THEOREM LocalTypes == Spec => []TypeOK
<1>1. DownloadInv => TypeOK
  BY DEF DownloadInv
<1> QED
  BY <1>1, DownloadInvariant, PTL

(* A page that counts as complete is at least of the version of the listed program, if it
   was downloaded for it or for the one it has replaced: what dispatchCommand and
   downloadLocal promise each other without a lock. *)
THEOREM FetchedUpdates == Spec => []UpdateIsFetched
<1>1. DownloadInv => UpdateIsFetched
  <2> SUFFICES ASSUME DownloadInv, NEW t \in listed \ expired, NEW u \in Item \ expired,
                      complete[pid[t]] = u, u = t \/ heir[u] = t
               PROVE page[pid[t]] >= ver[t]
    BY DEF UpdateIsFetched
  <2>1. t \in Item /\ pid[t] \in ProgramId /\ u # NoItem /\ Alive(t)
    BY ItemAssumption DEF DownloadInv, TypeOK, Alive
  <2>2. pid[u] = pid[t]
    BY <2>1 DEF DownloadInv, Ids
  <2>3. Fetched(u, t)
    BY <2>1, <2>2 DEF DownloadInv, Copies, WillDo
  <2> QED
    BY <2>1, <2>2, <2>3, ItemAssumption DEF Fetched, DownloadInv, TypeOK
<1> QED
  BY <1>1, DownloadInvariant, PTL

(* cleanPlayer takes no media file from under a program that is listed and has not come to
   its end, whatever is being dispatched or downloaded meanwhile. *)
THEOREM MediaStay == Spec => []KeepsItsMedia
<1>1. DownloadInv => KeepsItsMedia
  BY DEF DownloadInv, Kept, Alive, KeepsItsMedia, TypeOK
<1> QED
  BY <1>1, DownloadInvariant, PTL
=============================================================================

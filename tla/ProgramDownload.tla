-------------------------- MODULE ProgramDownload --------------------------
(***************************************************************************)
(* The local copies of programs: ProgramAllDownloadThread fetches the page  *)
(* and the media files of one program after the other                       *)
(* (Programtask.downloadLocal), the TCP thread replaces programs by new     *)
(* versions (PlayerCmdCtr.dispatchCommand), cleanPlayer deletes the files   *)
(* of expired ones.  They meet in files: per program a page, a flag that    *)
(* the copy is complete and one that its download has failed; per media     *)
(* file the file and a flag that it is whole, which programs share.         *)
(*                                                                         *)
(* An item is a program as one command brings it, an object of its own.     *)
(***************************************************************************)
EXTENDS Integers

CONSTANTS
  Item, NoItem,
  ProgramId, pid,  \* the id of an item's program
  ver,             \* the version of its page, in the order the server makes them
  Media, res,      \* the media files it needs
  Inserted,        \* items of InterPlay commands, which are listed apart
  Published,       \* items of Publish commands, which clear everything first
  Held,            \* items in the schedule at start
  Ending,          \* items whose end may come
  MaxFault,        \* bound: downloads that fail and restarts of the player
  MaxRetry,        \* bound: failed programs that are played, and so tried again
  MaxClean         \* bound: runs of cleanPlayer

ASSUME ItemAssumption ==
  /\ NoItem \notin Item
  /\ pid \in [Item -> ProgramId] /\ ver \in [Item -> Nat \ {0}]
  /\ res \in [Item -> SUBSET Media]
  /\ Inserted \subseteq Item /\ Published \subseteq Item \ Inserted
  /\ Held \subseteq Item \ Published
  /\ Ending \subseteq Item
  /\ \A t, u \in Held : pid[t] = pid[u] => t = u
  /\ {MaxFault, MaxRetry, MaxClean} \subseteq Nat

VARIABLES
  listed,          \* programtasks and, for Inserted, insProgramtasks
  inDownloading,   \* items with that flag
  remote, sent,    \* server: the version of each page, items sent
  stored,          \* the task files: item per program
  page,            \* local pages: version per program
  complete,        \* complete flags: which item's download has set it (that it is
                   \* there is state, whose it is is history)
  err,             \* programs with an error flag
  media, whole,    \* media files with their content, and their complete flags
  tcp, item, old,  \* dispatchCommand and its locals
  dl, program, left, resource,       \* the download thread; media files still to get
  lock, unclean, delList, victim, cleaner,  \* cleanPlayer, which holds the monitor
  expired,         \* items past their end
  heir,            \* history: the item that was stored in place of this one
  had,             \* history: media files that were there when the item asked
  used             \* events so far
copies == <<page, complete, err>>
mediaFiles == <<media, whole, had>>
dispatch == <<tcp, item, old>>
download == <<dl, program, left, resource>>
cleaning == <<lock, unclean, delList, victim, cleaner>>
server == <<remote, sent>>
vars == <<listed, inDownloading, server, stored, copies, mediaFiles, dispatch, download,
          cleaning, expired, heir, used>>

NoVersion == 0  \* no page, or part of one
Free == lock = "none"

TypeOK ==
  /\ listed \subseteq Item /\ inDownloading \subseteq Item /\ expired \subseteq Item
  /\ sent \subseteq Item /\ remote \in [ProgramId -> Nat] /\ page \in [ProgramId -> Nat]
  /\ stored \in [ProgramId -> Item \cup {NoItem}]
  /\ complete \in [ProgramId -> Item \cup {NoItem}] /\ err \subseteq ProgramId
  /\ media \subseteq Media /\ whole \subseteq Media
  /\ tcp \in {"idle", "clear", "wipeTasks", "wipeMedia", "lookup", "test", "drop",
              "write", "add"}
  /\ item \in Item \cup {NoItem} /\ old \in Item \cup {NoItem}
  /\ tcp # "idle" => item \in Item
  /\ dl \in {"idle", "picked", "page", "media", "mark", "fail", "end", "space", "clean"}
  /\ program \in Item \cup {NoItem} /\ left \subseteq Media
  /\ dl \in {"picked", "page", "media", "mark", "fail", "end"} => program \in Item
  /\ dl = "mark" => resource \in Media
  /\ lock \in {"none", "service", "download"} /\ (lock = "download" <=> dl = "clean")
  /\ unclean \subseteq Item /\ delList \subseteq Item \ Inserted
  /\ cleaner \in {"test", "media", "page", "flag"}
  /\ victim \in Item \cup {NoItem} /\ (cleaner # "test" => victim \in Item)
  /\ heir \in [Item -> Item \cup {NoItem}] /\ had \in [Item -> SUBSET Media]
  /\ used \in [fault : Nat, retry : Nat, clean : Nat]

HeldItem(p) ==
  IF \E t \in Held : pid[t] = p THEN CHOOSE t \in Held : pid[t] = p ELSE NoItem

Init ==
  /\ listed = Held /\ sent = Held /\ stored = [p \in ProgramId |-> HeldItem(p)]
  /\ remote = [p \in ProgramId |-> IF HeldItem(p) = NoItem THEN NoVersion ELSE ver[HeldItem(p)]]
  /\ page = [p \in ProgramId |-> NoVersion] /\ complete = [p \in ProgramId |-> NoItem]
  /\ err = {} /\ media = {} /\ whole = {} /\ inDownloading = {} /\ expired = {}
  /\ tcp = "idle" /\ item = NoItem /\ old = NoItem
  /\ dl = "idle" /\ program = NoItem /\ left = {} /\ resource = NoItem
  /\ lock = "none" /\ unclean = {} /\ delList = {} /\ victim = NoItem /\ cleaner = "test"
  /\ heir = [t \in Item |-> NoItem] /\ had = [t \in Item |-> {}]
  /\ used = [fault |-> 0, retry |-> 0, clean |-> 0]

Count(what) == used' = [used EXCEPT ![what] = @ + 1]
Fault == used.fault < MaxFault /\ Count("fault")

-----------------------------------------------------------------------------
(* The TCP thread.  The server changes a page and then sends the command. *)
Send(t) ==
  /\ tcp = "idle" /\ t \notin sent
  /\ remote[pid[t]] <= ver[t]
  /\ sent' = sent \cup {t}
  /\ remote' = [remote EXCEPT ![pid[t]] = ver[t]]
  /\ item' = t /\ tcp' = IF t \in Published THEN "clear" ELSE "lookup"
  /\ UNCHANGED <<listed, inDownloading, stored, copies, mediaFiles, old, download, cleaning,
                 expired, heir, used>>

ClearAllProgram ==
  /\ tcp = "clear" /\ Free
  /\ listed' = {} /\ tcp' = "wipeTasks"
  /\ UNCHANGED <<inDownloading, server, stored, copies, mediaFiles, item, old, download,
                 cleaning, expired, heir, used>>

(* clearAllLocalData: the task files, then the media store with all flags. *)
WipeTasks ==
  /\ tcp = "wipeTasks" /\ tcp' = "wipeMedia"
  /\ stored' = [p \in ProgramId |-> NoItem]
  /\ UNCHANGED <<listed, inDownloading, server, copies, mediaFiles, item, old, download,
                 cleaning, expired, heir, used>>

NoFiles ==
  /\ page' = [p \in ProgramId |-> NoVersion] /\ complete' = [p \in ProgramId |-> NoItem]
  /\ err' = {} /\ media' = {} /\ whole' = {}

(* File by file in the code; the lists are empty then, so no program is played. *)
WipeMedia ==
  /\ tcp = "wipeMedia" /\ tcp' = "lookup"
  /\ NoFiles
  /\ UNCHANGED <<listed, inDownloading, server, stored, had, item, old, download, cleaning,
                 expired, heir, used>>

(* getProgram: the live program with the id, or else the inserted one. *)
WithId(p) == {t \in listed : pid[t] = p}
LiveFirst(S) == IF S \subseteq Inserted THEN S ELSE S \ Inserted

GetProgram ==
  /\ tcp = "lookup" /\ Free
  /\ \/ WithId(pid[item]) = {} /\ old' = NoItem
     \/ old' \in LiveFirst(WithId(pid[item]))
  /\ tcp' = "test"
  /\ UNCHANGED <<listed, inDownloading, server, stored, copies, mediaFiles, item, download,
                 cleaning, expired, heir, used>>

(* A program that is being downloaded is not updated. *)
IsInDownloadingNot == FALSE  \* mutant of IsInDownloading
IsInDownloading == old \in inDownloading

TestDownloading ==
  /\ tcp = "test"
  /\ tcp' = IF IsInDownloading THEN "idle" ELSE "drop"
  /\ UNCHANGED <<listed, inDownloading, server, stored, copies, mediaFiles, item, old,
                 download, cleaning, expired, heir, used>>

DropComplete(p) == [complete EXCEPT ![p] = NoItem]

DropFlag ==
  /\ tcp = "drop" /\ tcp' = "write"
  /\ complete' = IF old = NoItem THEN complete ELSE DropComplete(pid[old])
  /\ UNCHANGED <<listed, inDownloading, server, stored, page, err, mediaFiles, item, old,
                 download, cleaning, expired, heir, used>>

WriteTask ==
  /\ tcp = "write" /\ tcp' = "add"
  /\ stored' = [stored EXCEPT ![pid[item]] = item]
  /\ heir' = IF old = NoItem THEN heir ELSE [heir EXCEPT ![old] = item]
  /\ UNCHANGED <<listed, inDownloading, server, copies, mediaFiles, item, old, download,
                 cleaning, expired, used>>

(* addProgram: deletePorgram, then the new one. *)
AddProgram ==
  /\ tcp = "add" /\ Free
  /\ listed' = (listed \ LiveFirst(WithId(pid[item]))) \cup {item}
  /\ tcp' = "idle"
  /\ UNCHANGED <<inDownloading, server, stored, copies, mediaFiles, item, old, download,
                 cleaning, expired, heir, used>>

Tcp ==
  \/ ClearAllProgram \/ WipeTasks \/ WipeMedia \/ GetProgram \/ TestDownloading
  \/ DropFlag \/ WriteTask \/ AddProgram

-----------------------------------------------------------------------------
(* The download thread.  getDownloadPro returns a live program before an inserted one. *)
IsNeedDownloadOr(t) ==  \* mutant of IsNeedDownload
  complete[pid[t]] = NoItem \/ pid[t] \notin err
IsNeedDownload(t) == complete[pid[t]] = NoItem /\ pid[t] \notin err
Needing == {t \in listed : IsNeedDownload(t)}

GetDownloadPro ==
  /\ dl = "idle" /\ Free
  /\ program' \in LiveFirst(Needing)
  /\ dl' = "picked"
  /\ UNCHANGED <<listed, inDownloading, server, stored, copies, mediaFiles, dispatch, left,
                 resource, cleaning, expired, heir, used>>

DownloadLocal ==
  /\ dl = "picked"
  /\ inDownloading' = inDownloading \cup {program}
  /\ left' = res[program] /\ dl' = "page"
  /\ UNCHANGED <<listed, server, stored, copies, mediaFiles, dispatch, program, resource,
                 cleaning, expired, heir, used>>

(* A page that cannot be had is left as it was, or ends in the middle. *)

DownloadPage ==
  /\ dl = "page"
  /\ \/ /\ page' = [page EXCEPT ![pid[program]] = remote[pid[program]]]
        /\ dl' = "media" /\ UNCHANGED used
     \/ /\ page' \in {page, [page EXCEPT ![pid[program]] = NoVersion]}
        /\ dl' = "fail" /\ Fault
  /\ UNCHANGED <<listed, inDownloading, server, stored, complete, err, mediaFiles, dispatch,
                 program, left, resource, cleaning, expired, heir>>

Asked(r) == had' = [had EXCEPT ![program] = IF r \in media THEN @ \cup {r} ELSE @]

(* isResDownloadComplete, or DownloadEngine.download. *)
SkipMedia ==
  /\ dl = "media"
  /\ \E r \in left \cap whole : left' = left \ {r} /\ Asked(r)
  /\ UNCHANGED <<listed, inDownloading, server, stored, copies, media, whole, dispatch, dl,
                 program, resource, cleaning, expired, heir, used>>

DownloadMedia ==
  /\ dl = "media"
  /\ \E r \in left \ whole :
       \/ /\ media' = media \cup {r} /\ resource' = r /\ left' = left \ {r}
          /\ dl' = "mark" /\ UNCHANGED used
       \/ /\ media' \in {media, media \ {r}}
          /\ dl' = "fail" /\ Fault /\ UNCHANGED <<left, resource>>
  /\ UNCHANGED <<listed, inDownloading, server, stored, copies, whole, had, dispatch, program,
                 cleaning, expired, heir>>

SetMediaComplete ==
  /\ dl = "mark" /\ dl' = "media"
  /\ whole' = whole \cup {resource} /\ Asked(resource)
  /\ UNCHANGED <<listed, inDownloading, server, stored, copies, media, dispatch, program,
                 left, resource, cleaning, expired, heir, used>>

SetComplete ==
  /\ dl = "media" /\ left = {} /\ dl' = "end"
  /\ complete' = [complete EXCEPT ![pid[program]] = program]
  /\ UNCHANGED <<listed, inDownloading, server, stored, page, err, mediaFiles, dispatch,
                 program, left, resource, cleaning, expired, heir, used>>

SetErr ==
  /\ dl = "fail" /\ dl' = "end"
  /\ err' = err \cup {pid[program]}
  /\ UNCHANGED <<listed, inDownloading, server, stored, page, complete, mediaFiles, dispatch,
                 program, left, resource, cleaning, expired, heir, used>>

EndDownload ==
  /\ dl = "end" /\ dl' = "space"
  /\ inDownloading' = inDownloading \ {program}
  /\ UNCHANGED <<listed, server, stored, copies, mediaFiles, dispatch, program, left,
                 resource, cleaning, expired, heir, used>>

(* getFreeSpaceSize: enough; EnterClean is the other case. *)
EnoughSpace ==
  /\ dl = "space" /\ dl' = "idle"
  /\ UNCHANGED <<listed, inDownloading, server, stored, copies, mediaFiles, dispatch, program,
                 left, resource, cleaning, expired, heir, used>>

Download ==
  \/ GetDownloadPro \/ DownloadLocal \/ DownloadPage \/ SkipMedia \/ DownloadMedia
  \/ SetMediaComplete \/ SetComplete \/ SetErr \/ EndDownload \/ EnoughSpace

-----------------------------------------------------------------------------
(* cleanPlayer, every hour and when space is short: first the live programs, which
   leave their list together, then the inserted ones, which stay in theirs. *)
EnterClean(th) ==
  /\ Free /\ (th = "download" => dl = "space")
  /\ lock' = th /\ dl' = IF th = "download" THEN "clean" ELSE dl
  /\ unclean' = listed /\ delList' = {}
  /\ used.clean < MaxClean /\ Count("clean")
  /\ UNCHANGED <<listed, inDownloading, server, stored, copies, mediaFiles, dispatch, program,
                 left, resource, victim, cleaner, expired, heir>>

CanDelete(t) == t \in expired /\ t \notin inDownloading

TestExpired ==
  /\ ~Free /\ cleaner = "test"
  /\ \E t \in LiveFirst(unclean) :
       /\ t \in Inserted => delList = {}
       /\ unclean' = unclean \ {t}
       /\ IF CanDelete(t) THEN victim' = t /\ cleaner' = "media"
          ELSE UNCHANGED <<victim, cleaner>>
  /\ UNCHANGED <<listed, inDownloading, server, stored, copies, mediaFiles, dispatch,
                 download, lock, delList, expired, heir, used>>

(* deleteLocalPorgram: the media files no other program lists, the page, the flag.
   The files go one by one, but the monitor is held: the listed programs are fixed. *)
CanDeleteResItemLive(r) ==  \* mutant of CanDeleteResItem
  \A t \in listed \ (Inserted \cup {victim}) : r \notin res[t]
CanDeleteResItem(r) == \A t \in listed \ {victim} : r \notin res[t]

DeleteMedia ==
  /\ cleaner = "media" /\ cleaner' = "page"
  /\ media' = IF complete[pid[victim]] = NoItem THEN media
              ELSE media \ {r \in res[victim] : CanDeleteResItem(r)}
  /\ UNCHANGED <<listed, inDownloading, server, stored, copies, whole, had, dispatch,
                 download, lock, unclean, delList, victim, expired, heir, used>>

DeletePage ==
  /\ cleaner = "page" /\ cleaner' = "flag"
  /\ page' = [page EXCEPT ![pid[victim]] = NoVersion]
  /\ UNCHANGED <<listed, inDownloading, server, stored, complete, err, mediaFiles, dispatch,
                 download, lock, unclean, delList, victim, expired, heir, used>>

DeleteFlag ==
  /\ cleaner = "flag" /\ cleaner' = "test"
  /\ complete' = DropComplete(pid[victim])
  /\ delList' = delList \cup ({victim} \ Inserted)
  /\ UNCHANGED <<listed, inDownloading, server, stored, page, err, mediaFiles, dispatch,
                 download, lock, unclean, victim, expired, heir, used>>

RemoveDeleted ==
  /\ ~Free /\ cleaner = "test" /\ unclean \subseteq Inserted /\ delList # {}
  /\ listed' = listed \ delList /\ delList' = {}
  /\ UNCHANGED <<inDownloading, server, stored, copies, mediaFiles, dispatch, download, lock,
                 unclean, victim, cleaner, expired, heir, used>>

LeaveCleanOnly ==  \* mutant of LeaveClean
  /\ ~Free /\ cleaner = "test" /\ unclean = {} /\ delList = {}
  /\ lock' = "none"
  /\ UNCHANGED <<listed, inDownloading, server, stored, copies, mediaFiles, dispatch,
                 download, unclean, delList, victim, cleaner, expired, heir, used>>

LeaveClean ==
  /\ ~Free /\ cleaner = "test" /\ unclean = {} /\ delList = {}
  /\ lock' = "none" /\ dl' = IF lock = "download" THEN "idle" ELSE dl
  /\ UNCHANGED <<listed, inDownloading, server, stored, copies, mediaFiles, dispatch, program,
                 left, resource, unclean, delList, victim, cleaner, expired, heir, used>>

Clean ==
  \/ TestExpired \/ DeleteMedia \/ DeletePage \/ DeleteFlag \/ RemoveDeleted \/ LeaveClean

-----------------------------------------------------------------------------
(* getPlayUrl: a program that is played and has no copy is tried again. *)
GetPlayUrl(t) ==
  /\ t \in listed /\ complete[pid[t]] = NoItem /\ pid[t] \in err
  /\ err' = err \ {pid[t]}
  /\ used.retry < MaxRetry /\ Count("retry")
  /\ UNCHANGED <<listed, inDownloading, server, stored, page, complete, mediaFiles, dispatch,
                 download, cleaning, expired, heir>>

Expire(t) ==
  /\ t \in (sent \cap Ending) \ expired
  /\ expired' = expired \cup {t}
  /\ UNCHANGED <<listed, inDownloading, server, stored, copies, mediaFiles, dispatch,
                 download, cleaning, heir, used>>

(* A restart: rebuildTaskList dispatches the stored commands before the download
   thread starts; a Publish among them clears the files again and is not stored. *)
Stored == {stored[p] : p \in ProgramId} \ {NoItem}

Restart ==
  /\ Fault
  /\ IF Stored \cap Published = {}
     THEN listed' = Stored /\ UNCHANGED <<stored, copies, mediaFiles>>
     ELSE /\ \E t \in Stored \cap Published : listed' = {t}
          /\ stored' = [p \in ProgramId |-> NoItem] /\ NoFiles
          /\ had' = [t \in Item |-> {}]
  /\ inDownloading' = {} /\ tcp' = "idle" /\ dl' = "idle"
  /\ lock' = "none" /\ unclean' = {} /\ delList' = {} /\ cleaner' = "test"
  /\ UNCHANGED <<server, item, old, program, left, resource, victim, expired, heir>>

-----------------------------------------------------------------------------
Next ==
  \/ \E t \in Item : Send(t) \/ GetPlayUrl(t) \/ Expire(t)
  \/ Tcp \/ Download \/ Clean \/ Restart
  \/ \E th \in {"service", "download"} : EnterClean(th)

Spec == Init /\ [][Next]_vars

(* The threads run; connections answer in the end or fail, and the network is there. *)
FairSpec ==
  Spec /\ WF_vars(Download) /\ WF_vars(Tcp) /\ WF_vars(Clean)

-----------------------------------------------------------------------------
(* A page that counts as complete is at least of the version of the program that is
   listed, if the item that was downloaded is that program or the one it has replaced
   (dispatchCommand tests isInDownloading and deletes the complete flag, downloadLocal
   sets inDownloading before it gets the page and the flag before it resets it).
   Others, whose program has left the lists by a Publish, by cleanPlayer or by two
   updates during one download, leave a flag behind that nobody deletes; pages of
   expired programs are being deleted. *)
UpdateIsFetched ==
  \A t \in listed \ expired, u \in Item \ expired :
    complete[pid[t]] = u /\ (u = t \/ heir[u] = t) => page[pid[t]] >= ver[t]

(* A media file that was there when a program asked for it stays there as long as the
   program is listed and has not come to its end: cleanPlayer takes no file from
   under another program, of either list (canDeleteResItem). *)
KeepsItsMedia ==
  \A t \in listed \ expired : had[t] \subseteq media

(* A program whose files are needed gets them, is marked as failed or leaves the
   lists: none is passed over for ever (getDownloadPro, downloadLocal). *)
DownloadDecided ==
  \A p \in ProgramId : WithId(p) \cap Needing # {} ~> WithId(p) \cap Needing = {}

(* A program is not replaced while it is being downloaded ("not update downloading
   program", dispatchCommand). *)
NotUpdatedInDownload ==
  [][AddProgram => WithId(pid[item]) \cap inDownloading = {}]_vars
=============================================================================

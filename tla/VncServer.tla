----------------------------- MODULE VncServer -----------------------------
(***************************************************************************)
(* The remote-control server: the main loop of droidvncserver.c with the   *)
(* part of LibVNCServer it runs on.  One thread reads the viewers' messages *)
(* (rfbCheckFds), sends every viewer what it asked for (rfbUpdateClient),  *)
(* then copies the device's screen into the buffer, in the orientation of  *)
(* the server, and marks what changed (update_screen).                     *)
(*                                                                         *)
(* A content of the device's screen is named by the pixel and the number   *)
(* of times it has changed.  A region is the set of its pixels.            *)
(***************************************************************************)
EXTENDS Integers, FiniteSets

CONSTANTS
  W, H,         \* screenformat.width, screenformat.height
  Client,
  Resizes,      \* the clients whose viewer asks for NewFBSize
  Zte,          \* display_rotate_180, option -z
  InitRotation, \* values of option -r
  Rotations,    \* bound: the orientations F4 may lead to
  Asks,         \* per client: the requests <<rectangle, incremental>> of its viewer
  DrawAt,       \* bound: the device's pixels whose content changes
  MaxVersion,   \* bound: how often one does
  MaxConnect    \* bound: connections

ASSUME VncAssumption ==
  /\ W \in Nat \ {0} /\ H \in Nat \ {0}
  /\ Resizes \subseteq Client
  /\ Zte \in BOOLEAN
  /\ InitRotation \subseteq Rotations /\ Rotations \subseteq {0, 90, 180, 270}
  /\ DrawAt \subseteq (0..W - 1) \X (0..H - 1)
  /\ MaxVersion \in Nat /\ MaxConnect \in Nat

Native == (0..W - 1) \X (0..H - 1)
NoPixel == <<-1, -1>>

Width(r) == IF r \in {0, 180} THEN W ELSE H
Height(r) == IF r \in {0, 180} THEN H ELSE W
Screen(r) == (0..Width(r) - 1) \X (0..Height(r) - 1)

(* Where update_screen puts pixel n of the device, which pixel of the device
   it puts at p, and the coordinates it records for n when n has changed. *)
Pos(r, n) ==
  CASE r = 0   -> n
    [] r = 90  -> <<Width(r) - 1 - n[2], n[1]>>
    [] r = 180 -> <<Width(r) - 1 - n[1], Height(r) - 1 - n[2]>>
    [] r = 270 -> <<n[2], Height(r) - 1 - n[1]>>
Source(r, p) ==
  CASE r = 0   -> p
    [] r = 90  -> <<p[2], Width(r) - 1 - p[1]>>
    [] r = 180 -> <<Width(r) - 1 - p[1], Height(r) - 1 - p[2]>>
    [] r = 270 -> <<Height(r) - 1 - p[2], p[1]>>
Recorded(r, n) ==
  CASE r = 0   -> n
    [] r = 90  -> <<Width(r) - n[2], n[1]>>
    [] r = 180 -> <<n[1], Height(r) - n[2]>>
    [] r = 270 -> <<n[2], n[1]>>

(* The orientation update_screen works in; above 270 it has no branch. *)
Turned(r) == IF Zte THEN r + 180 ELSE r

Black == [at |-> NoPixel, ver |-> 0]      \* calloc
Unshown == [at |-> NoPixel, ver |-> 1]    \* a pixel of the viewer not sent yet
Strange == [at |-> NoPixel, ver |-> 2]    \* read beside the screen

VARIABLES
  dev,               \* the device's screen: version of each pixel
  fb, rotation,      \* vncbuf (= cmpbuf), rotation and with it the size
  listening,         \* listenSock # -1
  status, useNewFBSize, newFBSizePending,
  modified, requested,   \* cl->modifiedRegion, cl->requestedRegion
  deferring,         \* cl->startDeferring.tv_usec # 0
  told, view,        \* the viewer: orientation of its size, its picture
  phase, todo,       \* the main loop, the clients it still has to update
  waited,            \* select has waited usec since the clients' last turn
  connects
screen == <<dev, fb, rotation>>
client == <<status, useNewFBSize, newFBSizePending, modified, requested, deferring>>
viewer == <<told, view>>
loop == <<phase, todo, waited>>
vars == <<screen, listening, client, viewer, loop, connects>>

Content == [at : Native, ver : 0..MaxVersion] \cup {Black, Unshown, Strange}
Plane == UNION {Screen(r) : r \in Rotations}

TypeOK ==
  /\ dev \in [Native -> 0..MaxVersion]
  /\ rotation \in Rotations /\ fb \in [Screen(rotation) -> Content]
  /\ listening \in BOOLEAN
  /\ status \in [Client -> {"none", "handshake", "normal", "closed"}]
  /\ useNewFBSize \in [Client -> BOOLEAN]
  /\ newFBSizePending \in [Client -> BOOLEAN]
  /\ modified \in [Client -> SUBSET Plane] /\ requested \in [Client -> SUBSET Plane]
  /\ deferring \in [Client -> BOOLEAN]
  /\ told \in [Client -> {0, 90, 180, 270}]
  /\ \A c \in Client : view[c] \in [Screen(told[c]) -> Content]
  /\ phase \in {"select", "clients"} /\ todo \in SUBSET Client
  /\ waited \in BOOLEAN /\ connects \in 0..MaxConnect

Clients == {c \in Client : status[c] # "none"}   \* the list clientHead
OpenClients == {c \in Clients : status[c] # "closed"}   \* whose iterator passes over closed ones
Empty(r) == [p \in Screen(r) |-> Unshown]

Init ==
  /\ dev = [n \in Native |-> 0]
  /\ rotation \in InitRotation
  /\ fb = [p \in Screen(rotation) |-> Black]
  /\ listening = TRUE
  /\ status = [c \in Client |-> "none"]
  /\ useNewFBSize = [c \in Client |-> FALSE]
  /\ newFBSizePending = [c \in Client |-> FALSE]
  /\ modified = [c \in Client |-> {}] /\ requested = [c \in Client |-> {}]
  /\ deferring = [c \in Client |-> FALSE]
  /\ told = [c \in Client |-> 0] /\ view = [c \in Client |-> Empty(0)]
  /\ phase = "select" /\ todo = {} /\ waited = FALSE /\ connects = 0

-----------------------------------------------------------------------------
(* The device draws while the server runs. *)
Draw(n) ==
  /\ dev[n] < MaxVersion
  /\ dev' = [dev EXCEPT ![n] = @ + 1]
  /\ UNCHANGED <<fb, rotation, listening, client, viewer, loop, connects>>

(* rfbMarkRectAsModified for a rectangle of the screen: all clients that are not
   closed, those in their handshake too. *)
MarkNormal(rect) ==  \* mutant of MarkAll
  modified' = [c \in Client |-> modified[c] \cup IF status[c] = "normal" THEN rect ELSE {}]
MarkAll(rect) ==
  modified' = [c \in Client |-> modified[c] \cup IF c \in OpenClients THEN rect ELSE {}]

(* rectSwapIfLEAndClip, for a rectangle that starts on the screen. *)
Clip(rect) == rect \cap Screen(rotation)

-----------------------------------------------------------------------------
(* rfbCheckFds: the main loop stays here as long as there is something to read. *)
EndCheckFds(timeout) ==
  /\ phase' = "clients"
  /\ todo' = {c \in Client : status'[c] # "none"}
  /\ waited' = timeout

CheckTimeout ==
  /\ phase = "select"
  /\ UNCHANGED <<screen, listening, client, viewer, connects>>
  /\ EndCheckFds(TRUE)

(* A new connection; when nothing else was readable rfbCheckFds returns. *)
Connect(c) ==
  /\ phase = "select" /\ listening /\ status[c] = "none"
  /\ connects < MaxConnect /\ connects' = connects + 1
  /\ status' = [status EXCEPT ![c] = "handshake"]
  /\ useNewFBSize' = [useNewFBSize EXCEPT ![c] = FALSE]
  /\ newFBSizePending' = [newFBSizePending EXCEPT ![c] = FALSE]
  /\ modified' = [modified EXCEPT ![c] = Screen(rotation)]
  /\ requested' = [requested EXCEPT ![c] = {}]
  /\ deferring' = [deferring EXCEPT ![c] = FALSE]
  /\ \/ UNCHANGED loop
     \/ EndCheckFds(FALSE)
  /\ UNCHANGED <<screen, listening, viewer>>

(* The end of the handshake: ServerInit carries the size of the screen. *)
ClientInit(c) ==
  /\ phase = "select" /\ status[c] = "handshake"
  /\ status' = [status EXCEPT ![c] = "normal"]
  /\ told' = [told EXCEPT ![c] = rotation]
  /\ view' = [view EXCEPT ![c] = Empty(rotation)]
  /\ UNCHANGED <<screen, listening, useNewFBSize, newFBSizePending, modified, requested,
                 deferring, loop, connects>>

SetEncodings(c) ==
  /\ phase = "select" /\ status[c] = "normal"
  /\ c \in Resizes /\ ~useNewFBSize[c]
  /\ useNewFBSize' = [useNewFBSize EXCEPT ![c] = TRUE]
  /\ UNCHANGED <<screen, listening, status, newFBSizePending, modified, requested,
                 deferring, viewer, loop, connects>>

(* FramebufferUpdateRequest.  A viewer sends SetEncodings before its first
   request, so a viewer that asks for NewFBSize has it on. *)
Request(c, rect, incremental) ==
  /\ phase = "select" /\ status[c] = "normal"
  /\ c \in Resizes => useNewFBSize[c]
  /\ requested' = [requested EXCEPT ![c] = @ \cup Clip(rect)]
  /\ modified' = IF incremental THEN modified
                 ELSE [modified EXCEPT ![c] = @ \cup Clip(rect)]
  /\ UNCHANGED <<screen, listening, status, useNewFBSize, newFBSizePending, deferring,
                 viewer, loop, connects>>

(* rotate(-1), key F4 of any viewer.  The buffer is not written: its pixels
   are read in rows of the new width until update_screen has run. *)
Restride(r, s) ==
  [p \in Screen(s) |->
     LET k == p[2] * Width(s) + p[1] IN fb[<<k % Width(r), k \div Width(r)>>]]
AnnounceToUsers ==  \* mutant of AnnounceSize
  newFBSizePending' = [d \in Client |-> useNewFBSize[d] \/ newFBSizePending[d]]
AnnounceSize ==
  newFBSizePending' = [d \in Client |-> d \in OpenClients \/ newFBSizePending[d]]
Rotate(c) ==
  /\ phase = "select" /\ status[c] = "normal"
  /\ (rotation + 90) % 360 \in Rotations
  /\ rotation' = (rotation + 90) % 360
  /\ fb' = Restride(rotation, rotation')
  /\ AnnounceSize
  /\ MarkAll(Screen(rotation'))
  /\ UNCHANGED <<dev, listening, status, useNewFBSize, requested, deferring, viewer, loop,
                 connects>>

(* The viewer is gone: a read returns nothing, rfbCloseClient. *)
Hangup(c) ==
  /\ phase = "select" /\ status[c] \in {"handshake", "normal"}
  /\ status' = [status EXCEPT ![c] = "closed"]
  /\ UNCHANGED <<screen, listening, useNewFBSize, newFBSizePending, modified, requested,
                 deferring, viewer, loop, connects>>

(* rfbShutdownServer, key F11: every client is closed and so are the listening
   sockets, but the main loop goes on. *)
Shutdown(c) ==
  /\ phase = "select" /\ status[c] = "normal" /\ listening
  /\ listening' = FALSE
  /\ status' = [d \in Client |-> IF d \in OpenClients THEN "closed" ELSE status[d]]
  /\ UNCHANGED <<screen, useNewFBSize, newFBSizePending, modified, requested, deferring,
                 viewer, loop, connects>>

-----------------------------------------------------------------------------
(* rfbProcessEvents after rfbCheckFds: rfbUpdateClient for every client. *)
UpdateDue(c) ==
  /\ status[c] = "normal" /\ requested[c] # {}
  /\ (useNewFBSize[c] /\ newFBSizePending[c]) \/ modified[c] # {}

(* rfbClientConnectionGone: the client's record is freed. *)
Gone(c) ==
  /\ status' = [status EXCEPT ![c] = "none"]
  /\ useNewFBSize' = [useNewFBSize EXCEPT ![c] = FALSE]
  /\ newFBSizePending' = [newFBSizePending EXCEPT ![c] = FALSE]
  /\ modified' = [modified EXCEPT ![c] = {}]
  /\ requested' = [requested EXCEPT ![c] = {}]
  /\ deferring' = [deferring EXCEPT ![c] = FALSE]
  /\ told' = [told EXCEPT ![c] = 0]
  /\ view' = [view EXCEPT ![c] = Empty(0)]

(* rfbSendFramebufferUpdate: a size that is due goes out alone. *)
SendSizeOnly(c) ==  \* mutant of SendNewFBSize
  /\ useNewFBSize[c] /\ newFBSizePending[c]
  /\ newFBSizePending' = [newFBSizePending EXCEPT ![c] = FALSE]
  /\ told' = [told EXCEPT ![c] = rotation]
  /\ UNCHANGED <<status, useNewFBSize, modified, requested, view>>
SendNewFBSize(c) ==
  /\ useNewFBSize[c] /\ newFBSizePending[c]
  /\ newFBSizePending' = [newFBSizePending EXCEPT ![c] = FALSE]
  /\ told' = [told EXCEPT ![c] = rotation]
  /\ view' = [view EXCEPT ![c] =
       IF Screen(told[c]) = Screen(rotation) THEN view[c] ELSE Empty(rotation)]
  /\ UNCHANGED <<status, useNewFBSize, modified, requested>>

SendPixels(c) ==
  LET region == modified[c] \cap requested[c] IN
  /\ ~(useNewFBSize[c] /\ newFBSizePending[c])
  /\ modified' = [modified EXCEPT ![c] = @ \ region]
  /\ requested' = [requested EXCEPT ![c] = IF region = {} THEN @ ELSE {}]
  /\ view' = [view EXCEPT ![c] =
       [p \in Screen(told[c]) |->
          IF p \notin region THEN view[c][p]
          ELSE IF p \in Screen(rotation) THEN fb[p] ELSE Strange]]
  /\ UNCHANGED <<status, useNewFBSize, newFBSizePending, told>>

(* The first visit starts the delay, a later one sends when it is over, as it
   always is when select has waited for more than deferUpdateTime.  A write
   that fails closes the client, which is removed at once. *)
Update(c) ==
  /\ UpdateDue(c)
  /\ \/ /\ ~deferring[c]
        /\ deferring' = [deferring EXCEPT ![c] = TRUE]
        /\ UNCHANGED <<status, useNewFBSize, newFBSizePending, modified, requested, viewer>>
     \/ /\ deferring[c]
        /\ deferring' = [deferring EXCEPT ![c] = FALSE]
        /\ SendNewFBSize(c) \/ SendPixels(c)
     \/ /\ deferring[c] /\ Gone(c)
     \/ /\ deferring[c] /\ ~waited
        /\ UNCHANGED <<client, viewer>>

Visit(c) ==
  /\ phase = "clients" /\ c \in todo
  /\ todo' = todo \ {c}
  /\ \/ Update(c)
     \/ /\ ~UpdateDue(c) /\ status[c] # "closed"
        /\ UNCHANGED <<client, viewer>>
     \/ status[c] = "closed" /\ Gone(c)
  /\ UNCHANGED <<screen, listening, phase, waited, connects>>

-----------------------------------------------------------------------------
(* update_screen: the part of the device's screen that differs from the buffer
   is copied and its bounding box, two columns wider on the left, is marked. *)
Changed(r) ==
  IF r \notin {0, 90, 180, 270} THEN {}
  ELSE {n \in Native : fb[Pos(r, n)] # [at |-> n, ver |-> dev[n]]}
BoxShort(r, changed) ==  \* mutant of Box: max_x not increased
  {p \in Screen(rotation) :
     /\ \E n \in changed : Recorded(r, n)[1] - 2 <= p[1]
     /\ \E n \in changed : p[1] < Recorded(r, n)[1]
     /\ \E n \in changed : Recorded(r, n)[2] <= p[2]
     /\ \E n \in changed : p[2] < Recorded(r, n)[2] + 1}
Box(r, changed) ==
  {p \in Screen(rotation) :
     /\ \E n \in changed : Recorded(r, n)[1] - 2 <= p[1]
     /\ \E n \in changed : p[1] < Recorded(r, n)[1] + 1
     /\ \E n \in changed : Recorded(r, n)[2] <= p[2]
     /\ \E n \in changed : p[2] < Recorded(r, n)[2] + 1}

Grab ==
  /\ phase = "clients" /\ todo = {}
  /\ phase' = "select" /\ waited' = FALSE /\ UNCHANGED todo
  /\ IF Clients = {} THEN UNCHANGED <<fb, modified>>
     ELSE LET r == Turned(rotation) IN
          /\ fb' = IF Changed(r) = {} THEN fb
                   ELSE [p \in Screen(rotation) |->
                           [at |-> Source(r, p), ver |-> dev[Source(r, p)]]]
          /\ MarkAll(Box(r, Changed(r)))
  /\ UNCHANGED <<dev, rotation, listening, status, useNewFBSize, newFBSizePending,
                 requested, deferring, viewer, connects>>

-----------------------------------------------------------------------------
Messages(c) ==
  \/ Connect(c) \/ ClientInit(c) \/ SetEncodings(c)
  \/ \E m \in Asks[c] : Request(c, m[1], m[2])
  \/ Rotate(c) \/ Hangup(c) \/ Shutdown(c)

Next ==
  \/ \E n \in DrawAt : Draw(n)
  \/ \E c \in Client : Messages(c) \/ Visit(c)
  \/ CheckTimeout \/ Grab

Spec == Init /\ [][Next]_vars

(* The main loop runs whenever it can, select sees the viewers' messages, and a
   viewer keeps asking for the whole of its picture. *)
FairSpec ==
  /\ Spec
  /\ WF_vars(CheckTimeout) /\ WF_vars(Grab)
  /\ \A c \in Client :
       /\ WF_vars(Visit(c))
       /\ SF_vars(SetEncodings(c))
       /\ SF_vars(Request(c, Screen(told[c]), TRUE))
-----------------------------------------------------------------------------
(* What a viewer shows differs from the buffer only where its modifiedRegion
   says so: a change that is not marked (a wrong bounding box, a rotation, a
   reset at the wrong time, a client whose handshake is not over) is not sent
   until the pixel changes again.  rfb.h describes modifiedRegion as the update
   needed to get the client's framebuffer to the state of the server's. *)
StaleIsMarked ==
  \A c \in Client : status[c] = "normal" =>
    \A p \in (Screen(told[c]) \cap Screen(rotation)) \ modified[c] : view[c][p] = fb[p]

(* The picture of a viewer that follows the size of the screen, per pixel of
   the device: its version where the viewer should show it. *)
Shown(c, n) ==
  LET p == Pos(Turned(told[c]), n) IN
  CASE view[c][p].at = n -> view[c][p].ver
    [] view[c][p] = Unshown -> -1
    [] OTHER -> -2
Mirror == INSTANCE VncMirror WITH
  Pixel <- Native, Viewer <- Resizes, dev <- dev,
  shown <- [c \in Resizes |-> [n \in Native |-> Shown(c, n)]]

(* Such a viewer never sees a pixel of the buffer before update_screen has
   written it for the present orientation (calloc's zeros, rows of the old
   width), never one at a wrong place, and never an older one after a newer. *)
MirrorSpec == Mirror!Spec

(* Once the device is still every connected viewer that keeps asking shows it,
   in the present size if the viewer follows it. *)
UpToDate(c) ==
  status[c] = "normal" =>
    IF c \in Resizes THEN told[c] = rotation /\ \A n \in Native : Shown(c, n) = dev[n]
    ELSE told[c] = rotation =>
           \A n \in Native : view[c][Pos(Turned(rotation), n)] = [at |-> n, ver |-> dev[n]]
CopyCatchesUp == \A c \in Client : <>[]UpToDate(c)
=============================================================================

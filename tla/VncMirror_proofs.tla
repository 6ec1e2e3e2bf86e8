-------------------------- MODULE VncMirror_proofs --------------------------
(***************************************************************************)
(* VncServer implements VncMirror, in the orientations 0 and 90 and for    *)
(* screens that are not square: the size of a square one does not change   *)
(* when it is turned, and its viewer cannot tell an old picture from a new. *)
(***************************************************************************)
EXTENDS VncServer_proofs

Oblong == W # H

(* A picture holds only contents of the right pixel that the pixel has had. *)
Had(r, p) == {[at |-> Source(r, p), ver |-> v] : v \in 0..dev[Source(r, p)]}
PictureIsReal ==
  \A c \in Resizes : \A p \in Screen(told[c]) :
    view[c][p] = Unshown \/ view[c][p] \in Had(told[c], p)

(* What the next update of a client may send: the buffer is the screen's in the
   present orientation and nowhere behind what the viewer shows. *)
Ready(c) ==
  \A p \in Screen(rotation) :
    /\ fb[p] \in Had(rotation, p)
    /\ view[c][p] # Unshown => view[c][p].ver <= fb[p].ver
UpdateIsReady ==
  \A c \in Resizes :
    /\ status[c] \in {"none", "handshake"} => ~deferring[c]
    /\ /\ status[c] = "normal" /\ ~newFBSizePending[c] /\ deferring[c]
       /\ phase = "select" \/ c \in todo
       => Ready(c)

MirrorInvariant == MarkInvariant /\ PictureIsReal /\ UpdateIsReady

-----------------------------------------------------------------------------
LEMMA ResizingClient == Resizes \subseteq Client /\ DrawAt \subseteq Native
BY VncAssumption DEF Native

LEMMA ToldIsUpright == ASSUME MarkInvariant, NEW c \in Resizes PROVE told[c] \in {0, 90}
BY ResizingClient DEF MarkInvariant, ServerType

LEMMA UnshownIsNone ==
  ASSUME NEW n \in Native PROVE Unshown.at # n
BY DEF Unshown, NoPixel, Native

(* What Shown says of a picture that is real. *)
LEMMA ShownIs ==
  ASSUME Upright, NEW c \in Resizes, NEW n \in Native, told[c] \in {0, 90}
  PROVE  LET p == Pos(told[c], n) IN
         /\ p \in Screen(told[c]) /\ Source(told[c], p) = n
         /\ view[c][p] = Unshown => Shown(c, n) = -1
         /\ \A v : view[c][p] = [at |-> n, ver |-> v] => Shown(c, n) = v
<1> DEFINE p == Pos(told[c], n)
<1>1. p \in Screen(told[c]) /\ Source(told[c], p) = n
  BY PosOnScreen
<1>2. Turned(told[c]) = told[c]
  BY DEF Upright, Turned
<1>3. ASSUME view[c][p] = Unshown PROVE Shown(c, n) = -1
  BY <1>2, <1>3, UnshownIsNone DEF Shown
<1>4. ASSUME NEW v, view[c][p] = [at |-> n, ver |-> v] PROVE Shown(c, n) = v
  <2>1. view[c][p].at = n /\ view[c][p].ver = v
    BY <1>4
  <2>2. view[c][p] # Unshown
    BY <2>1, UnshownIsNone
  <2> QED
    BY <1>2, <2>1, <2>2 DEF Shown
<1> QED
  BY <1>1, <1>3, <1>4

LEMMA SameShown ==
  ASSUME NEW c \in Resizes, told'[c] = told[c], view'[c] = view[c]
  PROVE  \A n \in Native : Shown(c, n)' = Shown(c, n)
BY DEF Shown, Turned

LEMMA BlankShown ==
  ASSUME Upright, NEW c \in Resizes, NEW r \in {0, 90}, told'[c] = r, view'[c] = Empty(r)
  PROVE  \A n \in Native : Shown(c, n)' = -1
<1> SUFFICES ASSUME NEW n \in Native PROVE Shown(c, n)' = -1
  OBVIOUS
<1> DEFINE p == Pos(r, n)
<1>1. p \in Screen(r)
  BY PosOnScreen
<1>2. view'[c][p] = Unshown
  BY <1>1 DEF Empty
<1>3. Turned(told'[c]) = r
  BY DEF Upright, Turned
<1> QED
  BY <1>2, <1>3, UnshownIsNone DEF Shown

(* A screen that is not square changes its size when it is turned. *)
LEMMA SizesDiffer ==
  ASSUME Oblong, NEW r \in {0, 90}, NEW s \in {0, 90}, Screen(r) = Screen(s) PROVE r = s
<1>1. CASE W < H
  <2>1. <<0, H - 1>> \in Screen(0)
    BY SizeType DEF Screen, Width, Height
  <2>2. <<0, H - 1>> \notin Screen(90)
    BY <1>1, SizeType DEF Screen, Width, Height
  <2> QED
    BY <2>1, <2>2
<1>2. CASE H < W
  <2>1. <<W - 1, 0>> \in Screen(0)
    BY SizeType DEF Screen, Width, Height
  <2>2. <<W - 1, 0>> \notin Screen(90)
    BY <1>2, SizeType DEF Screen, Width, Height
  <2> QED
    BY <2>1, <2>2
<1> QED
  BY <1>1, <1>2, SizeType DEF Oblong

-----------------------------------------------------------------------------
(* The invariant.  A step that leaves the buffer and the pictures alone keeps it
   if no client becomes one that may be sent pixels. *)
Quiet ==
  /\ UNCHANGED <<dev, fb, rotation, told, view>>
  /\ \A c \in Resizes :
       /\ status'[c] \in {"none", "handshake"} => ~deferring'[c]
       /\ status'[c] = "normal" /\ ~newFBSizePending'[c] /\ deferring'[c] =>
            status[c] = "normal" /\ ~newFBSizePending[c] /\ deferring[c]
       /\ phase' = "select" \/ c \in todo' => phase = "select" \/ c \in todo

LEMMA QuietStep == ASSUME MirrorInvariant, Quiet PROVE PictureIsReal' /\ UpdateIsReady'
<1>1. PictureIsReal'
  BY DEF Quiet, MirrorInvariant, PictureIsReal, Had
<1>2. ASSUME NEW c \in Resizes, Ready(c) PROVE Ready(c)'
  BY <1>2 DEF Quiet, Ready, Had
<1>3. UpdateIsReady'
  BY <1>2 DEF Quiet, MirrorInvariant, UpdateIsReady
<1> QED
  BY <1>1, <1>3

LEMMA InitMirror == ASSUME Upright, Init PROVE PictureIsReal /\ UpdateIsReady
BY ResizingClient DEF Init, PictureIsReal, UpdateIsReady, Empty

LEMMA MessageMirror ==
  ASSUME Upright, MirrorInvariant, NEW c \in Client, Messages(c)
  PROVE  PictureIsReal' /\ UpdateIsReady'
<1> USE ResizingClient
<1>0. ServerType
  BY DEF MirrorInvariant, MarkInvariant
<1>1. CASE Connect(c)
  <2>1. /\ UNCHANGED <<dev, fb, rotation, told, view>> /\ phase = "select"
        /\ \A d \in Client \ {c} : /\ status'[d] = status[d] /\ deferring'[d] = deferring[d]
                                   /\ newFBSizePending'[d] = newFBSizePending[d]
        /\ status'[c] = "handshake" /\ ~deferring'[c]
    BY <1>0, <1>1 DEF Connect, ServerType, screen, viewer
  <2>2. Quiet
    BY <2>1 DEF Quiet, MirrorInvariant, UpdateIsReady
  <2> QED
    BY <2>2, QuietStep
<1>2. CASE ClientInit(c)
  <2>1. /\ UNCHANGED <<dev, fb, rotation, newFBSizePending, deferring, phase, todo>>
        /\ \A d \in Client \ {c} : /\ status'[d] = status[d]
                                   /\ told'[d] = told[d] /\ view'[d] = view[d]
        /\ status[c] = "handshake" /\ status'[c] = "normal"
        /\ told'[c] = rotation /\ view'[c] = Empty(rotation)
    BY <1>0, <1>2 DEF ClientInit, ServerType, screen, loop
  <2>2. PictureIsReal'
    <3>1. ASSUME NEW d \in Resizes, NEW p \in Screen(told[d])'
          PROVE  (view[d][p] = Unshown \/ view[d][p] \in Had(told[d], p))'
      <4>1. CASE d = c
        BY <2>1, <3>1, <4>1 DEF Empty
      <4>2. CASE d # c
        BY <2>1, <3>1, <4>2 DEF MirrorInvariant, PictureIsReal, Had
      <4> QED
        BY <4>1, <4>2
    <3> QED
      BY <3>1 DEF PictureIsReal
  <2>3. ASSUME NEW d \in Resizes, d # c, Ready(d) PROVE Ready(d)'
    BY <2>1, <2>3 DEF Ready, Had
  <2>4. UpdateIsReady'
    BY <2>1, <2>3 DEF MirrorInvariant, UpdateIsReady
  <2> QED
    BY <2>2, <2>4
<1>3. ASSUME UNCHANGED <<screen, status, newFBSizePending, deferring, viewer, loop>>
      PROVE  PictureIsReal' /\ UpdateIsReady'
  <2>1. Quiet
    BY <1>3 DEF Quiet, MirrorInvariant, UpdateIsReady, screen, viewer, loop
  <2> QED
    BY <2>1, QuietStep
<1>4. CASE SetEncodings(c)
  BY <1>3, <1>4 DEF SetEncodings
<1>5. ASSUME NEW rect, NEW incremental, Request(c, rect, incremental)
      PROVE PictureIsReal' /\ UpdateIsReady'
  BY <1>3, <1>5 DEF Request
<1>6. CASE Rotate(c)
  <2>1. /\ UNCHANGED <<dev, status, deferring, told, view, phase, todo>>
        /\ \A d \in Client : newFBSizePending'[d] = (d \in OpenClients \/ newFBSizePending[d])
    BY <1>6 DEF Rotate, AnnounceSize, viewer, loop
  <2>2. PictureIsReal'
    BY <2>1 DEF MirrorInvariant, PictureIsReal, Had
  <2>3. UpdateIsReady'
    BY <2>1 DEF MirrorInvariant, UpdateIsReady, Clients, OpenClients
  <2> QED
    BY <2>2, <2>3
<1>7. CASE Hangup(c)
  <2>1. /\ UNCHANGED <<dev, fb, rotation, told, view, newFBSizePending, deferring, phase, todo>>
        /\ \A d \in Client \ {c} : status'[d] = status[d]
        /\ status'[c] = "closed"
    BY <1>0, <1>7 DEF Hangup, ServerType, screen, viewer, loop
  <2>2. Quiet
    BY <2>1 DEF Quiet, MirrorInvariant, UpdateIsReady
  <2> QED
    BY <2>2, QuietStep
<1>8. CASE Shutdown(c)
  <2>1. /\ UNCHANGED <<dev, fb, rotation, told, view, newFBSizePending, deferring, phase, todo>>
        /\ \A d \in Client : status'[d] = IF status[d] # "none" THEN "closed" ELSE status[d]
    BY <1>8 DEF Shutdown, Clients, OpenClients, screen, viewer, loop
  <2>2. Quiet
    BY <2>1 DEF Quiet, MirrorInvariant, UpdateIsReady
  <2> QED
    BY <2>2, QuietStep
<1> QED
  BY <1>1, <1>2, <1>4, <1>5, <1>6, <1>7, <1>8 DEF Messages

-----------------------------------------------------------------------------
(* The turn of a client: its picture stays, or starts again, or gets what the
   buffer holds; afterwards the client is no longer in todo. *)
Gets(c) ==
  /\ told'[c] = told[c] /\ told[c] = rotation /\ Ready(c)
  /\ DOMAIN view'[c] = Screen(told[c])
  /\ \A p \in Screen(told[c]) : view'[c][p] = view[c][p] \/ view'[c][p] = fb[p]
Starts(c) == \E r \in {0, 90} : told'[c] = r /\ view'[c] = Empty(r)
Keeps(c) == told'[c] = told[c] /\ view'[c] = view[c]

LEMMA TurnOfClient ==
  ASSUME Upright, Oblong, MirrorInvariant, NEW c \in Client, Visit(c)
  PROVE  /\ \A d \in Client \ {c} : Keeps(d)
         /\ c \in Resizes => Keeps(c) \/ Starts(c) \/ Gets(c)
<1> USE ResizingClient
<1>0. ServerType /\ SizeFollowed
  BY DEF MirrorInvariant, MarkInvariant
<1>1. UNCHANGED screen /\ phase = "clients" /\ c \in todo
  BY DEF Visit
<1>2. CASE UNCHANGED viewer
  BY <1>2 DEF Keeps, viewer
<1>3. CASE Gone(c)
  BY <1>0, <1>3 DEF Gone, Keeps, Starts, ServerType
<1>4. CASE UpdateDue(c) /\ SendNewFBSize(c)
  <2>1. /\ told' = [told EXCEPT ![c] = rotation] /\ rotation \in {0, 90}
        /\ view' = [view EXCEPT ![c] =
             IF Screen(told[c]) = Screen(rotation) THEN view[c] ELSE Empty(rotation)]
    BY <1>0, <1>4 DEF SendNewFBSize, ServerType
  <2>2. told[c] \in {0, 90}
    BY <1>0 DEF ServerType
  <2>3. \A d \in Client \ {c} : Keeps(d)
    BY <1>0, <2>1 DEF Keeps, ServerType
  <2>4. told'[c] = rotation
    BY <1>0, <2>1 DEF ServerType
  <2>5. CASE Screen(told[c]) = Screen(rotation)
    <3>1. told[c] = rotation
      BY <2>1, <2>2, <2>5, SizesDiffer
    <3>2. view'[c] = view[c]
      BY <1>0, <2>1, <2>5 DEF ServerType
    <3> QED
      BY <2>3, <2>4, <3>1, <3>2 DEF Keeps
  <2>6. CASE Screen(told[c]) # Screen(rotation)
    <3>1. view'[c] = Empty(rotation)
      BY <1>0, <2>1, <2>6 DEF ServerType
    <3> QED
      BY <2>1, <2>3, <2>4, <3>1 DEF Starts
  <2> QED
    BY <2>5, <2>6
<1>5. CASE UpdateDue(c) /\ deferring[c] /\ SendPixels(c)
  <2>1. /\ UNCHANGED told
        /\ view' = [view EXCEPT ![c] =
             [p \in Screen(told[c]) |->
                IF p \notin modified[c] \cap requested[c] THEN view[c][p]
                ELSE IF p \in Screen(rotation) THEN fb[p] ELSE Strange]]
        /\ status[c] = "normal" /\ requested[c] # {}
        /\ ~(useNewFBSize[c] /\ newFBSizePending[c])
    BY <1>5 DEF SendPixels, UpdateDue
  <2>2. \A d \in Client \ {c} : Keeps(d)
    BY <1>0, <2>1 DEF Keeps, ServerType
  <2>3. ASSUME c \in Resizes PROVE Gets(c)
    <3>1. ~newFBSizePending[c] /\ told[c] = rotation
      BY <1>0, <2>1, <2>3 DEF SizeFollowed, ServerType
    <3>2. Ready(c)
      BY <1>1, <1>5, <2>1, <2>3, <3>1 DEF MirrorInvariant, UpdateIsReady
    <3>3. view'[c] = [p \in Screen(told[c]) |->
                        IF p \notin modified[c] \cap requested[c] THEN view[c][p]
                        ELSE IF p \in Screen(rotation) THEN fb[p] ELSE Strange]
      BY <1>0, <2>1 DEF ServerType
    <3> QED
      BY <2>1, <3>1, <3>2, <3>3 DEF Gets
  <2> QED
    BY <2>2, <2>3
<1> QED
  BY <1>2, <1>3, <1>4, <1>5 DEF Visit, Update, viewer

LEMMA VisitMirror ==
  ASSUME Upright, Oblong, MirrorInvariant, NEW c \in Client, Visit(c)
  PROVE  PictureIsReal' /\ UpdateIsReady'
<1> USE ResizingClient
<1>0. ServerType
  BY DEF MirrorInvariant, MarkInvariant
<1>1. /\ UNCHANGED <<dev, fb, rotation>> /\ phase = "clients" /\ phase' = "clients"
      /\ c \in todo /\ todo' = todo \ {c}
  BY DEF Visit, screen
<1>2. /\ \A d \in Client \ {c} : Keeps(d)
      /\ c \in Resizes => Keeps(c) \/ Starts(c) \/ Gets(c)
  BY TurnOfClient
<1>3. PictureIsReal'
  <2>1. ASSUME NEW d \in Resizes, NEW p \in Screen(told[d])'
        PROVE  (view[d][p] = Unshown \/ view[d][p] \in Had(told[d], p))'
    <3>1. CASE Keeps(d)
      BY <1>1, <2>1, <3>1 DEF Keeps, MirrorInvariant, PictureIsReal, Had
    <3>2. CASE Starts(d)
      BY <2>1, <3>2 DEF Starts, Empty
    <3>3. CASE Gets(d)
      BY <1>1, <2>1, <3>3 DEF Gets, Ready, MirrorInvariant, PictureIsReal, Had
    <3> QED
      BY <1>2, <3>1, <3>2, <3>3
  <2> QED
    BY <2>1 DEF PictureIsReal
<1>4. ASSUME NEW d \in Client \ {c}
      PROVE  status'[d] = status[d] /\ deferring'[d] = deferring[d]
             /\ newFBSizePending'[d] = newFBSizePending[d]
  BY <1>0 DEF Visit, Update, Gone, SendNewFBSize, SendPixels, ServerType, client
<1>5. status'[c] \in {"none", "handshake"} /\ deferring'[c] =>
        UNCHANGED <<status, deferring>>
  BY <1>0 DEF Visit, Update, UpdateDue, Gone, SendNewFBSize, SendPixels, ServerType, client
<1>6. UpdateIsReady'
  <2>1. ASSUME NEW d \in Resizes, d # c, Ready(d) PROVE Ready(d)'
    <3>1. Keeps(d)
      BY <1>2, <2>1
    <3> QED
      BY <1>1, <2>1, <3>1 DEF Keeps, Ready, Had
  <2> QED
    BY <1>1, <1>4, <1>5, <2>1 DEF MirrorInvariant, UpdateIsReady
<1> QED
  BY <1>3, <1>6

-----------------------------------------------------------------------------
(* After update_screen the buffer is the device's screen. *)
LEMMA GrabMirror ==
  ASSUME Upright, MirrorInvariant, Grab
  PROVE  PictureIsReal' /\ UpdateIsReady'
<1> USE ResizingClient
<1>0. ServerType /\ SizeFollowed
  BY DEF MirrorInvariant, MarkInvariant
<1>1. /\ UNCHANGED <<dev, rotation, status, newFBSizePending, deferring, told, view>>
      /\ rotation \in {0, 90} /\ Turned(rotation) = rotation
  BY <1>0 DEF Grab, ServerType, Upright, Turned, viewer
<1>2. PictureIsReal'
  BY <1>1 DEF MirrorInvariant, PictureIsReal, Had
<1>3. ASSUME Clients # {}, NEW p \in Screen(rotation)
      PROVE  fb'[p] = [at |-> Source(rotation, p), ver |-> dev[Source(rotation, p)]]
  <2>1. Source(rotation, p) \in Native /\ Pos(rotation, Source(rotation, p)) = p
    BY <1>1, SourceOnScreen
  <2>2. CASE Changed(rotation) = {}
    <3>1. fb' = fb
      BY <1>1, <1>3, <2>2 DEF Grab
    <3> QED
      BY <1>1, <2>1, <2>2, <3>1 DEF Changed
  <2>3. CASE Changed(rotation) # {}
    BY <1>1, <1>3, <2>3 DEF Grab
  <2> QED
    BY <2>2, <2>3
<1>4. ASSUME NEW c \in Resizes, status[c] = "normal", ~newFBSizePending[c] PROVE Ready(c)'
  <2>1. told[c] = rotation /\ Clients # {}
    BY <1>0, <1>4 DEF SizeFollowed, Clients
  <2>2. ASSUME NEW p \in Screen(rotation)
        PROVE  /\ fb'[p] \in Had(rotation, p)
               /\ view[c][p] # Unshown => view[c][p].ver <= fb'[p].ver
    <3>1. dev[Source(rotation, p)] \in Nat
      BY <1>0, <1>1, <2>2, SourceOnScreen DEF ServerType
    <3>2. fb'[p] = [at |-> Source(rotation, p), ver |-> dev[Source(rotation, p)]]
      BY <1>3, <2>1, <2>2
    <3>3. view[c][p] = Unshown \/ view[c][p] \in Had(rotation, p)
      BY <2>1, <2>2 DEF MirrorInvariant, PictureIsReal
    <3> QED
      BY <3>1, <3>2, <3>3 DEF Had
  <2> QED
    BY <1>1, <2>2 DEF Ready, Had
<1>5. UpdateIsReady'
  BY <1>1, <1>4 DEF MirrorInvariant, UpdateIsReady
<1> QED
  BY <1>2, <1>5

LEMMA DrawMirror ==
  ASSUME MirrorInvariant, NEW n \in DrawAt, Draw(n)
  PROVE  PictureIsReal' /\ UpdateIsReady'
<1> USE ResizingClient
<1>1. /\ UNCHANGED <<fb, rotation, status, newFBSizePending, deferring, told, view, phase, todo>>
      /\ dev' = [dev EXCEPT ![n] = @ + 1] /\ dev \in [Native -> Nat] /\ rotation \in {0, 90}
  BY DEF Draw, MirrorInvariant, MarkInvariant, ServerType, client, viewer, loop
<1>2. ASSUME NEW r \in {0, 90}, NEW p \in Screen(r) PROVE Had(r, p) \subseteq Had(r, p)'
  <2>1. Source(r, p) \in Native
    BY SourceOnScreen
  <2>2. dev[Source(r, p)] \in Nat
    BY <1>1, <2>1
  <2>3. dev'[Source(r, p)] = dev[Source(r, p)] \/ dev'[Source(r, p)] = dev[Source(r, p)] + 1
    BY <1>1, <2>1
  <2> QED
    BY <2>2, <2>3 DEF Had
<1>3. PictureIsReal'
  <2>1. ASSUME NEW c \in Resizes, NEW r \in {0, 90}, told[c] = r, NEW p \in Screen(r)
        PROVE  view[c][p] = Unshown \/ view[c][p] \in Had(r, p)'
    BY <1>2, <2>1 DEF MirrorInvariant, PictureIsReal
  <2>2. \A c \in Resizes : told[c] \in {0, 90}
    BY ToldIsUpright DEF MirrorInvariant
  <2> QED
    BY <1>1, <2>1, <2>2 DEF PictureIsReal, Had
<1>4. ASSUME NEW c \in Resizes, Ready(c) PROVE Ready(c)'
  <2>1. ASSUME NEW p \in Screen(rotation) PROVE fb[p] \in Had(rotation, p)'
    BY <1>1, <1>2, <1>4 DEF Ready
  <2> QED
    BY <1>1, <1>4, <2>1 DEF Ready, Had
<1>5. UpdateIsReady'
  BY <1>1, <1>4 DEF MirrorInvariant, UpdateIsReady
<1> QED
  BY <1>3, <1>5

LEMMA NextMirror ==
  ASSUME Upright, Oblong, MirrorInvariant, [Next]_vars PROVE MirrorInvariant'
<1>1. MarkInvariant'
  BY NextMarks DEF MirrorInvariant
<1>2. CASE CheckTimeout
  <2>1. /\ UNCHANGED <<dev, fb, rotation, told, view, status, newFBSizePending, deferring>>
        /\ phase = "select"
    BY <1>2 DEF CheckTimeout, screen, client, viewer
  <2>2. Quiet
    BY <2>1 DEF Quiet, MirrorInvariant, UpdateIsReady
  <2> QED
    BY <1>1, <2>2, QuietStep DEF MirrorInvariant
<1>3. CASE UNCHANGED vars
  <2>1. Quiet
    BY <1>3 DEF Quiet, MirrorInvariant, UpdateIsReady, vars, screen, client, viewer, loop
  <2> QED
    BY <1>1, <2>1, QuietStep DEF MirrorInvariant
<1>4. ASSUME PictureIsReal' /\ UpdateIsReady' PROVE MirrorInvariant'
  BY <1>1, <1>4 DEF MirrorInvariant
<1> QED
  BY <1>2, <1>3, <1>4, MessageMirror, VisitMirror, GrabMirror, DrawMirror DEF Next

-----------------------------------------------------------------------------
(* Every step is one of the abstract server's, or none. *)
Pictures == [c \in Resizes |-> [n \in Native |-> Shown(c, n)]]

LEMMA StartMirrors == ASSUME Upright, Init PROVE Mirror!Init
<1>1. ASSUME NEW c \in Resizes, NEW n \in Native PROVE Shown(c, n) = -1
  <2>1. told[c] = 0 /\ view[c] = Empty(0)
    BY <1>1, ResizingClient DEF Init
  <2>2. Pos(0, n) \in Screen(0)
    BY PosOnScreen
  <2>3. view[c][Pos(told[c], n)] = Unshown
    BY <2>1, <2>2 DEF Empty
  <2> QED
    BY <2>1, <2>3, ShownIs
<1> QED
  BY <1>1 DEF Init, Mirror!Init, Mirror!NotShown

LEMMA KeepsShown ==
  ASSUME NEW c \in Resizes, Keeps(c)
  PROVE  \A n \in Native : Shown(c, n)' = Shown(c, n)
BY SameShown DEF Keeps

LEMMA GetsForward ==
  ASSUME Upright, MirrorInvariant, NEW c \in Resizes, Gets(c), UNCHANGED dev, NEW n \in Native
  PROVE  \/ Shown(c, n)' = Shown(c, n)
         \/ Shown(c, n)' \in 0..dev[n] /\ Shown(c, n) <= Shown(c, n)'
<1> DEFINE p == Pos(told[c], n)
<1>1. told[c] \in {0, 90} /\ told[c] = rotation /\ told'[c] = told[c]
  BY ToldIsUpright DEF MirrorInvariant, Gets
<1>2. p \in Screen(told[c]) /\ Source(told[c], p) = n
  BY <1>1, PosOnScreen
<1>3. view'[c][p] = view[c][p] \/ view'[c][p] = fb[p]
  BY <1>2 DEF Gets
<1>4. PICK v \in 0..dev[n] : fb[p] = [at |-> n, ver |-> v]
  BY <1>1, <1>2 DEF Gets, Ready, Had
<1>5. CASE view'[c][p] = view[c][p]
  BY <1>1, <1>5 DEF Shown, Upright, Turned
<1>6. CASE view'[c][p] = fb[p]
  <2>1. Shown(c, n)' = v
    <3>1. view'[c][p].at = n /\ view'[c][p].ver = v /\ view'[c][p] # Unshown
      BY <1>4, <1>6, UnshownIsNone
    <3> QED
      BY <1>1, <3>1 DEF Shown, Upright, Turned
  <2>2. CASE view[c][p] = Unshown
    <3>1. Shown(c, n) = -1
      BY <1>1, <2>2, ShownIs
    <3> QED
      BY <1>4, <2>1, <3>1
  <2>3. CASE view[c][p] # Unshown
    <3>1. PICK u \in 0..dev[n] : view[c][p] = [at |-> n, ver |-> u]
      BY <1>2, <2>3 DEF MirrorInvariant, PictureIsReal, Had
    <3>2. Shown(c, n) = u
      BY <1>1, <3>1, ShownIs
    <3>3. u <= v
      BY <1>1, <1>2, <1>4, <2>3, <3>1 DEF Gets, Ready
    <3> QED
      BY <1>4, <2>1, <3>2, <3>3
  <2> QED
    BY <2>2, <2>3
<1> QED
  BY <1>3, <1>5, <1>6

LEMMA StepMirrors ==
  ASSUME Upright, Oblong, MirrorInvariant, [Next]_vars
  PROVE  [Mirror!Next]_Mirror!vars
<1> USE ResizingClient
<1>1. ASSUME UNCHANGED <<dev, viewer>> PROVE [Mirror!Next]_Mirror!vars
  <2>1. \A c \in Resizes, n \in Native : Shown(c, n)' = Shown(c, n)
    BY <1>1, SameShown DEF viewer
  <2>2. Pictures' = Pictures
    BY <2>1 DEF Pictures
  <2> QED
    BY <1>1, <2>2 DEF Mirror!vars, Pictures
<1>2. ASSUME NEW c \in Client, UNCHANGED dev, \A d \in Client \ {c} : Keeps(d),
             c \in Resizes => Keeps(c) \/ Starts(c) \/ Gets(c)
      PROVE  [Mirror!Next]_Mirror!vars
  <2>1. \A d \in Resizes \ {c} : Pictures'[d] = Pictures[d]
    BY <1>2, KeepsShown DEF Pictures
  <2>2. CASE c \notin Resizes \/ Keeps(c)
    <3>1. \A d \in Resizes, n \in Native : Shown(d, n)' = Shown(d, n)
      BY <1>2, <2>2, KeepsShown
    <3>2. Pictures' = Pictures
      BY <3>1 DEF Pictures
    <3> QED
      BY <1>2, <3>2 DEF Mirror!vars, Pictures
  <2>3. CASE c \in Resizes /\ Starts(c)
    <3>1. \A n \in Native : Shown(c, n)' = -1
      BY <2>3, BlankShown DEF Starts
    <3>2. Mirror!Blank(c) /\ Mirror!Others(c)
      BY <1>2, <2>1, <2>3, <3>1 DEF Mirror!Blank, Mirror!Others, Mirror!NotShown, Pictures
    <3> QED
      BY <2>3, <3>2 DEF Mirror!Next
  <2>4. CASE c \in Resizes /\ Gets(c)
    <3>1. Mirror!Forward(c) /\ Mirror!Others(c)
      BY <1>2, <2>1, <2>4, GetsForward DEF Mirror!Forward, Mirror!Others, Pictures
    <3> QED
      BY <2>4, <3>1 DEF Mirror!Next
  <2> QED
    BY <1>2, <2>2, <2>3, <2>4
<1>3. ASSUME NEW n \in DrawAt, Draw(n) PROVE [Mirror!Next]_Mirror!vars
  <2>1. \A c \in Resizes, m \in Native : Shown(c, m)' = Shown(c, m)
    BY <1>3, SameShown DEF Draw, viewer
  <2>2. Pictures' = Pictures
    BY <2>1 DEF Pictures
  <2>3. Mirror!Change(n)
    BY <1>3, <2>2 DEF Draw, Mirror!Change, Pictures
  <2> QED
    BY <1>3, <2>3 DEF Mirror!Next
<1>4. ASSUME NEW c \in Client, Messages(c) PROVE [Mirror!Next]_Mirror!vars
  <2>1. CASE ClientInit(c)
    <3>1. /\ UNCHANGED dev /\ rotation \in {0, 90}
          /\ told' = [told EXCEPT ![c] = rotation] /\ told \in [Client -> {0, rotation}]
          /\ view' = [view EXCEPT ![c] = Empty(rotation)] /\ view = [d \in Client |-> view[d]]
      BY <2>1 DEF ClientInit, MirrorInvariant, MarkInvariant, ServerType, screen
    <3>2. (\A d \in Client \ {c} : Keeps(d)) /\ Starts(c)
      BY <3>1 DEF Keeps, Starts
    <3> QED
      BY <1>2, <1>4, <3>1, <3>2
  <2>2. CASE ~ClientInit(c)
    BY <1>1, <1>4, <2>2 DEF Messages, Connect, SetEncodings, Request, Rotate, Hangup, Shutdown,
                            screen, viewer
  <2> QED
    BY <2>1, <2>2
<1>5. ASSUME NEW c \in Client, Visit(c) PROVE [Mirror!Next]_Mirror!vars
  BY <1>2, <1>5, TurnOfClient DEF Visit, screen
<1>6. CASE CheckTimeout \/ Grab \/ UNCHANGED vars
  BY <1>1, <1>6 DEF CheckTimeout, Grab, vars, screen
<1> QED
  BY <1>3, <1>4, <1>5, <1>6 DEF Next

(* What a viewer that follows the size shows is at every moment what the
   abstract server may show: for every size of the screen but a square one, any
   number of viewers and all their requests, in the orientations 0 and 90. *)
THEOREM ServerImplementsMirror == ASSUME Upright, Oblong PROVE Spec => MirrorSpec
<1>1. Init => MirrorInvariant /\ Mirror!Init
  BY InitMarked, InitMirror, StartMirrors DEF MirrorInvariant
<1>2. MirrorInvariant /\ [Next]_vars => MirrorInvariant' /\ [Mirror!Next]_Mirror!vars
  BY NextMirror, StepMirrors
<1> QED
  BY <1>1, <1>2, PTL DEF Spec, MirrorSpec, Mirror!Spec
=============================================================================

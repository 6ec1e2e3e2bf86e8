-------------------------- MODULE VncServer_proofs --------------------------
(***************************************************************************)
(* Proofs about VncServer for screens of every size, any number of viewers *)
(* and all their requests, in the orientations the player's screens are    *)
(* driven in.                                                              *)
(***************************************************************************)
EXTENDS VncServer, TLAPS

(* Orientations 0 and 90 without option -z; the others mark wrong rectangles. *)
Upright == ~Zte /\ Rotations \subseteq {0, 90}

-----------------------------------------------------------------------------
(* The arithmetic of the orientations: Pos and Source are inverse, and the
   coordinates recorded for a changed pixel put it into the box that is marked. *)
LEMMA SizeType == W \in Nat \ {0} /\ H \in Nat \ {0}
BY VncAssumption

LEMMA PosOnScreen ==
  ASSUME NEW r \in {0, 90}, NEW n \in Native
  PROVE  Pos(r, n) \in Screen(r) /\ Source(r, Pos(r, n)) = n
<1>1. /\ n = <<n[1], n[2]>> /\ n[1] \in 0..W - 1 /\ n[2] \in 0..H - 1
  BY DEF Native
<1>2. CASE r = 0
  BY <1>1, <1>2, SizeType DEF Pos, Source, Screen, Width, Height
<1>3. CASE r = 90
  <2>1. Pos(r, n) = <<H - 1 - n[2], n[1]>>
    BY <1>3 DEF Pos, Width
  <2>2. Source(r, Pos(r, n)) = <<n[1], n[2]>>
    BY <1>1, <1>3, <2>1, SizeType DEF Source, Width
  <2> QED
    BY <1>1, <1>3, <2>1, <2>2, SizeType DEF Screen, Width, Height
<1> QED
  BY <1>2, <1>3

LEMMA SourceOnScreen ==
  ASSUME NEW r \in {0, 90}, NEW p \in Screen(r)
  PROVE  Source(r, p) \in Native /\ Pos(r, Source(r, p)) = p
<1>1. /\ p = <<p[1], p[2]>> /\ p[1] \in 0..Width(r) - 1 /\ p[2] \in 0..Height(r) - 1
  BY DEF Screen
<1>2. CASE r = 0
  BY <1>1, <1>2, SizeType DEF Pos, Source, Native, Width, Height
<1>3. CASE r = 90
  <2>1. Source(r, p) = <<p[2], H - 1 - p[1]>>
    BY <1>3 DEF Source, Width
  <2>2. Pos(r, Source(r, p)) = <<p[1], p[2]>>
    BY <1>1, <1>3, <2>1, SizeType DEF Pos, Width
  <2> QED
    BY <1>1, <1>3, <2>1, <2>2, SizeType DEF Native, Width, Height
<1> QED
  BY <1>2, <1>3

LEMMA ChangedIsInBox ==
  ASSUME rotation \in {0, 90}, NEW p \in Screen(rotation), NEW changed,
         Source(rotation, p) \in changed
  PROVE  p \in Box(rotation, changed)
<1> DEFINE n == Source(rotation, p)
<1>1. /\ p[1] \in 0..Width(rotation) - 1 /\ p[2] \in 0..Height(rotation) - 1
      /\ Width(rotation) \in Nat /\ Height(rotation) \in Nat
  BY SizeType DEF Screen, Width, Height
<1>2. Recorded(rotation, n) = IF rotation = 0 THEN p ELSE <<p[1] + 1, p[2]>>
  BY <1>1 DEF Recorded, Source
<1>3. /\ Recorded(rotation, n)[1] - 2 <= p[1] /\ p[1] < Recorded(rotation, n)[1] + 1
      /\ Recorded(rotation, n)[2] <= p[2] /\ p[2] < Recorded(rotation, n)[2] + 1
  BY <1>1, <1>2
<1> QED
  BY <1>3 DEF Box

-----------------------------------------------------------------------------
(* The inductive invariant, in parts. *)
ServerType ==
  /\ dev \in [Native -> Nat]
  /\ rotation \in {0, 90}
  /\ status \in [Client -> {"none", "handshake", "normal", "closed"}]
  /\ useNewFBSize \in [Client -> BOOLEAN] /\ newFBSizePending \in [Client -> BOOLEAN]
  /\ deferring \in [Client -> BOOLEAN]
  /\ modified \in [Client -> SUBSET (Int \X Int)]
  /\ requested \in [Client -> SUBSET (Int \X Int)]
  /\ told \in [Client -> {0, rotation}]
  /\ view = [c \in Client |-> view[c]]

(* Until its handshake is over a client has the whole screen marked, and so has
   one whose viewer follows the size until it has been told. *)
WholeMarked ==
  \A c \in Client :
    /\ status[c] = "handshake" => Screen(rotation) \subseteq modified[c]
    /\ c \in Resizes /\ newFBSizePending[c] /\ status[c] \in {"handshake", "normal"} =>
         Screen(rotation) \subseteq modified[c]

(* A viewer that follows the size asks for nothing before it has said so, and is
   behind only while it is due to be told. *)
SizeFollowed ==
  \A c \in Client :
    /\ c \notin Resizes => ~useNewFBSize[c]
    /\ c \in Resizes /\ ~useNewFBSize[c] => requested[c] = {} /\ ~deferring[c]
    /\ c \in Resizes /\ status[c] = "normal" /\ told[c] # rotation => newFBSizePending[c]

MarkInvariant == ServerType /\ WholeMarked /\ SizeFollowed /\ StaleIsMarked

LEMMA ScreenType == \A r \in {0, 90} : Screen(r) \subseteq Int \X Int
BY SizeType DEF Screen, Width, Height

LEMMA InitMarked == ASSUME Upright, Init PROVE MarkInvariant
<1>1. ServerType
  BY VncAssumption DEF Upright, Init, ServerType
<1>2. WholeMarked /\ SizeFollowed /\ StaleIsMarked
  BY DEF Init, WholeMarked, SizeFollowed, StaleIsMarked
<1> QED
  BY <1>1, <1>2 DEF MarkInvariant

-----------------------------------------------------------------------------
(* The messages of a viewer. *)
LEMMA MessageMarks ==
  ASSUME Upright, MarkInvariant, NEW c \in Client, Messages(c)
  PROVE  MarkInvariant'
<1> USE ScreenType DEF MarkInvariant
<1>1. CASE Connect(c)
  <2>1. ServerType'
    BY <1>1 DEF Connect, ServerType, screen, viewer
  <2>2. WholeMarked'
    BY <1>1 DEF Connect, ServerType, WholeMarked, screen
  <2>3. SizeFollowed'
    BY <1>1 DEF Connect, ServerType, SizeFollowed, screen, viewer
  <2>4. StaleIsMarked'
    BY <1>1 DEF Connect, ServerType, StaleIsMarked, screen, viewer
  <2> QED
    BY <2>1, <2>2, <2>3, <2>4
<1>2. CASE ClientInit(c)
  <2>1. ServerType'
    BY <1>2 DEF ClientInit, ServerType, screen
  <2>2. WholeMarked'
    BY <1>2 DEF ClientInit, ServerType, WholeMarked, screen
  <2>3. SizeFollowed'
    BY <1>2 DEF ClientInit, ServerType, SizeFollowed, screen
  <2>4. StaleIsMarked'
    BY <1>2 DEF ClientInit, ServerType, StaleIsMarked, WholeMarked, screen
  <2> QED
    BY <2>1, <2>2, <2>3, <2>4
<1>3. CASE SetEncodings(c)
  <2>1. ServerType' /\ WholeMarked' /\ StaleIsMarked'
    BY <1>3 DEF SetEncodings, ServerType, WholeMarked, StaleIsMarked, screen, viewer
  <2>2. SizeFollowed'
    BY <1>3 DEF SetEncodings, ServerType, SizeFollowed, screen, viewer
  <2> QED
    BY <2>1, <2>2
<1>4. ASSUME NEW rect, NEW incremental, Request(c, rect, incremental) PROVE MarkInvariant'
  <2>1. /\ UNCHANGED <<dev, fb, rotation, status, useNewFBSize, newFBSizePending, deferring,
                       told, view>>
        /\ requested' = [requested EXCEPT ![c] = @ \cup Clip(rect)]
        /\ c \in Resizes => useNewFBSize[c]
    BY <1>4 DEF Request, screen, viewer
  <2>2. \A d \in Client : modified[d] \subseteq modified'[d]
    BY <1>4 DEF Request, ServerType
  <2>3. Clip(rect) \subseteq Int \X Int
    BY DEF Clip, ServerType
  <2>4. modified' \in [Client -> SUBSET (Int \X Int)]
    BY <1>4, <2>3 DEF Request, ServerType
  <2>5. ServerType'
    <3>1. requested' \in [Client -> SUBSET (Int \X Int)]
      BY <2>1, <2>3 DEF ServerType
    <3> QED
      BY <2>1, <2>4, <3>1 DEF ServerType
  <2>6. WholeMarked' /\ StaleIsMarked'
    BY <2>1, <2>2 DEF WholeMarked, StaleIsMarked
  <2>7. SizeFollowed'
    BY <2>1 DEF ServerType, SizeFollowed
  <2> QED
    BY <2>5, <2>6, <2>7
<1>5. CASE Rotate(c)
  <2>1. rotation = 0 /\ rotation' = 90
    BY <1>5 DEF Rotate, ServerType, Upright
  <2>2. /\ UNCHANGED <<dev, status, useNewFBSize, requested, deferring, told, view>>
        /\ \A d \in Client : newFBSizePending'[d] = (d \in OpenClients \/ newFBSizePending[d])
        /\ \A d \in Client : modified'[d] =
             modified[d] \cup IF d \in OpenClients THEN Screen(rotation') ELSE {}
    BY <1>5 DEF Rotate, AnnounceSize, MarkAll, viewer
  <2>3. newFBSizePending' \in [Client -> BOOLEAN]
    BY <1>5 DEF Rotate, AnnounceSize, ServerType
  <2>4. modified' \in [Client -> SUBSET (Int \X Int)]
    BY <1>5, <2>1 DEF Rotate, MarkAll, ServerType
  <2> HIDE DEF MarkInvariant
  <2>5. ServerType'
    <3>1. told \in [Client -> {0}]
      BY <2>1 DEF MarkInvariant, ServerType
    <3>2. told' \in [Client -> {0, rotation'}]
      BY <2>2, <3>1
    <3>3. dev' \in [Native -> Nat] /\ rotation' \in {0, 90}
      BY <2>1, <2>2 DEF MarkInvariant, ServerType
    <3>4. /\ status' \in [Client -> {"none", "handshake", "normal", "closed"}]
          /\ useNewFBSize' \in [Client -> BOOLEAN] /\ deferring' \in [Client -> BOOLEAN]
          /\ requested' \in [Client -> SUBSET (Int \X Int)]
          /\ view' = [d \in Client |-> view'[d]]
      BY <2>2 DEF MarkInvariant, ServerType
    <3> QED
      BY <2>3, <2>4, <3>2, <3>3, <3>4 DEF ServerType
  <2> USE DEF MarkInvariant
  <2>6. WholeMarked'
    BY <2>1, <2>2 DEF WholeMarked, Clients, OpenClients
  <2>7. SizeFollowed'
    BY <2>2 DEF SizeFollowed, Clients, OpenClients
  <2>8. StaleIsMarked'
    BY <2>1, <2>2 DEF StaleIsMarked, Clients, OpenClients
  <2> QED
    BY <2>5, <2>6, <2>7, <2>8
<1>6. CASE Hangup(c)
  BY <1>6 DEF Hangup, ServerType, WholeMarked, SizeFollowed, StaleIsMarked, screen, viewer
<1>7. CASE Shutdown(c)
  <2>1. /\ UNCHANGED <<screen, useNewFBSize, newFBSizePending, modified, requested, deferring,
                       viewer>>
        /\ \A d \in Client : status'[d] \in {"none", "closed"}
        /\ status' \in [Client -> {"none", "handshake", "normal", "closed"}]
    BY <1>7 DEF Shutdown, Clients, OpenClients, ServerType
  <2> QED
    BY <2>1 DEF ServerType, WholeMarked, SizeFollowed, StaleIsMarked, screen, viewer
<1> QED
  BY <1>1, <1>2, <1>3, <1>4, <1>5, <1>6, <1>7 DEF Messages

-----------------------------------------------------------------------------
(* The turn of a client in rfbProcessEvents. *)
LEMMA GoneMarks ==
  ASSUME MarkInvariant, NEW c \in Client, Gone(c), UNCHANGED screen
  PROVE  MarkInvariant'
<1> USE ScreenType DEF MarkInvariant
<1>1. ServerType'
  BY DEF Gone, ServerType, screen
<1>2. WholeMarked' /\ SizeFollowed'
  BY DEF Gone, ServerType, WholeMarked, SizeFollowed, screen
<1>3. StaleIsMarked'
  BY DEF Gone, ServerType, StaleIsMarked, screen
<1> QED
  BY <1>1, <1>2, <1>3

LEMMA SizeMarks ==
  ASSUME MarkInvariant, NEW c \in Client, UpdateDue(c), SendNewFBSize(c), UNCHANGED screen,
         deferring' = [deferring EXCEPT ![c] = FALSE]
  PROVE  MarkInvariant'
<1> USE ScreenType DEF MarkInvariant
<1>1. ServerType'
  <2>1. told' \in [Client -> {0, rotation}]
    BY DEF SendNewFBSize, ServerType
  <2>2. view' = [d \in Client |-> view'[d]]
    BY DEF SendNewFBSize, ServerType
  <2>3. /\ newFBSizePending' \in [Client -> BOOLEAN]
        /\ deferring' \in [Client -> BOOLEAN]
    BY DEF SendNewFBSize, ServerType
  <2>4. UNCHANGED <<dev, rotation, status, useNewFBSize, modified, requested>>
    BY DEF SendNewFBSize, screen
  <2> QED
    BY <2>1, <2>2, <2>3, <2>4 DEF ServerType
<1>2. Screen(rotation) \subseteq modified[c]
  BY DEF SendNewFBSize, UpdateDue, ServerType, WholeMarked, SizeFollowed
<1>3. WholeMarked' /\ SizeFollowed'
  BY DEF SendNewFBSize, ServerType, WholeMarked, SizeFollowed, screen
<1>4. StaleIsMarked'
  BY <1>2 DEF SendNewFBSize, ServerType, StaleIsMarked, screen
<1> QED
  BY <1>1, <1>3, <1>4

LEMMA PixelsMarks ==
  ASSUME MarkInvariant, NEW c \in Client, UpdateDue(c), SendPixels(c), UNCHANGED screen,
         deferring' = [deferring EXCEPT ![c] = FALSE]
  PROVE  MarkInvariant'
<1> USE ScreenType DEF MarkInvariant
<1> DEFINE region == modified[c] \cap requested[c]
<1>1. /\ UNCHANGED <<dev, fb, rotation, status, useNewFBSize, newFBSizePending, told>>
      /\ ~(useNewFBSize[c] /\ newFBSizePending[c])
      /\ modified' = [modified EXCEPT ![c] = @ \ region]
      /\ requested' = [requested EXCEPT ![c] = IF region = {} THEN @ ELSE {}]
      /\ view' = [view EXCEPT ![c] =
           [p \in Screen(told[c]) |->
              IF p \notin region THEN view[c][p]
              ELSE IF p \in Screen(rotation) THEN fb[p] ELSE Strange]]
  BY DEF SendPixels, screen
<1>2. ServerType'
  <2>1. modified' \in [Client -> SUBSET (Int \X Int)]
    BY <1>1 DEF ServerType
  <2>2. requested' \in [Client -> SUBSET (Int \X Int)]
    BY <1>1 DEF ServerType
  <2>3. view' = [d \in Client |-> view'[d]] /\ deferring' \in [Client -> BOOLEAN]
    BY <1>1 DEF ServerType
  <2> QED
    BY <1>1, <2>1, <2>2, <2>3 DEF ServerType
<1>3. c \in Resizes => ~newFBSizePending[c] /\ useNewFBSize[c]
  BY <1>1 DEF UpdateDue, ServerType, SizeFollowed
<1>4. WholeMarked'
  BY <1>1, <1>3 DEF UpdateDue, ServerType, WholeMarked
<1>5. SizeFollowed'
  BY <1>1, <1>3 DEF ServerType, SizeFollowed
<1>6. StaleIsMarked'
  <2> SUFFICES ASSUME NEW d \in Client, status[d] = "normal",
                      NEW p \in (Screen(told[d]) \cap Screen(rotation)) \ modified'[d]
               PROVE  view'[d][p] = fb[p]
    BY <1>1 DEF StaleIsMarked
  <2>1. CASE d # c
    BY <1>1, <2>1 DEF ServerType, StaleIsMarked
  <2>2. CASE d = c /\ p \in region
    BY <1>1, <2>2 DEF ServerType
  <2>3. CASE d = c /\ p \notin region
    BY <1>1, <2>3 DEF ServerType, StaleIsMarked
  <2> QED
    BY <2>1, <2>2, <2>3
<1> QED
  BY <1>2, <1>4, <1>5, <1>6

LEMMA VisitMarks ==
  ASSUME MarkInvariant, NEW c \in Client, Visit(c)
  PROVE  MarkInvariant'
<1>1. UNCHANGED screen
  BY DEF Visit
<1>2. ASSUME UNCHANGED <<client, viewer>> PROVE MarkInvariant'
  BY <1>1, <1>2 DEF MarkInvariant, ServerType, WholeMarked, SizeFollowed, StaleIsMarked, screen,
                    client, viewer
<1>3. ASSUME UpdateDue(c),
             deferring' = [deferring EXCEPT ![c] = TRUE],
             UNCHANGED <<status, useNewFBSize, newFBSizePending, modified, requested, viewer>>
      PROVE  MarkInvariant'
  BY <1>1, <1>3 DEF MarkInvariant, ServerType, WholeMarked, SizeFollowed, StaleIsMarked, screen,
                    viewer, UpdateDue
<1> QED
  BY <1>1, <1>2, <1>3, GoneMarks, SizeMarks, PixelsMarks DEF Visit, Update

-----------------------------------------------------------------------------
(* update_screen marks every pixel it changes. *)
LEMMA GrabMarks ==
  ASSUME Upright, MarkInvariant, Grab
  PROVE  MarkInvariant'
<1> USE ScreenType DEF MarkInvariant
<1>1. /\ UNCHANGED <<dev, rotation, status, useNewFBSize, newFBSizePending, requested,
                     deferring, told, view>>
      /\ rotation \in {0, 90} /\ Turned(rotation) = rotation
  BY DEF Grab, ServerType, Upright, Turned, viewer
<1>2. CASE Clients = {}
  BY <1>1, <1>2 DEF Grab, ServerType, WholeMarked, SizeFollowed, StaleIsMarked
<1>3. CASE Clients # {}
  <2> DEFINE changed == Changed(rotation)
  <2>1. /\ fb' = IF changed = {} THEN fb
                 ELSE [p \in Screen(rotation) |->
                         [at |-> Source(rotation, p), ver |-> dev[Source(rotation, p)]]]
        /\ MarkAll(Box(rotation, changed))
    BY <1>1, <1>3 DEF Grab
  <2>2. /\ modified' \in [Client -> SUBSET (Int \X Int)]
        /\ \A c \in Client : modified[c] \subseteq modified'[c]
        /\ \A c \in OpenClients : modified'[c] = modified[c] \cup Box(rotation, changed)
    BY <1>1, <2>1 DEF MarkAll, Box, ServerType, Clients, OpenClients
  <2>3. ServerType'
    BY <1>1, <2>2 DEF ServerType
  <2>4. WholeMarked' /\ SizeFollowed'
    BY <1>1, <2>2 DEF WholeMarked, SizeFollowed
  <2>5. StaleIsMarked'
    <3> SUFFICES ASSUME NEW c \in Client, status[c] = "normal",
                        NEW p \in (Screen(told[c]) \cap Screen(rotation)) \ modified'[c]
                 PROVE  view[c][p] = fb'[p]
      BY <1>1 DEF StaleIsMarked
    <3>1. p \notin modified[c] /\ p \notin Box(rotation, changed)
      BY <2>2 DEF Clients, OpenClients
    <3>2. view[c][p] = fb[p]
      BY <3>1 DEF StaleIsMarked
    <3>3. Source(rotation, p) \in Native /\ Pos(rotation, Source(rotation, p)) = p
      BY <1>1, SourceOnScreen
    <3>4. Source(rotation, p) \notin changed
      BY <1>1, <3>1, ChangedIsInBox
    <3>5. fb[p] = [at |-> Source(rotation, p), ver |-> dev[Source(rotation, p)]]
      BY <1>1, <3>3, <3>4 DEF Changed
    <3> QED
      BY <2>1, <3>2, <3>5
  <2> QED
    BY <2>3, <2>4, <2>5
<1> QED
  BY <1>2, <1>3

-----------------------------------------------------------------------------
LEMMA NextMarks == ASSUME Upright, MarkInvariant, [Next]_vars PROVE MarkInvariant'
<1>1. ASSUME NEW n \in DrawAt, Draw(n) PROVE MarkInvariant'
  <2>1. UNCHANGED <<fb, rotation, client, viewer>> /\ dev' = [dev EXCEPT ![n] = @ + 1]
    BY <1>1 DEF Draw
  <2>2. dev' \in [Native -> Nat]
    <3>1. dev \in [Native -> Nat]
      BY DEF MarkInvariant, ServerType
    <3>2. \A m \in Native : dev[m] \in Nat /\ dev[m] + 1 \in Nat
      BY <3>1
    <3>3. dev' = [m \in Native |-> IF m = n THEN dev[n] + 1 ELSE dev[m]]
      BY <2>1, <3>1
    <3> QED
      BY <3>2, <3>3
  <2> QED
    BY <2>1, <2>2 DEF MarkInvariant, ServerType, WholeMarked, SizeFollowed, StaleIsMarked,
                      client, viewer
<1>2. ASSUME UNCHANGED <<screen, client, viewer>> PROVE MarkInvariant'
  BY <1>2 DEF MarkInvariant, ServerType, WholeMarked, SizeFollowed, StaleIsMarked, screen,
              client, viewer
<1>3. CASE CheckTimeout
  BY <1>2, <1>3 DEF CheckTimeout
<1>4. CASE UNCHANGED vars
  BY <1>2, <1>4 DEF vars
<1> QED
  BY <1>1, <1>3, <1>4, MessageMarks, VisitMarks, GrabMarks DEF Next

(* In the orientations 0 and 90 no change of the screen is ever lost: for every
   size of the screen, every number of viewers, whatever they ask for, turn, or
   hang up, and however often the device draws in between, a viewer's picture
   differs from the buffer only where its modifiedRegion says so. *)
THEOREM NoUpdateIsLost == ASSUME Upright PROVE Spec => []StaleIsMarked
<1>1. MarkInvariant => StaleIsMarked
  BY DEF MarkInvariant
<1> QED
  BY <1>1, InitMarked, NextMarks, PTL DEF Spec
-----------------------------------------------------------------------------
(* Types, in all four orientations and with option -z too.  What could go out of
   range is a pixel: rotate reads the buffer in rows of another width, update_screen
   reads the device at a turned position, and a viewer's picture has the size the
   viewer was told, which need not be that of the screen. *)
Orientation == {0, 90, 180, 270}

LEMMA RowOrder ==
  ASSUME NEW w \in Nat \ {0}, NEW h \in Nat \ {0}, NEW x \in 0..w - 1, NEW y \in 0..h - 1
  PROVE  y * w + x \in 0..w * h - 1
<1>1. y * w <= (h - 1) * w
  OBVIOUS
<1>2. (h - 1) * w = w * h - w /\ y * w \in Nat
  OBVIOUS
<1> QED
  BY <1>1, <1>2

LEMMA RowAndColumn ==
  ASSUME NEW w \in Nat \ {0}, NEW h \in Nat \ {0}, NEW k \in 0..w * h - 1
  PROVE  k % w \in 0..w - 1 /\ k \div w \in 0..h - 1
<1> DEFINE q == k \div w
<1>1. k % w \in 0..w - 1 /\ q \in Nat /\ k = q * w + (k % w)
  OBVIOUS
<1> HIDE DEF q
<1>2. q < h
  <2>1. SUFFICES ASSUME q >= h PROVE FALSE
    BY <1>1
  <2>2. q * w >= h * w
    BY <1>1, <2>1
  <2>3. h * w = w * h /\ w * h \in Nat
    OBVIOUS
  <2> QED
    BY <1>1, <2>2, <2>3
<1> QED
  BY <1>1, <1>2 DEF q

(* Every orientation has as many pixels as every other. *)
LEMMA SamePixels ==
  ASSUME NEW r \in Orientation, NEW s \in Orientation
  PROVE  /\ Width(r) \in Nat \ {0} /\ Height(r) \in Nat \ {0}
         /\ Width(r) * Height(r) = Width(s) * Height(s)
BY SizeType DEF Orientation, Width, Height

LEMMA RestrideType ==
  ASSUME NEW r \in Orientation, NEW s \in Orientation, fb \in [Screen(r) -> Content]
  PROVE  Restride(r, s) \in [Screen(s) -> Content]
<1> SUFFICES ASSUME NEW p \in Screen(s)
             PROVE  LET k == p[2] * Width(s) + p[1]
                    IN  fb[<<k % Width(r), k \div Width(r)>>] \in Content
  BY DEF Restride
<1> DEFINE k == p[2] * Width(s) + p[1]
<1>1. p[1] \in 0..Width(s) - 1 /\ p[2] \in 0..Height(s) - 1
  BY DEF Screen
<1>2. k \in 0..Width(s) * Height(s) - 1
  BY <1>1, SamePixels, RowOrder
<1>3. k \in 0..Width(r) * Height(r) - 1
  BY <1>2, SamePixels
<1> HIDE DEF k
<1>4. k % Width(r) \in 0..Width(r) - 1 /\ k \div Width(r) \in 0..Height(r) - 1
  BY <1>3, SamePixels, RowAndColumn
<1>5. <<k % Width(r), k \div Width(r)>> \in Screen(r)
  BY <1>4 DEF Screen
<1> QED
  BY <1>5 DEF k

LEMMA TurnedSource ==
  ASSUME rotation \in Orientation, Turned(rotation) \in Orientation,
         NEW p \in Screen(rotation)
  PROVE  Source(Turned(rotation), p) \in Native
<1>1. p[1] \in 0..Width(rotation) - 1 /\ p[2] \in 0..Height(rotation) - 1
  BY DEF Screen
<1>2. Turned(rotation) = rotation \/ Turned(rotation) = rotation + 180
  BY DEF Turned
<1>3. Width(Turned(rotation)) = Width(rotation) /\ Height(Turned(rotation)) = Height(rotation)
  BY <1>2 DEF Orientation, Width, Height
<1>4. CASE rotation \in {0, 180}
  <2>1. Width(rotation) = W /\ Height(rotation) = H /\ Turned(rotation) \in {0, 180}
    BY <1>2, <1>4 DEF Orientation, Width, Height
  <2>2. CASE Turned(rotation) = 0
    BY <1>1, <2>1, <2>2 DEF Source, Native, Screen
  <2>3. CASE Turned(rotation) = 180
    <3>1. Source(180, p) = <<W - 1 - p[1], H - 1 - p[2]>>
      BY DEF Source, Width, Height
    <3>2. W - 1 - p[1] \in 0..W - 1 /\ H - 1 - p[2] \in 0..H - 1
      BY <1>1, <2>1, SizeType
    <3> QED
      BY <2>3, <3>1, <3>2 DEF Native
  <2> QED
    BY <2>1, <2>2, <2>3
<1>5. CASE rotation \in {90, 270}
  <2>1. Width(rotation) = H /\ Height(rotation) = W /\ Turned(rotation) \in {90, 270}
    BY <1>2, <1>5 DEF Orientation, Width, Height
  <2>2. CASE Turned(rotation) = 90
    <3>1. Source(90, p) = <<p[2], H - 1 - p[1]>>
      BY DEF Source, Width
    <3>2. p[2] \in 0..W - 1 /\ H - 1 - p[1] \in 0..H - 1
      BY <1>1, <2>1, SizeType
    <3> QED
      BY <2>2, <3>1, <3>2 DEF Native
  <2>3. CASE Turned(rotation) = 270
    <3>1. Source(270, p) = <<W - 1 - p[2], p[1]>>
      BY DEF Source, Height
    <3>2. W - 1 - p[2] \in 0..W - 1 /\ p[1] \in 0..H - 1
      BY <1>1, <2>1, SizeType
    <3> QED
      BY <2>3, <3>1, <3>2 DEF Native
  <2> QED
    BY <2>1, <2>2, <2>3
<1> QED
  BY <1>4, <1>5 DEF Orientation

(* The type invariant in the parts the steps change; view is a function of the
   clients, which TypeOK says of its values only. *)
DeviceTypes ==
  /\ dev \in [Native -> 0..MaxVersion]
  /\ rotation \in Rotations /\ fb \in [Screen(rotation) -> Content]
ClientTypes ==
  /\ status \in [Client -> {"none", "handshake", "normal", "closed"}]
  /\ useNewFBSize \in [Client -> BOOLEAN] /\ newFBSizePending \in [Client -> BOOLEAN]
  /\ modified \in [Client -> SUBSET Plane] /\ requested \in [Client -> SUBSET Plane]
  /\ deferring \in [Client -> BOOLEAN]
ViewTypes ==
  /\ told \in [Client -> Orientation] /\ view = [c \in Client |-> view[c]]
  /\ \A c \in Client : view[c] \in [Screen(told[c]) -> Content]
LoopTypes ==
  /\ listening \in BOOLEAN
  /\ phase \in {"select", "clients"} /\ todo \in SUBSET Client
  /\ waited \in BOOLEAN /\ connects \in 0..MaxConnect
ServerTyped == DeviceTypes /\ ClientTypes /\ ViewTypes /\ LoopTypes

LEMMA TypedIsTypeOK == ServerTyped => TypeOK
BY DEF ServerTyped, DeviceTypes, ClientTypes, ViewTypes, LoopTypes, TypeOK, Orientation

LEMMA ContentTypes ==
  /\ Unshown \in Content /\ Strange \in Content /\ Black \in Content
  /\ \A r \in Orientation : Empty(r) \in [Screen(r) -> Content]
  /\ \A n \in Native, v \in 0..MaxVersion : [at |-> n, ver |-> v] \in Content
BY DEF Content, Empty

LEMMA PlaneTypes ==
  /\ Rotations \subseteq Orientation
  /\ \A r \in Rotations : Screen(r) \subseteq Plane
  /\ rotation \in Rotations =>
       \A rect : Clip(rect) \subseteq Plane /\ \A r, S : Box(r, S) \subseteq Plane
<1>1. \A r \in Rotations : Screen(r) \subseteq Plane
  BY DEF Plane
<1> QED
  BY <1>1, VncAssumption DEF Orientation, Clip, Box

LEMMA InitTyped == Init => ServerTyped
<1> SUFFICES ASSUME Init PROVE ServerTyped
  OBVIOUS
<1>1. DeviceTypes
  <2>1. rotation \in Rotations /\ 0 \in 0..MaxVersion
    BY VncAssumption DEF Init
  <2> QED
    BY <2>1, ContentTypes DEF Init, DeviceTypes
<1>2. ClientTypes
  BY DEF Init, ClientTypes
<1>3. ViewTypes
  <2>1. 0 \in Orientation
    BY DEF Orientation
  <2>2. told = [c \in Client |-> 0] /\ view = [c \in Client |-> Empty(0)]
    BY DEF Init
  <2> QED
    BY <2>1, <2>2, ContentTypes DEF ViewTypes
<1>4. LoopTypes
  <2>1. 0 \in 0..MaxConnect
    BY VncAssumption
  <2> QED
    BY <2>1 DEF Init, LoopTypes
<1> QED
  BY <1>1, <1>2, <1>3, <1>4 DEF ServerTyped

(* A viewer's picture always has the size the viewer was told. *)
LEMMA ViewStep ==
  ASSUME ViewTypes, NEW c \in Client, NEW r \in Orientation, NEW picture \in [Screen(r) -> Content],
         told' = [told EXCEPT ![c] = r], view' = [view EXCEPT ![c] = picture]
  PROVE  ViewTypes'
<1>1. told' \in [Client -> Orientation] /\ view' = [d \in Client |-> view'[d]]
  BY DEF ViewTypes
<1>2. ASSUME NEW d \in Client PROVE view'[d] \in [Screen(told'[d]) -> Content]
  <2>1. CASE d = c
    BY <2>1 DEF ViewTypes
  <2>2. CASE d # c
    <3>1. told'[d] = told[d] /\ view'[d] = view[d]
      BY <2>2 DEF ViewTypes
    <3> QED
      BY <3>1 DEF ViewTypes
  <2> QED
    BY <2>1, <2>2
<1> QED
  BY <1>1, <1>2 DEF ViewTypes

LEMMA MessageTyped ==
  ASSUME ServerTyped, NEW c \in Client, Messages(c)
  PROVE  ServerTyped'
<1> USE DEF ServerTyped
<1>1. CASE Connect(c)
  <2>1. DeviceTypes' /\ ViewTypes'
    BY <1>1 DEF Connect, DeviceTypes, ViewTypes, screen, viewer
  <2>2. ClientTypes'
    BY <1>1, PlaneTypes DEF Connect, DeviceTypes, ClientTypes
  <2>3. LoopTypes'
    <3>1. connects' \in 0..MaxConnect
      BY <1>1, VncAssumption DEF Connect, LoopTypes
    <3>2. todo' \in SUBSET Client /\ phase' \in {"select", "clients"} /\ waited' \in BOOLEAN
      BY <1>1 DEF Connect, EndCheckFds, LoopTypes, loop
    <3> QED
      BY <1>1, <3>1, <3>2 DEF Connect, LoopTypes
  <2> QED
    BY <2>1, <2>2, <2>3
<1>2. CASE ClientInit(c)
  <2>1. DeviceTypes' /\ LoopTypes'
    BY <1>2 DEF ClientInit, DeviceTypes, LoopTypes, screen, loop
  <2>2. ClientTypes'
    BY <1>2 DEF ClientInit, ClientTypes
  <2>3. rotation \in Orientation
    BY PlaneTypes DEF DeviceTypes
  <2>4. ViewTypes'
    BY <1>2, <2>3, ContentTypes, ViewStep DEF ClientInit
  <2> QED
    BY <2>1, <2>2, <2>4
<1>3. CASE SetEncodings(c)
  <2>1. DeviceTypes' /\ ViewTypes' /\ LoopTypes'
    BY <1>3 DEF SetEncodings, DeviceTypes, ViewTypes, LoopTypes, screen, viewer, loop
  <2>2. ClientTypes'
    BY <1>3 DEF SetEncodings, ClientTypes
  <2> QED
    BY <2>1, <2>2
<1>4. ASSUME NEW rect, NEW incremental, Request(c, rect, incremental) PROVE ServerTyped'
  <2>1. DeviceTypes' /\ ViewTypes' /\ LoopTypes'
    BY <1>4 DEF Request, DeviceTypes, ViewTypes, LoopTypes, screen, viewer, loop
  <2>2. Clip(rect) \subseteq Plane
    BY PlaneTypes DEF DeviceTypes
  <2>3. modified' \in [Client -> SUBSET Plane] /\ requested' \in [Client -> SUBSET Plane]
    BY <1>4, <2>2 DEF Request, ClientTypes
  <2>4. ClientTypes'
    BY <1>4, <2>3 DEF Request, ClientTypes
  <2> QED
    BY <2>1, <2>4
<1>5. CASE Rotate(c)
  <2>1. rotation \in Orientation /\ rotation' \in Rotations /\ rotation' \in Orientation
    BY <1>5, PlaneTypes DEF Rotate, DeviceTypes
  <2>2. DeviceTypes'
    <3>1. fb' \in [Screen(rotation') -> Content]
      BY <1>5, <2>1, RestrideType DEF Rotate, DeviceTypes
    <3> QED
      BY <1>5, <2>1, <3>1 DEF Rotate, DeviceTypes
  <2>3. ClientTypes'
    <3>1. Screen(rotation') \subseteq Plane
      BY <2>1, PlaneTypes
    <3>2. modified' \in [Client -> SUBSET Plane]
      BY <1>5, <3>1 DEF Rotate, MarkAll, ClientTypes
    <3>3. newFBSizePending' \in [Client -> BOOLEAN]
      BY <1>5 DEF Rotate, AnnounceSize, ClientTypes
    <3>4. UNCHANGED <<status, useNewFBSize, requested, deferring>>
      BY <1>5 DEF Rotate
    <3> QED
      BY <3>2, <3>3, <3>4 DEF ClientTypes
  <2>4. ViewTypes' /\ LoopTypes'
    BY <1>5 DEF Rotate, ViewTypes, LoopTypes, viewer, loop
  <2> QED
    BY <2>2, <2>3, <2>4
<1>6. CASE Hangup(c)
  BY <1>6 DEF Hangup, DeviceTypes, ClientTypes, ViewTypes, LoopTypes, screen, viewer, loop
<1>7. CASE Shutdown(c)
  <2>1. DeviceTypes' /\ ViewTypes' /\ LoopTypes'
    BY <1>7 DEF Shutdown, DeviceTypes, ViewTypes, LoopTypes, screen, viewer, loop
  <2>2. ClientTypes'
    BY <1>7 DEF Shutdown, ClientTypes
  <2> QED
    BY <2>1, <2>2
<1> QED
  BY <1>1, <1>2, <1>3, <1>4, <1>5, <1>6, <1>7 DEF Messages

LEMMA SendTyped ==
  ASSUME ServerTyped, NEW c \in Client, SendNewFBSize(c) \/ SendPixels(c),
         deferring' = [deferring EXCEPT ![c] = FALSE]
  PROVE  ClientTypes' /\ ViewTypes'
<1> USE DEF ServerTyped
<1>1. told[c] \in Orientation /\ rotation \in Orientation
      /\ view[c] \in [Screen(told[c]) -> Content] /\ fb \in [Screen(rotation) -> Content]
  BY PlaneTypes DEF ViewTypes, DeviceTypes
<1>2. CASE SendNewFBSize(c)
  <2>1. ClientTypes'
    BY <1>2 DEF SendNewFBSize, ClientTypes
  <2> DEFINE picture == IF Screen(told[c]) = Screen(rotation) THEN view[c] ELSE Empty(rotation)
  <2>2. picture \in [Screen(rotation) -> Content]
    BY <1>1, ContentTypes
  <2>3. told' = [told EXCEPT ![c] = rotation] /\ view' = [view EXCEPT ![c] = picture]
    BY <1>2 DEF SendNewFBSize
  <2> QED
    BY <1>1, <2>1, <2>2, <2>3, ViewStep
<1>3. CASE SendPixels(c)
  <2> DEFINE region == modified[c] \cap requested[c]
             picture == [p \in Screen(told[c]) |->
                           IF p \notin region THEN view[c][p]
                           ELSE IF p \in Screen(rotation) THEN fb[p] ELSE Strange]
  <2>1. ClientTypes'
    BY <1>3 DEF SendPixels, ClientTypes
  <2>2. picture \in [Screen(told[c]) -> Content]
    BY <1>1, ContentTypes
  <2>3. told' = [told EXCEPT ![c] = told[c]] /\ view' = [view EXCEPT ![c] = picture]
    BY <1>3 DEF SendPixels, ViewTypes
  <2> QED
    BY <1>1, <2>1, <2>2, <2>3, ViewStep
<1> QED
  BY <1>2, <1>3

LEMMA VisitTyped ==
  ASSUME ServerTyped, NEW c \in Client, Visit(c)
  PROVE  ServerTyped'
<1> USE DEF ServerTyped
<1>1. DeviceTypes' /\ LoopTypes'
  BY DEF Visit, DeviceTypes, LoopTypes, screen
<1>2. ASSUME Gone(c) PROVE ClientTypes' /\ ViewTypes'
  <2>1. ClientTypes'
    BY <1>2 DEF Gone, ClientTypes
  <2>2. 0 \in Orientation
    BY DEF Orientation
  <2>3. ViewTypes'
    BY <1>2, <2>2, ContentTypes, ViewStep DEF Gone
  <2> QED
    BY <2>1, <2>3
<1>3. ASSUME UNCHANGED <<client, viewer>> PROVE ClientTypes' /\ ViewTypes'
  BY <1>3 DEF ClientTypes, ViewTypes, client, viewer
<1>4. ASSUME deferring' = [deferring EXCEPT ![c] = TRUE],
             UNCHANGED <<status, useNewFBSize, newFBSizePending, modified, requested, viewer>>
      PROVE  ClientTypes' /\ ViewTypes'
  BY <1>4 DEF ClientTypes, ViewTypes, viewer
<1> QED
  BY <1>1, <1>2, <1>3, <1>4, SendTyped DEF Visit, Update

LEMMA GrabTyped == ASSUME ServerTyped, Grab PROVE ServerTyped'
<1> USE DEF ServerTyped
<1>1. ViewTypes' /\ LoopTypes'
  BY DEF Grab, ViewTypes, LoopTypes, viewer
<1>2. rotation \in Orientation
  BY PlaneTypes DEF DeviceTypes
<1>3. DeviceTypes'
  <2>1. CASE fb' = fb
    BY <2>1 DEF Grab, DeviceTypes
  <2>2. CASE fb' # fb
    <3> DEFINE r == Turned(rotation)
    <3>1. /\ Changed(r) # {}
          /\ fb' = [p \in Screen(rotation) |-> [at |-> Source(r, p), ver |-> dev[Source(r, p)]]]
      BY <2>2 DEF Grab
    <3>2. r \in Orientation
      BY <3>1 DEF Changed, Orientation
    <3>3. \A p \in Screen(rotation) : Source(r, p) \in Native
      BY <1>2, <3>2, TurnedSource
    <3>4. \A p \in Screen(rotation) : [at |-> Source(r, p), ver |-> dev[Source(r, p)]] \in Content
      BY <3>3, ContentTypes DEF DeviceTypes
    <3>5. fb' \in [Screen(rotation) -> Content]
      BY <3>1, <3>4
    <3> QED
      BY <3>5 DEF Grab, DeviceTypes
  <2> QED
    BY <2>1, <2>2
<1>4. ClientTypes'
  <2>1. CASE UNCHANGED modified
    BY <2>1 DEF Grab, ClientTypes
  <2>2. ASSUME NEW rect \in SUBSET Plane, MarkAll(rect) PROVE modified' \in [Client -> SUBSET Plane]
    BY <2>2 DEF MarkAll, ClientTypes
  <2>3. \A r, S : Box(r, S) \subseteq Plane
    BY PlaneTypes DEF DeviceTypes
  <2>4. modified' \in [Client -> SUBSET Plane]
    BY <2>1, <2>2, <2>3 DEF Grab, ClientTypes
  <2> QED
    BY <2>4 DEF Grab, ClientTypes
<1> QED
  BY <1>1, <1>3, <1>4

LEMMA NextTyped == ServerTyped /\ [Next]_vars => ServerTyped'
<1> SUFFICES ASSUME ServerTyped, [Next]_vars PROVE ServerTyped'
  OBVIOUS
<1>1. ASSUME NEW n \in DrawAt, Draw(n) PROVE ServerTyped'
  <2>1. ClientTypes' /\ ViewTypes' /\ LoopTypes'
    BY <1>1 DEF Draw, ServerTyped, ClientTypes, ViewTypes, LoopTypes, client, viewer, loop
  <2>2. dev \in [Native -> 0..MaxVersion] /\ n \in Native
    BY VncAssumption DEF ServerTyped, DeviceTypes, Native
  <2>3. dev[n] + 1 \in 0..MaxVersion
    BY <1>1, <2>2, VncAssumption DEF Draw
  <2>4. dev' \in [Native -> 0..MaxVersion]
    BY <1>1, <2>2, <2>3 DEF Draw
  <2> QED
    BY <1>1, <2>1, <2>4 DEF Draw, ServerTyped, DeviceTypes
<1>2. CASE CheckTimeout
  <2>1. LoopTypes'
    BY <1>2 DEF CheckTimeout, EndCheckFds, ServerTyped, LoopTypes
  <2> QED
    BY <1>2, <2>1 DEF CheckTimeout, ServerTyped, DeviceTypes, ClientTypes, ViewTypes, screen,
                      client, viewer
<1>3. CASE UNCHANGED vars
  BY <1>3 DEF vars, ServerTyped, DeviceTypes, ClientTypes, ViewTypes, LoopTypes, screen, client,
              viewer, loop
<1> QED
  BY <1>1, <1>2, <1>3, MessageTyped, VisitTyped, GrabTyped DEF Next

(* TypeOK holds in every orientation, option -z included: whatever the viewers ask
   for and however the screen turns, no pixel is read outside of the buffer or the
   device, no region leaves the screens, and every picture has the size its viewer
   was told. *)
THEOREM ServerTypes == Spec => []TypeOK
BY InitTyped, NextTyped, TypedIsTypeOK, PTL DEF Spec
=============================================================================

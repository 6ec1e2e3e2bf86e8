----------------------------- MODULE VncMirror -----------------------------
(***************************************************************************)
(* What the remote-control server promises a viewer, without its buffers,  *)
(* regions and timers: the picture on the viewer's screen shows, for every *)
(* pixel of the device, nothing at all or a content that pixel really had, *)
(* it may lag behind the device, and while the picture keeps its size it   *)
(* never goes back to an older content.                                    *)
(***************************************************************************)
EXTENDS Integers

CONSTANTS Pixel, Viewer

NotShown == -1

VARIABLES
  dev,    \* how often the content of a pixel of the device has changed
  shown   \* per viewer and pixel: the content on the viewer's screen
vars == <<dev, shown>>

Init ==
  /\ dev = [n \in Pixel |-> 0]
  /\ shown = [c \in Viewer |-> [n \in Pixel |-> NotShown]]

Change(n) ==
  /\ dev' = [dev EXCEPT ![n] = @ + 1]
  /\ UNCHANGED shown

(* An update: any of the pixels move forward, none beyond the device. *)
Forward(c) ==
  /\ \A n \in Pixel :
       \/ shown'[c][n] = shown[c][n]
       \/ shown'[c][n] \in 0..dev[n] /\ shown[c][n] <= shown'[c][n]
  /\ UNCHANGED dev

(* The viewer starts again with an empty picture: it connects, leaves, or is
   told another size. *)
Blank(c) ==
  /\ shown'[c] = [n \in Pixel |-> NotShown]
  /\ UNCHANGED dev

Others(c) == \A d \in Viewer \ {c} : shown'[d] = shown[d]

Next ==
  \/ \E n \in Pixel : Change(n)
  \/ \E c \in Viewer : (Forward(c) \/ Blank(c)) /\ Others(c)
  \/ /\ shown' \in [Viewer -> [Pixel -> {NotShown}]]   \* the server closes down
     /\ UNCHANGED dev

Spec == Init /\ [][Next]_vars
=============================================================================

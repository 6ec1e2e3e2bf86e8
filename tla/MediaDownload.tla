---------------------------- MODULE MediaDownload ----------------------------
(***************************************************************************)
(* What the download of a media file promises to the program that needs    *)
(* it, without its parts, records and threads: the file is written while   *)
(* a download runs, what has been written stays, through failures and      *)
(* crashes too, and only a download that has every byte returns true and   *)
(* is marked complete.                                                     *)
(***************************************************************************)
CONSTANTS Position

VARIABLES
  have,      \* the positions that hold the server's byte
  flagged,   \* the complete flag is there
  at         \* the downloading thread: "idle", "busy", "returned"
vars == <<have, flagged, at>>

Init == have = {} /\ flagged = FALSE /\ at = "idle"

Ask == at = "idle" /\ ~flagged /\ at' = "busy" /\ UNCHANGED <<have, flagged>>

Fetch ==
  /\ at = "busy"
  /\ have \subseteq have' /\ have' \subseteq Position
  /\ UNCHANGED <<flagged, at>>

Return == at = "busy" /\ have = Position /\ at' = "returned" /\ UNCHANGED <<have, flagged>>

Mark == at = "returned" /\ at' = "idle" /\ flagged' = TRUE /\ UNCHANGED have

Break == at # "idle" /\ at' = "idle" /\ UNCHANGED <<have, flagged>>

Next == Ask \/ Fetch \/ Return \/ Mark \/ Break

Spec == Init /\ [][Next]_vars
=============================================================================

-------------------------- MODULE MCProgramDownload --------------------------
(* Two programs with a media file in common: p is live and comes in three versions,
   the third by a Publish; q is an inserted one. *)
EXTENDS ProgramDownload
CONSTANTS a1, a2, a3, b1, p, q, r, s

Three_Item == {a1, a2, a3, b1}
Three_pid == [t \in Three_Item |-> IF t = b1 THEN q ELSE p]
Three_ver == [t \in Three_Item |-> IF t = a3 THEN 3 ELSE IF t = a2 THEN 2 ELSE 1]
Three_res == [t \in Three_Item |-> IF t = a2 THEN {r, s} ELSE {r}]
=============================================================================

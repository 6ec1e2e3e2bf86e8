--------------------------- MODULE MCPlayerControl ---------------------------
(* Small instances of PlayerControl: which programs exist and what the server
   sends.  l1, l2 are live programs, l1b a new version of l1; i1 is an inserted one,
   i1b a new version of it; lp is a loop playlist of the programs m1 and m2, lp2 a
   new version of it. *)
EXTENDS PlayerControl, TLC
CONSTANTS l1, l2, l1b, i1, i1b, lp, lp2, m1, m2

NoTasks == {}
NoLoops == [e \in {} |-> <<>>]
AnyWindow == SUBSET Task
AllOpen == {Task}

(* A live and an inserted program; a new version of the inserted one comes as a
   live program, or the user opens the list of programs.  At most one of the three is
   outside its window.  After a command of the server one message waits behind the one
   that is handled, otherwise two. *)
Update_Task == {l1, i1, i1b}
Update_pid == [t \in Update_Task |-> IF t = l1 THEN 1 ELSE 3]
Update_rank == [t \in Update_Task |-> IF t = l1 THEN -1 ELSE 0]
Update_Held == {l1, i1}
Update_HeldInsert == {i1}
Update_Command == {[type |-> "LivePlay", items |-> <<i1b>>]}
AllButOne == {w \in SUBSET Task : \A t, u \in Task \ w : t = u}
MenuOrNews ==
  /\ used.menu > 0 => used.sent = {} /\ runnable = Task
  /\ used.control > 0 => Len(queue) <= 1

(* Two live programs and an inserted one, no program commands. *)
Plain_Task == {l1, l2, i1}
Plain_pid == [t \in Plain_Task |-> IF t = l1 THEN 1 ELSE IF t = l2 THEN 2 ELSE 3]
Plain_rank == [t \in Plain_Task |-> IF t = l1 THEN -2 ELSE IF t = l2 THEN -1 ELSE 0]
Plain_HeldInsert == {i1}

(* A loop of two programs and a live program with local resources.  Either the server
   sends new versions of both, the loop then with one program, or a Publish without
   programs, which a change of screen or a stop may meet, or a download finishes.  The
   slots of the loop threads are interchangeable. *)
Loop_Task == {lp, lp2, m1, m2, l1, l1b}
Loop_pid == [t \in Loop_Task |-> IF t \in {lp, lp2} THEN 0 ELSE IF t = m1 THEN 4
                                  ELSE IF t = m2 THEN 5 ELSE 1]
Loop_rank == [t \in Loop_Task |-> IF t = lp THEN -1 ELSE 0]
Loop_Entry == {lp, lp2}
Loop_member == [e \in Loop_Entry |-> IF e = lp THEN <<m1, m2>> ELSE <<m1>>]
Loop_Local == {l1, l1b}
Loop_Held == {lp, l1}
NewVersions == [type |-> "LivePlay", items |-> <<lp2, l1b>>]
Loop_Command == {NewVersions, [type |-> "Publish", items |-> <<>>]}
VersionsOrControl ==
  /\ NewVersions \in used.sent => used.control = 0 /\ used.sent = {NewVersions}
  /\ used.download > 0 => used.control = 0 /\ used.sent = {}
SlotSymmetry == Permutations(Slot)
=============================================================================

------------------------------- MODULE Playout -------------------------------
(***************************************************************************)
(* What the play-out controller promises, without its monitor, its threads *)
(* and its scripts: it schedules one version of each program, live or      *)
(* inserted, and puts a program in play only while that version is         *)
(* scheduled, or because a change of screen asked for it.                  *)
(***************************************************************************)
CONSTANTS Id, Version, NoVersion

List == {"live", "inserted"}
Slots == Version \X List

VARIABLES
  scheduled,   \* per program: its versions in the lists
  requested,   \* the target of the change of screen being looked at
  playing      \* the version in play
vars == <<scheduled, requested, playing>>

Init ==
  /\ scheduled \in [Id -> SUBSET Slots]
  /\ \A i \in Id : \A x, y \in scheduled[i] : x = y
  /\ requested = NoVersion /\ playing = NoVersion

(* A command brings a version: it replaces any other, in either list. *)
Deliver(i, x) ==
  /\ UNCHANGED <<requested, playing>>
  /\ scheduled' = [scheduled EXCEPT ![i] = {x}]

(* A Publish withdraws everything. *)
Withdraw ==
  /\ scheduled' = [i \in Id |-> {}]
  /\ UNCHANGED <<requested, playing>>

(* Programs end: live ones leave the schedule, inserted ones stay. *)
Expire ==
  /\ UNCHANGED <<requested, playing>>
  /\ scheduled' = [i \in Id |-> scheduled'[i]]
  /\ \A i \in Id : scheduled'[i] \in {scheduled[i], scheduled[i] \ (Version \X {"live"})}

Request(v) == requested' = v /\ UNCHANGED <<scheduled, playing>>

Play(v) ==
  /\ v = requested \/ \E i \in Id, l \in List : <<v, l>> \in scheduled[i]
  /\ playing' = v
  /\ UNCHANGED <<scheduled, requested>>

Stop == playing' = NoVersion /\ UNCHANGED <<scheduled, requested>>

Next ==
  \/ \E i \in Id, x \in Slots : Deliver(i, x)
  \/ Withdraw
  \/ Expire
  \/ \E v \in Version \cup {NoVersion} : Request(v)
  \/ \E v \in Version : Play(v)
  \/ Stop

Spec == Init /\ [][Next]_vars
=============================================================================

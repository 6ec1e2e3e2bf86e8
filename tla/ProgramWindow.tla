---------------------------- MODULE ProgramWindow ----------------------------
(***************************************************************************)
(* When a program may run: the dates, hours and days of the week that      *)
(* Programtask compares with the clock.  PlayerControl and ProgramDownload  *)
(* take the results as sets that the clock changes (runnable, openedSince,  *)
(* expired); the theorems say that the sets may change only as they do      *)
(* there.                                                                  *)
(*                                                                         *)
(* The code reads the clock several times for one answer: now, the date as  *)
(* a string (CommonUtil.getDate) and the day of the week, in this order, so *)
(* midnight may fall in between.  Changes of the clock's zone are left out. *)
(***************************************************************************)
EXTENDS Integers, TLAPS

LastMoment == 24 * 60 * 60 * 1000 - 1  \* of a day, in milliseconds
Moment == 0 .. LastMoment
Instant == [date : Int, time : Moment]
At(date, time) == [date |-> date, time |-> time]
After(a, b) == a.date > b.date \/ (a.date = b.date /\ a.time > b.time)

(* Hours are given in whole seconds.  A program that lacks one of the four fields is not
   dated; one without a week has the empty one. *)
Program ==
  [dated : BOOLEAN, startdate : Int, starttime : Moment,
   enddate : Int, endtime : Moment \ {LastMoment}, week : SUBSET (0 .. 6)]

IsInDateTime(p, now, today) ==
  /\ p.dated
  /\ ~After(At(p.startdate, p.starttime), now)
  /\ ~After(now, At(p.enddate, p.endtime))
  /\ ~After(At(today, p.starttime), now)
  /\ ~After(now, At(today, p.endtime))

DayOfWeek(date) == (date + 4) % 7  \* date 0 is a Thursday, Sunday is 0
IsInWeek(p, day) == DayOfWeek(day) \in p.week

CanProgramRun(p, now, today, day) == IsInDateTime(p, now, today) /\ IsInWeek(p, day)

OverDate(p, now) == ~p.dated \/ After(now, At(p.enddate, p.endtime))

(* chgScrDate is the set of the date of the change of screen, empty if there is none. *)
IsAfterChangeScreen(p, today, chgScrDate) ==
  \A chg \in chgScrDate : ~After(chg, At(today, p.starttime))

-----------------------------------------------------------------------------
(* What the fields say: on each of these days, between these hours. *)
InHours(p, t) ==
  /\ p.dated
  /\ p.startdate <= t.date /\ t.date <= p.enddate
  /\ p.starttime <= t.time /\ t.time <= p.endtime
InWindow(p, t) == InHours(p, t) /\ DayOfWeek(t.date) \in p.week

(* Numbers are all that the comparisons need to know of a program and an instant. *)
LEMMA LastMomentType == LastMoment \in Nat
  BY DEF LastMoment

LEMMA InstantFields ==
  ASSUME NEW t \in Instant
  PROVE  t.date \in Int /\ t.time \in Int /\ t.time <= LastMoment
  BY LastMomentType DEF Instant, Moment

LEMMA ProgramFields ==
  ASSUME NEW p \in Program
  PROVE  /\ p.dated \in BOOLEAN
         /\ p.startdate \in Int /\ p.starttime \in Int
         /\ p.enddate \in Int /\ p.endtime \in Int /\ p.endtime < LastMoment
  BY LastMomentType DEF Program, Moment

(* With one reading of the clock canProgramRun is true exactly in the window: the four
   comparisons of isInDateTime cut the same hours out of every day, the first and the
   last one included. *)
THEOREM RunsInWindow ==
  ASSUME NEW p \in Program, NEW now \in Instant
  PROVE  CanProgramRun(p, now, now.date, now.date) <=> InWindow(p, now)
<1>1. IsInDateTime(p, now, now.date) <=> InHours(p, now)
  BY InstantFields, ProgramFields DEF IsInDateTime, InHours, After, At
<1> QED
  BY <1>1 DEF CanProgramRun, IsInWeek, InWindow

(* If midnight falls between the reading of now and that of the date, the program does not
   run; if it falls before that of the day of the week, the hours hold all the same, and
   only the day may be that of tomorrow. *)
THEOREM MidnightOpensNothing ==
  ASSUME NEW p \in Program, NEW now \in Instant, NEW today \in Int, NEW day \in Int,
         now.date <= today, today <= day, CanProgramRun(p, now, today, day)
  PROVE  /\ today = now.date /\ InHours(p, now)
         /\ InWindow(p, now) \/ day > now.date
<1>1. today = now.date
  BY InstantFields, ProgramFields DEF CanProgramRun, IsInDateTime, After, At
<1>2. InHours(p, now)
  BY <1>1, InstantFields, ProgramFields DEF CanProgramRun, IsInDateTime, InHours, After, At
<1>3. CASE day = now.date
  BY <1>1, <1>2, <1>3 DEF CanProgramRun, IsInWeek, InWindow
<1>4. CASE day > now.date
  BY <1>1, <1>2, <1>4
<1> QED
  BY <1>3, <1>4 DEF Instant

(* A program whose hours go over midnight never runs, whenever the clock is read. *)
THEOREM OverMidnightNeverRuns ==
  ASSUME NEW p \in Program, NEW now \in Instant, NEW today \in Int, NEW day \in Int,
         p.starttime > p.endtime
  PROVE  ~CanProgramRun(p, now, today, day)
  BY InstantFields, ProgramFields DEF CanProgramRun, IsInDateTime, After, At

(* A program that is past its end stays so and does not run again: what cleanPlayer
   finds expired and deletes with its files can be no candidate of getRunProgram later. *)
THEOREM OverIsForEver ==
  ASSUME NEW p \in Program, NEW now \in Instant, NEW later \in Instant, NEW today \in Int,
         NEW day \in Int, ~After(now, later), OverDate(p, now)
  PROVE  OverDate(p, later) /\ ~CanProgramRun(p, later, today, day)
<1>1. OverDate(p, later)
  BY InstantFields, ProgramFields DEF OverDate, After, At
<1> QED
  BY <1>1 DEF OverDate, CanProgramRun, IsInDateTime

(* A program in its window is after the change of screen exactly when the window has
   opened since: at the very moment of the change, or it was closed at some time between
   the change and now.  Comparing with the hour at which the window opens today is
   enough.  A window of whole days is closed for the last moment of each, so at midnight
   every such program becomes newer than the change. *)
THEOREM AfterChangeIsOpenedSince ==
  ASSUME NEW p \in Program, NEW now \in Instant, NEW chg \in Instant,
         ~After(chg, now), InWindow(p, now)
  PROVE  IsAfterChangeScreen(p, now.date, {chg}) <=>
           \/ chg = At(now.date, p.starttime)
           \/ \E t \in Instant : ~After(chg, t) /\ ~After(t, now) /\ ~InWindow(p, t)
<1> DEFINE Start == At(now.date, p.starttime)
<1>1. IsAfterChangeScreen(p, now.date, {chg}) <=> ~After(chg, Start)
  BY DEF IsAfterChangeScreen
<1>2. chg = Start <=> ~After(chg, Start) /\ ~After(Start, chg)
  <2>1. chg = [date |-> chg.date, time |-> chg.time]
    BY DEF Instant
  <2> QED
    BY <2>1, InstantFields, ProgramFields DEF After, At
<1>3. ASSUME After(Start, chg)
      PROVE  \E t \in Instant : ~After(chg, t) /\ ~After(t, now) /\ ~InWindow(p, t)
  <2>1. CASE chg.date = now.date
    <3>1. ~InWindow(p, chg)
      BY <1>3, <2>1, InstantFields, ProgramFields DEF InWindow, InHours, After, At
    <3>2. ~After(chg, chg)
      BY InstantFields DEF After
    <3> QED
      BY <3>1, <3>2
  <2>2. CASE chg.date < now.date
    <3>1. PICK t \in Instant : t = At(chg.date, LastMoment)
      <4>1. chg.date \in Int /\ LastMoment \in Moment
        BY LastMomentType, InstantFields DEF Moment
      <4> QED
        BY <4>1 DEF At, Instant
    <3>2. t.date = chg.date /\ t.time = LastMoment
      BY <3>1 DEF At
    <3>3. ~After(chg, t) /\ ~After(t, now)
      BY <2>2, <3>2, InstantFields DEF After
    <3>4. ~InWindow(p, t)
      BY <3>2, ProgramFields, LastMomentType DEF InWindow, InHours
    <3> QED
      BY <3>3, <3>4
  <2> QED
    BY <2>1, <2>2 DEF After, Instant
<1>4. ASSUME NEW t \in Instant, ~After(chg, t), ~After(t, now), ~InWindow(p, t)
      PROVE  After(Start, chg)
  <2>1. CASE t.date = now.date
    <3>1. t.time < p.starttime
      BY <1>4, <2>1, InstantFields, ProgramFields DEF InWindow, InHours, After
    <3> QED
      BY <1>4, <2>1, <3>1, InstantFields, ProgramFields DEF After, At
  <2>2. CASE t.date < now.date
    BY <1>4, <2>2, InstantFields, ProgramFields DEF After, At
  <2> QED
    BY <1>4, <2>1, <2>2 DEF After, Instant
<1>5. After(Start, chg) <=>
        \E t \in Instant : ~After(chg, t) /\ ~After(t, now) /\ ~InWindow(p, t)
  BY <1>3, <1>4
<1>6. ~After(chg, Start) <=> chg = Start \/ After(Start, chg)
  BY <1>2, InstantFields, ProgramFields DEF After, At
<1> QED
  BY <1>1, <1>5, <1>6
=============================================================================

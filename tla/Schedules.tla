----------------------------- MODULE Schedules ------------------------------
(***************************************************************************)
(* Which schedule entry wins at an instant, and which weekly entries the   *)
(* user is warned about because they overlap (src/src/schedules/service.py,*)
(* models.py).  A calendar day has Day minutes; the calendar has Week days *)
(* and starts again, so that a date of it is also a day of the week.       *)
(*                                                                         *)
(* An entry is [tier, days, start, end, page]: the days of the week, or    *)
(* the dates, it starts on, its start and its end, a minute of the day or  *)
(* Open, and its page.  An instant is [day, minute].                       *)
(***************************************************************************)
EXTENDS Integers

CONSTANTS Day,      \* the minutes of a day
          Week,     \* the days of the calendar
          Size,     \* how many schedule entries there may be
          Pages,
          Open,     \* the end of an entry that has none
          Nothing   \* no entry, no page

ASSUME CalendarAssumption ==
  /\ Day \in Nat \ {0} /\ Week \in Nat \ {0}
  /\ Size \in Nat
  /\ Nothing \notin Int /\ Nothing \notin Pages /\ Open \notin Int

(* The entries are numbered by the time of their creation. *)
Ids   == 1 .. Size
Tiers == {"one_off_date", "annual_date", "weekly"}
Days  == 0 .. Week - 1

Instants == [day : Days, minute : 0 .. Day - 1]

(* What validate_config lets the user store. *)
Entries ==
  {e \in [tier : Tiers, days : SUBSET Days, start : 0 .. Day - 1,
          end : (0 .. Day - 1) \cup {Open}, page : Pages] : e.end # e.start}

Yesterday(d) == IF d = 0 THEN Week - 1 ELSE d - 1
Tomorrow(d)  == IF d = Week - 1 THEN 0 ELSE d + 1
DaysAgo(d, ago) == IF ago = 0 THEN d ELSE Yesterday(d)

Overnight(e) == e.end # Open /\ e.end <= e.start

(* The end of an occurrence, in minutes from midnight of the day it starts. *)
Ending(e) == IF e.end = Open THEN Day ELSE IF Overnight(e) THEN e.end + Day ELSE e.end

(* An occurrence belongs to the day on which it starts: yesterday's is     *)
(* considered for the part that crosses midnight.                          *)
IsOn(e, t, ago) ==
  /\ e.start <= t.minute + Day * ago /\ t.minute + Day * ago < Ending(e)
  /\ DaysAgo(t.day, ago) \in e.days

Matches(e, t) == \E ago \in {0, 1} : IsOn(e, t, ago)

(* The minutes since the matching occurrence has started. *)
Age(e, t) == IF IsOn(e, t, 0) THEN t.minute - e.start ELSE t.minute + Day - e.start

(* One-off dates before annual ones before weekly entries. *)
Rank == [one_off_date |-> 1, annual_date |-> 2, weekly |-> 3]

Contenders(plan, t) ==
  LET on == {i \in Ids : plan[i] # Nothing /\ Matches(plan[i], t)}
  IN  {i \in on : \A j \in on : Rank[plan[i].tier] <= Rank[plan[j].tier]}

(* The occurrence that started last wins, then the newest entry. *)
Beats(plan, t, i, j) ==
  \/ Age(plan[i], t) < Age(plan[j], t)
  \/ Age(plan[i], t) = Age(plan[j], t) /\ j <= i

(* get_active_schedule_entry: the entry that wins, or Nothing in a gap. *)
Winner(plan, t) ==
  LET on == Contenders(plan, t)
  IN  IF on = {} THEN Nothing
      ELSE CHOOSE i \in on : \A j \in on : Beats(plan, t, i, j)

-----------------------------------------------------------------------------
(* The overlap warnings of validate_schedules. *)

(* _daily_intervals: the minutes of a day that a weekly entry covers. *)
DailyIntervals(e, d) ==
  IF Overnight(e)
  THEN {m \in 0 .. Day - 1 : d \in e.days /\ e.start <= m} \cup
       {m \in 0 .. Day - 1 : Yesterday(d) \in e.days /\ m < e.end}
  ELSE {m \in 0 .. Day - 1 : d \in e.days /\ e.start <= m /\ m < Ending(e)}

(* _detect_overlaps, for one pair. *)
Overlap(e, f) == \E d \in Days : DailyIntervals(e, d) \cap DailyIntervals(f, d) # {}
=============================================================================

-------------------------- MODULE SourceStageProofs -------------------------
(***************************************************************************)
(* What the schedule service promises, for every calendar and schedule:    *)
(* one entry wins whenever one matches, and the overlap warnings are       *)
(* exact.  And that turning the schedule on never repaints a board driven  *)
(* by hand, for every calendar, schedule and set of pages.                 *)
(***************************************************************************)
EXTENDS SourceStage, WellFoundedInduction, TLAPS

LEMMA NatMin ==
  ASSUME NEW T, T \subseteq Nat, T # {}
  PROVE  \E x \in T : \A y \in T : x <= y
<1>1. \E x \in T : \A y \in T : ~(<<y, x>> \in OpToRel(<, Nat))
  BY NatLessThanWellFounded, WFMin
<1>2. PICK x \in T : \A y \in T : ~(<<y, x>> \in OpToRel(<, Nat))
  BY <1>1
<1>3. ASSUME NEW y \in T PROVE x <= y
  <2>1. x \in Nat /\ y \in Nat
    OBVIOUS
  <2>2. <<y, x>> \in Nat \X Nat /\ <<y, x>>[1] = y /\ <<y, x>>[2] = x
    BY <2>1
  <2>3. <<y, x>> \notin {ss \in Nat \X Nat : ss[1] < ss[2]}
    BY <1>2 DEF OpToRel
  <2> QED BY <2>1, <2>2, <2>3
<1> QED BY <1>3

(* An occurrence lasts a day at most. *)
LEMMA EndingType ==
  ASSUME NEW e \in Entries
  PROVE  Ending(e) \in Nat /\ Ending(e) <= e.start + Day
         /\ (~Overnight(e) => Ending(e) <= Day)
BY CalendarAssumption DEF Entries, Ending, Overnight

(* Yesterday's occurrence and today's never both match. *)
LEMMA OneOccurrence ==
  ASSUME NEW e \in Entries, NEW t \in Instants
  PROVE  ~(IsOn(e, t, 0) /\ IsOn(e, t, 1))
<1>1. e.start \in Nat /\ t.minute \in Nat /\ Day \in Nat
  BY CalendarAssumption DEF Entries, Instants
<1> QED BY <1>1, EndingType DEF IsOn

LEMMA AgeType ==
  ASSUME NEW e \in Entries, NEW t \in Instants, Matches(e, t)
  PROVE  Age(e, t) \in Nat
<1>1. e.start \in 0 .. Day - 1 /\ t.minute \in 0 .. Day - 1 /\ Day \in Nat
  BY CalendarAssumption DEF Entries, Instants
<1> QED BY <1>1 DEF Age, Matches, IsOn

(* get_active_schedule_entry answers a contender that beats every other,   *)
(* as soon as an entry matches: the order it sorts by leaves no ties.      *)
THEOREM WinnerWins ==
  ASSUME NEW plan \in [Ids -> Entries \cup {Nothing}], NEW t \in Instants,
         \E i \in Ids : plan[i] # Nothing /\ Matches(plan[i], t)
  PROVE  /\ Winner(plan, t) \in Contenders(plan, t)
         /\ \A j \in Contenders(plan, t) : Beats(plan, t, Winner(plan, t), j)
<1> DEFINE on == {i \in Ids : plan[i] # Nothing /\ Matches(plan[i], t)}
           best == Contenders(plan, t)
<1>1. \A i \in on : i \in Ids /\ plan[i] \in Entries /\ Matches(plan[i], t)
  OBVIOUS
<1>2. best # {}
  <2> DEFINE ranks == {Rank[plan[i].tier] : i \in on}
  <2>1. ranks \subseteq Nat
    BY <1>1 DEF Entries, Tiers, Rank
  <2>2. ranks # {}
    OBVIOUS
  <2>3. PICK r \in ranks : \A s \in ranks : r <= s
    BY <2>1, <2>2, NatMin
  <2>4. PICK i \in on : Rank[plan[i].tier] = r
    OBVIOUS
  <2>5. i \in best
    BY <2>3, <2>4 DEF Contenders
  <2> QED BY <2>5
<1>3. best \subseteq on
  BY DEF Contenders
<1>4. PICK a \in {Age(plan[i], t) : i \in best} : \A b \in {Age(plan[i], t) : i \in best} : a <= b
  <2>1. {Age(plan[i], t) : i \in best} \subseteq Nat
    BY <1>1, <1>3, AgeType
  <2>2. {Age(plan[i], t) : i \in best} # {}
    BY <1>2
  <2> HIDE DEF best
  <2> QED BY <2>1, <2>2, NatMin
<1> DEFINE youngest == {i \in best : Age(plan[i], t) = a}
<1>5. PICK n \in {Size - i : i \in youngest} : \A m \in {Size - i : i \in youngest} : n <= m
  <2>1. {Size - i : i \in youngest} \subseteq Nat
    BY <1>1, <1>3, CalendarAssumption DEF Ids
  <2>2. {Size - i : i \in youngest} # {}
    BY <1>4
  <2> QED BY <2>1, <2>2, NatMin
<1>6. PICK i \in youngest : Size - i = n
  BY <1>5
<1>7. \A j \in best : Beats(plan, t, i, j)
  <2> SUFFICES ASSUME NEW j \in best PROVE Beats(plan, t, i, j)
    OBVIOUS
  <2>1. Age(plan[i], t) = a /\ a <= Age(plan[j], t)
    BY <1>4
  <2>2. a \in Nat /\ Age(plan[j], t) \in Nat
    BY <1>1, <1>3, <1>4, AgeType
  <2>3. CASE a < Age(plan[j], t)
    BY <2>1, <2>3 DEF Beats
  <2>4. CASE a = Age(plan[j], t)
    <3>1. n <= Size - j
      BY <1>5, <2>4
    <3>2. i \in Nat /\ j \in Nat /\ Size \in Nat
      BY <1>1, <1>3, CalendarAssumption DEF Ids
    <3> QED BY <1>6, <2>1, <2>4, <3>1, <3>2 DEF Beats
  <2> QED BY <2>1, <2>2, <2>3, <2>4
<1>8. \E k \in best : \A j \in best : Beats(plan, t, k, j)
  BY <1>7
<1>9. Winner(plan, t) = CHOOSE k \in best : \A j \in best : Beats(plan, t, k, j)
  BY <1>2 DEF Winner
<1> QED BY <1>8, <1>9

(* In a gap no entry wins, and never another thing than an entry.          *)
THEOREM WinnerType ==
  ASSUME NEW plan \in [Ids -> Entries \cup {Nothing}], NEW t \in Instants
  PROVE  \/ Winner(plan, t) = Nothing
         \/ Winner(plan, t) \in Ids /\ plan[Winner(plan, t)] \in Entries
<1>1. CASE \E i \in Ids : plan[i] # Nothing /\ Matches(plan[i], t)
  <2>1. Winner(plan, t) \in Contenders(plan, t)
    BY <1>1, WinnerWins
  <2> QED BY <2>1 DEF Contenders
<1>2. CASE ~\E i \in Ids : plan[i] # Nothing /\ Matches(plan[i], t)
  <2>1. Contenders(plan, t) = {}
    BY <1>2 DEF Contenders
  <2> QED BY <2>1 DEF Winner
<1> QED BY <1>1, <1>2

-----------------------------------------------------------------------------

(* The minutes that validate_schedules gives an entry on a day are those   *)
(* at which the entry matches.                                             *)
LEMMA IntervalsMatch ==
  ASSUME NEW e \in Entries, NEW d \in Days, NEW m \in 0 .. Day - 1
  PROVE  m \in DailyIntervals(e, d) <=> Matches(e, [day |-> d, minute |-> m])
<1> DEFINE t == [day |-> d, minute |-> m]
<1>1. /\ Day \in Nat /\ m \in Nat /\ m < Day /\ t.day = d /\ t.minute = m
      /\ e.start \in 0 .. Day - 1 /\ e.end \in (0 .. Day - 1) \cup {Open}
  BY CalendarAssumption DEF Entries
<1>2. IsOn(e, t, 0) <=> e.start <= m /\ m < Ending(e) /\ d \in e.days
  BY <1>1, EndingType DEF IsOn, DaysAgo
<1>3. IsOn(e, t, 1) <=> e.start <= m + Day /\ m + Day < Ending(e) /\ Yesterday(d) \in e.days
  BY <1>1, EndingType DEF IsOn, DaysAgo
<1>4. Matches(e, t) <=> IsOn(e, t, 0) \/ IsOn(e, t, 1)
  BY DEF Matches
<1>5. CASE Overnight(e)
  <2>1. Ending(e) = e.end + Day /\ e.end \in 0 .. Day - 1
    BY <1>1, <1>5 DEF Ending, Overnight
  <2>2. m \in DailyIntervals(e, d) <=>
          \/ d \in e.days /\ e.start <= m
          \/ Yesterday(d) \in e.days /\ m < e.end
    BY <1>5 DEF DailyIntervals
  <2> QED BY <1>1, <1>2, <1>3, <1>4, <2>1, <2>2
<1>6. CASE ~Overnight(e)
  <2>1. Ending(e) <= Day /\ Ending(e) \in Nat
    BY <1>6, EndingType
  <2>2. m \in DailyIntervals(e, d) <=> d \in e.days /\ e.start <= m /\ m < Ending(e)
    BY <1>6 DEF DailyIntervals
  <2> QED BY <1>1, <1>2, <1>3, <1>4, <2>1, <2>2
<1> QED BY <1>5, <1>6

(* Two weekly entries are reported as overlapping exactly when there is a  *)
(* moment of the week at which both match, so that one hides the other:    *)
(* _detect_overlaps and get_active_schedule_entry, which compute windows   *)
(* in different ways, agree.                                               *)
THEOREM WarningsExact ==
  ASSUME NEW e \in Entries, NEW f \in Entries
  PROVE  Overlap(e, f) <=> \E t \in Instants : Matches(e, t) /\ Matches(f, t)
<1>1. \A g \in Entries, d \in Days : DailyIntervals(g, d) \subseteq 0 .. Day - 1
  BY DEF DailyIntervals
<1>2. ASSUME NEW d \in Days, NEW m \in DailyIntervals(e, d) \cap DailyIntervals(f, d)
      PROVE  \E t \in Instants : Matches(e, t) /\ Matches(f, t)
  <2>1. m \in 0 .. Day - 1
    BY <1>1
  <2>2. [day |-> d, minute |-> m] \in Instants
    BY <2>1 DEF Instants
  <2> QED BY <2>1, <2>2, IntervalsMatch
<1>3. ASSUME NEW t \in Instants, Matches(e, t), Matches(f, t)
      PROVE  Overlap(e, f)
  <2>1. t.day \in Days /\ t.minute \in 0 .. Day - 1 /\ t = [day |-> t.day, minute |-> t.minute]
    BY DEF Instants
  <2>2. t.minute \in DailyIntervals(e, t.day) /\ t.minute \in DailyIntervals(f, t.day)
    BY <1>3, <2>1, IntervalsMatch
  <2> QED BY <2>1, <2>2 DEF Overlap
<1> QED BY <1>2, <1>3 DEF Overlap

-----------------------------------------------------------------------------

LEMMA CurrentType ==
  ASSUME TypeOK
  PROVE  /\ Current \in Ids \cup {Nothing}
         /\ WindowKey \in Keys
         /\ ScheduledPage \in Pages \cup {Nothing}
<1>1. /\ entries \in Plans /\ entries \in [Ids -> Entries \cup {Nothing}]
      /\ now \in Instants
  BY SourceAssumption DEF TypeOK
<1>2. Current = Winner(entries, now)
  BY <1>1 DEF Current, Timetable
<1>3. Current = Nothing \/ (Current \in Ids /\ entries[Current] \in Entries)
  BY <1>1, <1>2, WinnerType
<1>4. WindowKey \in Keys
  BY <1>3 DEF WindowKey, Keys
<1>5. ScheduledPage \in Pages \cup {Nothing}
  BY <1>3, SourceAssumption DEF ScheduledPage, Entries
<1> QED BY <1>3, <1>4, <1>5

(* What a pass that resolves the source leaves behind is well-typed.       *)
Settled ==
  /\ last' \in {"on", "off", "unknown"} /\ key' \in Keys \cup {Nothing}
  /\ key' # Nothing => last' = "on"
  /\ manual' \in Pages \cup {Nothing}
  /\ snoozing' \in BOOLEAN /\ shown' \in Contents /\ byHand' \in BOOLEAN

LEMMA ResolveType ==
  ASSUME TypeOK, NEW chosen \in Pages \cup {Nothing}, ResolveSource(chosen)
  PROVE  Settled
<1> DEFINE scheduled == enabled /\ ~Deferred
           page == IF scheduled THEN ScheduledPage ELSE IF chosen # Nothing THEN chosen ELSE First
<1>1. page \in Pages \cup {Nothing} /\ (~scheduled => page \in Pages)
  BY CurrentType, SourceAssumption
<1>2. /\ last' = (IF enabled THEN "on" ELSE "off") /\ key' = NextKey
      /\ manual' = (IF scheduled THEN chosen ELSE page)
      /\ byHand' = (byHand \/ (~enabled /\ deferring /\ ~silence))
  BY DEF ResolveSource
<1>3. /\ key' \in Keys \cup {Nothing} /\ (key' # Nothing => last' = "on")
      /\ last' \in {"on", "off", "unknown"}
  BY <1>2, CurrentType DEF NextKey
<1>4. manual' \in Pages \cup {Nothing}
  BY <1>1, <1>2
<1>5. byHand' \in BOOLEAN /\ StillSnoozing \in BOOLEAN
  BY <1>2 DEF TypeOK, StillSnoozing
<1>6. \/ page = Nothing /\ shown' = shown /\ snoozing' = StillSnoozing
      \/ page # Nothing /\ ~silence /\ shown' = page /\ snoozing' = StillSnoozing
      \/ page # Nothing /\ silence /\ shown' \in {"notice", shown} /\ snoozing' = TRUE
  BY DEF ResolveSource
<1>7. shown' \in Contents
  BY <1>1, <1>6 DEF Contents, TypeOK
<1>8. snoozing' \in BOOLEAN
  BY <1>5, <1>6
<1> QED BY <1>3, <1>4, <1>5, <1>7, <1>8 DEF Settled

LEMMA InitType == Init => TypeOK
<1> SUFFICES ASSUME Init PROVE TypeOK
  OBVIOUS
<1>1. now \in Instants
  BY CalendarAssumption DEF Init, Instants, Days
<1>2. manual \in Pages \cup {Nothing}
  BY SourceAssumption DEF Init
<1> QED BY <1>1, <1>2 DEF Init, TypeOK, Contents

LEMMA PassType ==
  ASSUME TypeOK, Pass
  PROVE  TypeOK'
<1>1. due' = FALSE /\ wasSilent' = silence /\ UNCHANGED <<now, settings>>
  BY DEF Pass
<1>2. CASE HandsOff
  BY <1>1, <1>2 DEF HandsOff, TypeOK, settings, store
<1>3. CASE ShowOverride
  BY <1>1, <1>3 DEF ShowOverride, TypeOK, settings, store, Contents, StillSnoozing
<1>4. CASE Revert
  <2>1. /\ override' \in Reverts \cup {Nothing} /\ expired' \in BOOLEAN
        /\ expired' => override' # Nothing
    <3>1. \/ override' = Nothing /\ expired' = FALSE
          \/ override # Nothing /\ expired' = TRUE /\ override' = override
          \/ override = Nothing /\ override' = override /\ expired' = expired
      BY <1>4 DEF Revert, Consume
    <3>2. /\ override \in Reverts \cup {Nothing} /\ expired \in BOOLEAN
          /\ expired = TRUE => override # Nothing
      BY DEF TypeOK
    <3>3. override' \in Reverts \cup {Nothing} /\ expired' \in BOOLEAN
      BY <3>1, <3>2
    <3>4. expired' = TRUE => override' # Nothing
      BY <3>1, <3>2
    <3> QED BY <3>3, <3>4
  <2>2. Settled
    <3>1. CASE /\ shown' = "blank" /\ snoozing' = StillSnoozing
               /\ UNCHANGED <<manual, last, key, byHand>>
      BY <3>1 DEF Settled, TypeOK, Contents, StillSnoozing
    <3>2. CASE ResolveSource(RevertPage)
      BY <3>2, ResolveType, SourceAssumption
    <3>3. CASE ResolveSource(manual)
      BY <3>3, ResolveType DEF TypeOK
    <3> QED BY <1>4, <3>1, <3>2, <3>3 DEF Revert
  <2>3. due' \in BOOLEAN /\ wasSilent' \in BOOLEAN
    BY <1>1 DEF TypeOK
  <2> QED BY <1>1, <2>1, <2>2, <2>3 DEF TypeOK, Settled, settings
<1> QED BY <1>2, <1>3, <1>4 DEF Pass

LEMMA NextType ==
  ASSUME TypeOK, [Next]_vars
  PROVE  TypeOK'
<1> USE DEF clock, settings, store, runtime
<1>1. CASE Pass
  BY <1>1, PassType
<1>2. ASSUME NEW on \in BOOLEAN, SetSchedule(on) \/ Pause(on) \/ Silence(on)
      PROVE  TypeOK'
  <2>1. CASE SetSchedule(on)
    <3>1. byHand' \in BOOLEAN /\ enabled' \in BOOLEAN
      BY <2>1 DEF SetSchedule
    <3> QED BY <2>1, <3>1 DEF SetSchedule, TypeOK
  <2>2. CASE Pause(on)
    BY <2>2 DEF Pause, TypeOK
  <2>3. CASE Silence(on)
    BY <2>3 DEF Silence, TypeOK
  <2> QED BY <1>2, <2>1, <2>2, <2>3
<1>3. CASE SetDefer
  BY <1>3 DEF SetDefer, TypeOK
<1>4. ASSUME NEW plan \in Plans, StoreSchedule(plan)
      PROVE  TypeOK'
  BY <1>4 DEF StoreSchedule, TypeOK
<1>5. ASSUME NEW p \in Pages, ChoosePage(p)
      PROVE  TypeOK'
  BY <1>5 DEF ChoosePage, TypeOK
<1>6. ASSUME NEW mode \in Reverts, SetOverride(mode)
      PROVE  TypeOK'
  BY <1>6, SourceAssumption DEF SetOverride, TypeOK
<1>7. CASE ReadOverride
  BY <1>7 DEF ReadOverride, TypeOK
<1>8. CASE CancelOverride
  BY <1>8, SourceAssumption DEF CancelOverride, TypeOK
<1>9. CASE Expire
  BY <1>9 DEF Expire, TypeOK
<1>10. CASE Elapse
  <2>1. now' \in Instants
    BY <1>10, CalendarAssumption DEF Elapse, After, Tomorrow, TypeOK, Instants, Days
  <2>2. byHand' \in BOOLEAN
    BY <1>10 DEF Elapse, TypeOK
  <2> QED BY <1>10, <2>1, <2>2 DEF Elapse, TypeOK
<1>11. CASE Restart
  BY <1>11 DEF Restart, TypeOK
<1>12. CASE UNCHANGED vars
  BY <1>12 DEF vars, TypeOK
<1> QED
  BY <1>1, <1>2, <1>3, <1>4, <1>5, <1>6, <1>7, <1>8, <1>9, <1>10, <1>11, <1>12 DEF Next, User

(* The stages' variables keep their types, and a deferral is remembered    *)
(* only by a board whose schedule was on at its last pass.                 *)
THEOREM TypeCorrect == Spec => []TypeOK
<1> QED BY InitType, NextType, PTL DEF Spec

-----------------------------------------------------------------------------
(* A board driven by hand is waiting to defer, or deferring this window.   *)
Held ==
  byHand =>
    /\ deferring /\ ~silence /\ ~paused
    /\ Arming \/ (enabled /\ key = WindowKey)

LEMMA InitHeld == Init => Held
BY DEF Init, Held

(* A pass that resolves the source of such a board shows the manual page   *)
(* and defers the window it is in.                                         *)
LEMMA ResolveHeld ==
  ASSUME TypeOK, Held, ~Idle, NEW chosen \in Pages \cup {Nothing}, ResolveSource(chosen),
         UNCHANGED <<now, settings>>
  PROVE  Held' /\ (byHand => shown' = manual')
<1> DEFINE scheduled == enabled /\ ~Deferred
           page == IF scheduled THEN ScheduledPage ELSE IF chosen # Nothing THEN chosen ELSE First
<1>1. /\ last' = (IF enabled THEN "on" ELSE "off") /\ key' = NextKey
      /\ manual' = (IF scheduled THEN chosen ELSE page)
      /\ byHand' = (byHand \/ (~enabled /\ deferring /\ ~silence))
      /\ ~silence /\ page # Nothing => shown' = page
  BY DEF ResolveSource
<1>2. /\ deferring' = deferring /\ silence' = silence /\ paused' = paused
      /\ enabled' = enabled /\ WindowKey' = WindowKey
  BY DEF settings, WindowKey, Current
<1>3. ~paused
  BY DEF Idle
<1>4. byHand /\ enabled => Deferred
  BY DEF Held, Deferred, Arming
<1>5. byHand => ~scheduled /\ page # Nothing
  BY <1>4, SourceAssumption, CalendarAssumption
<1>6. byHand => shown' = manual'
  BY <1>1, <1>5 DEF Held
<1>7. ASSUME byHand', enabled
      PROVE  key' = WindowKey
  <2>1. byHand
    BY <1>1, <1>7
  <2> QED BY <1>1, <1>4, <1>7, <2>1 DEF NextKey
<1>8. ASSUME byHand', ~enabled
      PROVE  Arming'
  BY <1>1, <1>8 DEF NextKey, Arming
<1>9. byHand' => deferring /\ ~silence
  BY <1>1 DEF Held
<1>10. Held'
  BY <1>2, <1>3, <1>7, <1>8, <1>9 DEF Held
<1> QED BY <1>6, <1>10

LEMMA PassHeld ==
  ASSUME TypeOK, Held, Pass
  PROVE  /\ Held'
         /\ byHand /\ (override = Nothing \/ expired) => shown' \in {manual', "blank"}
<1>1. UNCHANGED <<now, settings>>
  BY DEF Pass
<1>2. ASSUME UNCHANGED <<last, key, byHand>>
      PROVE  Held'
  BY <1>1, <1>2 DEF Held, Arming, WindowKey, Current, settings
<1>3. CASE HandsOff
  BY <1>2, <1>3 DEF HandsOff, Idle, Held
<1>4. CASE ShowOverride
  BY <1>2, <1>4 DEF ShowOverride
<1>5. CASE Revert
  <2>1. ~Idle
    BY <1>5 DEF Revert
  <2>2. CASE shown' = "blank" /\ UNCHANGED <<manual, last, key, byHand>>
    BY <1>2, <2>2
  <2>3. CASE ResolveSource(RevertPage)
    BY <1>1, <2>1, <2>3, ResolveHeld, SourceAssumption
  <2>4. CASE ResolveSource(manual)
    BY <1>1, <2>1, <2>4, ResolveHeld DEF TypeOK
  <2> QED BY <1>5, <2>2, <2>3, <2>4 DEF Revert
<1> QED BY <1>3, <1>4, <1>5 DEF Pass

LEMMA NextHeld ==
  ASSUME TypeOK, Held, [Next]_vars
  PROVE  Held'
<1> USE DEF clock, settings, store, runtime, Held, Arming, WindowKey, Current
<1>1. CASE Pass
  BY <1>1, PassHeld
<1>2. ASSUME NEW on \in BOOLEAN, SetSchedule(on)
      PROVE  Held'
  BY <1>2 DEF SetSchedule, TypeOK
<1>3. ASSUME NEW on \in BOOLEAN, Pause(on) \/ Silence(on)
      PROVE  Held'
  BY <1>3 DEF Pause, Silence
<1>4. CASE SetDefer \/ Restart
  BY <1>4 DEF SetDefer, Restart
<1>5. ASSUME NEW plan \in Plans, StoreSchedule(plan)
      PROVE  Held'
  BY <1>5 DEF StoreSchedule
<1>6. CASE (\E p \in Pages : ChoosePage(p)) \/ (\E mode \in Reverts : SetOverride(mode))
  BY <1>6 DEF ChoosePage, SetOverride
<1>7. CASE ReadOverride \/ CancelOverride \/ Expire
  BY <1>7 DEF ReadOverride, CancelOverride, Expire
<1>8. CASE Elapse
  BY <1>8 DEF Elapse
<1>9. CASE UNCHANGED vars
  BY <1>9 DEF vars
<1> QED
  BY <1>1, <1>2, <1>3, <1>4, <1>5, <1>6, <1>7, <1>8, <1>9 DEF Next, User

(* Turning the schedule on never repaints a board driven by hand, whatever *)
(* overrides come and go: until the next window its passes show the page   *)
(* chosen by hand.                                                         *)
THEOREM HandKept == Spec => ToggleKeepsPage
<1>1. ASSUME TypeOK, Held, [Next]_vars
      PROVE  [byHand /\ Pass /\ (override = Nothing \/ expired) => shown' \in {manual', "blank"}]_vars
  BY <1>1, PassHeld
<1>2. Spec => [](TypeOK /\ Held)
  BY InitType, NextType, InitHeld, NextHeld, PTL DEF Spec
<1> QED BY <1>1, <1>2, PTL DEF Spec, ToggleKeepsPage
=============================================================================

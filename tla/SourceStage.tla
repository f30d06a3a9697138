---------------------------- MODULE SourceStage -----------------------------
(***************************************************************************)
(* What the primary board shows: the stages of DisplayService's pass that  *)
(* choose its source (src/src/main.py, _drive_board_pass and               *)
(* _schedule_defer_active), with the stores they consume and the users who *)
(* change them.  The schedule, the page chosen by hand, a temporary        *)
(* override and its revert, a silence window and a pause compete; a board  *)
(* may defer the schedule's return to its next window.  Sends land at      *)
(* once: BoardEngine is about those that do not.                           *)
(***************************************************************************)
EXTENDS Schedules

CONSTANTS Plans,       \* bound: the schedules the user stores
          Default,     \* the schedule's default page, or Nothing
          First,       \* the first page of the list
          RevertPage,  \* the page an override with revert mode "page" names
          Reverts,     \* bound: the revert modes in use
          Gap          \* _SCHEDULE_GAP_KEY

ASSUME SourceAssumption ==
  /\ Plans \subseteq [Ids -> Entries \cup {Nothing}]
  /\ Default \in Pages \cup {Nothing} /\ First \in Pages /\ RevertPage \in Pages
  /\ Reverts \subseteq {"schedule", "blank", "page"} /\ Nothing \notin Reverts
  /\ Gap \notin Int /\ Gap # Nothing

VARIABLES now,        \* the instant
          entries,    \* the stored schedule: by id, an entry or Nothing
          enabled,    \* schedule_enabled
          deferring,  \* schedule_defer_on_reenable
          manual,     \* the page chosen by hand, or Nothing
          override,   \* the revert mode of the temporary override, or Nothing
          expired,    \* it has expired
          silence,    \* a silence window is open
          paused,     \* the board is paused
          last,       \* rt.last_schedule_enabled: "on", "off" or "unknown"
          key,        \* rt.schedule_defer_key
          wasSilent,  \* rt.last_silence_mode_active
          snoozing,   \* rt.snoozing_message_sent
          shown,      \* what the board shows
          due,        \* no pass yet at this instant
          byHand      \* history: see ToggleKeepsPage

clock    == <<now, due>>
settings == <<entries, enabled, deferring, silence, paused>>
store    == <<manual, override, expired>>
runtime  == <<last, key, wasSilent, snoozing, shown>>
vars     == <<clock, settings, store, runtime, byHand>>

Contents == Pages \cup {"notice", "blank", "override"}
Keys     == Ids \cup {Gap}

TypeOK ==
  /\ now \in Instants /\ due \in BOOLEAN
  /\ entries \in Plans
  /\ enabled \in BOOLEAN /\ deferring \in BOOLEAN
  /\ silence \in BOOLEAN /\ paused \in BOOLEAN
  /\ manual \in Pages \cup {Nothing}
  /\ override \in Reverts \cup {Nothing} /\ expired \in BOOLEAN
  /\ expired => override # Nothing
  /\ last \in {"on", "off", "unknown"} /\ key \in Keys \cup {Nothing}
  /\ key # Nothing => last = "on"
  /\ wasSilent \in BOOLEAN /\ snoozing \in BOOLEAN
  /\ shown \in Contents /\ byHand \in BOOLEAN

Init ==
  /\ now = [day |-> 0, minute |-> 0] /\ due = TRUE
  /\ entries \in Plans /\ enabled \in BOOLEAN /\ deferring \in BOOLEAN
  /\ manual \in {First, Nothing}
  /\ override = Nothing /\ expired = FALSE
  /\ silence = FALSE /\ paused = FALSE
  /\ last = "unknown" /\ key = Nothing
  /\ wasSilent = FALSE /\ snoozing = FALSE
  /\ shown = "blank" /\ byHand = FALSE

-----------------------------------------------------------------------------
(* Choosing the source: schedule or manual page. *)

(* get_active_schedule_entry, for each schedule and instant. *)
Timetable == [plan \in Plans |-> [t \in Instants |-> Winner(plan, t)]]

Current == Timetable[entries][now]

(* Mutant: two windows of one page are one. *)
WindowKeyByPage == IF Current = Nothing THEN Gap ELSE entries[Current].page

WindowKey == IF Current = Nothing THEN Gap ELSE Current

(* get_active_page_id: the winning entry's page, or the default one. *)
ScheduledPage == IF Current = Nothing THEN Default ELSE entries[Current].page

(* The schedule was off when a pass last resolved the source. *)
Arming == last = "off" /\ key = Nothing

(* _schedule_defer_active, and what it leaves in the runtime. *)
Deferred == IF Arming THEN deferring ELSE key = WindowKey

NextKey ==
  IF ~enabled THEN Nothing
  ELSE IF Deferred THEN WindowKey ELSE Nothing

(* The first pass after a silence window forgets the notice. *)
StillSnoozing == snoozing /\ (silence \/ ~wasSilent)

(* The pass that neither a trigger nor an override has claimed.  A board   *)
(* in manual mode never goes dark; one whose schedule names no page stays  *)
(* as it is; so does a silent one whose silence mode is "freeze".          *)
ResolveSource(chosen) ==
  LET scheduled == enabled /\ ~Deferred
      page == IF scheduled THEN ScheduledPage ELSE IF chosen # Nothing THEN chosen ELSE First
  IN
  /\ last' = IF enabled THEN "on" ELSE "off"
  /\ key' = NextKey
  /\ manual' = IF scheduled THEN chosen ELSE page
  /\ byHand' = (byHand \/ (~enabled /\ deferring /\ ~silence))
  /\ \/ page = Nothing /\ shown' = shown /\ snoozing' = StillSnoozing
     \/ page # Nothing /\ ~silence /\ shown' = page /\ snoozing' = StillSnoozing
     \/ page # Nothing /\ silence /\ shown' \in {"notice", shown} /\ snoozing' = TRUE

-----------------------------------------------------------------------------
(* One pass.  A pause, and a notice already on the board, end it at once.  *)

(* Mutant: a notice once sent keeps the board out of every pass. *)
IdleOnceSnoozed == paused \/ snoozing

Idle == paused \/ (silence /\ snoozing)

HandsOff == Idle /\ UNCHANGED <<store, last, key, snoozing, shown, byHand>>

(* Mutant: the pass of an override consumes the schedule's edge. *)
ShowOverrideTakesEdge ==
  /\ ~Idle /\ override # Nothing /\ ~expired
  /\ shown' = "override" /\ snoozing' = StillSnoozing
  /\ last' = (IF enabled THEN "on" ELSE "off")
  /\ UNCHANGED <<store, key, byHand>>

ShowOverride ==
  /\ ~Idle /\ override # Nothing /\ ~expired
  /\ shown' = "override" /\ snoozing' = StillSnoozing
  /\ UNCHANGED <<store, last, key, byHand>>

(* consume_temporary_override drops an override that has expired.  The     *)
(* pass asks for the time once more: an override may expire between the    *)
(* two questions, and is left in the store by the first.                   *)
Consume ==
  \/ expired /\ override' = Nothing /\ expired' = FALSE
  \/ override # Nothing /\ ~expired /\ expired' = TRUE /\ UNCHANGED override
  \/ override = Nothing /\ UNCHANGED <<override, expired>>

Reverting(mode) == override = mode /\ ~silence

Revert ==
  /\ ~Idle /\ Consume
  /\ \/ /\ Reverting("blank")
        /\ shown' = "blank" /\ snoozing' = StillSnoozing
        /\ UNCHANGED <<manual, last, key, byHand>>
     \/ Reverting("page") /\ ResolveSource(RevertPage)
     \/ ~Reverting("blank") /\ ~Reverting("page") /\ ResolveSource(manual)

Pass ==
  /\ due' = FALSE /\ wasSilent' = silence
  /\ UNCHANGED <<now, settings>>
  /\ HandsOff \/ ShowOverride \/ Revert

-----------------------------------------------------------------------------
(* The users, by the web UI, the API, MQTT or MCP. *)

SetSchedule(on) ==
  /\ enabled # on /\ enabled' = on
  /\ byHand' = (byHand /\ on)
  /\ UNCHANGED <<clock, entries, deferring, silence, paused, store, runtime>>

SetDefer ==
  /\ deferring' = ~deferring /\ byHand' = FALSE
  /\ UNCHANGED <<clock, entries, enabled, silence, paused, store, runtime>>

StoreSchedule(plan) ==
  /\ entries # plan /\ entries' = plan /\ byHand' = FALSE
  /\ UNCHANGED <<clock, enabled, deferring, silence, paused, store, runtime>>

ChoosePage(p) ==
  /\ manual # p /\ manual' = p
  /\ UNCHANGED <<clock, settings, override, expired, runtime, byHand>>

SetOverride(mode) ==
  /\ override' = mode /\ expired' = FALSE
  /\ UNCHANGED <<clock, settings, manual, runtime, byHand>>

(* Reading the override drops it once it has expired. *)
ReadOverride ==
  /\ expired /\ override' = Nothing /\ expired' = FALSE
  /\ UNCHANGED <<clock, settings, manual, runtime, byHand>>

CancelOverride ==
  /\ override # Nothing /\ override' = Nothing /\ expired' = FALSE
  /\ manual' = IF override = "page" /\ ~expired THEN RevertPage ELSE manual
  /\ UNCHANGED <<clock, settings, runtime, byHand>>

Pause(on) ==
  /\ paused # on /\ paused' = on /\ byHand' = FALSE
  /\ UNCHANGED <<clock, entries, enabled, deferring, silence, store, runtime>>

(* Time: an override expires, a silence window begins and ends, the next   *)
(* minute comes.  The engine makes a pass at least once a second.          *)

Expire ==
  /\ override # Nothing /\ ~expired /\ expired' = TRUE
  /\ UNCHANGED <<clock, settings, manual, override, runtime, byHand>>

Silence(on) ==
  /\ silence # on /\ silence' = on /\ byHand' = FALSE
  /\ UNCHANGED <<clock, entries, enabled, deferring, paused, store, runtime>>

After(t) ==
  IF t.minute + 1 < Day THEN [t EXCEPT !.minute = @ + 1]
  ELSE [day |-> Tomorrow(t.day), minute |-> 0]

Elapse ==
  /\ ~due /\ due' = TRUE
  /\ now' = After(now)
  /\ UNCHANGED <<settings, store, runtime>>
  /\ byHand' = (byHand /\ (enabled => Current' = Current))

(* A new process knows the settings and none of what the passes remembered. *)
Restart ==
  /\ last' = "unknown" /\ key' = Nothing
  /\ wasSilent' = FALSE /\ snoozing' = FALSE
  /\ byHand' = FALSE
  /\ UNCHANGED <<clock, settings, store, shown>>

User ==
  \/ \E on \in BOOLEAN : SetSchedule(on) \/ Pause(on)
  \/ SetDefer
  \/ \E plan \in Plans : StoreSchedule(plan)
  \/ \E p \in Pages : ChoosePage(p)
  \/ \E mode \in Reverts : SetOverride(mode)
  \/ ReadOverride \/ CancelOverride

Next ==
  \/ Pass \/ User \/ Expire \/ Elapse \/ Restart
  \/ \E on \in BOOLEAN : Silence(on)

Spec == Init /\ [][Next]_vars

(* Each instant gets its pass, and time goes on. *)
FairSpec == Spec /\ WF_vars(due /\ Pass) /\ WF_vars(Elapse)

-----------------------------------------------------------------------------
(* With the deferral chosen, turning the schedule on never repaints a      *)
(* board that was driven by hand (test_schedule_defer_on_reenable.py       *)
(* 13-17): until another window comes, whatever overrides come and go and  *)
(* whatever page is chosen meanwhile, a pass shows the manual page.        *)
ToggleKeepsPage ==
  [][byHand /\ Pass /\ (override = Nothing \/ expired) => shown' \in {manual', "blank"}]_vars

(* A deferral ends: left alone, a board whose schedule is on shows what a  *)
(* schedule of several windows names, again and again.                     *)
LeftAlone == enabled /\ ~silence /\ ~paused /\ override = Nothing
Varied == {plan \in Plans : \E t, u \in Instants : Timetable[plan][t] # Timetable[plan][u]}
Following == ScheduledPage # Nothing /\ shown = ScheduledPage
ScheduleFollowed ==
  <>[](LeftAlone /\ entries \in Varied) /\ <>[][UNCHANGED entries]_vars => []<>Following

(* A temporary override gets the board, whatever the schedule says, unless *)
(* the board is already snoozing.                                          *)
OverrideShown ==
  (override # Nothing /\ ~expired /\ ~paused /\ ~silence) ~>
    (shown = "override" \/ override = Nothing \/ expired \/ paused \/ silence)

(* It wins over silence as well (issue 949, main.py 2287-2289).            *)
OverrideWins ==
  (override # Nothing /\ ~expired /\ ~paused) ~>
    (shown = "override" \/ override = Nothing \/ expired \/ paused)
=============================================================================

------------------------- MODULE PanelResizeProofs --------------------------
(***************************************************************************)
(* A conversion is all or nothing, for any number of copies and schedule   *)
(* entries, any set of fields the user edits and any number of faults.     *)
(***************************************************************************)
EXTENDS PanelResize, TLAPS

Holds(f) == f \in [Slots -> Values]
AllNew(f) == \A s \in plan : f[s] # "old"
NoneNew(f) == \A s \in Board : f[s] # "new"
NoEdit(f) == \A s \in Board : f[s] # "edit"
NoUser(f) == \A s \in Board : f[s] \in {"old", "new"}
Undone(S) == \A s \in S : mem[s] = "old"
Redone(S) == \A s \in S : disk[s] = "old"

(* Where the process can be, given what the journal says. *)
Phases ==
  /\ journal = "absent" => pc \in {"idle", "replace", "boot", "down"}
  /\ journal = "committed" => pc \in {"idle", "replace", "unlink", "boot", "down"}
  /\ journal # "absent" => Shape \subseteq plan
  /\ pc = "unlink" => journal = "committed"
  /\ pc = "write" => ~failed

(* Only what the plan names is ever converted. *)
Planned ==
  /\ \A s \in Board \ plan : mem[s] # "new" /\ disk[s] # "new"
  /\ mem["original"] # "new" /\ disk["original"] # "new"

(* Without a pending journal the board is whole, in memory too. *)
WholeNew == AllNew(disk) /\ (pc # "down" => AllNew(mem))
WholeOld == NoneNew(disk) /\ (pc # "down" => NoneNew(mem))
Whole ==
  /\ journal = "committed" => WholeNew
  /\ journal = "absent" => WholeNew \/ WholeOld

(* While the conversion holds the locks nothing is edited, and memory      *)
(* holds what it found or what it wrote; a file may still be behind.       *)
Late(s) == mem[s] = "old" /\ disk[s] = "stale"
Writing ==
  /\ pc = "write" => \A s \in plan \cup Board : mem[s] \in {"old", "new"} /\ (mem[s] = disk[s] \/ Late(s))
  /\ pc \in Undoing \cup {"clean"} => NoUser(mem) /\ NoEdit(disk)

(* What the rollback has restored so far. *)
RolledBack ==
  /\ pc \in Undoing /\ ~failed => \A s \in Board : disk[s] = "new" => mem[s] = "new"
  /\ pc \in Undoing \ {"undoActive"} => Undone({"active"})
  /\ pc \in {"undoSilence", "undoPanel", "undoGeometry"} => Undone(Entries \cup {"default"})
  /\ pc \in {"undoPanel", "undoGeometry"} => Undone({"silence"})
  /\ pc = "undoGeometry" => Undone({"panel"})
  /\ pc = "clean" => NoneNew(mem) /\ NoneNew(disk)

(* What the recovery has restored so far. *)
Recovered ==
  /\ pc \in {"boot", "refused"} => mem = disk
  /\ pc \in Redoing => NoUser(disk) /\ \A s \in Board : mem[s] = disk[s]
  /\ pc \in Redoing \ {"redoSchedules"} => Redone(Entries \cup {"default"})
  /\ pc \in {"redoPanel", "redoSettings", "redoDiscard"} => Redone({"silence"})
  /\ pc \in {"redoSettings", "redoDiscard"} => Redone({"panel"})
  /\ pc = "redoDiscard" => Redone({"active", "geometry"})

(* An edit on disk is in memory too; without a pending journal memory      *)
(* differs from the files by edits alone, those made before the conversion *)
(* began included.                                                         *)
Edits ==
  /\ pc \in {"idle", "replace"} =>
       \A s \in Board : /\ disk[s] = "edit" => mem[s] = "edit"
                        /\ journal = "pending" => mem[s] # "stale"
  /\ journal # "pending" /\ pc # "down" =>
       \A s \in Board : mem[s] = disk[s] \/ mem[s] = "edit" \/ Late(s)

IInv == TypeOK /\ Phases /\ Planned /\ Whole /\ Writing /\ RolledBack /\ Recovered /\ Edits
          /\ RefusesOnlyEdits
-----------------------------------------------------------------------------
(* Which slots a file's save writes. *)
LEMMA Files ==
  /\ \A s \in Entries \cup {"default"} : FileOf(s) = "schedules"
  /\ \A s \in {"active", "geometry"} : FileOf(s) = "settings"
  /\ FileOf("silence") = "config" /\ FileOf("panel") = "panels"
  /\ FileOf("original") = "pages"
  /\ \A s \in PageCopies : FileOf(s) = "pages"
  /\ \A s \in CollectionCopies : FileOf(s) = "collections"
<1>1. \A s \in Entries \cup {"default"} : FileOf(s) = "schedules"
  BY SlotsDistinct DEF FileOf, Contents
<1>2. \A s \in {"active", "geometry"} : FileOf(s) = "settings"
  BY SlotsDistinct DEF FileOf, Contents
<1>3. FileOf("silence") = "config"
  BY SlotsDistinct DEF FileOf, Contents
<1>4. FileOf("panel") = "panels"
  BY SlotsDistinct DEF FileOf, Contents
<1>5. FileOf("original") = "pages" /\ \A s \in PageCopies : FileOf(s) = "pages"
  BY SlotsDistinct DEF FileOf, Contents
<1>6. \A s \in CollectionCopies : FileOf(s) = "collections"
  BY SlotsDistinct DEF FileOf, Contents
<1>. QED
  BY <1>1, <1>2, <1>3, <1>4, <1>5, <1>6

(* What a save leaves: in its file's slots the memory, elsewhere the old.  *)
LEMMA SaveFacts ==
  ASSUME NEW file, Saved(file), Holds(disk), mem' \in [Slots -> Values]
  PROVE  /\ disk' \in [Slots -> Values]
         /\ \A s \in Slots : disk'[s] = IF FileOf(s) = file THEN mem'[s] ELSE disk[s]
BY DEF Saved, Holds

LEMMA InitInv == Init => IInv
<1>. SUFFICES ASSUME Init PROVE IInv
  OBVIOUS
<1>. USE SlotsDistinct
<1>1. TypeOK
  <2>1. Unconverted \in [Slots -> Values]
    BY DEF Unconverted, Values
  <2>2. faults \in 0 .. MaxFaults
    BY DEF Init
  <2>3. failed \in BOOLEAN /\ plan \subseteq Contents \cup Board /\ disk \in [Slots -> Values]
    BY DEF Init, Values
  <2>4. QED
    BY <2>1, <2>2, <2>3 DEF Init, TypeOK, Places
<1>2. \A s \in Slots : mem[s] = "old" /\ disk[s] \in {"old", "stale"}
  BY DEF Init, Unconverted
<1>3. Phases /\ Planned /\ Whole
  BY <1>2 DEF Init, Phases, Planned, Whole, WholeNew, WholeOld, AllNew, NoneNew, Slots, Board
<1>4. Writing /\ RolledBack /\ Recovered /\ Edits /\ RefusesOnlyEdits
  BY <1>2 DEF Init, Writing, RolledBack, Recovered, Edits, Late, RefusesOnlyEdits, Slots, Board, Undoing, Redoing
<1>. QED
  BY <1>1, <1>3, <1>4 DEF IInv

LEMMA BeginInv == IInv /\ Begin => IInv'
<1>. SUFFICES ASSUME IInv, Begin PROVE IInv'
  OBVIOUS
<1>. USE SlotsDistinct
<1>1. plan' \subseteq Contents \cup Board /\ Shape \subseteq plan'
  BY DEF Begin, Plans, Contents, Board
<1>2. /\ mem' \in [Slots -> Values] /\ \A s \in Slots : mem'[s] = "old"
      /\ disk' \in [Slots -> Values]
      /\ \A s \in Slots : disk'[s] = IF s \in Contents THEN "old" ELSE disk[s]
  BY DEF Begin, Unconverted, IInv, TypeOK, Values
<1>3. \A s \in Contents \cup Board : s \in Slots /\ mem'[s] = "old" /\ disk'[s] \in {"old", "stale"}
  <2>1. ASSUME NEW s \in Board PROVE s \in Slots \ Contents /\ disk[s] \in {"old", "stale"}
    <3>1. s \in Slots \ Contents
      BY DEF Slots, Board, Refs, Shape, Contents
    <3>2. mem[s] = "old"
      BY <3>1 DEF Begin
    <3>. QED
      BY <3>1, <3>2 DEF Begin, IInv, Edits, Late
  <2>. QED
    BY <1>2, <2>1 DEF Slots
<1>4. TypeOK'
  <2>1. faults' \in 0 .. MaxFaults
    BY DEF IInv, Begin, TypeOK, Fault
  <2>2. QED
    BY <1>1, <1>2, <2>1 DEF IInv, Begin, TypeOK, Places
<1>5. Phases'
  BY <1>1 DEF IInv, Begin, Phases, TypeOK
<1>6. (Planned /\ Whole)'
  <2>1. mem'["original"] # "new" /\ disk'["original"] # "new"
    BY <1>2 DEF IInv, Planned, Slots, Contents
  <2>. QED
    BY <1>3, <2>1 DEF IInv, Begin, Planned, Whole, WholeOld, NoneNew, TypeOK
<1>7. (Writing /\ RolledBack /\ Recovered /\ Edits /\ RefusesOnlyEdits)'
  BY <1>1, <1>3 DEF IInv, Begin, Writing, RolledBack, Recovered, Edits, Late, RefusesOnlyEdits, TypeOK, Undoing, Redoing
<1>. QED
  BY <1>4, <1>5, <1>6, <1>7 DEF IInv

LEMMA WriteInv ==
  ASSUME IInv, NEW s \in plan, Write(s) PROVE IInv'
<1>. USE SlotsDistinct
<1>1. s \in Slots /\ s # "original"
  BY DEF IInv, TypeOK, Slots, Board, Refs, Shape, Contents
<1>2. /\ mem' \in [Slots -> Values] /\ mem'[s] = "new"
      /\ \A t \in Slots \ {s} : mem'[t] = mem[t]
  BY <1>1 DEF IInv, TypeOK, Write, Values
<1>3. /\ pc = "write" /\ journal = "pending" /\ ~failed
      /\ journal' = journal /\ plan' = plan /\ failed' = failed
  BY DEF Write, IInv, TypeOK, Phases
<1>4. \A t \in plan \cup Board :
        t \in Slots /\ mem[t] \in {"old", "new"} /\ (mem[t] = disk[t] \/ (mem[t] = "old" /\ disk[t] = "stale"))
  BY <1>3 DEF IInv, TypeOK, Writing, Late, Slots
<1>5. CASE Saved(FileOf(s)) /\ UNCHANGED pc
  <2>1. /\ disk' \in [Slots -> Values]
        /\ \A t \in Slots : disk'[t] = IF FileOf(t) = FileOf(s) THEN mem'[t] ELSE disk[t]
    BY <1>2, <1>5, SaveFacts DEF IInv, TypeOK, Holds
  <2>2. \A t \in plan \cup Board : /\ mem'[t] \in {"old", "new"}
                                   /\ mem'[t] = disk'[t] \/ (mem'[t] = "old" /\ disk'[t] = "stale")
    BY <1>1, <1>2, <1>4, <2>1
  <2>3. TypeOK'
    BY <1>2, <1>3, <1>5, <2>1 DEF IInv, TypeOK, Saved
  <2>4. (Phases /\ Planned /\ Whole)'
    BY <1>1, <1>2, <1>3, <1>5, <2>1, <2>2
       DEF IInv, TypeOK, Phases, Planned, Whole, Slots
  <2>5. (Writing /\ RolledBack /\ Recovered /\ Edits /\ RefusesOnlyEdits)'
    BY <1>3, <1>5, <2>2 DEF Writing, Late, RolledBack, Recovered, Edits, RefusesOnlyEdits, Undoing, Redoing
  <2>. QED
    BY <2>3, <2>4, <2>5 DEF IInv
<1>6. CASE SaveFailed /\ pc' = "undoActive"
  <2>1. disk' = disk
    BY <1>6 DEF SaveFailed
  <2>2. \A t \in plan \cup Board :
          mem'[t] \in {"old", "new"} /\ disk'[t] # "edit" /\ (disk'[t] = "new" => mem'[t] = "new")
    BY <1>1, <1>2, <1>4, <2>1
  <2>3. TypeOK'
    BY <1>2, <1>3, <1>6, <2>1 DEF IInv, TypeOK, SaveFailed, Fault, Places, Undoing
  <2>4. (Phases /\ Planned /\ Whole)'
    BY <1>1, <1>2, <1>3, <1>6, <2>1
       DEF IInv, TypeOK, Phases, Planned, Whole, Slots
  <2>5. (Writing /\ RolledBack /\ Recovered /\ Edits /\ RefusesOnlyEdits)'
    BY <1>3, <1>6, <2>2 DEF Writing, RolledBack, Recovered, Edits, RefusesOnlyEdits, Undoing, Redoing, NoEdit, NoUser
  <2>. QED
    BY <2>3, <2>4, <2>5 DEF IInv
<1>. QED
  BY <1>5, <1>6 DEF Write

LEMMA CommitInv == IInv /\ Commit => IInv'
<1>. SUFFICES ASSUME IInv, Commit PROVE IInv'
  OBVIOUS
<1>. USE SlotsDistinct
<1>1. /\ pc = "write" /\ journal = "pending" /\ ~failed /\ \A t \in plan : mem[t] = "new"
      /\ UNCHANGED <<plan, mem, disk, failed>>
  BY DEF Commit, IInv, TypeOK, Phases
<1>2. \A t \in plan \cup Board : mem[t] \in {"old", "new"} /\ (mem[t] = disk[t] \/ (mem[t] = "old" /\ disk[t] = "stale"))
  BY <1>1 DEF IInv, Writing, Late
<1>3. CASE journal' = "committed" /\ pc' = "unlink" /\ UNCHANGED faults
  <2>1. TypeOK'
    BY <1>1, <1>3 DEF IInv, TypeOK, Places
  <2>2. (Phases /\ Planned)'
    BY <1>1, <1>3 DEF IInv, Phases, Planned
  <2>3. Whole'
    BY <1>1, <1>2, <1>3 DEF Whole, WholeNew, AllNew
  <2>4. (Writing /\ RolledBack /\ Recovered /\ Edits /\ RefusesOnlyEdits)'
    BY <1>1, <1>2, <1>3 DEF Writing, RolledBack, Recovered, Edits, Late, RefusesOnlyEdits, Undoing, Redoing
  <2>. QED
    BY <2>1, <2>2, <2>3, <2>4 DEF IInv
<1>4. CASE Fault /\ pc' = "undoActive" /\ UNCHANGED journal
  <2>1. TypeOK'
    BY <1>1, <1>4 DEF IInv, TypeOK, Places, Undoing, Fault
  <2>2. (Phases /\ Planned /\ Whole)'
    BY <1>1, <1>4 DEF IInv, Phases, Planned, Whole
  <2>3. (Writing /\ RolledBack /\ Recovered /\ Edits /\ RefusesOnlyEdits)'
    BY <1>1, <1>2, <1>4 DEF Writing, RolledBack, Recovered, Edits, Late, RefusesOnlyEdits, Undoing, Redoing, NoEdit, NoUser
  <2>. QED
    BY <2>1, <2>2, <2>3 DEF IInv
<1>. QED
  BY <1>3, <1>4 DEF Commit

(* The journal goes, or stays where it is. *)
LEMMA UnlinkInv == IInv /\ Unlink => IInv'
<1>. SUFFICES ASSUME IInv, Unlink PROVE IInv'
  OBVIOUS
<1>1. /\ pc = "unlink" /\ journal = "committed" /\ pc' = "idle" /\ journal' \in {"absent", "committed"}
      /\ UNCHANGED <<plan, mem, disk, failed>> /\ faults' \in 0 .. MaxFaults
  BY SlotsDistinct DEF Unlink, Discarded, Fault, IInv, TypeOK, Phases
<1>2. TypeOK'
  BY <1>1 DEF IInv, TypeOK, Places
<1>3. (Phases /\ Planned /\ Whole)'
  BY <1>1 DEF IInv, Phases, Planned, Whole, WholeNew, AllNew
<1>4. (Writing /\ RolledBack /\ Recovered /\ Edits /\ RefusesOnlyEdits)'
  BY <1>1 DEF IInv, Writing, RolledBack, Recovered, Edits, Late, RefusesOnlyEdits, Undoing, Redoing
<1>. QED
  BY <1>2, <1>3, <1>4 DEF IInv

(* What one step of the rollback does to a surface whose slots are all in  *)
(* one file.                                                               *)
UndoResult(here, S, next, broken) ==
  /\ pc = here /\ pc' \in {next, broken} /\ (pc' # next => failed')
  /\ journal = "pending" /\ UNCHANGED <<journal, plan>>
  /\ failed' \in BOOLEAN /\ (~failed' => ~failed) /\ faults' \in 0 .. MaxFaults
  /\ mem' \in [Slots -> Values] /\ disk' \in [Slots -> Values]
  /\ \A t \in Slots : mem'[t] = IF t \in S THEN "old" ELSE mem[t]
  /\ \A t \in Slots : disk'[t] \in {disk[t], mem'[t]}
  /\ (NoUser(mem) /\ NoEdit(disk))'
  /\ ~failed' => \A t \in Board : disk'[t] = "new" => mem'[t] = "new"

LEMMA UndoFacts ==
  ASSUME IInv, NEW here \in Undoing, NEW S \in SUBSET Board, NEW file, NEW next, NEW broken,
         \A t \in S : FileOf(t) = file, Undo(here, S, file, next, broken)
  PROVE  UndoResult(here, S, next, broken)
<1>. USE SlotsDistinct
<1>1. /\ pc = here /\ journal = "pending" /\ UNCHANGED <<journal, plan>> /\ NoUser(mem) /\ NoEdit(disk)
      /\ (~failed => \A t \in Board : disk[t] = "new" => mem[t] = "new")
  BY DEF Undo, IInv, TypeOK, Phases, Writing, RolledBack, Undoing
<1>2. /\ mem' \in [Slots -> Values]
      /\ \A t \in Slots : mem'[t] = IF t \in S THEN "old" ELSE mem[t]
  BY DEF Undo, Restored, IInv, TypeOK, Values
<1>3. Board \subseteq Slots
  BY DEF Slots
<1>4. NoUser(mem)'
  BY <1>1, <1>2, <1>3 DEF NoEdit, NoUser
<1>5. CASE Saved(file) /\ pc' = next /\ UNCHANGED failed
  <2>1. /\ disk' \in [Slots -> Values]
        /\ \A t \in Slots : disk'[t] = IF FileOf(t) = file THEN mem'[t] ELSE disk[t]
    BY <1>2, <1>5, SaveFacts DEF IInv, TypeOK, Holds
  <2>2. NoEdit(disk)'
    BY <1>1, <1>3, <1>4, <2>1 DEF NoEdit, NoUser
  <2>3. ~failed' => \A t \in Board : disk'[t] = "new" => mem'[t] = "new"
    BY <1>1, <1>2, <1>3, <1>5, <2>1
  <2>4. failed' \in BOOLEAN /\ (~failed' => ~failed) /\ faults' \in 0 .. MaxFaults
    BY <1>5 DEF IInv, TypeOK, Saved
  <2>. QED
    BY <1>1, <1>2, <1>4, <1>5, <2>1, <2>2, <2>3, <2>4 DEF UndoResult
<1>6. CASE SaveFailed /\ pc' = broken /\ failed' = TRUE
  <2>1. disk' = disk /\ faults' \in 0 .. MaxFaults
    BY <1>6 DEF IInv, TypeOK, SaveFailed, Fault
  <2>2. NoEdit(disk)'
    BY <1>1, <2>1 DEF NoEdit, NoUser
  <2>. QED
    BY <1>1, <1>2, <1>4, <1>6, <2>1, <2>2 DEF IInv, TypeOK, UndoResult
<1>. QED
  BY <1>5, <1>6 DEF Undo

(* A surface nothing of the conversion has touched. *)
LEMMA UntouchedFacts ==
  ASSUME IInv, NEW here \in Undoing, NEW S \in SUBSET Board, NEW next, Untouched(here, S, next)
  PROVE  /\ pc = here /\ pc' = next /\ journal = "pending" /\ \A t \in S : mem[t] = "old"
         /\ NoUser(mem) /\ NoEdit(disk)
         /\ ~failed => \A t \in Board : disk[t] = "new" => mem[t] = "new"
         /\ UNCHANGED <<journal, plan, mem, disk, failed, faults>>
BY DEF Untouched, IInv, TypeOK, Phases, Writing, RolledBack, Undoing

(* One surface of the rollback: whichever way it goes. *)
SurfaceResult(here, S, next) ==
  /\ pc = here /\ pc' = next
  /\ (TypeOK /\ Phases /\ Planned /\ Whole /\ Writing /\ Recovered /\ Edits /\ RefusesOnlyEdits)'
  /\ ~failed' => \A t \in Board : disk'[t] = "new" => mem'[t] = "new"
  /\ \A t \in S : mem'[t] = "old"
  /\ \A t \in Slots : mem[t] = "old" => mem'[t] = "old"

LEMMA SurfaceFacts ==
  ASSUME IInv, NEW here \in Undoing, NEW S \in SUBSET Board, NEW file, NEW next \in Undoing,
         \A t \in S : FileOf(t) = file, Surface(here, S, file, next)
  PROVE  SurfaceResult(here, S, next)
<1>. USE SlotsDistinct
<1>1. /\ pc = here /\ pc' = next /\ journal = "pending" /\ UNCHANGED <<journal, plan>>
      /\ failed' \in BOOLEAN /\ faults' \in 0 .. MaxFaults
      /\ mem' \in [Slots -> Values] /\ disk' \in [Slots -> Values]
      /\ \A t \in Slots : mem'[t] \in {"old", mem[t]} /\ disk'[t] \in {disk[t], mem'[t]}
      /\ (NoUser(mem) /\ NoEdit(disk))'
      /\ ~failed' => \A t \in Board : disk'[t] = "new" => mem'[t] = "new"
      /\ \A t \in S : mem'[t] = "old"
  <2>1. CASE \A t \in S : mem[t] = "old"
    <3>1. Untouched(here, S, next)
      BY <2>1 DEF Surface
    <3>. QED
      BY <3>1, UntouchedFacts DEF IInv, TypeOK, NoEdit, NoUser
  <2>2. CASE ~ \A t \in S : mem[t] = "old"
    <3>1. Undo(here, S, file, next, next)
      BY <2>2 DEF Surface
    <3>2. UndoResult(here, S, next, next)
      BY <3>1, UndoFacts
    <3>3. S \subseteq Slots
      BY DEF Slots
    <3>. QED
      BY <3>2, <3>3 DEF UndoResult
  <2>. QED
    BY <2>1, <2>2
<1>2. TypeOK'
  BY <1>1 DEF IInv, TypeOK, Places
<1>3. (Phases /\ Planned /\ Whole)'
  BY <1>1 DEF IInv, Phases, Planned, Whole, Undoing, Slots
<1>4. (Writing /\ Recovered /\ Edits /\ RefusesOnlyEdits)'
  BY <1>1 DEF IInv, Writing, Recovered, Edits, RefusesOnlyEdits, Undoing, Redoing
<1>5. \A t \in Slots : mem[t] = "old" => mem'[t] = "old"
  BY <1>1
<1>. QED
  BY <1>1, <1>2, <1>3, <1>4, <1>5 DEF SurfaceResult

LEMMA UndoActiveInv == IInv /\ UndoActive => IInv'
<1>. SUFFICES ASSUME IInv, UndoActive PROVE IInv'
  OBVIOUS
<1>1. SurfaceResult("undoActive", {"active"}, "undoSchedules")
  <2>1. /\ {"active"} \in SUBSET Board /\ \A t \in {"active"} : FileOf(t) = "settings"
        /\ "undoActive" \in Undoing /\ "undoSchedules" \in Undoing
    BY Files DEF Board, Refs, Undoing
  <2>2. Surface("undoActive", {"active"}, "settings", "undoSchedules")
    BY DEF UndoActive
  <2>. QED
    BY <2>1, <2>2, SurfaceFacts
<1>2. RolledBack'
  BY <1>1 DEF SurfaceResult, RolledBack, Undone, Undoing
<1>. QED
  BY <1>1, <1>2 DEF SurfaceResult, IInv

LEMMA UndoSchedulesInv == IInv /\ UndoSchedules => IInv'
<1>. SUFFICES ASSUME IInv, UndoSchedules PROVE IInv'
  OBVIOUS
<1>1. SurfaceResult("undoSchedules", Entries \cup {"default"}, "undoSilence")
  <2>1. /\ Entries \cup {"default"} \in SUBSET Board
        /\ \A t \in Entries \cup {"default"} : FileOf(t) = "schedules"
        /\ "undoSchedules" \in Undoing /\ "undoSilence" \in Undoing
    BY Files DEF Board, Refs, Undoing
  <2>2. Surface("undoSchedules", Entries \cup {"default"}, "schedules", "undoSilence")
    BY DEF UndoSchedules
  <2>. QED
    BY <2>1, <2>2, SurfaceFacts
<1>2. RolledBack'
  BY <1>1 DEF SurfaceResult, IInv, RolledBack, Undone, Undoing, Slots, Board, Refs
<1>. QED
  BY <1>1, <1>2 DEF SurfaceResult, IInv

LEMMA UndoSilenceInv == IInv /\ UndoSilence => IInv'
<1>. SUFFICES ASSUME IInv, UndoSilence PROVE IInv'
  OBVIOUS
<1>1. SurfaceResult("undoSilence", {"silence"}, "undoPanel")
  <2>1. /\ {"silence"} \in SUBSET Board /\ \A t \in {"silence"} : FileOf(t) = "config"
        /\ "undoSilence" \in Undoing /\ "undoPanel" \in Undoing
    BY Files DEF Board, Refs, Undoing
  <2>2. Surface("undoSilence", {"silence"}, "config", "undoPanel")
    BY DEF UndoSilence
  <2>. QED
    BY <2>1, <2>2, SurfaceFacts
<1>2. RolledBack'
  BY <1>1 DEF SurfaceResult, IInv, RolledBack, Undone, Undoing, Slots, Board, Refs
<1>. QED
  BY <1>1, <1>2 DEF SurfaceResult, IInv

LEMMA UndoPanelInv == IInv /\ UndoPanel => IInv'
<1>. SUFFICES ASSUME IInv, UndoPanel PROVE IInv'
  OBVIOUS
<1>. USE SlotsDistinct
<1>1. UndoResult("undoPanel", {"panel"}, "undoGeometry", "idle")
  <2>1. /\ {"panel"} \in SUBSET Board /\ \A t \in {"panel"} : FileOf(t) = "panels"
        /\ "undoPanel" \in Undoing
    BY Files DEF Board, Shape, Undoing
  <2>2. Undo("undoPanel", {"panel"}, "panels", "undoGeometry", "idle")
    BY DEF UndoPanel
  <2>. QED
    BY <2>1, <2>2, UndoFacts
<1>2. TypeOK'
  BY <1>1 DEF UndoResult, IInv, TypeOK, Places, Undoing
<1>3. (Phases /\ Planned /\ Whole)'
  BY <1>1 DEF UndoResult, IInv, Phases, Planned, Whole, Slots
<1>4. (Writing /\ Recovered /\ Edits /\ RefusesOnlyEdits)'
  BY <1>1 DEF UndoResult, IInv, Writing, Recovered, Edits, RefusesOnlyEdits, Undoing, Redoing, NoEdit, NoUser
<1>5. RolledBack'
  BY <1>1 DEF UndoResult, IInv, RolledBack, Undone, Undoing, Slots, Board, Refs, Shape
<1>. QED
  BY <1>2, <1>3, <1>4, <1>5 DEF IInv

LEMMA UndoGeometryInv == IInv /\ UndoGeometry => IInv'
<1>. SUFFICES ASSUME IInv, UndoGeometry PROVE IInv'
  OBVIOUS
<1>. USE SlotsDistinct
<1>. DEFINE next == IF failed THEN "idle" ELSE "clean"
<1>1. UndoResult("undoGeometry", {"geometry"}, next, "idle")
  <2>1. /\ {"geometry"} \in SUBSET Board /\ \A t \in {"geometry"} : FileOf(t) = "settings"
        /\ "undoGeometry" \in Undoing
    BY Files DEF Board, Shape, Undoing
  <2>2. Undo("undoGeometry", {"geometry"}, "settings", next, "idle")
    BY DEF UndoGeometry
  <2>. HIDE DEF next
  <2>. QED
    BY <2>1, <2>2, UndoFacts
<1>2. pc' \in {"idle", "clean"} /\ (pc' = "clean" => ~failed')
  BY <1>1 DEF UndoResult, UndoGeometry, Undo, IInv, TypeOK
<1>3. TypeOK'
  BY <1>1, <1>2 DEF UndoResult, IInv, TypeOK, Places
<1>4. (Phases /\ Planned /\ Whole)'
  BY <1>1, <1>2 DEF UndoResult, IInv, Phases, Planned, Whole, Slots
<1>5. (Writing /\ Recovered /\ Edits /\ RefusesOnlyEdits)'
  BY <1>1, <1>2 DEF UndoResult, IInv, Writing, Recovered, Edits, RefusesOnlyEdits, Undoing, Redoing, NoEdit, NoUser
<1>6. \A t \in Board : mem'[t] = "old"
  BY <1>1 DEF UndoResult, IInv, RolledBack, Undone, Undoing, Slots, Board, Refs, Shape
<1>7. RolledBack'
  BY <1>1, <1>2, <1>6 DEF UndoResult, RolledBack, Undoing, NoneNew
<1>. QED
  BY <1>3, <1>4, <1>5, <1>7 DEF IInv

LEMMA CleanInv ==
  ASSUME IInv, NEW s \in Contents, Clean(s) PROVE IInv'
<1>. USE SlotsDistinct
<1>1. /\ pc = "clean" /\ journal = "pending" /\ UNCHANGED <<journal, plan, pc>>
      /\ NoneNew(mem) /\ NoneNew(disk) /\ NoUser(mem) /\ NoEdit(disk)
  BY DEF Clean, IInv, TypeOK, Phases, RolledBack, Writing
<1>2. s \in Slots /\ s \notin Board /\ s # "original"
  BY DEF Slots, Board, Refs, Shape, Contents
<1>3. /\ mem' \in [Slots -> Values] /\ mem'[s] = "old"
      /\ \A t \in Slots \ {s} : mem'[t] = mem[t]
  BY <1>2 DEF Clean, IInv, TypeOK, Values
<1>4. \A t \in Board : t \in Slots /\ mem'[t] = mem[t]
  BY <1>2, <1>3 DEF Slots
<1>5. /\ disk' \in [Slots -> Values] /\ failed' \in BOOLEAN /\ faults' \in 0 .. MaxFaults
      /\ \A t \in Slots : disk'[t] \in {disk[t], mem'[t]}
  <2>1. CASE Saved(FileOf(s)) /\ UNCHANGED failed
    BY <1>3, <2>1, SaveFacts DEF IInv, TypeOK, Holds, Saved
  <2>2. CASE SaveFailed /\ failed' = (failed \/ s \in CollectionCopies)
    BY <2>2 DEF IInv, TypeOK, SaveFailed, Fault
  <2>. QED
    BY <2>1, <2>2 DEF Clean
<1>6. TypeOK'
  BY <1>1, <1>3, <1>5 DEF IInv, TypeOK
<1>7. (Phases /\ Planned /\ Whole)'
  BY <1>1, <1>2, <1>3, <1>4, <1>5 DEF IInv, Phases, Planned, Whole, Slots
<1>8. (Writing /\ RolledBack /\ Recovered /\ Edits /\ RefusesOnlyEdits)'
  BY <1>1, <1>4, <1>5 DEF Writing, RolledBack, Recovered, Edits, RefusesOnlyEdits, Undoing, Redoing, NoEdit, NoUser, NoneNew
<1>. QED
  BY <1>6, <1>7, <1>8 DEF IInv

LEMMA CleanEndsInv == IInv /\ CleanEnds => IInv'
<1>. SUFFICES ASSUME IInv, CleanEnds PROVE IInv'
  OBVIOUS
<1>. USE SlotsDistinct
<1>1. /\ pc = "clean" /\ journal = "pending" /\ pc' = "idle" /\ journal' \in {"absent", "pending"}
      /\ UNCHANGED <<plan, mem, disk, failed>> /\ faults' \in 0 .. MaxFaults
      /\ NoneNew(mem) /\ NoneNew(disk) /\ NoUser(mem) /\ NoEdit(disk)
  BY DEF CleanEnds, Discarded, Fault, IInv, TypeOK, Phases, RolledBack, Writing
<1>2. TypeOK'
  BY <1>1 DEF IInv, TypeOK, Places
<1>3. (Phases /\ Planned /\ Whole)'
  BY <1>1 DEF IInv, Phases, Planned, Whole, WholeNew, WholeOld, AllNew, NoneNew
<1>4. \A t \in Board : mem[t] = "old" /\ disk[t] \in {"old", "stale"}
  BY <1>1 DEF IInv, TypeOK, NoneNew, NoEdit, NoUser, Slots, Values
<1>5. (Writing /\ RolledBack /\ Recovered /\ Edits /\ RefusesOnlyEdits)'
  BY <1>1, <1>4 DEF Writing, RolledBack, Recovered, Edits, Late, RefusesOnlyEdits, Undoing, Redoing
<1>. QED
  BY <1>2, <1>3, <1>5 DEF IInv

LEMMA CrashInv == IInv /\ Crash => IInv'
<1>. SUFFICES ASSUME IInv, Crash PROVE IInv'
  OBVIOUS
<1>. USE SlotsDistinct
<1>1. /\ pc' = "down" /\ UNCHANGED <<journal, plan, disk, failed>> /\ faults' \in 0 .. MaxFaults
  BY DEF Crash, Fault, IInv, TypeOK
<1>2. mem' \in [Slots -> Values] /\ \A t \in Slots : mem'[t] = "old"
  BY DEF Crash, Unconverted, Values
<1>3. TypeOK'
  BY <1>1, <1>2 DEF IInv, TypeOK, Places
<1>4. Phases'
  BY <1>1 DEF Crash, IInv, TypeOK, Phases
<1>5. (Planned /\ Whole)'
  BY <1>1, <1>2 DEF Crash, IInv, Planned, Whole, WholeNew, WholeOld, AllNew, NoneNew, Slots
<1>6. (Writing /\ RolledBack /\ Recovered /\ Edits /\ RefusesOnlyEdits)'
  BY <1>1 DEF Writing, RolledBack, Recovered, Edits, RefusesOnlyEdits, Undoing, Redoing
<1>. QED
  BY <1>3, <1>4, <1>5, <1>6 DEF IInv

LEMMA RestartInv == IInv /\ Restart => IInv'
<1>. SUFFICES ASSUME IInv, Restart PROVE IInv'
  OBVIOUS
<1>1. /\ pc \in {"down", "refused"} /\ pc' = "boot" /\ mem' = disk
      /\ UNCHANGED <<journal, plan, disk, failed, faults>>
  BY DEF Restart
<1>2. TypeOK'
  BY <1>1 DEF IInv, TypeOK, Places
<1>3. (Phases /\ Planned /\ Whole)'
  BY <1>1 DEF IInv, Phases, Planned, Whole, WholeNew, WholeOld, AllNew, NoneNew
<1>4. (Writing /\ RolledBack /\ Recovered /\ Edits /\ RefusesOnlyEdits)'
  BY <1>1 DEF Writing, RolledBack, Recovered, Edits, RefusesOnlyEdits, Undoing, Redoing
<1>. QED
  BY <1>2, <1>3, <1>4 DEF IInv

LEMMA BootInv == IInv /\ Boot => IInv'
<1>. SUFFICES ASSUME IInv, Boot PROVE IInv'
  OBVIOUS
<1>. USE SlotsDistinct
<1>1. pc = "boot" /\ mem = disk /\ UNCHANGED <<plan, mem, disk, failed>>
  BY DEF Boot, IInv, Recovered
<1>2. CASE journal = "absent" /\ pc' = "idle" /\ UNCHANGED <<journal, faults>>
  <2>1. TypeOK'
    BY <1>1, <1>2 DEF IInv, TypeOK, Places
  <2>2. (Phases /\ Planned /\ Whole)'
    BY <1>1, <1>2 DEF IInv, Phases, Planned, Whole, WholeNew, WholeOld, AllNew, NoneNew
  <2>3. (Writing /\ RolledBack /\ Recovered /\ Edits /\ RefusesOnlyEdits)'
    BY <1>1, <1>2 DEF Writing, RolledBack, Recovered, Edits, RefusesOnlyEdits, Undoing, Redoing
  <2>. QED
    BY <2>1, <2>2, <2>3 DEF IInv
<1>3. CASE journal = "committed" /\ Discarded("idle", "down")
  <2>1. /\ journal' \in {"absent", "committed"} /\ pc' \in {"idle", "down"} /\ faults' \in 0 .. MaxFaults
    BY <1>3 DEF Discarded, Fault, IInv, TypeOK
  <2>2. TypeOK'
    BY <1>1, <2>1 DEF IInv, TypeOK, Places
  <2>3. (Phases /\ Planned /\ Whole)'
    BY <1>1, <1>3, <2>1 DEF IInv, Phases, Planned, Whole, WholeNew, WholeOld, AllNew, NoneNew
  <2>4. (Writing /\ RolledBack /\ Recovered /\ Edits /\ RefusesOnlyEdits)'
    BY <1>1, <2>1 DEF Writing, RolledBack, Recovered, Edits, RefusesOnlyEdits, Undoing, Redoing
  <2>. QED
    BY <2>2, <2>3, <2>4 DEF IInv
<1>4. CASE journal = "pending" /\ Conflict /\ pc' = "refused" /\ UNCHANGED <<journal, faults>>
  <2>1. \E s \in Slots : disk[s] \in {"edit", "stale"}
    <3>1. \A s \in Board \cup {"original"} : s \in Slots /\ mem[s] \in Values
      BY DEF IInv, TypeOK, Slots
    <3>2. mem["original"] # "new" /\ \A s \in Board \ plan : mem[s] # "new"
      BY DEF IInv, Planned
    <3>3. \E s \in Board \cup {"original"} : mem[s] \in {"edit", "stale"}
      BY <1>4, <3>1, <3>2 DEF Conflict, Values
    <3>. QED
      BY <1>1, <3>1, <3>3
  <2>2. TypeOK'
    BY <1>1, <1>4 DEF IInv, TypeOK, Places
  <2>3. (Phases /\ Planned /\ Whole)'
    BY <1>1, <1>4 DEF IInv, Phases, Planned, Whole
  <2>4. (Writing /\ RolledBack /\ Recovered /\ Edits /\ RefusesOnlyEdits)'
    BY <1>1, <1>4, <2>1 DEF Writing, RolledBack, Recovered, Edits, RefusesOnlyEdits, Undoing, Redoing
  <2>. QED
    BY <2>2, <2>3, <2>4 DEF IInv
<1>5. CASE journal = "pending" /\ ~Conflict /\ pc' = "redoSchedules" /\ UNCHANGED <<journal, faults>>
  <2>1. NoUser(disk)
    BY <1>1, <1>5 DEF Conflict, NoUser
  <2>2. TypeOK'
    BY <1>1, <1>5 DEF IInv, TypeOK, Places, Redoing
  <2>3. (Phases /\ Planned /\ Whole)'
    BY <1>1, <1>5 DEF IInv, Phases, Planned, Whole
  <2>4. (Writing /\ RolledBack /\ Recovered /\ Edits /\ RefusesOnlyEdits)'
    BY <1>1, <1>5, <2>1 DEF Writing, RolledBack, Recovered, Edits, RefusesOnlyEdits, Undoing, Redoing, NoEdit, NoUser
  <2>. QED
    BY <2>2, <2>3, <2>4 DEF IInv
<1>. QED
  BY <1>2, <1>3, <1>4, <1>5 DEF Boot

(* One save of the recovery: its file's slots of the board are the old     *)
(* ones, or the start has failed and the files are as they were.           *)
RedoResult(here, S, next) ==
  /\ pc = here /\ pc' \in {next, "down"}
  /\ (TypeOK /\ Phases /\ Planned /\ Whole /\ Writing /\ RolledBack /\ Edits /\ RefusesOnlyEdits)'
  /\ NoUser(disk)'
  /\ pc' = next => /\ \A t \in Board : mem'[t] = disk'[t]
                   /\ \A t \in S : disk'[t] = "old"
  /\ \A t \in Board : disk[t] = "old" => disk'[t] = "old"

LEMMA RedoFacts ==
  ASSUME IInv, NEW here \in Redoing, NEW S \in SUBSET Board, NEW file, NEW next \in Redoing,
         \A t \in Board : FileOf(t) = file <=> t \in S, Redo(here, S, file, next)
  PROVE  RedoResult(here, S, next)
<1>. USE SlotsDistinct
<1>1. /\ pc = here /\ pc' \in {next, "down"} /\ journal = "pending" /\ UNCHANGED <<journal, plan, failed>>
      /\ NoUser(disk) /\ \A t \in Board : t \in Slots /\ mem[t] = disk[t]
  BY DEF Redo, IInv, TypeOK, Phases, Recovered, Redoing, Slots
<1>2. /\ mem' \in [Slots -> Values]
      /\ \A t \in Slots : mem'[t] = IF t \in S THEN "old" ELSE mem[t]
  BY DEF Redo, Restored, IInv, TypeOK, Values
<1>3. /\ disk' \in [Slots -> Values] /\ faults' \in 0 .. MaxFaults
      /\ \A t \in Slots : disk'[t] \in {disk[t], mem'[t]}
      /\ pc' = next => \A t \in Board : mem'[t] = disk'[t]
  <2>1. CASE Saved(file) /\ pc' = next
    <3>1. /\ disk' \in [Slots -> Values]
          /\ \A t \in Slots : disk'[t] = IF FileOf(t) = file THEN mem'[t] ELSE disk[t]
      BY <1>2, <2>1, SaveFacts DEF IInv, TypeOK, Holds
    <3>. QED
      BY <1>1, <1>2, <2>1, <3>1 DEF IInv, TypeOK, Saved
  <2>2. CASE SaveFailed /\ pc' = "down"
    BY <2>2 DEF IInv, TypeOK, SaveFailed, Fault, Redoing
  <2>. QED
    BY <2>1, <2>2 DEF Redo
<1>4. TypeOK'
  BY <1>1, <1>2, <1>3 DEF IInv, TypeOK, Places
<1>5. S \subseteq Slots /\ "original" \notin S
  BY DEF Slots, Board, Refs, Shape
<1>6. (Phases /\ Planned /\ Whole)'
  BY <1>1, <1>2, <1>3, <1>5 DEF IInv, Phases, Planned, Whole, Redoing, Slots
<1>7. (Writing /\ RolledBack /\ Edits /\ RefusesOnlyEdits)'
  BY <1>1 DEF Writing, RolledBack, Edits, RefusesOnlyEdits, Undoing, Redoing
<1>8. NoUser(disk)' /\ \A t \in Board : disk[t] = "old" => disk'[t] = "old"
  BY <1>1, <1>2, <1>3 DEF NoUser
<1>9. pc' = next => \A t \in S : disk'[t] = "old"
  BY <1>2, <1>3, <1>5
<1>. QED
  BY <1>1, <1>3, <1>4, <1>6, <1>7, <1>8, <1>9 DEF RedoResult

LEMMA RedoSchedulesInv == IInv /\ RedoSchedules => IInv'
<1>. SUFFICES ASSUME IInv, RedoSchedules PROVE IInv'
  OBVIOUS
<1>. USE SlotsDistinct
<1>1. RedoResult("redoSchedules", Entries \cup {"default"}, "redoConfig")
  <2>1. /\ Entries \cup {"default"} \in SUBSET Board
        /\ \A t \in Board : FileOf(t) = "schedules" <=> t \in Entries \cup {"default"}
        /\ "redoSchedules" \in Redoing /\ "redoConfig" \in Redoing
    BY Files DEF Board, Refs, Shape, Redoing
  <2>2. Redo("redoSchedules", Entries \cup {"default"}, "schedules", "redoConfig")
    BY DEF RedoSchedules
  <2>. QED
    BY <2>1, <2>2, RedoFacts
<1>2. Recovered'
  BY <1>1 DEF RedoResult, IInv, Recovered, Redone, Redoing, Board, Refs, Shape
<1>. QED
  BY <1>1, <1>2 DEF RedoResult, IInv

LEMMA RedoConfigInv == IInv /\ RedoConfig => IInv'
<1>. SUFFICES ASSUME IInv, RedoConfig PROVE IInv'
  OBVIOUS
<1>. USE SlotsDistinct
<1>1. RedoResult("redoConfig", {"silence"}, "redoPanel")
  <2>1. /\ {"silence"} \in SUBSET Board
        /\ \A t \in Board : FileOf(t) = "config" <=> t \in {"silence"}
        /\ "redoConfig" \in Redoing /\ "redoPanel" \in Redoing
    BY Files DEF Board, Refs, Shape, Redoing
  <2>2. Redo("redoConfig", {"silence"}, "config", "redoPanel")
    BY DEF RedoConfig
  <2>. QED
    BY <2>1, <2>2, RedoFacts
<1>2. Recovered'
  BY <1>1 DEF RedoResult, IInv, Recovered, Redone, Redoing, Board, Refs, Shape
<1>. QED
  BY <1>1, <1>2 DEF RedoResult, IInv

LEMMA RedoPanelInv == IInv /\ RedoPanel => IInv'
<1>. SUFFICES ASSUME IInv, RedoPanel PROVE IInv'
  OBVIOUS
<1>. USE SlotsDistinct
<1>1. RedoResult("redoPanel", {"panel"}, "redoSettings")
  <2>1. /\ {"panel"} \in SUBSET Board
        /\ \A t \in Board : FileOf(t) = "panels" <=> t \in {"panel"}
        /\ "redoPanel" \in Redoing /\ "redoSettings" \in Redoing
    BY Files DEF Board, Refs, Shape, Redoing
  <2>2. Redo("redoPanel", {"panel"}, "panels", "redoSettings")
    BY DEF RedoPanel
  <2>. QED
    BY <2>1, <2>2, RedoFacts
<1>2. Recovered'
  BY <1>1 DEF RedoResult, IInv, Recovered, Redone, Redoing, Board, Refs, Shape
<1>. QED
  BY <1>1, <1>2 DEF RedoResult, IInv

LEMMA RedoSettingsInv == IInv /\ RedoSettings => IInv'
<1>. SUFFICES ASSUME IInv, RedoSettings PROVE IInv'
  OBVIOUS
<1>. USE SlotsDistinct
<1>1. RedoResult("redoSettings", {"active", "geometry"}, "redoDiscard")
  <2>1. /\ {"active", "geometry"} \in SUBSET Board
        /\ \A t \in Board : FileOf(t) = "settings" <=> t \in {"active", "geometry"}
        /\ "redoSettings" \in Redoing /\ "redoDiscard" \in Redoing
    BY Files DEF Board, Refs, Shape, Redoing
  <2>2. Redo("redoSettings", {"active", "geometry"}, "settings", "redoDiscard")
    BY DEF RedoSettings
  <2>. QED
    BY <2>1, <2>2, RedoFacts
<1>2. Recovered'
  BY <1>1 DEF RedoResult, IInv, Recovered, Redone, Redoing, Board, Refs, Shape
<1>. QED
  BY <1>1, <1>2 DEF RedoResult, IInv

LEMMA RedoDiscardInv == IInv /\ RedoDiscard => IInv'
<1>. SUFFICES ASSUME IInv, RedoDiscard PROVE IInv'
  OBVIOUS
<1>. USE SlotsDistinct
<1>1. /\ pc = "redoDiscard" /\ journal = "pending" /\ UNCHANGED <<plan, mem, disk, failed>>
      /\ \/ pc' = "idle" /\ journal' = "absent"
         \/ pc' = "down" /\ journal' = "pending"
      /\ faults' \in 0 .. MaxFaults
  BY DEF RedoDiscard, Discarded, Fault, IInv, TypeOK, Phases
<1>2. \A t \in Board : mem[t] = "old" /\ disk[t] = "old"
  BY <1>1 DEF IInv, Recovered, Redone, Redoing, Board, Refs, Shape
<1>3. TypeOK'
  BY <1>1 DEF IInv, TypeOK, Places
<1>4. (Phases /\ Planned /\ Whole)'
  BY <1>1, <1>2 DEF IInv, Phases, Planned, Whole, WholeOld, NoneNew
<1>5. (Writing /\ RolledBack /\ Recovered /\ Edits /\ RefusesOnlyEdits)'
  BY <1>1, <1>2 DEF Writing, RolledBack, Recovered, Edits, RefusesOnlyEdits, Undoing, Redoing
<1>. QED
  BY <1>3, <1>4, <1>5 DEF IInv

(* The user's edit of one slot: memory holds it, the file holds it too or  *)
(* is as it was.                                                           *)
LEMMA UserInv ==
  ASSUME IInv, NEW s \in Slots, NEW next \in {"idle", "replace"}, pc \in {"idle", "replace"},
         mem' = [mem EXCEPT ![s] = "edit"], UserSaves(FileOf(s), next)
  PROVE  IInv'
<1>. USE SlotsDistinct
<1>1. UNCHANGED <<journal, plan, failed>> /\ pc' \in {"idle", "replace"}
  BY DEF UserSaves
<1>2. /\ mem' \in [Slots -> Values] /\ mem'[s] = "edit"
      /\ \A t \in Slots \ {s} : mem'[t] = mem[t]
  BY DEF IInv, TypeOK, Values
<1>3. /\ disk' \in [Slots -> Values] /\ faults' \in 0 .. MaxFaults
      /\ \A t \in Slots : disk'[t] \in {disk[t], mem'[t]}
  <2>1. CASE Saved(FileOf(s))
    BY <1>2, <2>1, SaveFacts DEF IInv, TypeOK, Holds, Saved
  <2>2. CASE SaveFailed
    BY <2>2 DEF IInv, TypeOK, SaveFailed, Fault
  <2>. QED
    BY <2>1, <2>2 DEF UserSaves
<1>4. TypeOK'
  BY <1>1, <1>2, <1>3 DEF IInv, TypeOK, Places
<1>5. (Phases /\ Planned)'
  BY <1>1, <1>2, <1>3 DEF IInv, Phases, Planned, Slots
<1>6. Whole'
  BY <1>1, <1>2, <1>3 DEF IInv, TypeOK, Whole, WholeNew, WholeOld, AllNew, NoneNew, Slots
<1>7. Edits'
  BY <1>1, <1>2, <1>3 DEF IInv, Edits, Late, Slots
<1>8. (Writing /\ RolledBack /\ Recovered /\ RefusesOnlyEdits)'
  BY <1>1 DEF Writing, RolledBack, Recovered, RefusesOnlyEdits, Undoing, Redoing
<1>. QED
  BY <1>4, <1>5, <1>6, <1>7, <1>8 DEF IInv

(* Every step of the user edits one slot. *)
Edited(s, next) ==
  /\ pc \in {"idle", "replace"} /\ mem' = [mem EXCEPT ![s] = "edit"]
  /\ UserSaves(FileOf(s), next)

LEMMA UserEdits ==
  ASSUME User PROVE \E s \in Slots, next \in {"idle", "replace"} : Edited(s, next)
<1>1. Editable \subseteq Slots /\ Contents \subseteq Slots /\ "original" \in Slots /\ "active" \in Slots
  BY SlotsDistinct DEF Slots, Board, Refs
<1>2. ASSUME NEW s \in Editable, Edit(s) PROVE Edited(s, "idle")
  BY <1>2 DEF Edit, Edited
<1>3. ASSUME NEW s \in Contents, NEW r, DeleteCopy(s, r)
      PROVE  \E next \in {"idle", "replace"} : Edited(s, next)
  BY <1>3 DEF DeleteCopy, Edited
<1>4. ASSUME NEW r, DeleteOriginal(r)
      PROVE  \E next \in {"idle", "replace"} : Edited("original", next)
  BY <1>4, Files DEF DeleteOriginal, Edited
<1>5. ASSUME Replace PROVE Edited("active", "idle")
  BY <1>5, Files DEF Replace, Edited
<1>. QED
  BY <1>1, <1>2, <1>3, <1>4, <1>5 DEF User

LEMMA StutterInv == IInv /\ UNCHANGED vars => IInv'
BY DEF vars, IInv, TypeOK, Phases, Planned, Whole, WholeNew, WholeOld, AllNew, NoneNew, Writing, RolledBack,
   NoEdit, NoUser, Undone, Recovered, Redone, Edits, Late, RefusesOnlyEdits

LEMMA NextInv == IInv /\ [Next]_vars => IInv'
<1>. SUFFICES ASSUME IInv, [Next]_vars PROVE IInv'
  OBVIOUS
<1>1. CASE Convert
  BY <1>1, WriteInv, CommitInv, UnlinkInv, UndoActiveInv, UndoSchedulesInv, UndoSilenceInv, UndoPanelInv,
     UndoGeometryInv, CleanInv, CleanEndsInv DEF Convert, Rollback
<1>2. CASE Recover
  BY <1>2, BootInv, RedoSchedulesInv, RedoConfigInv, RedoPanelInv, RedoSettingsInv, RedoDiscardInv DEF Recover
<1>3. CASE User
  <2>. PICK s \in Slots, next \in {"idle", "replace"} : Edited(s, next)
    BY <1>3, UserEdits
  <2>. QED
    BY UserInv DEF Edited
<1>. QED
  BY <1>1, <1>2, <1>3, BeginInv, CrashInv, RestartInv, StutterInv DEF Next

(* The invariant from which the rest follows. *)
THEOREM Invariance == Spec => []IInv
BY InitInv, NextInv, PTL DEF Spec

(* The state of a conversion is always one of those the code can be in:    *)
(* PanelResize.TypeOK for any instance.                                    *)
THEOREM TypeCorrect == Spec => []TypeOK
BY Invariance, PTL DEF IInv

(* Whatever fails and wherever the process stops, no mixture of old and    *)
(* converted selections, panel and grid is left without its undo record.   *)
THEOREM NoMixture == Spec => []AllOrNothing
<1>1. IInv => AllOrNothing
  BY DEF IInv, TypeOK, Whole, WholeNew, WholeOld, AllNew, NoneNew, AllOrNothing
<1>. QED
  BY <1>1, Invariance, PTL

(* A converted selection never points at a copy that was rolled back.      *)
THEOREM CopiesKept == Spec => []NoDangling
<1>1. IInv => NoDangling
  BY DEF IInv, TypeOK, Whole, WholeNew, WholeOld, AllNew, NoneNew, NoDangling, Board
<1>. QED
  BY <1>1, Invariance, PTL

(* The start is refused only over an edit of the user's: one made since    *)
(* the conversion began, or an earlier one that had not been saved.        *)
THEOREM NeverRefusedForNothing == Spec => []RefusesOnlyEdits
BY Invariance, PTL DEF IInv

-----------------------------------------------------------------------------
(* The conversion, its rollback and its recovery implement AtomicResize.   *)

LEMMA SameReading ==
  ASSUME \A s \in Board : AsRead'[s] = AsRead[s] PROVE UNCHANGED AsRead
BY DEF AsRead

(* A save that brings what the user gave late. *)
LEMMA LateReading ==
  ASSUME \A s \in Board : AsRead'[s] = AsRead[s] \/ (AsRead[s] = "stale" /\ AsRead'[s] = "old")
  PROVE  Promise!Next
<1>. DEFINE late == {s \in Board : AsRead[s] = "stale" /\ AsRead'[s] = "old"}
<1>1. AsRead' = [s \in Board |-> IF s \in {} THEN "edit" ELSE IF s \in late THEN "old" ELSE AsRead[s]]
  BY DEF AsRead
<1>2. late \in SUBSET Board /\ {} \in SUBSET Board /\ \A s \in late : AsRead[s] = "stale"
  OBVIOUS
<1>. HIDE DEF late
<1>3. Promise!Edit
  BY <1>1, <1>2 DEF Promise!Edit
<1>. QED
  BY <1>3 DEF Promise!Next

(* While the journal is pending a reader sees the old board. *)
LEMMA QuietSave ==
  ASSUME IInv, journal = "pending", journal' = "pending", NoEdit(disk),
         mem' \in [Slots -> Values], NoUser(mem)',
         NEW file, Saved(file) \/ SaveFailed \/ UNCHANGED disk
  PROVE  Promise!Next
<1>1. \A s \in Board : s \in Slots /\ disk[s] \in {"old", "new", "stale"} /\ mem'[s] \in {"old", "new"}
  BY DEF IInv, TypeOK, NoEdit, NoUser, Slots, Values
<1>2. \A s \in Slots : disk'[s] \in {disk[s], mem'[s]}
  BY SaveFacts DEF IInv, TypeOK, Holds, SaveFailed
<1>3. \A s \in Board : AsRead'[s] = AsRead[s] \/ (AsRead[s] = "stale" /\ AsRead'[s] = "old")
  BY <1>1, <1>2 DEF AsRead
<1>. QED
  BY <1>3, LateReading

LEMMA ConvertImplements == IInv /\ Convert => [Promise!Next]_AsRead
<1>. SUFFICES ASSUME IInv, Convert PROVE [Promise!Next]_AsRead
  OBVIOUS
<1>. USE SlotsDistinct
<1>0. Board \subseteq Slots
  BY DEF Slots
<1>1. ASSUME NEW s \in plan, Write(s) PROVE [Promise!Next]_AsRead
  <2>1. /\ journal = "pending" /\ journal' = "pending" /\ NoUser(mem) /\ NoEdit(disk)
    BY <1>1, <1>0 DEF Write, IInv, TypeOK, Phases, Writing, Late, NoEdit, NoUser
  <2>2. mem' \in [Slots -> Values] /\ NoUser(mem)'
    BY <1>1, <1>0, <2>1 DEF Write, IInv, TypeOK, Values, NoEdit, NoUser
  <2>3. Saved(FileOf(s)) \/ SaveFailed
    BY <1>1 DEF Write
  <2>. QED
    BY <2>1, <2>2, <2>3, QuietSave
<1>2. ASSUME Commit PROVE [Promise!Next]_AsRead
  <2>1. /\ pc = "write" /\ journal = "pending" /\ Shape \subseteq plan
        /\ disk' = disk /\ \A s \in plan : mem[s] = "new"
    BY <1>2 DEF Commit, IInv, TypeOK, Phases
  <2>2. \A s \in Board : /\ disk[s] \in {"old", "new", "stale"} /\ (s \in plan <=> disk[s] = "new")
    BY <2>1, <1>0 DEF IInv, TypeOK, Planned, Writing, Late, Values
  <2>3. CASE journal' = "committed"
    <3>1. \A s \in Board :
            /\ AsRead[s] \in {"old", "stale"}
            /\ AsRead'[s] = IF s \in plan \cap Board THEN "new" ELSE AsRead[s]
      BY <2>1, <2>2, <2>3 DEF AsRead
    <3>2. AsRead' = [s \in Board |-> IF s \in plan \cap Board THEN "new" ELSE AsRead[s]]
      BY <3>1 DEF AsRead
    <3>3. Shape \subseteq plan \cap Board /\ plan \cap Board \in SUBSET Board
      BY <2>1 DEF Board
    <3>4. Promise!Convert
      BY <3>1, <3>2, <3>3 DEF Promise!Convert
    <3>. QED
      BY <3>4 DEF Promise!Next
  <2>4. CASE journal' = journal
    BY <2>1, <2>4 DEF AsRead
  <2>. QED
    BY <1>2, <2>3, <2>4 DEF Commit
<1>3. ASSUME Unlink PROVE [Promise!Next]_AsRead
  BY <1>3 DEF Unlink, Discarded, IInv, TypeOK, Phases, AsRead
<1>4. ASSUME NEW here \in Undoing, NEW S, NEW file, NEW next, NEW broken, Undo(here, S, file, next, broken)
      PROVE  [Promise!Next]_AsRead
  <2>1. /\ journal = "pending" /\ journal' = "pending" /\ NoUser(mem) /\ NoEdit(disk)
    BY <1>4 DEF Undo, IInv, TypeOK, Phases, Writing, Undoing
  <2>2. mem' \in [Slots -> Values] /\ NoUser(mem)'
    BY <1>4, <1>0, <2>1 DEF Undo, Restored, IInv, TypeOK, Values, NoEdit, NoUser
  <2>3. Saved(file) \/ SaveFailed
    BY <1>4 DEF Undo
  <2>. QED
    BY <2>1, <2>2, <2>3, QuietSave
<1>5. ASSUME NEW here \in Undoing, NEW S, NEW file, NEW next, Surface(here, S, file, next)
      PROVE  [Promise!Next]_AsRead
  BY <1>4, <1>5 DEF Surface, Untouched, AsRead
<1>6. ASSUME NEW s \in Contents, Clean(s) PROVE [Promise!Next]_AsRead
  <2>1. /\ journal = "pending" /\ journal' = "pending" /\ NoUser(mem) /\ NoEdit(disk)
    BY <1>6 DEF Clean, IInv, TypeOK, Phases, Writing
  <2>2. mem' \in [Slots -> Values] /\ NoUser(mem)'
    BY <1>6, <1>0, <2>1 DEF Clean, IInv, TypeOK, Values, NoEdit, NoUser
  <2>3. Saved(FileOf(s)) \/ SaveFailed
    BY <1>6 DEF Clean
  <2>. QED
    BY <2>1, <2>2, <2>3, QuietSave
<1>7. ASSUME CleanEnds PROVE [Promise!Next]_AsRead
  BY <1>7, SameReading DEF CleanEnds, Discarded, IInv, TypeOK, Phases, RolledBack, NoneNew, AsRead
<1>8. Undoing = {"undoActive", "undoSchedules", "undoSilence", "undoPanel", "undoGeometry"}
  BY DEF Undoing
<1>9. ASSUME Rollback PROVE [Promise!Next]_AsRead
  <2>1. CASE UndoActive
    BY <1>5, <1>8, <2>1 DEF UndoActive
  <2>2. CASE UndoSchedules
    BY <1>5, <1>8, <2>2 DEF UndoSchedules
  <2>3. CASE UndoSilence
    BY <1>5, <1>8, <2>3 DEF UndoSilence
  <2>4. CASE UndoPanel
    BY <1>4, <1>8, <2>4 DEF UndoPanel
  <2>5. CASE UndoGeometry
    BY <1>4, <1>8, <2>5 DEF UndoGeometry
  <2>. QED
    BY <1>9, <1>6, <1>7, <2>1, <2>2, <2>3, <2>4, <2>5 DEF Rollback
<1>. QED
  BY <1>1, <1>2, <1>3, <1>9 DEF Convert

LEMMA RecoverImplements == IInv /\ Recover => [Promise!Next]_AsRead
<1>. SUFFICES ASSUME IInv, Recover PROVE [Promise!Next]_AsRead
  OBVIOUS
<1>. USE SlotsDistinct
<1>1. CASE Boot
  BY <1>1 DEF Boot, Discarded, AsRead
<1>2. ASSUME NEW here \in Redoing, NEW S, NEW file, NEW next, Redo(here, S, file, next)
      PROVE  [Promise!Next]_AsRead
  <2>1. /\ journal = "pending" /\ journal' = "pending" /\ NoEdit(disk) /\ NoUser(mem)
    BY <1>2 DEF Redo, IInv, TypeOK, Phases, Recovered, Redoing, NoEdit, NoUser
  <2>2. mem' \in [Slots -> Values] /\ NoUser(mem)'
    BY <1>2, <2>1 DEF Redo, Restored, IInv, TypeOK, Values, NoEdit, NoUser, Slots
  <2>3. Saved(file) \/ SaveFailed
    BY <1>2 DEF Redo
  <2>. QED
    BY <2>1, <2>2, <2>3, QuietSave
<1>3. CASE RedoDiscard
  <2>1. \A s \in Board : disk[s] = "old"
    BY <1>3 DEF RedoDiscard, IInv, Recovered, Redone, Redoing, Board, Refs, Shape
  <2>2. \A s \in Board : AsRead'[s] = AsRead[s]
    BY <1>3, <2>1 DEF RedoDiscard, AsRead
  <2>. QED
    BY <2>2, SameReading
<1>4. {"redoSchedules", "redoConfig", "redoPanel", "redoSettings"} \subseteq Redoing
  BY DEF Redoing
<1>. QED
  BY <1>1, <1>2, <1>3, <1>4 DEF Recover, RedoSchedules, RedoConfig, RedoPanel, RedoSettings

LEMMA UserImplements ==
  ASSUME IInv, NEW s \in Slots, NEW next, Edited(s, next)
  PROVE  Promise!Next
<1>1. /\ journal' = journal /\ mem' \in [Slots -> Values] /\ mem'[s] = "edit"
      /\ \A t \in Slots \ {s} : mem'[t] = mem[t]
  BY DEF Edited, UserSaves, IInv, TypeOK, Values
<1>2. \A t \in Slots : disk'[t] \in {disk[t], mem'[t]}
  BY <1>1, SaveFacts DEF Edited, UserSaves, IInv, TypeOK, Holds, SaveFailed
<1>. DEFINE edited == {t \in Board : disk'[t] = "edit"}
            late == {t \in Board : AsRead[t] = "stale" /\ AsRead'[t] = "old"}
<1>3. ASSUME NEW t \in Board, t \notin edited
      PROVE  AsRead'[t] = AsRead[t] \/ (AsRead[t] = "stale" /\ AsRead'[t] = "old")
  <2>1. t \in Slots /\ AsRead'[t] = IF journal = "pending" /\ disk'[t] = "new" THEN "old" ELSE disk'[t]
    BY <1>1 DEF AsRead, Slots
  <2>2. AsRead[t] = IF journal = "pending" /\ disk[t] = "new" THEN "old" ELSE disk[t]
    BY DEF AsRead
  <2>3. CASE disk'[t] = disk[t]
    BY <2>1, <2>2, <2>3
  <2>4. CASE disk'[t] # disk[t]
    <3>1. disk'[t] = mem[t] /\ mem[t] \in {"old", "new", "stale"}
      BY <1>1, <1>2, <1>3, <2>1, <2>4 DEF IInv, TypeOK, Values
    <3>2. disk[t] \in {"old", "new", "stale"}
      BY <2>1, <3>1 DEF Edited, IInv, TypeOK, Edits, Values
    <3>3. /\ journal # "pending" => mem[t] = disk[t] \/ (mem[t] = "old" /\ disk[t] = "stale")
          /\ journal = "pending" => mem[t] # "stale"
      BY <3>1 DEF Edited, IInv, Edits, Late
    <3>. QED
      BY <2>1, <2>2, <2>4, <3>1, <3>2, <3>3
  <2>. QED
    BY <2>3, <2>4
<1>4. \A t \in edited : AsRead'[t] = "edit"
  BY DEF AsRead
<1>5. AsRead' = [t \in Board |-> IF t \in edited THEN "edit" ELSE IF t \in late THEN "old" ELSE AsRead[t]]
  BY <1>3, <1>4 DEF AsRead
<1>6. edited \in SUBSET Board /\ late \in SUBSET Board /\ \A t \in late : AsRead[t] = "stale"
  OBVIOUS
<1>. HIDE DEF edited, late
<1>7. Promise!Edit
  BY <1>5, <1>6 DEF Promise!Edit
<1>. QED
  BY <1>7 DEF Promise!Next

LEMMA StepImplements == IInv /\ [Next]_vars => [Promise!Next]_AsRead
<1>. SUFFICES ASSUME IInv, [Next]_vars PROVE [Promise!Next]_AsRead
  OBVIOUS
<1>1. CASE Begin
  <2>1. ASSUME NEW s \in Board PROVE disk'[s] = disk[s] /\ disk[s] # "new"
    <3>1. s \in Slots \ Contents
      BY SlotsDistinct DEF Slots, Board, Refs, Shape, Contents
    <3>2. mem[s] = "old" /\ disk'[s] = disk[s]
      BY <1>1, <3>1 DEF Begin
    <3>. QED
      BY <1>1, <3>2 DEF Begin, IInv, Edits, Late
  <2>2. \A s \in Board : AsRead'[s] = AsRead[s]
    BY <2>1 DEF AsRead
  <2>. QED
    BY <2>2, SameReading
<1>2. CASE Crash \/ Restart
  BY <1>2 DEF Crash, Restart, AsRead
<1>3. CASE User
  BY <1>3, UserEdits, UserImplements
<1>4. CASE UNCHANGED vars
  BY <1>4 DEF vars, AsRead
<1>. QED
  BY <1>1, <1>2, <1>3, <1>4, ConvertImplements, RecoverImplements DEF Next

(* To a reader of the files a conversion happens in one step or not at all, *)
(* and no edit of the user's is ever taken back.                            *)
THEOREM Implements == Spec => KeepsPromise
<1>1. Init => Promise!Init
  BY DEF Init, Promise!Init, AsRead, Unconverted, Slots
<1>. QED
  BY <1>1, Invariance, StepImplements, PTL DEF Spec, KeepsPromise, Promise!Spec
=============================================================================

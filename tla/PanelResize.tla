---------------------------- MODULE PanelResize -----------------------------
(***************************************************************************)
(* Resizing a panel and copying its content to the new grid                *)
(* (src/src/panels/content_resize.py, content_resize_recovery.py, and      *)
(* their caller, routes.update_panel).  One conversion rewrites six JSON   *)
(* files, each by an atomic rename that happens or fails on its own        *)
(* (src/src/atomic_io.py), under every store's lock.  An undo journal is   *)
(* written first: a failed save rolls the conversion back from memory, a   *)
(* crash is undone at the next start, before the engine and the routes use *)
(* the files.                                                              *)
(*                                                                         *)
(* A field of a file is a slot.  It holds "old", what memory held when the *)
(* conversion began, "new", what the conversion gives it, or "edit", what  *)
(* the user gave it since; "stale" is what a file held before an earlier   *)
(* edit whose save failed.  mem is what the process holds, disk the files. *)
(***************************************************************************)
EXTENDS Naturals

CONSTANTS PageCopies,        \* the copies made of the pages selected
          CollectionCopies,  \* the copies made of the collections selected
          Entries,           \* the board's schedule entries
          Editable,          \* bound: the fields the user edits
          MaxFaults          \* bound: failed saves and crashes in a behaviour

Contents == PageCopies \cup CollectionCopies
Refs     == Entries \cup {"active", "default", "silence"}
Shape    == {"panel", "geometry"}
Board    == Refs \cup Shape
Slots    == Board \cup Contents \cup {"original"}

ASSUME SlotsDistinct ==
  /\ MaxFaults \in Nat /\ Editable \subseteq Board
  /\ PageCopies \cap CollectionCopies = {}
  /\ Entries \cap Contents = {}
  /\ (Entries \cup Contents) \cap
       {"active", "default", "silence", "panel", "geometry", "original"} = {}

(* The file that holds a slot: one rename writes all of them. *)
FileOf(s) ==
  CASE s \in PageCopies \cup {"original"}  -> "pages"
    [] s \in CollectionCopies              -> "collections"
    [] s \in Entries \cup {"default"}      -> "schedules"
    [] s \in {"active", "geometry"}        -> "settings"
    [] s = "silence"                       -> "config"
    [] s = "panel"                         -> "panels"

(* The order in which the conversion writes. *)
Stage(s) ==
  CASE s \in PageCopies       -> 1
    [] s \in CollectionCopies -> 2
    [] s \in Entries          -> 3
    [] s = "active"           -> 4
    [] s = "default"          -> 5
    [] s = "silence"          -> 6
    [] s = "panel"            -> 7
    [] s = "geometry"         -> 8
    [] s = "original"         -> 9

VARIABLES journal,  \* the undo record: "absent", "pending" or "committed"
          plan,     \* its content: the slots this conversion rewrites
          mem,      \* what the running process holds in each slot
          disk,     \* what the files hold
          pc,       \* where the process is
          failed,   \* a save of the rollback failed, or one of its clean-up
          faults    \* failed saves, failed unlinks and crashes so far

vars == <<journal, plan, mem, disk, pc, failed, faults>>

Values  == {"old", "new", "edit", "stale"}
Undoing == {"undoActive", "undoSchedules", "undoSilence", "undoPanel", "undoGeometry"}
Redoing == {"redoSchedules", "redoConfig", "redoPanel", "redoSettings", "redoDiscard"}
Places  == {"idle", "write", "unlink", "clean", "replace", "boot", "refused", "down"}
             \cup Undoing \cup Redoing

TypeOK ==
  /\ journal \in {"absent", "pending", "committed"}
  /\ plan \subseteq Contents \cup Board
  /\ mem \in [Slots -> Values] /\ disk \in [Slots -> Values]
  /\ pc \in Places
  /\ failed \in BOOLEAN
  /\ faults \in 0 .. MaxFaults

Unconverted == [s \in Slots |-> "old"]

(* Any board at which a conversion can begin.  What memory holds of it is  *)
(* called old; the file is behind where the last edit's save failed.       *)
Init ==
  /\ journal = "absent" /\ plan = {}
  /\ mem = Unconverted
  /\ disk \in [Slots -> {"old", "stale"}] /\ \A s \in Slots \ Editable : disk[s] = "old"
  /\ pc = "idle" /\ failed = FALSE /\ faults = 0

-----------------------------------------------------------------------------
(* A store's save: a rename that leaves the new document or, when it       *)
(* raises, the old one.  The stores change their memory first.             *)

Saved(file) ==
  /\ disk' = [s \in Slots |-> IF FileOf(s) = file THEN mem'[s] ELSE disk[s]]
  /\ UNCHANGED faults

Fault == faults < MaxFaults /\ faults' = faults + 1

SaveFailed == Fault /\ UNCHANGED disk

(* Mutant: a restored field is cleared instead of put back. *)
RestoredToNothing(S) == mem' = [s \in Slots |-> IF s \in S THEN "none" ELSE mem[s]]

Restored(S) == mem' = [s \in Slots |-> IF s \in S THEN "old" ELSE mem[s]]

(* Removing the journal: the unlink may fail, and leaves it then. *)
Discarded(next, broken) ==
  \/ journal' = "absent" /\ pc' = next /\ UNCHANGED faults
  \/ Fault /\ pc' = broken /\ UNCHANGED journal

-----------------------------------------------------------------------------
(* The conversion. *)

(* What a conversion may have to rewrite: the panel and the grid, and, when *)
(* a selection does not fit the new grid, copies and those selections.      *)
Plans ==
  {Shape} \cup
  {Shape \cup PageCopies \cup collections \cup moved :
     collections \in SUBSET CollectionCopies, moved \in (SUBSET Refs) \ {{}}}

(* The undo record is saved before anything else; while one is there       *)
(* another conversion is refused.  It records what memory holds, and makes *)
(* copies of its own, whatever an earlier one has left.  A board that was  *)
(* converted or edited is one of the first states, with its values renamed. *)
Begin ==
  /\ pc = "idle" /\ journal = "absent"
  /\ \A s \in Slots \ Contents : mem[s] = "old"
  /\ mem' = Unconverted
  /\ disk' = [s \in Slots |-> IF s \in Contents THEN "old" ELSE disk[s]]
  /\ plan' \in Plans
  /\ \/ journal' = "pending" /\ pc' = "write" /\ UNCHANGED faults
     \/ Fault /\ UNCHANGED <<journal, pc>>
  /\ failed' = FALSE

(* One store's create, update or setter. *)
Write(s) ==
  /\ pc = "write" /\ s \in plan /\ mem[s] = "old"
  /\ \A t \in plan : Stage(t) < Stage(s) => mem[t] = "new"
  /\ mem' = [mem EXCEPT ![s] = "new"]
  /\ \/ Saved(FileOf(s)) /\ UNCHANGED pc
     \/ SaveFailed /\ pc' = "undoActive"
  /\ UNCHANGED <<journal, plan, failed>>

Commit ==
  /\ pc = "write" /\ \A s \in plan : mem[s] = "new"
  /\ \/ journal' = "committed" /\ pc' = "unlink" /\ UNCHANGED faults
     \/ Fault /\ pc' = "undoActive" /\ UNCHANGED journal
  /\ UNCHANGED <<plan, mem, disk, failed>>

Unlink ==
  /\ pc = "unlink"
  /\ Discarded("idle", "idle")
  /\ UNCHANGED <<plan, mem, disk, failed>>

-----------------------------------------------------------------------------
(* The rollback of a conversion one of whose saves failed. *)

(* A surface the conversion has not touched is left alone. *)
Untouched(here, S, next) ==
  /\ pc = here /\ \A s \in S : mem[s] = "old"
  /\ pc' = next
  /\ UNCHANGED <<journal, plan, mem, disk, failed, faults>>

Undo(here, S, file, next, broken) ==
  /\ pc = here
  /\ Restored(S)
  /\ \/ Saved(file) /\ pc' = next /\ UNCHANGED failed
     \/ SaveFailed /\ pc' = broken /\ failed' = TRUE
  /\ UNCHANGED <<journal, plan>>

Surface(here, S, file, next) ==
  IF \A s \in S : mem[s] = "old"
  THEN Untouched(here, S, next) ELSE Undo(here, S, file, next, next)

UndoActive    == Surface("undoActive", {"active"}, "settings", "undoSchedules")
(* Mutant: the schedules are put back in memory and not saved. *)
UndoSchedulesUnsaved ==
  /\ pc = "undoSchedules" /\ Restored(Entries \cup {"default"})
  /\ pc' = "undoSilence"
  /\ UNCHANGED <<journal, plan, disk, failed, faults>>

UndoSchedules == Surface("undoSchedules", Entries \cup {"default"}, "schedules", "undoSilence")
UndoSilence   == Surface("undoSilence", {"silence"}, "config", "undoPanel")

(* The panel and the grid are restored whether or not they were touched; a *)
(* rollback with a failed save keeps the journal and every copy.           *)
UndoPanel     == Undo("undoPanel", {"panel"}, "panels", "undoGeometry", "idle")
(* Mutant: the clean-up does not look at what could not be restored. *)
UndoGeometryCleansAnyway ==
  Undo("undoGeometry", {"geometry"}, "settings", "clean", "clean")

UndoGeometry  == Undo("undoGeometry", {"geometry"}, "settings",
                      IF failed THEN "idle" ELSE "clean", "idle")

(* The copies go, the collections first: one that could not be deleted may *)
(* still name the pages.                                                   *)
Clean(s) ==
  /\ pc = "clean" /\ s \in Contents /\ mem[s] = "new"
  /\ s \in PageCopies => ~failed /\ \A c \in CollectionCopies : mem[c] = "old"
  /\ mem' = [mem EXCEPT ![s] = "old"]
  /\ \/ Saved(FileOf(s)) /\ UNCHANGED failed
     \/ SaveFailed /\ failed' = (failed \/ s \in CollectionCopies)
  /\ UNCHANGED <<journal, plan, pc>>

CleanEnds ==
  /\ pc = "clean"
  /\ \A s \in CollectionCopies : mem[s] = "old"
  /\ failed \/ \A s \in PageCopies : mem[s] = "old"
  /\ Discarded("idle", "idle")
  /\ UNCHANGED <<plan, mem, disk, failed>>

-----------------------------------------------------------------------------
(* The process stops and starts.  recover_pending_panel_resizes runs after *)
(* the migrations of the silence settings and the restore of an upgrade    *)
(* that failed, and before the panels are fitted, the engine starts and    *)
(* requests are served; an error in it stops the start.                    *)

Crash ==
  /\ pc \notin {"down", "refused"}
  /\ Fault /\ pc' = "down"
  /\ mem' = Unconverted    \* lost: Restart reads the files again
  /\ UNCHANGED <<journal, plan, disk, failed>>

Restart ==
  /\ pc \in {"down", "refused"}
  /\ mem' = disk /\ pc' = "boot"
  /\ UNCHANGED <<journal, plan, disk, failed, faults>>

(* A field that is neither what the record says it was nor what the        *)
(* conversion made it, or an original that is gone.                        *)
(* Mutant: only what the record says the fields were is recognised. *)
ConflictStrict == \E s \in Board \cup {"original"} : mem[s] # "old"

(* Mutant: only the originals are looked at. *)
ConflictOriginals == mem["original"] # "old" /\ plan \cap Contents # {}

Conflict ==
  \/ mem["original"] # "old" /\ plan \cap Contents # {}
  \/ \E s \in Board : mem[s] \notin (IF s \in plan THEN {"old", "new"} ELSE {"old"})

(* Mutant: a journal found at the start is left there. *)
BootIgnoresJournal ==
  /\ pc = "boot" /\ pc' = "idle"
  /\ UNCHANGED <<journal, plan, mem, disk, failed, faults>>

Boot ==
  /\ pc = "boot"
  /\ \/ /\ journal = "absent" /\ pc' = "idle"
        /\ UNCHANGED <<journal, faults>>
     \/ journal = "committed" /\ Discarded("idle", "down")
     \/ /\ journal = "pending"
        /\ pc' = IF Conflict THEN "refused" ELSE "redoSchedules"
        /\ UNCHANGED <<journal, faults>>
  /\ UNCHANGED <<plan, mem, disk, failed>>

Redo(here, S, file, next) ==
  /\ pc = here
  /\ Restored(S)
  /\ \/ Saved(file) /\ pc' = next
     \/ SaveFailed /\ pc' = "down"
  /\ UNCHANGED <<journal, plan, failed>>

RedoSchedules == Redo("redoSchedules", Entries \cup {"default"}, "schedules", "redoConfig")
RedoConfig    == Redo("redoConfig", {"silence"}, "config", "redoPanel")
RedoPanel     == Redo("redoPanel", {"panel"}, "panels", "redoSettings")
RedoSettings  == Redo("redoSettings", {"active", "geometry"}, "settings", "redoDiscard")

RedoDiscard ==
  /\ pc = "redoDiscard"
  /\ Discarded("idle", "down")
  /\ UNCHANGED <<plan, mem, disk, failed>>

-----------------------------------------------------------------------------
(* The user, between the conversions: the stores' locks keep edits out of  *)
(* them.  A save that fails leaves the edit in memory.                     *)

UserSaves(file, next) ==
  /\ \/ Saved(file) /\ pc' = next
     \/ SaveFailed /\ pc' = "idle"
  /\ UNCHANGED <<journal, plan, failed>>

Edit(s) ==
  /\ pc = "idle" /\ s \in Editable
  /\ mem' = [mem EXCEPT ![s] = "edit"]
  /\ UserSaves(FileOf(s), "idle")

(* A page or a collection can be deleted once nothing in memory names it   *)
(* (content_references.check_content_references), but for a page that is   *)
(* the active one: it is deleted first, then replaced as the active one.   *)
(* A copy was made for a selection that moved, or for a copied collection: *)
(* for which one, r, is left open.                                         *)
MadeFor(s) == plan \cap (IF s \in PageCopies THEN Refs \cup CollectionCopies ELSE Refs)

DeleteCopy(s, r) ==
  /\ pc = "idle" /\ s \in Contents /\ mem[s] = "new"
  /\ r \in MadeFor(s) /\ (mem[r] # "new" \/ (r = "active" /\ s \in PageCopies))
  /\ mem' = [mem EXCEPT ![s] = "edit"]
  /\ UserSaves(FileOf(s), IF r = "active" /\ mem[r] = "new" THEN "replace" ELSE "idle")

DeleteOriginal(r) ==
  /\ pc = "idle" /\ mem["original"] = "old"
  /\ r \in plan \cap Refs /\ (mem[r] # "old" \/ r = "active")
  /\ mem' = [mem EXCEPT !["original"] = "edit"]
  /\ UserSaves("pages", IF r = "active" /\ mem[r] = "old" THEN "replace" ELSE "idle")

Replace ==
  /\ pc = "replace"
  /\ mem' = [mem EXCEPT !["active"] = "edit"]
  /\ UserSaves("settings", "idle")

-----------------------------------------------------------------------------
Rollback == UndoActive \/ UndoSchedules \/ UndoSilence \/ UndoPanel \/ UndoGeometry
              \/ (\E s \in Contents : Clean(s)) \/ CleanEnds
Convert  == (\E s \in plan : Write(s)) \/ Commit \/ Unlink \/ Rollback
Recover  == Boot \/ RedoSchedules \/ RedoConfig \/ RedoPanel \/ RedoSettings \/ RedoDiscard
User     ==
  \/ \E s \in Editable : Edit(s)
  \/ \E r \in Refs \cup CollectionCopies :
       (\E s \in Contents : DeleteCopy(s, r)) \/ DeleteOriginal(r)
  \/ Replace

Next == Begin \/ Convert \/ Crash \/ Restart \/ Recover \/ User

(* A request that has begun and a start that has begun go on; the service  *)
(* manager starts the process again.  Nothing makes the user act.          *)
Spec == Init /\ [][Next]_vars /\ WF_vars(Convert) /\ WF_vars(Recover) /\ WF_vars(Restart)
-----------------------------------------------------------------------------
(* Without a pending journal the files hold the board as it was or as the  *)
(* conversion made it, apart from what the user edited since: whatever     *)
(* save failed and wherever the process stopped, no mixture of old and new *)
(* selections, panel and grid is left for the engine to read.              *)
AllOrNothing ==
  journal # "pending" =>
    \/ \A s \in plan \cap Board : disk[s] # "old"
    \/ \A s \in Board : disk[s] # "new"

(* A selection that was moved finds its copies on disk: neither the        *)
(* rollback nor the recovery leaves one that points at a deleted copy.     *)
NoDangling ==
  journal # "pending" /\ (\E r \in Refs : disk[r] = "new") =>
    \A c \in plan \cap Contents : disk[c] # "old"

(* A start is refused only over something the user really changed, since   *)
(* the conversion began or before it in an edit whose save had failed: no  *)
(* crash, failed save or failed recovery of the conversion alone leaves    *)
(* the installation in a state its own recovery does not recognise.        *)
RefusesOnlyEdits == pc = "refused" => \E s \in Slots : disk[s] \in {"edit", "stale"}

(* An interrupted conversion does not stay interrupted: started again, the *)
(* process removes the journal, or refuses to start and keeps it.          *)
Recovers == (pc = "down" /\ journal # "absent") ~> (journal = "absent" \/ pc = "refused")

(* A reader of the files who takes a pending conversion as not made sees   *)
(* the whole board converted in one step, at the commit, and never sees an *)
(* edit taken back.                                                        *)
AsRead == [s \in Board |-> IF journal = "pending" /\ disk[s] = "new" THEN "old" ELSE disk[s]]
Promise == INSTANCE AtomicResize WITH value <- AsRead
KeepsPromise == Promise!Spec
=============================================================================

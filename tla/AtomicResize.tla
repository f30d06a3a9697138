---------------------------- MODULE AtomicResize ----------------------------
(***************************************************************************)
(* What a panel's resize with its content promises to whoever reads the    *)
(* stored selections of the board (src/src/panels/content_resize.py): the  *)
(* whole board moves to the copies and to the new grid in one step, or     *)
(* nothing of it moves, and what the user edits is never taken back.  A    *)
(* field is stale while the user's last edit of it waits for a save.       *)
(***************************************************************************)
CONSTANTS Board,   \* the stored fields of one panel's board
          Shape    \* those every conversion rewrites: the panel, the grid

VARIABLE value     \* what each field holds, as a reader of the files sees it

Init == value \in [Board -> {"old", "stale"}]

(* One conversion: the grid and the selections chosen move together. *)
Convert ==
  /\ \A s \in Board : value[s] \in {"old", "stale"}
  /\ \E moved \in SUBSET Board :
       /\ Shape \subseteq moved
       /\ value' = [s \in Board |-> IF s \in moved THEN "new" ELSE value[s]]

(* The user's own edits, and the late ones that the next save brings.      *)
Edit ==
  \E edited, late \in SUBSET Board :
     /\ \A s \in late : value[s] = "stale"
     /\ value' = [s \in Board |->
                    IF s \in edited THEN "edit" ELSE IF s \in late THEN "old" ELSE value[s]]

Next == Convert \/ Edit

Spec == Init /\ [][Next]_value
=============================================================================

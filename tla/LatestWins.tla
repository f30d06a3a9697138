----------------------------- MODULE LatestWins -----------------------------
(***************************************************************************)
(* What a board's send queue promises to the callers that submit to it     *)
(* (the module docstring of src/displays/send_worker.py): one send runs at *)
(* a time, it is the last one accepted, it shares its verdict with those   *)
(* it superseded, and every submitted send is told one verdict, once: that *)
(* of the send that superseded it, or failure because the queue closed.    *)
(* No threads, locks, slots or adoption lists here: SendWorker has those.  *)
(***************************************************************************)
CONSTANT Jobs

VARIABLES
    newest,     \* the send to run next, if any: the last one accepted
    waiting,    \* sends accepted and not started: that one and those it superseded
    running,    \* the send being executed, if any
    underway,   \* that one and those that share its verdict
    dropped,    \* sets of sends a closing queue has given up on but not yet told
    closed,     \* the queue takes no more sends
    verdict     \* what each send's submitter has been told

vars == <<newest, waiting, running, underway, dropped, closed, verdict>>

Verdicts == {"new", "open", "sent", "failed"}

Tell(group, value) ==
    verdict' = [j \in Jobs |-> IF j \in group THEN value ELSE verdict[j]]

Init ==
    /\ newest = {} /\ waiting = {} /\ running = {} /\ underway = {} /\ dropped = {}
    /\ closed = FALSE
    /\ verdict = [j \in Jobs |-> "new"]

\* A send is accepted: it supersedes everything still waiting, and will run in its place.
Accept(j) ==
    /\ ~closed /\ verdict[j] = "new"
    /\ newest' = {j} /\ waiting' = waiting \cup {j}
    /\ Tell({j}, "open")
    /\ UNCHANGED <<running, underway, dropped, closed>>

Refuse(j) ==
    /\ closed /\ verdict[j] = "new"
    /\ Tell({j}, "failed")
    /\ UNCHANGED <<newest, waiting, running, underway, dropped, closed>>

\* One send at a time: the newest one starts, for all that wait, when none is running.
Start ==
    /\ running = {} /\ newest # {}
    /\ running' = newest /\ newest' = {}
    /\ underway' = waiting /\ waiting' = {}
    /\ UNCHANGED <<dropped, closed, verdict>>

Finish ==
    /\ running # {}
    /\ \E value \in {"sent", "failed"} : Tell(underway, value)
    /\ running' = {} /\ underway' = {}
    /\ UNCHANGED <<newest, waiting, dropped, closed>>

\* Closing gives up on what has not started; what is underway still finishes.
Close ==
    /\ closed' = TRUE
    /\ newest' = {} /\ waiting' = {}
    /\ dropped' = IF waiting = {} THEN dropped ELSE dropped \cup {waiting}
    /\ UNCHANGED <<running, underway, verdict>>

TellDropped ==
    /\ \E group \in dropped : Tell(group, "failed") /\ dropped' = dropped \ {group}
    /\ UNCHANGED <<newest, waiting, running, underway, closed>>

Next ==
    \/ \E j \in Jobs : Accept(j) \/ Refuse(j)
    \/ Start \/ Finish \/ Close \/ TellDropped

Spec == Init /\ [][Next]_vars
=============================================================================

----------------------------- MODULE SendWorker -----------------------------
(***************************************************************************)
(* BoardSendWorker and SendJob (src/displays/send_worker.py): one board's  *)
(* latest-wins send queue.  Any thread may submit or stop; a daemon drain  *)
(* thread is started on demand and exits when the slot is empty.  Each     *)
(* action is one critical section of self._cond, or one stretch of code a  *)
(* thread runs outside it.                                                 *)
(*                                                                         *)
(* A drain thread is named after the job whose submit started it, so that  *)
(* the model can hold several (the code must show there is at most one).   *)
(***************************************************************************)
EXTENDS Naturals

CONSTANTS
    Jobs,   \* the SendJob objects the engine builds; each is submitted once
    None    \* Python's None

ASSUME NoneAssumption == None \notin Jobs

VARIABLES
    pending,    \* self._pending
    current,    \* self._current
    draining,   \* self._draining
    stopped,    \* self._stopped
    absorbed,   \* job._absorbed, for every job
    verdict,    \* the job's event and return_value: "open" until _done is set
    told,       \* how many entries the job has appended to its submitter's sink
    thread,     \* where each drain thread is in _drain
    hand,       \* the drain thread's local variable `job`
    taken       \* jobs a stop() caller took from the slot and has yet to fail

slot == <<pending, current, draining, stopped>>
jobs == <<absorbed, verdict, told>>
vars == <<slot, jobs, thread, hand, taken>>

Verdicts == {"new", "open", "sent", "failed"}
Places == {"unborn", "loop", "execute", "release", "gone"}

\* A job and the jobs whose waiters it has adopted.
Group(j) == {j} \cup absorbed[j]

\* The threads that are inside _drain.
Live == {t \in Jobs : thread[t] \in {"loop", "execute", "release"}}

\* SendJob._finish: the job and everything it absorbed resolve with `value`.
\* `why` says whether there is a reason: one handed in (stop, a closed worker),
\* or one the job's own bookkeeping recorded in fail_reason and wrote to its own
\* sink while it ran.  Either way each job of the group has one more sink entry.
\* Nothing else can reach these jobs any more, so the walk over _absorbed is one step.
FinishRewritesOwnSink(j, value, why) ==
    /\ verdict' = [k \in Jobs |-> IF k \in Group(j) THEN value ELSE verdict[k]]
    /\ told' = [k \in Jobs |->
                  told[k] + (IF ~why \/ k \notin Group(j) THEN 0 ELSE IF k = j THEN 2 ELSE 1)]
    /\ absorbed' = [absorbed EXCEPT ![j] = {}]

Finish(j, value, why) ==
    /\ verdict' = [k \in Jobs |-> IF k \in Group(j) THEN value ELSE verdict[k]]
    /\ told' = [k \in Jobs |-> IF why /\ k \in Group(j) THEN told[k] + 1 ELSE told[k]]
    /\ absorbed' = [absorbed EXCEPT ![j] = {}]

Init ==
    /\ pending = None /\ current = None
    /\ draining = FALSE /\ stopped = FALSE
    /\ absorbed = [j \in Jobs |-> {}]
    /\ verdict = [j \in Jobs |-> "new"]
    /\ told = [j \in Jobs |-> 0]
    /\ thread = [t \in Jobs |-> "unborn"]
    /\ hand = [t \in Jobs |-> None]
    /\ taken = {}

-----------------------------------------------------------------------------
\* submit(), whose critical section is one step.

\* SendJob.adopt: the new job takes the replaced job's waiters over.
AdoptSelfOnly(j) ==
    absorbed' = IF pending = None THEN absorbed
                ELSE [absorbed EXCEPT ![j] = {pending}]

Adopt(j) ==
    absorbed' = IF pending = None THEN absorbed
                ELSE [absorbed EXCEPT ![j] = Group(pending), ![pending] = {}]

\* A drain thread is started unless one has promised, through _draining, to look again.
StartDrainAlways(j) ==
    /\ draining' = TRUE
    /\ thread' = [thread EXCEPT ![j] = "loop"]

StartDrain(j) ==
    IF draining THEN UNCHANGED <<draining, thread>>
    ELSE /\ draining' = TRUE
         /\ thread' = [thread EXCEPT ![j] = "loop"]

SubmitAcceptedKeepsOldest(j) ==
    /\ verdict[j] = "new" /\ ~stopped
    /\ verdict' = [verdict EXCEPT ![j] = "open"]
    /\ IF pending = None THEN pending' = j /\ UNCHANGED absorbed
       ELSE pending' = pending /\ absorbed' = [absorbed EXCEPT ![pending] = @ \cup {j}]
    /\ StartDrain(j)
    /\ UNCHANGED <<current, stopped, told, hand, taken>>

SubmitAccepted(j) ==
    /\ verdict[j] = "new" /\ ~stopped
    /\ verdict' = [verdict EXCEPT ![j] = "open"]
    /\ Adopt(j)
    /\ pending' = j
    /\ StartDrain(j)
    /\ UNCHANGED <<current, stopped, told, hand, taken>>

SubmitRefused(j) ==
    /\ verdict[j] = "new" /\ stopped
    /\ Finish(j, "failed", TRUE)
    /\ UNCHANGED <<slot, thread, hand, taken>>

-----------------------------------------------------------------------------
\* stop(), which several callers may be in at once: the slot is emptied under the
\* lock, the job found there is failed after it.

StopTake ==
    /\ stopped' = TRUE
    /\ pending' = None
    /\ taken' = IF pending = None THEN taken ELSE taken \cup {pending}
    /\ UNCHANGED <<current, draining, jobs, thread, hand>>

StopFail(j) ==
    /\ j \in taken
    /\ Finish(j, "failed", TRUE)
    /\ taken' = taken \ {j}
    /\ UNCHANGED <<slot, thread, hand>>

-----------------------------------------------------------------------------
\* _drain(), one thread.

\* Lock held: the slot is emptied into the local `job`, which becomes current.
DrainTake(t) ==
    /\ thread[t] = "loop" /\ pending # None /\ ~stopped
    /\ hand' = [hand EXCEPT ![t] = pending]
    /\ pending' = None /\ current' = pending
    /\ thread' = [thread EXCEPT ![t] = "execute"]
    /\ UNCHANGED <<draining, stopped, jobs, taken>>

\* Lock held: nothing to do, or the worker is stopped (then a job found in the slot
\* would be failed): _draining falls and the thread returns.
DrainExitKeepsFlag(t) ==
    /\ thread[t] = "loop" /\ (pending = None \/ stopped)
    /\ thread' = [thread EXCEPT ![t] = "gone"]
    /\ UNCHANGED <<slot, jobs, hand, taken>>

DrainExit(t) ==
    /\ thread[t] = "loop" /\ (pending = None \/ stopped)
    /\ draining' = FALSE
    /\ pending' = None
    /\ thread' = [thread EXCEPT ![t] = "gone"]
    /\ IF pending = None THEN UNCHANGED jobs ELSE Finish(pending, "failed", TRUE)
    /\ UNCHANGED <<current, stopped, hand, taken>>

\* No lock: execute() runs the send and its bookkeeping, then resolves the job.  A run
\* that raises resolves it as failed too (the finally), and the thread survives.
DrainExecute(t) ==
    /\ thread[t] = "execute"
    /\ \/ Finish(hand[t], "sent", FALSE)
       \/ \E why \in BOOLEAN : Finish(hand[t], "failed", why)
    /\ thread' = [thread EXCEPT ![t] = "release"]
    /\ UNCHANGED <<slot, hand, taken>>

\* Lock held: the executed job stops being current, and the thread looks again.
DrainRelease(t) ==
    /\ thread[t] = "release"
    /\ current' = None
    /\ thread' = [thread EXCEPT ![t] = "loop"]
    /\ hand' = [hand EXCEPT ![t] = None]
    /\ UNCHANGED <<pending, draining, stopped, jobs, taken>>

Drain(t) == DrainTake(t) \/ DrainExit(t) \/ DrainExecute(t) \/ DrainRelease(t)

Next ==
    \/ \E j \in Jobs : SubmitAccepted(j) \/ SubmitRefused(j) \/ StopFail(j) \/ Drain(j)
    \/ StopTake

Spec == Init /\ [][Next]_vars

\* A started thread keeps running and a caller inside stop() returns.  A send ends:
\* the driver's write budget, the clients' HTTP timeouts and the caps on transitions
\* and sequences bound it.
Fairness == \A j \in Jobs : WF_vars(Drain(j)) /\ WF_vars(StopFail(j))

FairSpec == Spec /\ Fairness

-----------------------------------------------------------------------------
\* What active_keys() reports: the queued job and the one being executed.
ActiveJobs == {pending, current} \ {None}

\* The jobs somebody is about to resolve: the queued one, the ones being executed,
\* the ones a stop() has taken.
Heads == ({pending} \ {None}) \cup {hand[t] : t \in {u \in Jobs : thread[u] = "execute"}} \cup taken

\* Type invariant of the worker's fields, its jobs and its threads.
TypeOK ==
    /\ pending \in Jobs \cup {None} /\ current \in Jobs \cup {None}
    /\ draining \in BOOLEAN /\ stopped \in BOOLEAN
    /\ absorbed \in [Jobs -> SUBSET Jobs]
    /\ verdict \in [Jobs -> Verdicts]
    /\ told \in [Jobs -> Nat]
    /\ thread \in [Jobs -> Places]
    /\ hand \in [Jobs -> Jobs \cup {None}]
    /\ taken \subseteq Jobs

\* Sends of one board never overlap: at most one thread is inside _drain, although a
\* submit starts a new one each time it finds _draining false, and what it executes is
\* what active_keys() reports as current (send_worker.py 138-144, 190-204).
OneDrainThread ==
    /\ \A t, u \in Live : t = u
    /\ \A t \in Live : thread[t] \in {"execute", "release"} => current = hand[t]

\* A job that was accepted and is not resolved is in the group of exactly one job that
\* somebody will resolve, and a queued job always has a thread that will look at the
\* slot: none is stranded by the thread's exit, by adoption or by stop (139-141).
NoJobStranded ==
    /\ \A j \in Jobs : verdict[j] = "open" =>
          \E h \in Heads : \A k \in Heads : j \in Group(k) <=> k = h
    /\ pending # None => Live # {}

\* The reason of a failure reaches each waiter's sink once, and only a failed one's
\* (_finish, 87-100: "must not double-write its sink").
ToldOnce == \A j \in Jobs : told[j] <= 1 /\ (verdict[j] # "failed" => told[j] = 0)

\* Every job that was submitted resolves, also one replaced in the slot, one that was
\* queued when the worker was stopped and one submitted after it.
EveryJobSettles == \A j \in Jobs : verdict[j] = "open" ~> verdict[j] \in {"sent", "failed"}

-----------------------------------------------------------------------------
\* The mapping to LatestWins: the queued job and the one a thread executes are the sends
\* that run, a group is the set of sends that share a verdict.
Newest == {pending} \ {None}
Running == {hand[t] : t \in {u \in Jobs : thread[u] = "execute"}}
Waiting == IF pending = None THEN {} ELSE Group(pending)
Underway == UNION {Group(hand[t]) : t \in {u \in Jobs : thread[u] = "execute"}}
Dropped == {Group(j) : j \in taken}

Promise == INSTANCE LatestWins WITH
    newest <- Newest, waiting <- Waiting, running <- Running, underway <- Underway,
    dropped <- Dropped, closed <- stopped

\* The queue keeps the promise LatestWins states: one send at a time, the last one that was
\* accepted, and one verdict per submitted send, that of the send which superseded it.
KeepsPromise == Promise!Spec
=============================================================================

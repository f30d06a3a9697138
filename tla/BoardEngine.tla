---------------------------- MODULE BoardEngine -----------------------------
(***************************************************************************)
(* DisplayService driving ONE board (src/main.py): the passes that decide  *)
(* what the board should show, the send worker that shows it, and the      *)
(* bookkeeping through which the passes learn what was shown.              *)
(*                                                                         *)
(* The board is a secondary one in manual mode (is_primary=False: no       *)
(* trigger input, no temporary override, no default page) showing a page,  *)
(* not a collection.  A page stands for its id with what it renders to: a  *)
(* change of either is a change of `page`.                                 *)
(*                                                                         *)
(* Passes run on the engine's thread (Tick, wait=False) and on API and     *)
(* MQTT threads (wait=True), with no lock between them.  A pass is cut at  *)
(* each call that leaves it: the key snapshot, the silence latches, the    *)
(* decision, the preemption, the submit.  The worker is the queue that     *)
(* SendWorker models and LatestWins promises: a slot and a job under way.  *)
(***************************************************************************)
EXTENDS Naturals

CONSTANTS
    Callers,    \* the threads that run passes
    Tick,       \* the engine's own thread, the caller with wait=False
    Pages,      \* what a page can render to
    Messages,   \* texts a write refused by silence can hold for the morning
    Modes,      \* the silence modes a window can have: see ModeNames
    Outcomes,   \* for each kind of send, how the driver may end it: see Ends
    EarlyHolds, \* whether a message may be held before a pass has noticed its window
    Windows,    \* bound: the silence windows that begin
    Restarts,   \* bound: the restarts of the process
    None,       \* Python's None
    Snoozing,   \* the silence indicator, or the silence page that replaces it
    Between,    \* a transition's intermediate frame
    Residue     \* what a write that was not reported as shown left on the device

Kinds == {"page", "silence", "message"}

\* "notice": the indicator, or a silence page that can be shown.  "fallback": a silence
\* page that is missing, does not fit or does not render.  "freeze": leave the board.
ModeNames == {"notice", "fallback", "freeze"}

\* How client.render can end: as a success that shows the frame (also when the driver's
\* cache claims it is there already); dropped by a rate limit, (True, False); failed or
\* raised; given up after its budget, the thread going on; cancelled with its target not
\* landed, and reported so; a transition cancelled between two of its frames, which
\* TransitionRunner.run reports as a plain success.  See Leaves for what each may do to
\* the device.
Ends == {"landed", "throttled", "refused", "timedout", "preempted", "cut"}

\* A driver whose endings the engine reads for what they are: a send that is dropped or
\* cancelled is a page's (3132 and 3466 do not ask), and no transition is cut short.
Truthful ==
    /\ "cut" \notin Outcomes["page"]
    /\ \A kind \in {"silence", "message"} : Outcomes[kind] \subseteq {"landed", "refused", "timedout"}

\* What a send may show, and a send: who waits for its outcome is part of it.
Frames == Pages \cup Messages \cup {Snoozing}
Jobs == [kind : Kinds, show : Frames, waiters : SUBSET Callers]

ASSUME CallerAssumption == Tick \in Callers
ASSUME JobAssumption == None \notin Jobs
ASSUME FrameAssumption ==
    /\ Pages \cap Messages = {}
    /\ {None, Snoozing, Between, Residue} \cap (Pages \cup Messages) = {}
    /\ None \notin {Snoozing, Between, Residue} /\ Snoozing \notin {Between, Residue}
    /\ Between # Residue
ASSUME ModeAssumption == Modes \subseteq ModeNames
ASSUME OutcomeAssumption == Outcomes \in [Kinds -> SUBSET Ends]
ASSUME BoundAssumption == EarlyHolds \in BOOLEAN /\ Windows \in Nat /\ Restarts \in Nat

VARIABLES
    page,         \* what the board's active page renders to; None: no page, or no render
    silence,      \* Config.is_silence_mode_active(board_id)
    mode,         \* silence_config["mode"] of the current or last window
    windows,      \* windows that have begun
    fresh,        \* history: the current or last window found the board Settled
    handsOff,     \* the board is paused, or the output target is the UI only
    held,         \* silence_queue's entry for the board
    content,      \* rt.last_active_page_content with rt.last_active_page_id
    wasSilent,    \* rt.last_silence_mode_active
    snoozing,     \* rt.snoozing_message_sent
    queuedShown,  \* rt.silence_queued_shown
    pending,      \* the worker's slot
    current,      \* the job the worker executes
    stage,        \* how far it is
    result,       \* what its render returned
    cancelled,    \* the output runtime's cancel token is set
    device,       \* what the board shows
    stray,        \* the thread of a write that timed out may still reach the device
    pc,           \* where each caller is in its pass; in "asleep" and "awake" it is about to
                  \* decide, having read silence_mode_active as true or false
    keys,         \* the pass's snapshot of the in-flight keys
    plan,         \* the job the pass is about to queue
    restarts      \* restarts so far

world == <<page, silence, mode, windows, fresh, handsOff>>
runtime == <<content, wasSilent, snoozing>>
worker == <<pending, current, stage, result>>
output == <<cancelled, device, stray>>
locals == <<pc, keys, plan>>
vars == <<world, held, runtime, queuedShown, worker, output, locals, restarts>>

Key(job) == <<job.kind, job.show>>
ActiveKeys == {Key(job) : job \in {pending, current} \ {None}}

\* The dedupe of an engine pass asks its snapshot, a direct caller's is not asked.
InFlightLive(c, key) == c = Tick /\ key \in ActiveKeys
InFlight(c, key) == c = Tick /\ key \in keys[c]

Init ==
    /\ page \in Pages \cup {None}
    /\ silence = FALSE /\ mode \in Modes /\ windows = 0 /\ fresh = FALSE /\ handsOff = FALSE
    /\ held = None
    /\ content = None /\ wasSilent = FALSE /\ snoozing = FALSE /\ queuedShown = None
    /\ pending = None /\ current = None /\ stage = "idle" /\ result = None
    /\ cancelled = FALSE /\ device = None /\ stray = FALSE
    /\ pc = [c \in Callers |-> "idle"]
    /\ keys = [c \in Callers |-> {}]
    /\ plan = [c \in Callers |-> None]
    /\ restarts = 0

-----------------------------------------------------------------------------
\* What the rest of the system does to the board's inputs.

ChangePage ==
    /\ page' \in (Pages \cup {None}) \ {page}
    /\ UNCHANGED <<silence, mode, windows, fresh, handsOff, held, runtime, queuedShown, worker,
                   output, locals, restarts>>

\* The board is not latched as snoozing, no notice of an earlier window is on its way, and
\* no pass that has read "no window" can be overtaken by another caller's.
Settled ==
    /\ ~snoozing
    /\ \A job \in {pending, current} \ {None} : job.kind # "silence"
    /\ \A c \in Callers :
          /\ pc[c] # "asleep" /\ (plan[c] # None => plan[c].kind # "silence")
          /\ pc[c] \in {"awake", "queue", "submit"} => Callers = {c}

SilenceBegins ==
    /\ ~silence /\ windows < Windows
    /\ silence' = TRUE /\ windows' = windows + 1 /\ mode' \in Modes /\ fresh' = Settled
    /\ UNCHANGED <<page, handsOff, held, runtime, queuedShown, worker, output, locals,
                   restarts>>

SilenceEnds ==
    /\ silence
    /\ silence' = FALSE
    /\ UNCHANGED <<page, mode, windows, fresh, handsOff, held, runtime, queuedShown, worker,
                   output, locals, restarts>>

HandOver ==
    /\ handsOff' = ~handsOff
    /\ UNCHANGED <<page, silence, mode, windows, fresh, held, runtime, queuedShown, worker, output,
                   locals, restarts>>

\* A write refused by silence is held, replacing what was held (show_queued_on_exit on).
HoldMessage ==
    /\ silence /\ (EarlyHolds \/ wasSilent)
    /\ held' \in Messages
    /\ UNCHANGED <<world, runtime, queuedShown, worker, output, locals, restarts>>

\* The process dies and starts again: the runtime is fresh, the held send is read back
\* from its file, the device keeps what it shows.
Restart ==
    /\ restarts < Restarts
    /\ restarts' = restarts + 1
    /\ content' = None /\ wasSilent' = FALSE /\ snoozing' = FALSE /\ queuedShown' = None
    /\ pending' = None /\ current' = None /\ stage' = "idle" /\ result' = None
    /\ cancelled' = FALSE /\ stray' = FALSE
    /\ pc' = [c \in Callers |-> "idle"]
    /\ keys' = [c \in Callers |-> {}]
    /\ plan' = [c \in Callers |-> None]
    /\ UNCHANGED <<world, held, device>>

-----------------------------------------------------------------------------
\* check_and_send_for_board: one pass of caller c.

\* The snapshot lives until the pass has asked it.
Goto(c, place) ==
    /\ pc' = [pc EXCEPT ![c] = place]
    /\ keys' = IF place \in {"idle", "submit"} THEN [keys EXCEPT ![c] = {}] ELSE keys

\* _pass_in_flight_keys: the snapshot comes before any dedupe state is read.  Only the
\* engine's passes consult theirs.
PassBegin(c) ==
    /\ pc[c] = "idle"
    /\ keys' = [keys EXCEPT ![c] = IF c = Tick THEN ActiveKeys ELSE {}]
    /\ pc' = [pc EXCEPT ![c] = "look"]
    /\ UNCHANGED <<world, held, runtime, queuedShown, worker, output, plan, restarts>>

\* Silence evaluation, the pause and UI-only short-circuits, the exit edge.
PassLook(c) ==
    LET exiting == ~silence /\ wasSilent IN
    /\ pc[c] = "look"
    /\ wasSilent' = silence
    /\ \/ /\ handsOff
          /\ held' = IF exiting THEN None ELSE held
          /\ Goto(c, "idle")
          /\ UNCHANGED <<content, snoozing>>
       \/ /\ ~handsOff
          /\ snoozing' = (snoozing /\ ~exiting)
          /\ content' = IF exiting THEN None ELSE content
          /\ Goto(c, IF ~silence THEN "awake" ELSE IF snoozing THEN "idle" ELSE "asleep")
          /\ UNCHANGED held
    /\ UNCHANGED <<world, queuedShown, worker, output, plan, restarts>>

\* The pass wants `show` on the board.  `waits`: its caller blocks for the outcome.
Want(c, kind, show, waits) ==
    /\ plan' = [plan EXCEPT ![c] = [kind |-> kind, show |-> show,
                                    waiters |-> IF waits THEN {c} ELSE {}]]
    /\ Goto(c, "queue")

\* _deliver_held_send and the dedupe of _send_trigger_content.
DecideHeldOnce(c) ==
    /\ pc[c] = "awake" /\ held # None
    /\ IF held \in {content, queuedShown}
       THEN /\ held' = IF content = held THEN None ELSE held
            /\ Goto(c, "idle")
            /\ UNCHANGED <<queuedShown, plan>>
       ELSE /\ queuedShown' = held
            /\ Want(c, "message", held, c # Tick)
            /\ UNCHANGED held
    /\ UNCHANGED <<world, runtime, worker, output, restarts>>

DecideHeld(c) ==
    /\ pc[c] = "awake" /\ held # None
    /\ IF content = held
       THEN /\ held' = None
            /\ Goto(c, "idle")
            /\ UNCHANGED <<queuedShown, plan>>
       ELSE /\ queuedShown' = held
            /\ Want(c, "message", held, c # Tick)
            /\ UNCHANGED held
    /\ UNCHANGED <<world, runtime, worker, output, restarts>>

\* No page, or a page that does not render: this comes before the silence dispatch.
DecideNothing(c) ==
    /\ pc[c] = "asleep" \/ (pc[c] = "awake" /\ held = None)
    /\ page = None
    /\ Goto(c, "idle")
    /\ UNCHANGED <<world, held, runtime, queuedShown, worker, output, plan, restarts>>

\* The silence dispatch.  The fallbacks of _send_silence_page drop the caller's `wait`.
DecideSilence(c) ==
    /\ pc[c] = "asleep" /\ page # None
    /\ IF mode = "freeze"
       THEN /\ wasSilent' = TRUE /\ snoozing' = TRUE
            /\ Goto(c, "idle")
            /\ UNCHANGED plan
       ELSE /\ Want(c, "silence", Snoozing, c # Tick \/ mode = "fallback")
            /\ UNCHANGED <<wasSilent, snoozing>>
    /\ UNCHANGED <<world, held, content, queuedShown, worker, output, restarts>>

\* The page send: a message delivered after silence stays up until the page changes, a
\* page the cache already has is skipped (by the render memo, or after the render).
DecidePageAdoptsAnyway(c) ==
    /\ pc[c] = "awake" /\ held = None /\ page # None
    /\ queuedShown' = None
    /\ IF content = page \/ queuedShown # None
       THEN content' = page /\ Goto(c, "idle") /\ UNCHANGED plan
       ELSE Want(c, "page", page, c # Tick) /\ UNCHANGED content
    /\ UNCHANGED <<world, held, wasSilent, snoozing, worker, output, restarts>>

DecidePage(c) ==
    /\ pc[c] = "awake" /\ held = None /\ page # None
    /\ \/ /\ content = page \/ (queuedShown # None /\ InFlight(c, <<"message", queuedShown>>))
          /\ Goto(c, "idle")
          /\ UNCHANGED <<content, queuedShown, plan>>
       \/ /\ queuedShown = None \/ ~InFlight(c, <<"message", queuedShown>>)
          /\ queuedShown' = None
          /\ IF content \in {page, queuedShown} \ {None}
             THEN content' = page /\ Goto(c, "idle") /\ UNCHANGED plan
             ELSE Want(c, "page", page, c # Tick) /\ UNCHANGED content
    /\ UNCHANGED <<world, held, wasSilent, snoozing, worker, output, restarts>>

\* The in-flight half of the dedupe, and _dispatch_send's preemption of the running send.
PassQueue(c) ==
    /\ pc[c] = "queue"
    /\ IF InFlight(c, Key(plan[c]))
       THEN /\ Goto(c, "idle")
            /\ plan' = [plan EXCEPT ![c] = None]
            /\ UNCHANGED cancelled
       ELSE /\ cancelled' = TRUE
            /\ Goto(c, "submit")
            /\ UNCHANGED plan
    /\ UNCHANGED <<world, held, runtime, queuedShown, worker, device, stray, restarts>>

\* worker.submit: the newest job takes the slot, with the waiters of the one it replaces.
AdoptNobody(job) == job
AdoptWaiters(job) ==
    IF pending = None THEN job
    ELSE [job EXCEPT !.waiters = job.waiters \cup pending.waiters]

PassSubmit(c) ==
    /\ pc[c] = "submit"
    /\ pending' = AdoptWaiters(plan[c])
    /\ Goto(c, IF c \in plan[c].waiters THEN "waiting" ELSE "idle")
    /\ plan' = [plan EXCEPT ![c] = None]
    /\ UNCHANGED <<world, held, runtime, queuedShown, current, stage, result, output, restarts>>

Pass(c) ==
    \/ PassLook(c) \/ DecideHeld(c) \/ DecideNothing(c) \/ DecideSilence(c) \/ DecidePage(c)
    \/ PassQueue(c) \/ PassSubmit(c)

-----------------------------------------------------------------------------
\* The board's drain thread.

WorkerTake ==
    /\ stage = "idle" /\ pending # None
    /\ current' = pending /\ pending' = None /\ stage' = "taken"
    /\ UNCHANGED <<world, held, runtime, queuedShown, result, output, locals, restarts>>

\* OutputRuntime.run: a fresh cancel token for this run.
WorkerRun ==
    /\ stage = "taken"
    /\ cancelled' = FALSE /\ stage' = "running"
    /\ UNCHANGED <<world, held, runtime, queuedShown, pending, current, result, device, stray,
                   locals, restarts>>

\* What the device may show once a send has ended.  A frame the driver's cache still claims
\* is acknowledged without a write, also over a Residue (a part of a write, or a stray one:
\* NeverAnotherFrame of OutputDriver).  A send that is not reported as shown may have left
\* the device alone, or be on it: its own frame with the answer lost, or an intermediate one.
Leaves(end) ==
    CASE end = "landed" -> {current.show} \cup ({device} \cap {Residue})
      [] end = "cut" -> {Between}
      [] OTHER -> {device, Residue}

\* client.render returns; to the engine a write that was given up is one that failed.
WorkerWrite(end) ==
    /\ stage = "running" /\ end \in Outcomes[current.kind]
    /\ end \in {"preempted", "cut"} => cancelled
    /\ device' \in Leaves(end)
    /\ stray' = (stray \/ end = "timedout")
    /\ result' = (IF end = "timedout" THEN "refused" ELSE end) /\ stage' = "ran"
    /\ UNCHANGED <<world, held, runtime, queuedShown, pending, current, cancelled, locals,
                   restarts>>

\* The thread of a write that timed out reaches the device after all, or gives up; whether
\* another one is left is open.
StrayWrite ==
    /\ stray /\ stray' \in BOOLEAN
    /\ device' \in {device, Residue}
    /\ UNCHANGED <<world, held, runtime, queuedShown, worker, cancelled, locals, restarts>>

\* _after_page_send.  A page send of this board was decided outside silence, and that is
\* what its bookkeeping writes to the latch.
AfterPageCachesThrottled ==
    /\ wasSilent' = IF result = "refused" THEN wasSilent ELSE FALSE
    /\ content' = IF result \in {"refused", "preempted"} THEN content ELSE current.show
    /\ UNCHANGED <<snoozing, held>>

AfterPage ==
    /\ wasSilent' = IF result = "refused" THEN wasSilent ELSE FALSE
    /\ content' = IF result \in {"refused", "throttled", "preempted"} THEN content ELSE current.show
    /\ UNCHANGED <<snoozing, held>>

\* _after_indicator_send, _after_silence_page_send: every success latches.
AfterSilenceLatchesFailure ==
    /\ snoozing' = TRUE /\ wasSilent' = TRUE
    /\ content' = IF result = "refused" THEN content ELSE current.show
    /\ UNCHANGED held

AfterSilence ==
    /\ IF result = "refused" THEN UNCHANGED runtime
       ELSE content' = current.show /\ wasSilent' = TRUE /\ snoozing' = TRUE
    /\ UNCHANGED held

\* _after_trigger_send of a held message: every success forgets the board's entry.
AfterMessageForgetsFailure ==
    /\ held' = None
    /\ content' = IF result = "refused" THEN content ELSE current.show
    /\ UNCHANGED <<wasSilent, snoozing>>

AfterMessage ==
    /\ IF result = "refused" THEN UNCHANGED <<content, held>>
       ELSE content' = current.show /\ held' = None
    /\ UNCHANGED <<wasSilent, snoozing>>

\* run_job's on_complete, and the job's event: whoever waits for it is released.
WorkerBookkeep ==
    /\ stage = "ran"
    /\ CASE current.kind = "page" -> AfterPage
         [] current.kind = "silence" -> AfterSilence
         [] current.kind = "message" -> AfterMessage
    /\ pc' = [c \in Callers |-> IF c \in current.waiters THEN "idle" ELSE pc[c]]
    /\ stage' = "booked"
    /\ UNCHANGED <<world, queuedShown, pending, current, result, output, keys, plan, restarts>>

\* The key is retired once the bookkeeping has been written.
WorkerRetireKeepsKey ==
    /\ stage = "booked"
    /\ stage' = "idle" /\ result' = None
    /\ UNCHANGED <<world, held, runtime, queuedShown, pending, current, output, locals, restarts>>

WorkerRetire ==
    /\ stage = "booked"
    /\ current' = None /\ stage' = "idle" /\ result' = None
    /\ UNCHANGED <<world, held, runtime, queuedShown, pending, output, locals, restarts>>

Work == WorkerTake \/ WorkerRun \/ (\E end \in Ends : WorkerWrite(end)) \/ WorkerBookkeep \/ WorkerRetire

Next ==
    \/ ChangePage \/ SilenceBegins \/ SilenceEnds \/ HandOver \/ HoldMessage \/ Restart
    \/ \E c \in Callers : PassBegin(c) \/ Pass(c)
    \/ Work \/ StrayWrite

Spec == Init /\ [][Next]_vars

\* run() loops for ever (a refresh interval passes, a silence edge is noticed, a wake-up
\* comes), a thread that runs keeps running, and a send ends.  WriteLands is a premise
\* about the device: it does not refuse every write for ever.
Fairness ==
    /\ WF_vars(PassBegin(Tick))
    /\ \A c \in Callers : WF_vars(Pass(c))
    /\ WF_vars(Work)
WriteLands == SF_vars(WorkerWrite("landed"))

FairSpec == Spec /\ Fairness /\ WriteLands

-----------------------------------------------------------------------------
Places == {"idle", "look", "asleep", "awake", "queue", "submit", "waiting"}

\* Nothing is queued and nothing is under way.
Idle == pending = None /\ current = None

\* Type invariant, with the two halves of the worker's state in step.
TypeOK ==
    /\ page \in Pages \cup {None} /\ mode \in ModeNames /\ windows \in 0 .. Windows
    /\ fresh \in BOOLEAN /\ stray \in BOOLEAN
    /\ silence \in BOOLEAN /\ handsOff \in BOOLEAN
    /\ held \in Messages \cup {None} /\ queuedShown \in Messages \cup {None}
    /\ content \in Frames \cup {None} /\ wasSilent \in BOOLEAN /\ snoozing \in BOOLEAN
    /\ pending \in Jobs \cup {None} /\ current \in Jobs \cup {None}
    /\ stage \in {"idle", "taken", "running", "ran", "booked"} /\ result \in Ends \cup {None}
    /\ current = None <=> stage = "idle"
    /\ cancelled \in BOOLEAN /\ device \in Frames \cup {None, Between, Residue}
    /\ pc \in [Callers -> Places] /\ keys \in [Callers -> SUBSET (Kinds \X Frames)]
    /\ plan \in [Callers -> Jobs \cup {None}]
    /\ restarts \in 0 .. Restarts

\* What a quiet board is recorded to show is what it shows, unless a later write that was
\* not reported as shown left something: the dedupe skips only what was really there.  A page
\* may be recorded over a message that is meant to stay up (main.py 2646-2647, 3133, 3467;
\* 2638-2645 "the board does not show this page").
CacheTruth ==
    Idle /\ content # None =>
        device \in {content, Residue} \/ (content \in Pages /\ device \in Messages)

\* While a window lasts that found the board settled, a board latched as snoozing shows the
\* notice once its queue is empty, unless such a write came after it (2233-2239:
\* "Steady-state silence: indicator is already on this board").
SnoozingShown ==
    silence /\ fresh /\ snoozing /\ mode # "freeze" /\ Idle => device \in {Snoozing, Residue}

\* The frame an engine pass queues is neither queued, nor under way, nor recorded as shown
\* at that moment, although the pass read these at three different times (707-739).
NoDuplicateSend ==
    [][PassSubmit(Tick) => Key(plan[Tick]) \notin ActiveKeys /\ content # plan[Tick].show]_vars

\* What the code takes for the arrival of the message held and is not: a send that was
\* dropped or cancelled (3466), or was another message's (3473); a record that a page has
\* overtaken just now, or that the driver's endings had made wrong.
Mistaken ==
    \/ /\ stage = "ran" /\ current.kind = "message"
       /\ result \in {"throttled", "preempted", "cut"} \/ current.show # held
    \/ content = held /\ (stage = "ran" \/ ~Truthful)

\* A message held during silence is forgotten only once it was put on the board, when the
\* board is not to be driven, or by one of these mistakes (silence_queue.py 19-21, main.py
\* 3398): not by a send that failed, not by being replaced, not by a restart.
HeldNotLost ==
    [][held # None /\ held' = None =>
         device \in {held, Residue} \/ handsOff \/ Mistaken]_vars

\* A page left alone outside silence reaches the board, or is recorded there under what came
\* over it: the message delivered after silence, or what is left of a failed write.
Calm(p) == page = p /\ ~silence /\ ~handsOff /\ held = None
Shown(p) == device = p \/ (content = p /\ device \in Messages \cup {Residue})
PageReachesBoard == \A p \in Pages : Calm(p) ~> (Shown(p) \/ ~Calm(p))

\* A message held through the window is shown after it, whatever its first sends met.
HeldReachesBoard ==
    \A m \in Messages : held = m /\ ~silence ~> (device = m \/ held # m \/ silence \/ handsOff)

\* A window that lasts and found the board settled puts the notice on the board, whatever
\* else was in flight at its start, or has latched it under what is left of a failed write.
Quiet == silence /\ fresh /\ ~handsOff /\ page # None /\ mode # "freeze"
SilenceReachesBoard ==
    Quiet ~> (device = Snoozing \/ (snoozing /\ device = Residue) \/ ~Quiet)

\* The caller of a wait=True pass gets its answer, also when its job was replaced.
WaitersAnswered == \A c \in Callers : pc[c] = "waiting" ~> pc[c] # "waiting"
=============================================================================

-------------------------- MODULE BoardEngineProofs --------------------------
(***************************************************************************)
(* What holds of one board's passes, queue and bookkeeping, for any pages, *)
(* messages, modes and bounds.  The types, the queue and the record hold   *)
(* for any threads that drive the board, and so do a silence window and    *)
(* the message held through it; what a pass knows between its steps, for   *)
(* the engine's thread alone.                                              *)
(***************************************************************************)
EXTENDS BoardEngine, TLAPS

\* What a send shows goes with its kind.
Fits(job) ==
    /\ job.kind = "page" => job.show \in Pages
    /\ job.kind = "silence" => job.show = Snoozing
    /\ job.kind = "message" => job.show \in Messages

\* A pass has a job in hand exactly from its decision to its submit.
JobInv ==
    /\ pending # None => Fits(pending)
    /\ current # None => Fits(current)
    /\ \A c \in Callers : plan[c] # None => Fits(plan[c]) /\ plan[c].waiters \subseteq {c}
    /\ \A c \in Callers : plan[c] # None <=> pc[c] \in {"queue", "submit"}

TypeInv == TypeOK /\ JobInv

\* Whoever waits has one job to wait for, in the slot or not yet booked, and the waiters of
\* these jobs wait.
InSlot(c) == pending # None /\ c \in pending.waiters
UnderWay(c) == current # None /\ stage # "booked" /\ c \in current.waiters

WaitInv ==
    \A c \in Callers :
        /\ pc[c] = "waiting" <=> InSlot(c) \/ UnderWay(c)
        /\ ~(InSlot(c) /\ UnderWay(c))

\* How the render ended is one of the driver's ways, and what landed is still there, or what
\* is left of a failed write.
WorkerInv ==
    stage = "ran" => /\ result \in (Outcomes[current.kind] \cup {"refused"}) \ {"timedout"}
                     /\ result = "landed" => device \in {current.show, Residue}

IInv == TypeInv /\ WaitInv /\ WorkerInv

LEMMA TypeStart == Init => TypeInv
<1> SUFFICES ASSUME Init PROVE TypeInv
  OBVIOUS
<1>1. windows \in 0 .. Windows /\ restarts \in 0 .. Restarts /\ mode \in ModeNames
  BY ModeAssumption, BoundAssumption DEF Init
<1>2. TypeOK
  BY <1>1 DEF Init, TypeOK, Places
<1>3. JobInv
  BY DEF Init, JobInv
<1>4. QED
  BY <1>2, <1>3 DEF TypeInv

\* A job is none of the values that stand beside it.
LEMMA NewJob ==
  ASSUME NEW kind \in Kinds, NEW show \in Frames, NEW who \in SUBSET Callers
  PROVE  /\ [kind |-> kind, show |-> show, waiters |-> who] \in Jobs
         /\ [kind |-> kind, show |-> show, waiters |-> who] # None
  BY JobAssumption DEF Jobs

\* The keys in flight are keys of sends.
LEMMA KeysOfJobs == TypeOK => ActiveKeys \subseteq Kinds \X Frames
  BY DEF TypeOK, ActiveKeys, Key, Jobs

\* Where a pass goes, and what becomes of its snapshot.
LEMMA GotoMoves ==
  ASSUME TypeOK, NEW c \in Callers, NEW place \in Places, Goto(c, place)
  PROVE  /\ pc' \in [Callers -> Places] /\ keys' \in [Callers -> SUBSET (Kinds \X Frames)]
         /\ pc'[c] = place
         /\ \A d \in Callers \ {c} : pc'[d] = pc[d] /\ keys'[d] = keys[d]
         /\ place \notin {"idle", "submit"} => keys'[c] = keys[c]
  BY DEF TypeOK, Goto

\* A pass that wants a frame has the job for it in hand.
LEMMA WantPlans ==
  ASSUME TypeInv, NEW c \in Callers, NEW kind \in Kinds, NEW show \in Frames, NEW waits \in BOOLEAN,
         Want(c, kind, show, waits)
  PROVE  /\ plan' \in [Callers -> Jobs \cup {None}]
         /\ plan'[c] # None /\ plan'[c].kind = kind /\ plan'[c].show = show
         /\ plan'[c].waiters \subseteq {c}
         /\ \A d \in Callers \ {c} : plan'[d] = plan[d]
         /\ Goto(c, "queue")
<1>1. plan' = [plan EXCEPT ![c] = [kind |-> kind, show |-> show,
                                    waiters |-> IF waits THEN {c} ELSE {}]]
  BY DEF Want
<1>2. (IF waits THEN {c} ELSE {}) \in SUBSET Callers
  OBVIOUS
<1>3. QED
  BY <1>1, <1>2, NewJob DEF Want, TypeInv, TypeOK

\* The inputs of the board, and a restart.
LEMMA InputKeepsType ==
  ASSUME TypeInv, \/ ChangePage \/ SilenceBegins \/ SilenceEnds \/ HandOver \/ HoldMessage \/ Restart
  PROVE  TypeInv'
<1> USE ModeAssumption, BoundAssumption DEF TypeInv, world, runtime, worker, output, locals
<1>1. CASE ChangePage \/ SilenceBegins \/ SilenceEnds \/ HandOver \/ HoldMessage
  <2>1. /\ page' \in Pages \cup {None} /\ mode' \in ModeNames
        /\ silence' \in BOOLEAN /\ handsOff' \in BOOLEAN /\ held' \in Messages \cup {None}
    BY <1>1 DEF TypeOK, ChangePage, SilenceBegins, SilenceEnds, HandOver, HoldMessage
  <2>7. fresh' \in BOOLEAN
    BY <1>1 DEF TypeOK, ChangePage, SilenceBegins, SilenceEnds, HandOver, HoldMessage, Settled
  <2>2. windows' \in 0 .. Windows
    <3>1. windows' = windows \/ (windows < Windows /\ windows' = windows + 1)
      BY <1>1 DEF ChangePage, SilenceBegins, SilenceEnds, HandOver, HoldMessage
    <3>2. windows \in 0 .. Windows
      BY DEF TypeOK
    <3>3. QED
      BY <3>1, <3>2
  <2>3. UNCHANGED <<runtime, queuedShown, worker, output, locals, restarts>>
    BY <1>1 DEF ChangePage, SilenceBegins, SilenceEnds, HandOver, HoldMessage
  <2>4. TypeOK'
    BY <2>1, <2>2, <2>3, <2>7 DEF TypeOK
  <2>5. JobInv'
    BY <1>1 DEF JobInv, ChangePage, SilenceBegins, SilenceEnds, HandOver, HoldMessage, Fits
  <2>6. QED
    BY <2>4, <2>5
<1>2. CASE Restart
  <2>3. restarts' \in 0 .. Restarts
    BY <1>2 DEF TypeOK, Restart
  <2>1. TypeOK'
    BY <1>2, <2>3 DEF TypeOK, Restart, Places
  <2>2. JobInv'
    BY <1>2 DEF JobInv, Restart
  <2>4. QED
    BY <2>1, <2>2
<1>3. QED
  BY <1>1, <1>2

\* A step of a pass that ends or goes on without a job in hand.
LEMMA MoveKeepsType ==
  ASSUME TypeInv, NEW c \in Callers, NEW place \in Places \ {"queue", "submit"}, Goto(c, place),
         plan[c] = None, UNCHANGED <<world, worker, output, plan, restarts>>,
         held' \in {held, None}, queuedShown' \in Messages \cup {None},
         content' \in Frames \cup {None}, wasSilent' \in BOOLEAN, snoozing' \in BOOLEAN
  PROVE  TypeInv'
<1> USE DEF TypeInv, world, worker, output
<1>1. TypeOK'
  BY GotoMoves DEF TypeOK
<1>2. JobInv'
  BY GotoMoves DEF JobInv, Fits
<1>3. QED
  BY <1>1, <1>2

\* A step of a pass that takes a job in hand.
LEMMA WantKeepsType ==
  ASSUME TypeInv, NEW c \in Callers, NEW kind \in Kinds, NEW show \in Frames, NEW waits \in BOOLEAN,
         Want(c, kind, show, waits),
         kind = "page" => show \in Pages, kind = "silence" => show = Snoozing,
         kind = "message" => show \in Messages,
         UNCHANGED <<world, held, runtime, worker, output, restarts>>,
         queuedShown' \in Messages \cup {None}
  PROVE  TypeInv'
<1> USE DEF TypeInv, world, runtime, worker, output
<1>1. /\ plan' \in [Callers -> Jobs \cup {None}]
      /\ plan'[c] # None /\ plan'[c].kind = kind /\ plan'[c].show = show
      /\ plan'[c].waiters \subseteq {c}
      /\ \A d \in Callers \ {c} : plan'[d] = plan[d]
      /\ Goto(c, "queue")
  BY WantPlans
<1>2. /\ pc' \in [Callers -> Places] /\ keys' \in [Callers -> SUBSET (Kinds \X Frames)]
      /\ pc'[c] = "queue" /\ \A d \in Callers \ {c} : pc'[d] = pc[d]
  BY <1>1, GotoMoves DEF Places
<1>3. TypeOK'
  BY <1>1, <1>2 DEF TypeOK
<1>4. JobInv'
  BY <1>1, <1>2 DEF JobInv, Fits
<1>5. QED
  BY <1>3, <1>4

\* A pass, from its snapshot to its decision.
LEMMA LookKeepsType ==
  ASSUME TypeInv, NEW c \in Callers, PassBegin(c) \/ PassLook(c) \/ DecideNothing(c)
  PROVE  TypeInv'
<1>1. CASE PassBegin(c)
  <2>1. /\ pc' \in [Callers -> Places] /\ keys' \in [Callers -> SUBSET (Kinds \X Frames)]
        /\ pc[c] = "idle" /\ pc'[c] = "look" /\ \A d \in Callers \ {c} : pc'[d] = pc[d]
    BY <1>1, KeysOfJobs DEF TypeInv, TypeOK, PassBegin, Places
  <2>2. UNCHANGED <<world, held, runtime, queuedShown, worker, output, plan, restarts>>
    BY <1>1 DEF PassBegin
  <2>3. TypeOK'
    BY <2>1, <2>2 DEF TypeInv, TypeOK, world, runtime, worker, output
  <2>4. JobInv'
    BY <2>1, <2>2 DEF TypeInv, JobInv, Fits, worker
  <2>5. QED
    BY <2>3, <2>4 DEF TypeInv
<1>2. CASE PassLook(c)
  <2>1. /\ plan[c] = None /\ held' \in {held, None} /\ wasSilent' \in BOOLEAN
        /\ snoozing' \in BOOLEAN /\ content' \in Frames \cup {None}
        /\ UNCHANGED <<world, queuedShown, worker, output, plan, restarts>>
    BY <1>2 DEF TypeInv, TypeOK, JobInv, PassLook
  <2>2. queuedShown' \in Messages \cup {None}
    BY <2>1 DEF TypeInv, TypeOK
  <2>3. PICK place \in Places \ {"queue", "submit"} : Goto(c, place)
    BY <1>2 DEF PassLook, Places
  <2>4. QED
    BY <2>1, <2>2, <2>3, MoveKeepsType
<1>3. CASE DecideNothing(c)
  <2>1. /\ plan[c] = None /\ Goto(c, "idle")
        /\ UNCHANGED <<world, held, runtime, queuedShown, worker, output, plan, restarts>>
    BY <1>3 DEF TypeInv, JobInv, DecideNothing
  <2>2. /\ queuedShown' \in Messages \cup {None} /\ content' \in Frames \cup {None}
        /\ wasSilent' \in BOOLEAN /\ snoozing' \in BOOLEAN /\ held' \in {held, None}
    BY <2>1 DEF TypeInv, TypeOK, runtime
  <2>3. QED
    BY <2>1, <2>2, MoveKeepsType DEF Places
<1>4. QED
  BY <1>1, <1>2, <1>3

LEMMA DecideKeepsType ==
  ASSUME TypeInv, NEW c \in Callers, DecideHeld(c) \/ DecideSilence(c) \/ DecidePage(c)
  PROVE  TypeInv'
<1>1. plan[c] = None
  BY DEF TypeInv, JobInv, DecideHeld, DecideSilence, DecidePage
<1>2. /\ queuedShown \in Messages \cup {None} /\ content \in Frames \cup {None}
      /\ wasSilent \in BOOLEAN /\ snoozing \in BOOLEAN /\ page \in Pages \cup {None}
      /\ held \in Messages \cup {None}
  BY DEF TypeInv, TypeOK
<1>3. CASE DecideHeld(c)
  <2>1. UNCHANGED <<world, runtime, worker, output, restarts>>
    BY <1>3 DEF DecideHeld
  <2>2. CASE held' = None /\ Goto(c, "idle") /\ UNCHANGED <<queuedShown, plan>>
    BY <1>1, <1>2, <2>1, <2>2, MoveKeepsType DEF runtime, Places
  <2>3. CASE queuedShown' = held /\ Want(c, "message", held, c # Tick) /\ UNCHANGED held
    <3>1. held \in Messages
      BY <1>2, <1>3 DEF DecideHeld
    <3>2. QED
      BY <2>1, <2>3, <3>1, WantKeepsType DEF Kinds, Frames
  <2>4. QED
    BY <1>3, <2>2, <2>3 DEF DecideHeld
<1>4. CASE DecideSilence(c)
  <2>1. UNCHANGED <<world, held, content, queuedShown, worker, output, restarts>>
    BY <1>4 DEF DecideSilence
  <2>2. CASE wasSilent' = TRUE /\ snoozing' = TRUE /\ Goto(c, "idle") /\ UNCHANGED plan
    BY <1>1, <1>2, <2>1, <2>2, MoveKeepsType DEF Places
  <2>3. CASE /\ Want(c, "silence", Snoozing, c # Tick \/ mode = "fallback")
             /\ UNCHANGED <<wasSilent, snoozing>>
    <3>1. queuedShown' \in Messages \cup {None} /\ UNCHANGED runtime
      BY <1>2, <2>1, <2>3 DEF runtime
    <3>2. QED
      BY <2>1, <2>3, <3>1, WantKeepsType DEF Kinds, Frames
  <2>4. QED
    BY <1>4, <2>2, <2>3 DEF DecideSilence
<1>5. CASE DecidePage(c)
  <2>1. page \in Pages /\ UNCHANGED <<world, held, wasSilent, snoozing, worker, output, restarts>>
    BY <1>2, <1>5 DEF DecidePage
  <2>2. CASE Goto(c, "idle") /\ UNCHANGED <<content, queuedShown, plan>>
    BY <1>1, <1>2, <2>1, <2>2, MoveKeepsType DEF Places
  <2>3. CASE queuedShown' = None /\ content' = page /\ Goto(c, "idle") /\ UNCHANGED plan
    BY <1>1, <1>2, <2>1, <2>3, MoveKeepsType DEF Places, Frames
  <2>4. CASE queuedShown' = None /\ Want(c, "page", page, c # Tick) /\ UNCHANGED content
    <3>1. UNCHANGED runtime
      BY <2>1, <2>4 DEF runtime
    <3>2. QED
      BY <2>1, <2>4, <3>1, WantKeepsType DEF Kinds, Frames
  <2>5. QED
    BY <1>5, <2>2, <2>3, <2>4 DEF DecidePage
<1>6. QED
  BY <1>3, <1>4, <1>5

\* The job that is submitted is the pass's own, with more waiters.
LEMMA AdoptKeepsJob ==
  ASSUME TypeInv, NEW c \in Callers, plan[c] # None
  PROVE  /\ AdoptWaiters(plan[c]) \in Jobs /\ AdoptWaiters(plan[c]) # None
         /\ AdoptWaiters(plan[c]).kind = plan[c].kind /\ AdoptWaiters(plan[c]).show = plan[c].show
         /\ AdoptWaiters(plan[c]).waiters
              = plan[c].waiters \cup (IF pending = None THEN {} ELSE pending.waiters)
<1>1. plan[c] \in Jobs /\ pending \in Jobs \cup {None}
  BY DEF TypeInv, TypeOK
<1>2. QED
  BY <1>1, JobAssumption DEF AdoptWaiters, Jobs

LEMMA QueueKeepsType ==
  ASSUME TypeInv, NEW c \in Callers, PassQueue(c) \/ PassSubmit(c)
  PROVE  TypeInv'
<1> USE DEF TypeInv
<1>1. CASE PassQueue(c)
  <2>1. PICK place \in {"idle", "submit"} :
           /\ Goto(c, place)
           /\ place = "idle" => plan' = [plan EXCEPT ![c] = None]
           /\ place = "submit" => plan' = plan
    BY <1>1 DEF PassQueue
  <2>2. /\ pc' \in [Callers -> Places] /\ keys' \in [Callers -> SUBSET (Kinds \X Frames)]
        /\ pc'[c] = place /\ \A d \in Callers \ {c} : pc'[d] = pc[d]
    BY <2>1, GotoMoves DEF Places
  <2>3. /\ plan' \in [Callers -> Jobs \cup {None}]
        /\ plan'[c] = IF place = "idle" THEN None ELSE plan[c]
        /\ \A d \in Callers \ {c} : plan'[d] = plan[d]
    BY <2>1 DEF TypeOK
  <2>4. cancelled' \in BOOLEAN
    BY <1>1 DEF PassQueue, TypeOK
  <2>5. /\ UNCHANGED <<world, held, runtime, queuedShown, worker, device, stray, restarts>>
        /\ pc[c] = "queue"
    BY <1>1 DEF PassQueue
  <2>6. TypeOK'
    BY <2>2, <2>3, <2>4, <2>5 DEF TypeOK, world, runtime, worker
  <2>7. JobInv'
    BY <2>2, <2>3, <2>5 DEF JobInv, Fits, worker
  <2>8. QED
    BY <2>6, <2>7
<1>2. CASE PassSubmit(c)
  <2>1. /\ pc[c] = "submit" /\ plan[c] # None /\ pending' = AdoptWaiters(plan[c])
        /\ plan' = [plan EXCEPT ![c] = None]
        /\ UNCHANGED <<world, held, runtime, queuedShown, current, stage, result, output, restarts>>
    BY <1>2 DEF PassSubmit, JobInv
  <2>2. PICK place \in {"idle", "waiting"} : Goto(c, place)
    BY <1>2 DEF PassSubmit
  <2>3. /\ pc' \in [Callers -> Places] /\ keys' \in [Callers -> SUBSET (Kinds \X Frames)]
        /\ pc'[c] = place /\ \A d \in Callers \ {c} : pc'[d] = pc[d]
    BY <2>2, GotoMoves DEF Places
  <2>4. /\ plan' \in [Callers -> Jobs \cup {None}] /\ plan'[c] = None
        /\ \A d \in Callers \ {c} : plan'[d] = plan[d]
    BY <2>1 DEF TypeOK
  <2>5. pending' \in Jobs /\ pending' # None /\ Fits(pending')
    BY <2>1, AdoptKeepsJob DEF JobInv, Fits
  <2>6. TypeOK'
    BY <2>1, <2>3, <2>4, <2>5 DEF TypeOK, world, runtime, output
  <2>7. JobInv'
    BY <2>1, <2>3, <2>4, <2>5 DEF JobInv, Fits
  <2>8. QED
    BY <2>6, <2>7
<1>3. QED
  BY <1>1, <1>2

\* A stray write touches the device alone.
LEMMA StrayDoes ==
  ASSUME StrayWrite
  PROVE  /\ UNCHANGED <<world, held, runtime, queuedShown, worker, cancelled, locals, restarts>>
         /\ device' \in {device, Residue} /\ stray' \in BOOLEAN
  BY DEF StrayWrite

\* The worker: what it does with the job, and what the bookkeeping may write.
LEMMA WorkKeepsType ==
  ASSUME TypeInv,
         \/ WorkerTake \/ WorkerRun \/ (\E end \in Ends : WorkerWrite(end)) \/ WorkerRetire
         \/ StrayWrite
  PROVE  TypeInv'
<1> USE DEF TypeInv
<1>1. CASE WorkerTake \/ WorkerRun \/ WorkerRetire
  <2>1. TypeOK'
    BY <1>1 DEF TypeOK, WorkerTake, WorkerRun, WorkerRetire, world, runtime, worker, output, locals
  <2>2. JobInv'
    BY <1>1 DEF JobInv, WorkerTake, WorkerRun, WorkerRetire, worker, locals, Fits
  <2>3. QED
    BY <2>1, <2>2
<1>2. ASSUME NEW end \in Ends, WorkerWrite(end) PROVE TypeInv'
  <2>1. current \in Jobs /\ current # None
    BY <1>2 DEF TypeOK, WorkerWrite
  <2>2. device' \in Frames \cup {None, Between, Residue} /\ stray' \in BOOLEAN
    BY <1>2, <2>1 DEF TypeOK, WorkerWrite, Leaves, Jobs
  <2>6. result' \in Ends /\ stage' = "ran" /\ stage = "running"
    BY <1>2 DEF WorkerWrite, Ends
  <2>3. TypeOK'
    BY <1>2, <2>1, <2>2, <2>6 DEF TypeOK, WorkerWrite, world, runtime, locals
  <2>4. JobInv'
    BY <1>2 DEF JobInv, WorkerWrite, locals, Fits
  <2>5. QED
    BY <2>3, <2>4
<1>4. CASE StrayWrite
  <2>1. TypeOK'
    BY <1>4, StrayDoes DEF TypeOK, world, runtime, worker, locals
  <2>2. JobInv'
    BY <1>4, StrayDoes DEF JobInv, Fits, worker, locals
  <2>3. QED
    BY <2>1, <2>2
<1>3. QED
  BY <1>1, <1>2, <1>4

\* What the bookkeeping of a send writes, by how it ended and of what kind it was.
LEMMA BookkeepWrites ==
  ASSUME TypeInv, WorkerBookkeep
  PROVE  /\ stage = "ran" /\ stage' = "booked" /\ current \in Jobs /\ current # None /\ Fits(current)
         /\ content' = content \/ content' = current.show
         /\ result = "landed" => content' = current.show
         /\ result = "refused" => content' = content /\ held' = held /\ snoozing' = snoozing
         /\ current.kind = "page" /\ result \in {"throttled", "preempted"} => content' = content
         /\ current.kind = "silence" => \/ content' = content /\ snoozing' = snoozing /\ wasSilent' = wasSilent
                                        \/ snoozing' = TRUE /\ wasSilent' = TRUE
         /\ current.kind # "silence" => snoozing' = snoozing /\ wasSilent' \in {wasSilent, FALSE}
         /\ \/ held' = held /\ (current.kind = "message" => content' = content)
            \/ held' = None /\ current.kind = "message" /\ content' = current.show
         /\ pc' = [c \in Callers |-> IF c \in current.waiters THEN "idle" ELSE pc[c]]
         /\ UNCHANGED <<world, queuedShown, pending, current, result, output, keys, plan, restarts>>
<1>1. stage = "ran" /\ stage' = "booked" /\ current \in Jobs /\ current # None /\ Fits(current)
  BY DEF TypeInv, TypeOK, JobInv, WorkerBookkeep
<1>2. current.kind \in Kinds
  BY <1>1 DEF Jobs
<1>3. CASE current.kind = "page" /\ AfterPage
  BY <1>1, <1>3 DEF WorkerBookkeep, AfterPage
<1>4. CASE current.kind = "silence" /\ AfterSilence
  BY <1>1, <1>4 DEF WorkerBookkeep, AfterSilence, runtime
<1>5. CASE current.kind = "message" /\ AfterMessage
  BY <1>1, <1>5 DEF WorkerBookkeep, AfterMessage
<1>6. QED
  BY <1>2, <1>3, <1>4, <1>5 DEF WorkerBookkeep, Kinds

LEMMA BookkeepKeepsType ==
  ASSUME TypeInv, WaitInv, WorkerBookkeep
  PROVE  TypeInv'
<1> USE DEF TypeInv
<1>1. /\ content' \in Frames \cup {None} /\ held' \in Messages \cup {None}
      /\ wasSilent' \in BOOLEAN /\ snoozing' \in BOOLEAN
  BY BookkeepWrites DEF TypeOK, Jobs, Kinds
<1>2. /\ stage = "ran" /\ stage' = "booked" /\ current # None
      /\ pc' = [c \in Callers |-> IF c \in current.waiters THEN "idle" ELSE pc[c]]
      /\ UNCHANGED <<world, queuedShown, pending, current, result, output, keys, plan, restarts>>
  BY BookkeepWrites
<1>3. TypeOK'
  BY <1>1, <1>2 DEF TypeOK, Places, world, output
<1>4. \A c \in Callers : pc'[c] = pc[c] \/ (pc[c] = "waiting" /\ pc'[c] = "idle")
  BY <1>2 DEF WaitInv, UnderWay
<1>5. JobInv'
  BY <1>2, <1>4 DEF JobInv, Fits
<1>6. QED
  BY <1>3, <1>5

\* The steps of a pass before its submit: they touch neither the queue nor another pass, and
\* wait for nothing.
Before(c) ==
    \/ PassBegin(c) \/ PassLook(c) \/ DecideHeld(c) \/ DecideNothing(c) \/ DecideSilence(c)
    \/ DecidePage(c) \/ PassQueue(c)

LEMMA BeforeMoves ==
  ASSUME TypeInv, NEW c \in Callers, Before(c)
  PROVE  /\ UNCHANGED <<worker, device, restarts, world>>
         /\ pc[c] # "waiting" /\ pc'[c] # "waiting"
         /\ \A d \in Callers \ {c} : pc'[d] = pc[d]
<1>1. UNCHANGED <<worker, device, restarts, world>> /\ pc[c] # "waiting"
  BY DEF Before, PassBegin, PassLook, DecideHeld, DecideNothing, DecideSilence, DecidePage, PassQueue,
         output
<1>2. CASE PassBegin(c)
  BY <1>1, <1>2 DEF TypeInv, TypeOK, PassBegin
<1>3. CASE \E place \in Places \ {"waiting"} : Goto(c, place)
  BY <1>1, <1>3, GotoMoves DEF TypeInv
<1>4. QED
  <2>1. PassLook(c) => \E place \in Places \ {"waiting"} : Goto(c, place)
    BY DEF PassLook, Places
  <2>2. DecideHeld(c) \/ DecideNothing(c) \/ DecideSilence(c) \/ DecidePage(c) \/ PassQueue(c)
          => \E place \in Places \ {"waiting"} : Goto(c, place)
    BY DEF DecideHeld, DecideNothing, DecideSilence, DecidePage, PassQueue, Want, Places
  <2>3. QED
    BY <1>2, <1>3, <2>1, <2>2 DEF Before

LEMMA StepKeepsWait ==
  ASSUME TypeInv, WaitInv, [Next]_vars
  PROVE  WaitInv'
<1> USE DEF WaitInv, InSlot, UnderWay
<1>1. ASSUME UNCHANGED <<pc, worker>> PROVE WaitInv'
  BY <1>1 DEF worker
<1>2. CASE Restart
  BY <1>2 DEF Restart
<1>3. ASSUME NEW c \in Callers, Before(c) PROVE WaitInv'
  BY <1>3, BeforeMoves DEF worker
<1>4. ASSUME NEW c \in Callers, PassSubmit(c) PROVE WaitInv'
  <2>1. /\ pc[c] = "submit" /\ plan[c] # None /\ plan[c].waiters \subseteq {c}
        /\ pending' = AdoptWaiters(plan[c]) /\ UNCHANGED <<current, stage>>
        /\ Goto(c, IF c \in plan[c].waiters THEN "waiting" ELSE "idle")
    BY <1>4 DEF PassSubmit, TypeInv, JobInv
  <2>2. /\ pending' # None
        /\ pending'.waiters = plan[c].waiters \cup (IF pending = None THEN {} ELSE pending.waiters)
    BY <2>1, AdoptKeepsJob
  <2>3. /\ pc'[c] = IF c \in plan[c].waiters THEN "waiting" ELSE "idle"
        /\ \A d \in Callers \ {c} : pc'[d] = pc[d]
    BY <2>1, GotoMoves DEF TypeInv, Places
  <2>4. QED
    BY <2>1, <2>2, <2>3
<1>5. CASE WorkerTake \/ WorkerRetire
  BY <1>5 DEF WorkerTake, WorkerRetire, TypeInv, TypeOK, locals
<1>6. CASE WorkerRun \/ (\E end \in Ends : WorkerWrite(end))
  BY <1>6 DEF WorkerRun, WorkerWrite, locals
<1>7. CASE WorkerBookkeep
  BY <1>7, BookkeepWrites
<1>8. CASE \/ ChangePage \/ SilenceBegins \/ SilenceEnds \/ HandOver \/ HoldMessage \/ StrayWrite
          \/ UNCHANGED vars
  BY <1>1, <1>8
  DEF ChangePage, SilenceBegins, SilenceEnds, HandOver, HoldMessage, StrayWrite, vars, locals
<1>9. QED
  BY <1>2, <1>3, <1>4, <1>5, <1>6, <1>7, <1>8 DEF Next, Pass, Work, Before

LEMMA StepKeepsWorker ==
  ASSUME TypeInv, WorkerInv, [Next]_vars
  PROVE  WorkerInv'
<1> USE DEF WorkerInv
<1>1. ASSUME UNCHANGED <<current, stage, result, device>> PROVE WorkerInv'
  BY <1>1
<1>2. ASSUME NEW c \in Callers, Before(c) PROVE WorkerInv'
  BY <1>2, BeforeMoves DEF worker
<1>3. ASSUME NEW c \in Callers, PassSubmit(c) PROVE WorkerInv'
  BY <1>1, <1>3 DEF PassSubmit, output
<1>4. CASE Restart \/ WorkerTake \/ WorkerRun \/ WorkerBookkeep \/ WorkerRetire
  BY <1>4 DEF Restart, WorkerTake, WorkerRun, WorkerBookkeep, WorkerRetire
<1>5. ASSUME NEW end \in Ends, WorkerWrite(end) PROVE WorkerInv'
  <2>1. end # "landed" => result' # "landed"
    BY <1>5 DEF WorkerWrite
  <2>2. /\ result' \in (Outcomes[current.kind] \cup {"refused"}) \ {"timedout"} /\ current' = current
        /\ end = "landed" => device' \in {current.show, Residue}
    BY <1>5 DEF WorkerWrite, Leaves
  <2>3. QED
    BY <2>1, <2>2
<1>8. CASE StrayWrite
  BY <1>8, StrayDoes DEF worker
<1>6. CASE ChangePage \/ SilenceBegins \/ SilenceEnds \/ HandOver \/ HoldMessage \/ UNCHANGED vars
  BY <1>1, <1>6 DEF ChangePage, SilenceBegins, SilenceEnds, HandOver, HoldMessage, vars, worker, output
<1>7. QED
  BY <1>2, <1>3, <1>4, <1>5, <1>6, <1>8 DEF Next, Pass, Work, Before

LEMMA StepKeepsIInv == IInv /\ [Next]_vars => IInv'
<1> SUFFICES ASSUME IInv, [Next]_vars PROVE IInv'
  OBVIOUS
<1>1. TypeInv /\ WaitInv /\ WorkerInv
  BY DEF IInv
<1>2. TypeInv'
  <2>1. CASE UNCHANGED vars
    BY <1>1, <2>1 DEF TypeInv, TypeOK, JobInv, Fits, vars, world, runtime, worker, output, locals
  <2>2. QED
    BY <1>1, <2>1, InputKeepsType, LookKeepsType, DecideKeepsType, QueueKeepsType, WorkKeepsType,
       BookkeepKeepsType DEF Next, Pass, Work
<1>3. QED
  BY <1>1, <1>2, StepKeepsWait, StepKeepsWorker DEF IInv

LEMMA Invariant == Spec => []IInv
<1>1. Init => IInv
  <2>1. Init => TypeInv
    BY TypeStart
  <2>2. Init => WaitInv /\ WorkerInv
    BY DEF Init, WaitInv, InSlot, UnderWay, WorkerInv
  <2>3. QED
    BY <2>1, <2>2 DEF IInv
<1>2. QED
  BY <1>1, StepKeepsIInv, PTL DEF Spec

-----------------------------------------------------------------------------
\* Types, for any pages, messages, callers, drivers and bounds.
THEOREM TypeCorrect == Spec => []TypeOK
<1>1. IInv => TypeOK
  BY DEF IInv, TypeInv
<1>2. QED
  BY <1>1, Invariant, PTL

\* A caller that waits has a job that is queued or under way and will release it: however
\* often its job is replaced in the slot, nobody waits for a job that is gone
\* (send_worker.py: a replaced job's waiters are adopted).
THEOREM NobodyForgotten == Spec => []WaitInv
<1>1. IInv => WaitInv
  BY DEF IInv
<1>2. QED
  BY <1>1, Invariant, PTL

-----------------------------------------------------------------------------
\* The record, for any callers.

AsRecorded == device \in {content, Residue} \/ (content \in Pages /\ device \in Messages)

\* The record is right at all times but between a write and its bookkeeping.
RecordInv == content # None /\ ~(stage = "ran" /\ result = "landed") => AsRecorded

\* A pass that decides on a page, held or not: only over a message may it record another.
LEMMA BeforeKeepsRecord ==
  ASSUME IInv, RecordInv, NEW c \in Callers, Before(c)
  PROVE  RecordInv'
<1>1. UNCHANGED <<stage, result, device>>
  BY BeforeMoves DEF IInv, worker
<1>2. CASE content' \in {content, None}
  BY <1>1, <1>2 DEF RecordInv, AsRecorded
<1>3. CASE DecidePage(c) /\ content' # content
  <2>1. content' = page /\ page \in Pages /\ content \in {page, queuedShown} \ {None}
    BY <1>3 DEF DecidePage, IInv, TypeInv, TypeOK
  <2>2. content \in Messages
    BY <1>3, <2>1 DEF IInv, TypeInv, TypeOK
  <2>3. content \notin Pages
    BY <2>2, FrameAssumption
  <2>4. QED
    BY <1>1, <2>1, <2>2, <2>3 DEF RecordInv, AsRecorded
<1>4. QED
  BY <1>2, <1>3
  DEF Before, PassBegin, PassLook, DecideHeld, DecideNothing, DecideSilence, DecidePage, PassQueue,
      runtime

LEMMA StepKeepsRecord ==
  ASSUME Truthful
  PROVE  IInv /\ RecordInv /\ [Next]_vars => RecordInv'
<1> SUFFICES ASSUME IInv, RecordInv, [Next]_vars PROVE RecordInv'
  OBVIOUS
<1>1. ASSUME UNCHANGED <<content, stage, result, device>> PROVE RecordInv'
  BY <1>1 DEF RecordInv, AsRecorded
<1>2. CASE Restart
  BY <1>2 DEF Restart, RecordInv
<1>3. ASSUME NEW c \in Callers, PassSubmit(c) PROVE RecordInv'
  BY <1>1, <1>3 DEF PassSubmit, runtime, output
<1>4. CASE WorkerTake \/ WorkerRun \/ WorkerRetire
  BY <1>4 DEF WorkerTake, WorkerRun, WorkerRetire, RecordInv, AsRecorded, runtime, output
<1>5. ASSUME NEW end \in Ends, WorkerWrite(end) PROVE RecordInv'
  <2>1. current.kind \in Kinds
    BY <1>5 DEF WorkerWrite, IInv, TypeInv, TypeOK, Jobs
  <2>2. end # "cut"
    BY <1>5, <2>1 DEF WorkerWrite, Truthful, Kinds
  <2>3. content' = content /\ stage' = "ran" /\ stage # "ran"
    BY <1>5 DEF WorkerWrite, runtime
  <2>4. end # "landed" => device' \in {device, Residue}
    BY <1>5, <2>2 DEF WorkerWrite, Leaves
  <2>5. end = "landed" => result' = "landed"
    BY <1>5 DEF WorkerWrite
  <2>6. QED
    BY <2>3, <2>4, <2>5 DEF RecordInv, AsRecorded
<1>9. CASE StrayWrite
  BY <1>9, StrayDoes DEF RecordInv, AsRecorded, runtime, worker
<1>6. CASE WorkerBookkeep
  <2>1. TypeInv /\ WorkerInv
    BY DEF IInv
  <2>2. /\ stage = "ran" /\ stage' = "booked" /\ current \in Jobs /\ device' = device
        /\ result \in (Outcomes[current.kind] \cup {"refused"}) \ {"timedout"}
    BY <1>6, <2>1, BookkeepWrites DEF WorkerInv, output
  <2>3. current.kind \in Kinds
    BY <2>2 DEF Jobs
  <2>4. CASE result = "landed"
    BY <1>6, <2>1, <2>2, <2>4, BookkeepWrites DEF RecordInv, AsRecorded, WorkerInv
  <2>5. CASE result # "landed"
    <3>1. result = "refused" \/ (current.kind = "page" /\ result \in {"throttled", "preempted"})
      <4>1. Outcomes[current.kind] \subseteq Ends
        BY <2>3, OutcomeAssumption
      <4>2. QED
        BY <2>2, <2>3, <2>5, <4>1 DEF Truthful, Kinds, Ends
    <3>2. content' = content
      BY <1>6, <2>1, <3>1, BookkeepWrites
    <3>3. QED
      BY <2>2, <2>5, <3>2 DEF RecordInv, AsRecorded
  <2>6. QED
    BY <2>4, <2>5
<1>7. CASE ChangePage \/ SilenceBegins \/ SilenceEnds \/ HandOver \/ HoldMessage \/ UNCHANGED vars
  BY <1>1, <1>7 DEF ChangePage, SilenceBegins, SilenceEnds, HandOver, HoldMessage, vars, runtime, worker,
                    output
<1>8. QED
  BY <1>2, <1>3, <1>4, <1>5, <1>6, <1>7, <1>9, BeforeKeepsRecord DEF Next, Pass, Work, Before

LEMMA RecordInvariant == ASSUME Truthful PROVE Spec => []RecordInv
<1>1. Init => RecordInv
  BY DEF Init, RecordInv
<1>2. QED
  BY <1>1, Invariant, StepKeepsRecord, PTL DEF Spec

\* The dedupe record of a quiet board is what the board shows, or a write that was not reported
\* as shown has left something: for any callers, windows and restarts, if dropped and cancelled
\* sends are pages' and no transition is cut short (main.py: _after_page_send,
\* _after_trigger_send).
THEOREM RecordTrue == ASSUME Truthful PROVE Spec => []CacheTruth
<1>1. IInv /\ RecordInv => CacheTruth
  BY DEF IInv, TypeInv, TypeOK, RecordInv, AsRecorded, CacheTruth, Idle
<1>2. QED
  BY <1>1, Invariant, RecordInvariant, PTL

-----------------------------------------------------------------------------
\* The snapshot, when the engine's thread alone drives the board: until it submits, only the
\* worker changes the queue and the record, and it changes them for jobs of the snapshot.
Deciding == {"look", "asleep", "awake", "queue"}

SnapshotInv ==
    /\ pc[Tick] \in Deciding => ActiveKeys \subseteq keys[Tick]
    /\ content = Snoozing => snoozing
    /\ pc[Tick] = "asleep" /\ content = Snoozing => <<"silence", Snoozing>> \in keys[Tick]
    /\ pc[Tick] = "queue" /\ content = plan[Tick].show => Key(plan[Tick]) \in keys[Tick]
    /\ pc[Tick] = "submit" => Key(plan[Tick]) \notin ActiveKeys /\ content # plan[Tick].show

\* What is shown tells of which kind the send is.
LEMMA SameKey ==
  ASSUME NEW a \in Jobs, NEW b \in Jobs, Fits(a), Fits(b), a.show = b.show
  PROVE  Key(a) = Key(b)
<1>1. a.kind \in Kinds /\ b.kind \in Kinds
  BY DEF Jobs
<1>2. a.kind = b.kind
  BY <1>1, FrameAssumption DEF Fits, Kinds
<1>3. QED
  BY <1>2 DEF Key

\* The engine's pass, to its decision and past the dedupe.
LEMMA BeforeKeepsSnapshot ==
  ASSUME IInv, SnapshotInv, Before(Tick)
  PROVE  SnapshotInv'
<1> USE CallerAssumption DEF SnapshotInv, Deciding
<1>1. TypeInv /\ TypeOK /\ JobInv
  BY DEF IInv, TypeInv
<1>2. UNCHANGED worker /\ ActiveKeys' = ActiveKeys
  BY <1>1, BeforeMoves DEF worker, ActiveKeys
<1>3. CASE PassBegin(Tick)
  <2>1. keys'[Tick] = ActiveKeys /\ pc'[Tick] = "look" /\ UNCHANGED <<content, snoozing>>
    BY <1>1, <1>3 DEF PassBegin, TypeOK, runtime
  <2>2. QED
    BY <1>2, <2>1
<1>4. CASE PassLook(Tick)
  <2>1. /\ pc[Tick] = "look" /\ content' \in {content, None}
        /\ content' = Snoozing => (content = Snoozing /\ snoozing' = snoozing)
    BY <1>4, FrameAssumption DEF PassLook
  <2>2. PICK place \in {"idle", "asleep", "awake"} :
           Goto(Tick, place) /\ (place = "asleep" => ~snoozing)
    BY <1>4 DEF PassLook
  <2>3. pc'[Tick] = place /\ (place # "idle" => keys'[Tick] = keys[Tick])
    BY <1>1, <2>2, GotoMoves DEF Places
  <2>4. QED
    BY <1>2, <2>1, <2>2, <2>3
<1>5. CASE DecideHeld(Tick)
  <2>1. UNCHANGED <<content, snoozing>> /\ pc[Tick] = "awake" /\ held \in Messages
    BY <1>1, <1>5 DEF DecideHeld, TypeOK, runtime
  <2>2. CASE Goto(Tick, "idle")
    BY <1>1, <2>1, <2>2, GotoMoves DEF Places
  <2>3. CASE Want(Tick, "message", held, Tick # Tick) /\ content # held
    <3>1. plan'[Tick].show = held /\ Goto(Tick, "queue")
      BY <1>1, <2>1, <2>3, WantPlans DEF Kinds, Frames
    <3>2. pc'[Tick] = "queue" /\ keys'[Tick] = keys[Tick]
      BY <1>1, <3>1, GotoMoves DEF Places
    <3>3. QED
      BY <1>2, <2>1, <2>3, <3>1, <3>2
  <2>4. QED
    BY <1>5, <2>2, <2>3 DEF DecideHeld
<1>6. CASE DecideNothing(Tick)
  <2>1. pc'[Tick] = "idle" /\ UNCHANGED <<content, snoozing>>
    BY <1>1, <1>6, GotoMoves DEF DecideNothing, Places, runtime
  <2>2. QED
    BY <2>1
<1>7. CASE DecideSilence(Tick)
  <2>1. pc[Tick] = "asleep" /\ content' = content
    BY <1>7 DEF DecideSilence
  <2>2. CASE snoozing' = TRUE /\ Goto(Tick, "idle")
    BY <1>1, <2>1, <2>2, GotoMoves DEF Places
  <2>3. CASE snoozing' = snoozing /\ \E waits \in BOOLEAN : Want(Tick, "silence", Snoozing, waits)
    <3>1. plan'[Tick].kind = "silence" /\ plan'[Tick].show = Snoozing /\ Goto(Tick, "queue")
      BY <1>1, <2>3, WantPlans DEF Kinds, Frames
    <3>2. pc'[Tick] = "queue" /\ keys'[Tick] = keys[Tick]
      BY <1>1, <3>1, GotoMoves DEF Places
    <3>3. QED
      BY <1>2, <2>1, <2>3, <3>1, <3>2 DEF Key
  <2>4. QED
    BY <1>7, <2>2, <2>3 DEF DecideSilence
<1>8. CASE DecidePage(Tick)
  <2>1. page \in Pages /\ pc[Tick] = "awake" /\ snoozing' = snoozing
    BY <1>1, <1>8 DEF DecidePage, TypeOK
  <2>2. CASE content' \in {content, page} /\ Goto(Tick, "idle")
    <3>1. page # Snoozing
      BY <2>1, FrameAssumption
    <3>2. QED
      BY <1>1, <2>1, <2>2, <3>1, GotoMoves DEF Places
  <2>3. CASE content' = content /\ content # page /\ Want(Tick, "page", page, Tick # Tick)
    <3>1. plan'[Tick].show = page /\ Goto(Tick, "queue")
      BY <1>1, <2>1, <2>3, WantPlans DEF Kinds, Frames
    <3>2. pc'[Tick] = "queue" /\ keys'[Tick] = keys[Tick]
      BY <1>1, <3>1, GotoMoves DEF Places
    <3>3. QED
      BY <1>2, <2>1, <2>3, <3>1, <3>2
  <2>4. QED
    BY <1>8, <2>2, <2>3 DEF DecidePage
<1>9. CASE PassQueue(Tick)
  <2>1. pc[Tick] = "queue" /\ UNCHANGED <<content, snoozing>>
    BY <1>9 DEF PassQueue, runtime
  <2>2. CASE Goto(Tick, "idle")
    BY <1>1, <2>1, <2>2, GotoMoves DEF Places
  <2>3. CASE Key(plan[Tick]) \notin keys[Tick] /\ Goto(Tick, "submit") /\ plan' = plan
    <3>1. pc'[Tick] = "submit"
      BY <1>1, <2>3, GotoMoves DEF Places
    <3>2. QED
      BY <1>2, <2>1, <2>3, <3>1
  <2>4. QED
    BY <1>9, <2>2, <2>3 DEF PassQueue, InFlight
<1>10. QED
  BY <1>3, <1>4, <1>5, <1>6, <1>7, <1>8, <1>9 DEF Before

LEMMA StepKeepsSnapshot ==
  ASSUME Callers = {Tick}
  PROVE  IInv /\ SnapshotInv /\ [Next]_vars => SnapshotInv'
<1> SUFFICES ASSUME IInv, SnapshotInv, [Next]_vars PROVE SnapshotInv'
  OBVIOUS
<1> USE CallerAssumption
<1>1. TypeInv /\ TypeOK /\ JobInv
  BY DEF IInv, TypeInv
<1>2. ASSUME UNCHANGED <<pc, keys, plan, content, snoozing>>, ActiveKeys' \subseteq ActiveKeys
      PROVE  SnapshotInv'
  BY <1>2 DEF SnapshotInv
<1>3. CASE Restart
  <2>1. pc'[Tick] = "idle" /\ content' = None
    BY <1>3 DEF Restart
  <2>2. QED
    BY <2>1, FrameAssumption DEF SnapshotInv, Deciding
<1>4. CASE PassSubmit(Tick)
  <2>1. pc'[Tick] \in {"idle", "waiting"} /\ UNCHANGED <<content, snoozing>>
    BY <1>1, <1>4, GotoMoves DEF PassSubmit, Places, runtime
  <2>2. QED
    BY <2>1 DEF SnapshotInv, Deciding
<1>5. CASE WorkerTake \/ WorkerRun \/ (\E end \in Ends : WorkerWrite(end)) \/ WorkerRetire
  <2>1. UNCHANGED <<pc, keys, plan, content, snoozing>>
    BY <1>5 DEF WorkerTake, WorkerRun, WorkerWrite, WorkerRetire, locals, runtime
  <2>2. {pending', current'} \subseteq {pending, current, None}
    BY <1>5 DEF WorkerTake, WorkerRun, WorkerWrite, WorkerRetire
  <2>3. ActiveKeys' \subseteq ActiveKeys
    BY <2>2 DEF ActiveKeys, Key
  <2>4. QED
    BY <1>2, <2>1, <2>3
<1>6. CASE WorkerBookkeep
  <2>1. /\ current \in Jobs /\ current # None /\ Fits(current)
        /\ content' = content \/ content' = current.show
        /\ snoozing' = snoozing \/ snoozing' = TRUE
        /\ current.kind = "silence" => (content' = content /\ snoozing' = snoozing) \/ snoozing' = TRUE
        /\ pc'[Tick] = pc[Tick] \/ pc'[Tick] = "idle"
        /\ UNCHANGED <<pending, current, keys, plan>>
    BY <1>1, <1>6, BookkeepWrites
  <2>2. ActiveKeys' = ActiveKeys /\ Key(current) \in ActiveKeys
    BY <2>1 DEF ActiveKeys
  <2>3. current.show = Snoozing => current.kind = "silence" /\ Key(current) = <<"silence", Snoozing>>
    BY <2>1, FrameAssumption DEF Fits, Key, Jobs, Kinds
  <2>4. pc[Tick] \in {"queue", "submit"} =>
           plan[Tick] \in Jobs /\ (current.show = plan[Tick].show => Key(current) = Key(plan[Tick]))
    BY <1>1, <2>1, SameKey DEF TypeOK, JobInv
  <2>5. QED
    BY <2>1, <2>2, <2>3, <2>4 DEF SnapshotInv, Deciding
<1>7. CASE \/ ChangePage \/ SilenceBegins \/ SilenceEnds \/ HandOver \/ HoldMessage \/ StrayWrite
          \/ UNCHANGED vars
  BY <1>2, <1>7 DEF ChangePage, SilenceBegins, SilenceEnds, HandOver, HoldMessage, StrayWrite, vars,
                    runtime, worker, locals, ActiveKeys
<1>8. QED
  BY <1>3, <1>4, <1>5, <1>6, <1>7, BeforeKeepsSnapshot DEF Next, Pass, Work, Before

LEMMA SnapshotInvariant == ASSUME Callers = {Tick} PROVE Spec => []SnapshotInv
<1>1. Init => SnapshotInv
  BY CallerAssumption, FrameAssumption DEF Init, SnapshotInv, Deciding
<1>2. QED
  BY <1>1, Invariant, StepKeepsSnapshot, PTL DEF Spec

\* What an engine pass queues is not queued, under way or recorded as shown at that moment,
\* on any driver and through any windows and restarts, as long as no other thread drives the
\* board (main.py: _pass_in_flight_keys).
THEOREM NothingTwice == ASSUME Callers = {Tick} PROVE Spec => NoDuplicateSend
<1>1. SnapshotInv =>
        (PassSubmit(Tick) => Key(plan[Tick]) \notin ActiveKeys /\ content # plan[Tick].show)
  BY DEF SnapshotInv, PassSubmit
<1>2. QED
  BY <1>1, SnapshotInvariant, PTL DEF NoDuplicateSend

-----------------------------------------------------------------------------
\* A silence window that found the board settled, for any callers.

Of(kind, job) == job # None /\ job.kind = kind

\* A notice is on its way to the board, or about to be decided.
Coming ==
    \/ Of("silence", pending) \/ Of("silence", current)
    \/ \E c \in Callers : pc[c] = "asleep" \/ Of("silence", plan[c])

\* A pass that goes on as if there were no window.
Late(c) == pc[c] = "awake" \/ (plan[c] # None /\ plan[c].kind # "silence")

\* Only a caller that is alone can be late, and then no notice has come yet; a notice under
\* way has only notices behind it.
WindowInv ==
    silence /\ fresh =>
         /\ \A c \in Callers : Late(c) => Callers = {c} /\ ~Coming /\ ~snoozing
         /\ Of("silence", current) => pending = None \/ Of("silence", pending)

\* A board latched as snoozing shows the notice, and only notices are on their way to it.
SnoozeInv ==
    silence /\ fresh /\ snoozing /\ mode # "freeze" =>
         /\ device \in {Snoozing, Residue}
         /\ \A job \in {pending, current} : job = None \/ Of("silence", job)

\* A driver whose notices land or fail.
TruthfulNotices == Outcomes["silence"] \subseteq {"landed", "refused", "timedout"}

\* What a pass does before its submit, as far as the window and the messages go.
LEMMA BeforeDoes ==
  ASSUME TypeInv, NEW c \in Callers, Before(c)
  PROVE  /\ UNCHANGED <<world, pending, current, stage, result, device>>
         /\ \A d \in Callers \ {c} : pc'[d] = pc[d] /\ plan'[d] = plan[d]
         /\ pc'[c] = "awake" => ~silence /\ ~wasSilent'
         /\ pc'[c] = "asleep" => silence
         /\ held' \in {held, None}
         /\ held' # held => handsOff \/ (content = held /\ pc[c] = "awake")
         /\ content' \in {content, None, page}
         /\ snoozing' => snoozing \/ (pc[c] = "asleep" /\ mode = "freeze")
         /\ wasSilent' => wasSilent \/ silence \/ pc[c] = "asleep"
         /\ \/ plan'[c] \in {plan[c], None}
            \/ pc[c] = "asleep" /\ Of("silence", plan'[c])
            \/ pc[c] = "awake" /\ Of("page", plan'[c])
            \/ /\ pc[c] = "awake" /\ Of("message", plan'[c])
               /\ held # None /\ plan'[c].show = held
<1> USE DEF TypeInv
<1>1. /\ UNCHANGED <<world, pending, current, stage, result, device>>
      /\ \A d \in Callers \ {c} : pc'[d] = pc[d] /\ plan'[d] = plan[d]
  <2>1. plan' = plan \/ \E job : plan' = [plan EXCEPT ![c] = job]
    BY DEF Before, PassBegin, PassLook, DecideHeld, DecideNothing, DecideSilence, DecidePage, PassQueue,
           Want
  <2>2. QED
    BY <2>1, BeforeMoves DEF worker, TypeOK
<1>2. CASE PassBegin(c)
  BY <1>1, <1>2 DEF PassBegin, TypeOK, runtime
<1>3. CASE PassLook(c)
  <2>1. /\ held' \in {held, None} /\ (held' # held => handsOff) /\ wasSilent' = silence
        /\ content' \in {content, None} /\ plan' = plan
    BY <1>3 DEF PassLook
  <2>2. snoozing' => snoozing
    BY <1>3 DEF PassLook, TypeOK
  <2>3. PICK place \in {"idle", "asleep", "awake"} :
           /\ Goto(c, place)
           /\ place = "awake" => ~silence
           /\ place = "asleep" => silence
    BY <1>3 DEF PassLook
  <2>4. pc'[c] = place
    BY <2>3, GotoMoves DEF Places
  <2>5. QED
    BY <1>1, <2>1, <2>2, <2>3, <2>4
<1>4. CASE DecideHeld(c)
  <2>1. /\ pc[c] = "awake" /\ held # None /\ held \in Messages
        /\ UNCHANGED <<content, wasSilent, snoozing>>
    BY <1>4 DEF DecideHeld, TypeOK, runtime
  <2>2. CASE content = held /\ held' = None /\ Goto(c, "idle") /\ plan' = plan
    BY <1>1, <2>1, <2>2, GotoMoves DEF Places
  <2>3. CASE held' = held /\ Want(c, "message", held, c # Tick)
    <3>1. Of("message", plan'[c]) /\ plan'[c].show = held /\ Goto(c, "queue")
      BY <2>1, <2>3, WantPlans DEF Kinds, Frames, Of
    <3>2. pc'[c] = "queue"
      BY <3>1, GotoMoves DEF Places
    <3>3. QED
      BY <1>1, <2>1, <2>3, <3>1, <3>2
  <2>4. QED
    BY <1>4, <2>2, <2>3 DEF DecideHeld
<1>5. CASE DecideNothing(c)
  <2>1. pc'[c] = "idle" /\ UNCHANGED <<held, content, wasSilent, snoozing, plan>>
    BY <1>5, GotoMoves DEF DecideNothing, Places, runtime
  <2>2. QED
    BY <1>1, <2>1
<1>6. CASE DecideSilence(c)
  <2>1. pc[c] = "asleep" /\ UNCHANGED <<held, content>>
    BY <1>6 DEF DecideSilence
  <2>2. CASE mode = "freeze" /\ Goto(c, "idle") /\ plan' = plan
    BY <1>1, <2>1, <2>2, GotoMoves DEF Places
  <2>3. CASE UNCHANGED <<wasSilent, snoozing>> /\ \E waits \in BOOLEAN : Want(c, "silence", Snoozing, waits)
    <3>1. Of("silence", plan'[c]) /\ Goto(c, "queue")
      BY <2>3, WantPlans DEF Kinds, Frames, Of
    <3>2. pc'[c] = "queue"
      BY <3>1, GotoMoves DEF Places
    <3>3. QED
      BY <1>1, <2>1, <2>3, <3>1, <3>2
  <2>4. QED
    BY <1>6, <2>2, <2>3 DEF DecideSilence
<1>7. CASE DecidePage(c)
  <2>1. /\ page \in Pages /\ pc[c] = "awake" /\ UNCHANGED <<held, wasSilent, snoozing>>
        /\ content' \in {content, page}
    BY <1>7 DEF DecidePage, TypeOK
  <2>2. CASE Goto(c, "idle") /\ plan' = plan
    BY <1>1, <2>1, <2>2, GotoMoves DEF Places
  <2>3. CASE Want(c, "page", page, c # Tick)
    <3>1. Of("page", plan'[c]) /\ Goto(c, "queue")
      BY <2>1, <2>3, WantPlans DEF Kinds, Frames, Of
    <3>2. pc'[c] = "queue"
      BY <3>1, GotoMoves DEF Places
    <3>3. QED
      BY <1>1, <2>1, <3>1, <3>2
  <2>4. QED
    BY <1>7, <2>2, <2>3 DEF DecidePage
<1>8. CASE PassQueue(c)
  <2>1. UNCHANGED <<held, content, wasSilent, snoozing>> /\ plan'[c] \in {plan[c], None}
    BY <1>8 DEF PassQueue, TypeOK, runtime
  <2>2. pc'[c] \in {"idle", "submit"}
    BY <1>8, GotoMoves DEF PassQueue, Places
  <2>3. QED
    BY <1>1, <2>1, <2>2
<1>9. QED
  BY <1>2, <1>3, <1>4, <1>5, <1>6, <1>7, <1>8 DEF Before

LEMMA SubmitDoes ==
  ASSUME TypeInv, NEW c \in Callers, PassSubmit(c)
  PROVE  /\ UNCHANGED <<world, held, content, wasSilent, snoozing, current, stage, result, device>>
         /\ plan[c] # None /\ plan'[c] = None /\ pc'[c] \in {"idle", "waiting"}
         /\ \A d \in Callers \ {c} : pc'[d] = pc[d] /\ plan'[d] = plan[d]
         /\ pending' # None /\ pending'.kind = plan[c].kind /\ pending'.show = plan[c].show
<1>1. plan[c] # None /\ pending' = AdoptWaiters(plan[c])
  BY DEF PassSubmit, TypeInv, JobInv
<1>2. /\ plan'[c] = None /\ pc'[c] \in {"idle", "waiting"}
      /\ \A d \in Callers \ {c} : pc'[d] = pc[d] /\ plan'[d] = plan[d]
  BY GotoMoves DEF PassSubmit, TypeInv, TypeOK, Places
<1>3. QED
  BY <1>1, <1>2, AdoptKeepsJob DEF PassSubmit, runtime, output

\* The worker's steps but the bookkeeping, and a stray write.
LEMMA WorkDoes ==
  ASSUME TypeInv,
         \/ WorkerTake \/ WorkerRun \/ (\E end \in Ends : WorkerWrite(end)) \/ WorkerRetire
         \/ StrayWrite
  PROVE  /\ UNCHANGED <<world, held, content, wasSilent, snoozing, locals>>
         /\ \/ pending' = pending /\ current' \in {current, None}
            \/ current = None /\ current' = pending /\ pending' = None
         /\ device' \in {device, Residue} \/ \E end \in Ends : WorkerWrite(end)
  BY DEF TypeInv, TypeOK, WorkerTake, WorkerRun, WorkerWrite, WorkerRetire, StrayWrite, runtime, worker,
         output

LEMMA StepKeepsWindow == IInv /\ WindowInv /\ [Next]_vars => WindowInv'
<1> SUFFICES ASSUME IInv, WindowInv, [Next]_vars PROVE WindowInv'
  OBVIOUS
<1> USE DEF WindowInv, Late, Coming, Of
<1>1. TypeInv /\ JobInv
  BY DEF IInv, TypeInv
<1>2. CASE SilenceBegins
  <2>1. UNCHANGED <<snoozing, pending, current, plan, pc>> /\ fresh' = Settled
    BY <1>2 DEF SilenceBegins, runtime, worker, locals
  <2>2. \A c \in Callers : plan[c] # None => pc[c] \in {"queue", "submit"}
    BY <1>1 DEF JobInv
  <2>3. QED
    BY <2>1, <2>2 DEF Settled
<1>3. CASE SilenceEnds
  BY <1>3 DEF SilenceEnds
<1>4. CASE ChangePage \/ HandOver \/ HoldMessage \/ UNCHANGED vars
  BY <1>4 DEF ChangePage, HandOver, HoldMessage, vars, world, runtime, worker, locals
<1>5. CASE Restart
  BY <1>5 DEF Restart
<1>6. ASSUME NEW c \in Callers, Before(c) PROVE WindowInv'
  <2>1. /\ UNCHANGED <<silence, fresh, mode, pending, current>>
        /\ \A d \in Callers \ {c} : pc'[d] = pc[d] /\ plan'[d] = plan[d]
    BY <1>1, <1>6, BeforeDoes DEF world
  <2>2. silence => /\ Late(c)' => Late(c)
                   /\ pc'[c] = "asleep" \/ Of("silence", plan'[c]) \/ (snoozing' /\ ~snoozing) => ~Late(c)'
    <3> SUFFICES ASSUME silence, Late(c)'
                 PROVE  Late(c) /\ pc'[c] # "asleep" /\ ~Of("silence", plan'[c]) /\ (snoozing' => snoozing)
      OBVIOUS
    <3>1. plan'[c] # None => pc'[c] \in {"queue", "submit"}
      BY <1>6, StepKeepsIInv DEF Next, Pass, Before, IInv, TypeInv, JobInv
    <3>2. pc'[c] # "awake" /\ plan'[c] # None /\ plan'[c].kind # "silence"
      BY <1>1, <1>6, BeforeDoes
    <3>3. pc'[c] # "asleep" /\ ~Of("silence", plan'[c])
      BY <3>1, <3>2
    <3>4. Late(c)
      BY <1>1, <1>6, <3>2, BeforeDoes
    <3>5. pc[c] # "asleep"
      BY <1>1, <3>4 DEF JobInv
    <3>6. snoozing' => snoozing
      BY <1>1, <1>6, <3>5, BeforeDoes
    <3>7. QED
      BY <3>3, <3>4, <3>6
  <2>3. ASSUME silence, fresh, NEW d \in Callers, Late(d)' PROVE Callers = {d} /\ ~Coming' /\ ~snoozing'
    <3>1. d = c
      <4>1. CASE d # c
        <5>1. Late(d)
          BY <2>1, <2>3, <4>1
        <5>2. QED
          BY <2>3, <4>1, <5>1
      <4>2. QED
        BY <4>1
    <3>2. Callers = {c} /\ ~Coming /\ ~snoozing
      BY <2>2, <2>3, <3>1
    <3>3. pc'[c] # "asleep" /\ ~Of("silence", plan'[c]) /\ ~snoozing'
      BY <2>2, <2>3, <3>1, <3>2
    <3>4. ~Of("silence", pending') /\ ~Of("silence", current')
      BY <2>1, <3>2
    <3>5. QED
      BY <3>1, <3>2, <3>3, <3>4
  <2>4. QED
    BY <2>1, <2>3
<1>7. ASSUME NEW c \in Callers, PassSubmit(c) PROVE WindowInv'
  <2>1. /\ UNCHANGED <<silence, fresh, snoozing, current>>
        /\ \A d \in Callers \ {c} : pc'[d] = pc[d] /\ plan'[d] = plan[d]
        /\ plan[c] # None /\ plan'[c] = None /\ pc'[c] \in {"idle", "waiting"}
        /\ pending' # None /\ pending'.kind = plan[c].kind
    BY <1>1, <1>7, SubmitDoes DEF world
  <2>2. QED
    BY <2>1
<1>8. CASE \/ WorkerTake \/ WorkerRun \/ (\E end \in Ends : WorkerWrite(end)) \/ WorkerRetire
          \/ StrayWrite
  BY <1>1, <1>8, WorkDoes DEF world, locals
<1>9. CASE WorkerBookkeep
  <2>1. /\ UNCHANGED <<silence, fresh, pending, current, plan>> /\ current # None
        /\ \A c \in Callers : pc'[c] \in {pc[c], "idle"}
    BY <1>1, <1>9, BookkeepWrites DEF world
  <2>2. current.kind # "silence" => snoozing' = snoozing
    BY <1>1, <1>9, BookkeepWrites
  <2>3. QED
    BY <2>1, <2>2
<1>10. QED
  BY <1>2, <1>3, <1>4, <1>5, <1>6, <1>7, <1>8, <1>9 DEF Next, Pass, Work, Before

LEMMA StepKeepsSnooze ==
  ASSUME TruthfulNotices
  PROVE  IInv /\ WindowInv /\ SnoozeInv /\ [Next]_vars => SnoozeInv'
<1> SUFFICES ASSUME IInv, WindowInv, SnoozeInv, [Next]_vars PROVE SnoozeInv'
  OBVIOUS
<1> USE DEF SnoozeInv, Of
<1>1. /\ TypeInv /\ WorkerInv /\ JobInv
      /\ current # None => Fits(current)
  BY DEF IInv, TypeInv, JobInv
<1>2. CASE SilenceBegins
  BY <1>2 DEF SilenceBegins, Settled, runtime
<1>3. CASE SilenceEnds \/ Restart
  BY <1>3 DEF SilenceEnds, Restart
<1>4. CASE ChangePage \/ HandOver \/ HoldMessage \/ UNCHANGED vars
  BY <1>4 DEF ChangePage, HandOver, HoldMessage, vars, world, runtime, worker, output, locals
<1>5. ASSUME NEW c \in Callers, Before(c) PROVE SnoozeInv'
  BY <1>1, <1>5, BeforeDoes DEF world
<1>6. ASSUME NEW c \in Callers, PassSubmit(c) PROVE SnoozeInv'
  <2>1. snoozing /\ silence /\ fresh => plan[c].kind = "silence"
    BY <1>1, <1>6, SubmitDoes DEF WindowInv, Late
  <2>2. QED
    BY <1>1, <1>6, <2>1, SubmitDoes DEF world
<1>7. CASE \/ WorkerTake \/ WorkerRun \/ (\E end \in Ends : WorkerWrite(end)) \/ WorkerRetire
          \/ StrayWrite
  <2>1. ASSUME silence, fresh, snoozing, mode # "freeze", NEW end \in Ends, WorkerWrite(end)
        PROVE  device' \in {Snoozing, Residue}
    <3>1. current # None /\ current.kind = "silence" /\ current.show = Snoozing
      BY <1>1, <2>1 DEF WorkerWrite, TypeInv, TypeOK, Fits
    <3>2. end \in {"landed", "refused", "timedout"}
      BY <2>1, <3>1 DEF WorkerWrite, TruthfulNotices
    <3>3. QED
      BY <2>1, <3>1, <3>2 DEF WorkerWrite, Leaves
  <2>2. QED
    BY <1>1, <1>7, <2>1, WorkDoes DEF world, locals
<1>8. CASE WorkerBookkeep
  <2>1. UNCHANGED <<silence, fresh, mode, device, pending, current, plan>>
    BY <1>1, <1>8, BookkeepWrites DEF world, output
  <2>2. CASE snoozing' = snoozing
    BY <2>1, <2>2
  <2>3. CASE snoozing' # snoozing
    <3>1. current # None /\ current.kind = "silence" /\ current.show = Snoozing /\ result # "refused"
      BY <1>1, <1>8, <2>3, BookkeepWrites DEF Fits
    <3>2. result = "landed"
      BY <1>1, <1>8, <3>1, BookkeepWrites DEF WorkerInv, TruthfulNotices
    <3>3. device \in {Snoozing, Residue}
      BY <1>1, <1>8, <3>1, <3>2, BookkeepWrites DEF WorkerInv
    <3>4. QED
      BY <2>1, <3>1, <3>3 DEF WindowInv
  <2>4. QED
    BY <2>2, <2>3
<1>9. QED
  BY <1>2, <1>3, <1>4, <1>5, <1>6, <1>7, <1>8 DEF Next, Pass, Work, Before

\* Through every window that found the board settled, a board latched as snoozing shows the
\* notice once its queue is empty, or what a failed write has left since: for any callers,
\* pages, messages, windows and restarts, if notices land or fail (main.py:
\* _after_indicator_send).
THEOREM NoticeStays == ASSUME TruthfulNotices PROVE Spec => []SnoozingShown
<1>1. Init => WindowInv /\ SnoozeInv
  BY DEF Init, WindowInv, SnoozeInv
<1>2. SnoozeInv => SnoozingShown
  BY DEF SnoozeInv, SnoozingShown
<1>3. QED
  BY <1>1, <1>2, Invariant, StepKeepsWindow, StepKeepsSnooze, PTL DEF Spec

-----------------------------------------------------------------------------
\* The held message, for any callers, windows and drivers.

LEMMA HeldStepLosesNothing ==
  ASSUME IInv, Truthful => RecordInv, [Next]_vars, held # None, held' = None
  PROVE  device \in {held, Residue} \/ handsOff \/ Mistaken
<1>1. TypeInv /\ TypeOK /\ WorkerInv /\ held \in Messages /\ None \notin Messages
  BY FrameAssumption DEF IInv, TypeInv, TypeOK
<1>2. ASSUME NEW c \in Callers, Before(c) PROVE device \in {held, Residue} \/ handsOff \/ Mistaken
  <2>1. handsOff \/ content = held
    BY <1>1, <1>2, BeforeDoes
  <2>2. CASE content = held /\ Truthful /\ stage # "ran"
    <3>1. held \notin Pages
      BY <1>1, FrameAssumption
    <3>2. QED
      BY <1>1, <2>2, <3>1 DEF RecordInv, AsRecorded
  <2>3. QED
    BY <2>1, <2>2 DEF Mistaken
<1>3. CASE WorkerBookkeep
  <2>1. stage = "ran" /\ current # None /\ current \in Jobs /\ current.kind = "message" /\ result # "refused"
    BY <1>1, <1>3, BookkeepWrites
  <2>2. CASE result = "landed"
    BY <1>1, <2>1, <2>2 DEF WorkerInv, Mistaken
  <2>3. CASE result # "landed"
    <3>1. result \in {"throttled", "preempted", "cut"}
      <4>1. Outcomes[current.kind] \subseteq Ends
        BY <2>1, OutcomeAssumption DEF Kinds
      <4>2. QED
        BY <1>1, <2>1, <2>3, <4>1 DEF WorkerInv, Ends
    <3>2. QED
      BY <2>1, <3>1 DEF Mistaken
  <2>4. QED
    BY <2>2, <2>3
<1>4. ASSUME NEW c \in Callers, PassSubmit(c) PROVE FALSE
  BY <1>1, <1>4, SubmitDoes
<1>5. CASE \/ WorkerTake \/ WorkerRun \/ (\E end \in Ends : WorkerWrite(end)) \/ WorkerRetire
          \/ StrayWrite
  BY <1>1, <1>5, WorkDoes
<1>6. CASE \/ ChangePage \/ SilenceBegins \/ SilenceEnds \/ HandOver \/ HoldMessage \/ Restart
          \/ UNCHANGED vars
  BY <1>1, <1>6 DEF ChangePage, SilenceBegins, SilenceEnds, HandOver, HoldMessage, Restart, vars
<1>7. QED
  BY <1>2, <1>3, <1>4, <1>5, <1>6 DEF Next, Pass, Work, Before

\* The ways to lose a held message are known: whatever callers, windows, restarts and endings
\* of sends there are, it is forgotten only once it was put on the board, when the board is not
\* to be driven, or by one of the mistakes that HeldNotLost names (main.py:
\* _after_trigger_send, _deliver_held_send).
THEOREM HeldKept == Spec => HeldNotLost
<1>1. IInv /\ (Truthful => RecordInv) /\ [Next]_vars =>
        (held # None /\ held' = None => device \in {held, Residue} \/ handsOff \/ Mistaken)
  BY HeldStepLosesNothing
<1>2. Spec => [](Truthful => RecordInv)
  <2>1. CASE Truthful
    <3>1. Spec => []RecordInv
      BY <2>1, RecordInvariant
    <3>2. QED
      BY <3>1, PTL
  <2>2. CASE ~Truthful
    BY <2>2, PTL
  <2>3. QED
    BY <2>1, <2>2
<1>3. QED
  BY <1>1, <1>2, Invariant, PTL DEF Spec, HeldNotLost
=============================================================================

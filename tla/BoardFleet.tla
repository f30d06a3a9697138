----------------------------- MODULE BoardFleet ------------------------------
(***************************************************************************)
(* The runtime of one secondary board in the engine's registry             *)
(* (src/src/main.py, DisplayService).  Whoever changes the board's         *)
(* settings rebuilds the registry; a board that could not be built is      *)
(* retried by the poll thread.  Passes of the engine and of API callers    *)
(* read the registry without a lock, send through the runtime they found,  *)
(* and may find it replaced at any step.  The queue inside a send worker   *)
(* is SendWorker's: here a worker is stopped, queues and sends.            *)
(***************************************************************************)
EXTENDS Naturals

CONSTANTS Configs,   \* bound: the signatures of the board's settings
          Gone,      \* the board was removed
          Editors,   \* the API threads that change the settings
          Poll,      \* the poll thread
          Callers,   \* the threads that make passes
          Tick,      \* the engine's, the one that does not wait
          Runtimes,  \* bound: the BoardRuntimes somebody still holds
          Failed,    \* the board could not be built
          None

ASSUME FleetAssumption ==
  /\ Tick \in Callers /\ Gone \notin Configs /\ None \notin Configs
  /\ Poll \notin Editors /\ None \notin Editors \cup {Poll}
  /\ {None, Failed} \cap Runtimes = {} /\ None # Failed
  /\ None \notin Runtimes \X (0 .. 2)

VARIABLES config,      \* the board in settings.boards
          due,         \* the editors whose rebuild is still to come
          registered,  \* its runtime; None; Failed: none and in board_init_errors
          shown,       \* that runtime has recorded its page as shown
          lock,        \* who holds _runtimes_lock
          step,        \* where the rebuild in the lock is
          next,        \* what it will register
          built,       \* per runtime: its config_signature; None when it is dead
          stopped,     \* the live runtimes whose send worker has been stopped
          closed,      \* the runtimes whose driver is closed
          pc,          \* per caller
          held,        \* what its pass has: <<a runtime, its worker>>
          queued,      \* per worker: the callers whose jobs are, or were, in its slot
          sending,     \* those whose job it executes
          out          \* workers whose job has sent a request

registry == <<registered, shown>>
rebuild  == <<lock, step, next>>
runtimes == <<built, stopped, closed>>
passes   == <<pc, held>>
sends    == <<queued, sending, out>>
vars == <<config, due, registry, rebuild, runtimes, passes, sends>>

(* A runtime's first worker, if it has one, is stopped when it is          *)
(* replaced; a worker it gets after that is its second.                    *)
Workers == Runtimes \X {1, 2}
Current(r) == IF r \in stopped THEN 2 ELSE 1
IsStopped(w) == w[2] = 1 /\ (w[1] \in stopped \/ built[w[1]] = None)
Group(w) == queued[w] \cup sending[w]

TypeOK ==
  /\ config \in Configs \cup {Gone} /\ due \subseteq Editors
  /\ registered \in Runtimes \cup {None, Failed} /\ shown \in BOOLEAN
  /\ lock \in Editors \cup {Poll, None}
  /\ step \in {"build", "stop", "close", "publish"}
  /\ next \in Runtimes \cup {None, Failed}
  /\ built \in [Runtimes -> Configs \cup {None}]
  /\ \A r \in Runtimes : built[r] # None <=> r \in {registered, next}
  /\ closed \subseteq Runtimes /\ stopped \subseteq {registered}
  /\ pc \in [Callers -> {"idle", "resolved", "making", "submit", "waiting"}]
  /\ held \in [Callers -> (Runtimes \X (0 .. 2)) \cup {None}]
  /\ queued \in [Workers -> SUBSET Callers] /\ sending \in [Workers -> SUBSET Callers]
  /\ out \subseteq Workers
  /\ \A w \in Workers : IsStopped(w) => queued[w] = {}
  /\ \A c \in Callers : pc[c] = "waiting" => \E w \in Workers : c \in Group(w)

Init ==
  /\ config = Gone /\ due = {}
  /\ registered = None /\ shown = FALSE
  /\ lock = None /\ step = "build" /\ next = None
  /\ built = [r \in Runtimes |-> None] /\ stopped = {} /\ closed = Runtimes
  /\ pc = [c \in Callers |-> "idle"] /\ held = [c \in Callers |-> None]
  /\ queued = [w \in Workers |-> {}] /\ sending = [w \in Workers |-> {}] /\ out = {}

-----------------------------------------------------------------------------
(* Building. *)

(* A runtime nobody holds any more is gone; a new one may take its name.   *)
Unheld(r) ==
  /\ built[r] = None /\ \A c \in Callers : held[c] # None => held[c][1] # r
  /\ \A k \in {1, 2} : Group(<<r, k>>) = {}

(* build_driver has succeeded: a BoardRuntime with nothing in it. *)
Fresh(r) ==
  /\ Unheld(r) /\ r = CHOOSE s \in Runtimes : Unheld(s)
  /\ built' = [built EXCEPT ![r] = config] /\ closed' = closed \ {r}
  /\ UNCHANGED stopped

(* Mutant: a runtime is kept whatever has changed. *)
KeptAlways == registered \in Runtimes

(* The signature has not changed. *)
Kept == registered \in Runtimes /\ built[registered] = config

(* A route changes the settings; its rebuild follows. *)
Edit(e) ==
  /\ e \notin due
  /\ config' \in (Configs \cup {Gone}) \ {config} /\ due' = due \cup {e}
  /\ UNCHANGED <<registry, rebuild, runtimes, passes, sends>>

(* _build_board_clients, from the lock to the end of its loop. *)
RebuildBegins(e) ==
  /\ e \in due /\ lock = None /\ lock' = e
  /\ \/ config = Gone /\ next' = None /\ UNCHANGED runtimes
     \/ config # Gone /\ Kept /\ next' = registered /\ UNCHANGED runtimes
     \/ config # Gone /\ ~Kept /\ next' = Failed /\ UNCHANGED runtimes
     \/ config # Gone /\ ~Kept /\ \E r \in Runtimes : Fresh(r) /\ next' = r
  /\ step' = IF registered \in Runtimes /\ registered # next' THEN "stop" ELSE "publish"
  /\ UNCHANGED <<config, due, registry, passes, sends>>

(* Whoever waits for one of these jobs has its answer. *)
Answered(group) ==
  pc' = [c \in Callers |-> IF c \in group /\ pc[c] = "waiting" THEN "idle" ELSE pc[c]]

(* Mutant: stop() leaves what was queued. *)
StopOldKeepsJob ==
  /\ step = "stop" /\ step' = "close"
  /\ stopped' = {registered}
  /\ UNCHANGED <<config, due, registry, lock, next, built, closed, passes, sends>>

(* The worker a dead runtime has is stopped, its queued job fails. *)
StopOld ==
  /\ step = "stop" /\ step' = "close"
  /\ stopped' = {registered}
  /\ queued' = [queued EXCEPT ![<<registered, 1>>] = {}]
  /\ Answered(queued[<<registered, 1>>])
  /\ UNCHANGED <<config, due, registry, lock, next, built, closed, held, sending, out>>

(* Mutant: the driver of a dead runtime is not released. *)
CloseOldKeepsDriver ==
  /\ step = "close" /\ step' = "publish"
  /\ UNCHANGED <<config, due, registry, lock, next, runtimes, passes, sends>>

(* release_driver: no request goes out through it from now on. *)
CloseOld ==
  /\ step = "close" /\ step' = "publish"
  /\ closed' = closed \cup {registered}
  /\ UNCHANGED <<config, due, registry, lock, next, built, stopped, passes, sends>>

(* The registry is replaced; what it no longer has is dead. *)
Registers(what) ==
  /\ registered' = what /\ shown' = (shown /\ what = registered)
  /\ built' = [r \in Runtimes |-> IF r = what THEN built[r] ELSE None]
  /\ stopped' = {}
  /\ lock' = None /\ step' = "build" /\ next' = None
  /\ UNCHANGED <<config, closed, passes, sends>>

(* Mutant: a failure found by the rebuild is not recorded. *)
PublishNoErrors ==
  /\ lock \in Editors /\ step = "publish"
  /\ Registers(IF next = Failed THEN None ELSE next) /\ due' = due \ {lock}

Publish ==
  /\ lock \in Editors /\ step = "publish"
  /\ Registers(next) /\ due' = due \ {lock}

(* _attempt_board_init_recovery, for the board as it is configured now.    *)
(* A build that fails once more leaves everything as it is.                *)
RetryBegins ==
  /\ lock = None /\ registered = Failed /\ config # Gone
  /\ \E r \in Runtimes : Fresh(r) /\ next' = r
  /\ lock' = Poll /\ step' = "publish"
  /\ UNCHANGED <<config, due, registry, passes, sends>>

RetryEnds == lock = Poll /\ Registers(next) /\ UNCHANGED due

RetryDropped ==
  /\ lock = None /\ registered = Failed /\ config = Gone /\ registered' = None
  /\ UNCHANGED <<config, due, shown, rebuild, runtimes, passes, sends>>

-----------------------------------------------------------------------------
(* A pass. *)

Leave(c) == pc' = [pc EXCEPT ![c] = "idle"] /\ held' = [held EXCEPT ![c] = None]

(* The engine's skips a page that is recorded, and one under way; an API   *)
(* caller has cleared the record, or sends another page.                   *)
Skips(r) == shown \/ Group(<<r, Current(r)>>) # {}

(* The settings it has read may be older than the registry. *)
Resolve(c) ==
  /\ pc[c] = "idle" /\ registered \in Runtimes
  /\ c = Tick => ~Skips(registered)
  /\ pc' = [pc EXCEPT ![c] = "resolved"] /\ held' = [held EXCEPT ![c] = <<registered, 0>>]
  /\ UNCHANGED <<config, due, registry, rebuild, runtimes, sends>>

(* _worker_for: is the runtime registered still?  The registry can change  *)
(* before the worker is there, for _workers_lock does not guard it.        *)
FindWorker(c) ==
  /\ pc[c] = "resolved" /\ \A d \in Callers : pc[d] # "making"
  /\ \/ held[c][1] # registered /\ Leave(c)
     \/ held[c][1] = registered /\ pc' = [pc EXCEPT ![c] = "making"] /\ UNCHANGED held
  /\ UNCHANGED <<config, due, registry, rebuild, runtimes, sends>>

MakeWorker(c) ==
  /\ pc[c] = "making" /\ pc' = [pc EXCEPT ![c] = "submit"]
  /\ held' = [held EXCEPT ![c] = <<@[1], IF IsStopped(<<@[1], 1>>) THEN 2 ELSE 1>>]
  /\ UNCHANGED <<config, due, registry, rebuild, runtimes, sends>>

(* A stopped worker refuses; a queued job is replaced, its callers stay    *)
(* and wait for the new one.                                               *)
Submit(c) ==
  /\ pc[c] = "submit"
  /\ IF IsStopped(held[c]) THEN Leave(c) /\ UNCHANGED queued
     ELSE /\ queued' = [queued EXCEPT ![held[c]] = @ \cup {c}]
          /\ pc' = [pc EXCEPT ![c] = IF c = Tick THEN "idle" ELSE "waiting"]
          /\ held' = [held EXCEPT ![c] = None]
  /\ UNCHANGED <<config, due, registry, rebuild, runtimes, sending, out>>

-----------------------------------------------------------------------------
(* A worker. *)

Take(w) ==
  /\ queued[w] # {} /\ sending[w] = {}
  /\ sending' = [sending EXCEPT ![w] = queued[w]] /\ queued' = [queued EXCEPT ![w] = {}]
  /\ UNCHANGED <<config, due, registry, rebuild, runtimes, passes, out>>

(* OutputHttp.request: a closed client sends nothing. *)
Request(w) ==
  /\ sending[w] # {} /\ w \notin out /\ w[1] \notin closed
  /\ out' = out \cup {w}
  /\ UNCHANGED <<config, due, registry, rebuild, runtimes, passes, queued, sending>>

Ends(w) ==
  /\ sending[w] # {} /\ sending' = [sending EXCEPT ![w] = {}]
  /\ out' = out \ {w} /\ Answered(sending[w])
  /\ UNCHANGED <<config, due, registered, rebuild, runtimes, held, queued>>

(* The bookkeeping of a runtime that was replaced is dropped. *)
Succeed(w) == w \in out /\ Ends(w) /\ shown' = (shown \/ registered = w[1])

Fail(w) == (w \in out \/ w[1] \in closed) /\ Ends(w) /\ UNCHANGED shown

Rebuild(e) == RebuildBegins(e) \/ (lock = e /\ (StopOld \/ CloseOld \/ Publish))
Retry == RetryBegins \/ RetryEnds \/ RetryDropped
Work(w) == Take(w) \/ Request(w) \/ Succeed(w) \/ Fail(w)
Pass(c) == FindWorker(c) \/ MakeWorker(c) \/ Submit(c)

Next ==
  \/ \E e \in Editors : Edit(e) \/ Rebuild(e)
  \/ Retry
  \/ \E c \in Callers : Resolve(c) \/ Pass(c)
  \/ \E w \in Workers : Work(w)

(* Threads go on; the engine ticks and the poll thread retries.  About the *)
(* board: a build that is retried succeeds, a device lets a send succeed.  *)
Spec ==
  /\ Init /\ [][Next]_vars
  /\ \A e \in Editors : WF_vars(Rebuild(e))
  /\ WF_vars(RetryBegins \/ RetryEnds)
  /\ SF_vars(Resolve(Tick)) /\ \A c \in Callers : WF_vars(Pass(c))
  /\ WF_vars(\E w \in Workers : Work(w)) /\ SF_vars(\E w \in Workers : Succeed(w))

-----------------------------------------------------------------------------
(* Whenever nobody is at it, the registry has what the settings say or the *)
(* failure on record: no rebuild and no retry undoes another (main.py      *)
(* 1017-1020 "interleaved rebuild/retry writes would lose one side's       *)
(* update").                                                               *)
Sound(r) == built[r] = config /\ r \notin closed
RegistryFollows ==
  lock = None /\ due = {} =>
    IF config = Gone THEN registered \notin Runtimes
    ELSE registered = Failed \/ (registered \in Runtimes /\ Sound(registered))

(* No request goes out through a runtime that was replaced or removed, by  *)
(* whatever thread, job or worker: neither a job queued before, nor one of *)
(* a worker made while its runtime was being replaced (main.py 1055-1059,  *)
(* 693-697).                                                               *)
NeverThroughOld == [][\A w \in Workers : w \notin out /\ w \in out' => w[1] = registered]_vars

(* A board whose settings are left alone gets its page, through the        *)
(* runtime built from them, whatever was being replaced or failed before.  *)
Served == registered \in Runtimes /\ shown /\ Sound(registered)
BoardServed == <>[][UNCHANGED config]_vars => <>[](config = Gone \/ Served)
=============================================================================

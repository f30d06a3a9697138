------------------------------ MODULE FetchPool ------------------------------
(***************************************************************************)
(* The plugin fetches behind every render (src/src/plugins/registry.py     *)
(* build_template_context, src/src/plugins/base.py): one bounded pool of   *)
(* worker threads shared by the engine's tick and the API's previews,      *)
(* which wait for a fetch a limited time and go on without it.  A plugin   *)
(* may never return: no thread can be killed, so a second build joins the  *)
(* fetch under way, a circuit breaker stops asking, and a pool that has    *)
(* lost too many workers is replaced by a fresh one.                       *)
(***************************************************************************)
EXTENDS Naturals, FiniteSets

CONSTANTS Keys,        \* (plugin, board geometry): the identity of a fetch
          Wedged,      \* those whose fetch never returns
          Builders,    \* the threads that build a context
          Needs,       \* Needs[b]: what builder b's pages refer to
          Workers,     \* PLUGIN_FETCH_MAX_WORKERS
          LostLimit,   \* PLUGIN_FETCH_LOST_WORKER_LIMIT
          Threshold,   \* PLUGIN_FETCH_BREAKER_THRESHOLD
          F            \* bound: the futures, a key and which of its futures

ASSUME FetchAssumption ==
  /\ IsFiniteSet(Keys) /\ IsFiniteSet(Builders) /\ IsFiniteSet(F)
  /\ Wedged \subseteq Keys /\ F \subseteq Keys \X Nat
  /\ Needs \in [Builders -> SUBSET Keys]
  /\ Workers \in Nat /\ LostLimit \in Nat \ {0}
  /\ Threshold \in Nat \ {0}

None == <<>>

VARIABLES state,      \* state[f]: of each future
          retired,    \* those queued or running on a pool that was retired
          listening,  \* futures whose clean-up callback has not run
          off,        \* futures whose worker has been written off
          inflight,   \* _inflight_fetches
          streak,     \* _fetch_timeouts, as far as the threshold
          cool,       \* keys whose _fetch_breaker_until is in the future
          cache,      \* what the plugin's cache holds
          lost,       \* _fetch_workers_lost
          pc,         \* pc[b]: where builder b is
          asks,       \* asks[b]: the keys its cache look-up left to fetch
          stale,      \* builders who obtained a pool that was retired since
          joined,     \* joined[b]: the futures it waits for
          late,       \* late[b]: those that had not finished
          taken       \* taken[b]: the futures whose workers it is writing off

futures  == <<state, retired, off>>
breaker  == <<streak, cool>>
build    == <<asks, joined, late, taken>>
vars == <<futures, listening, inflight, breaker, cache, lost, stale, pc, build>>

Unfinished == {"queued", "running"}
Finished   == {"done", "cancelled"}
Places     == {"idle", "submit", "wait", "settle", "writeOff"}

TypeOK ==
  /\ state \in [F -> {"free"} \cup Unfinished \cup Finished]
  /\ retired \subseteq F /\ listening \subseteq F /\ off \subseteq F
  /\ inflight \in [Keys -> F \cup {None}]
  /\ streak \in [Keys -> 0 .. Threshold] /\ cool \subseteq Keys
  /\ cache \subseteq Keys
  /\ lost \in 0 .. LostLimit - 1 /\ stale \subseteq Builders
  /\ pc \in [Builders -> Places]
  /\ asks \in [Builders -> SUBSET Keys]
  /\ joined \in [Builders -> SUBSET F] /\ late \in [Builders -> SUBSET F]
  /\ taken \in [Builders -> SUBSET F]

Init ==
  /\ state = [f \in F |-> "free"] /\ retired = {} /\ listening = {} /\ off = {}
  /\ inflight = [k \in Keys |-> None]
  /\ streak = [k \in Keys |-> 0] /\ cool = {}
  /\ cache = {}
  /\ lost = 0 /\ stale = {}
  /\ pc = [b \in Builders |-> "idle"]
  /\ asks = [b \in Builders |-> {}]
  /\ joined = [b \in Builders |-> {}] /\ late = [b \in Builders |-> {}]
  /\ taken = [b \in Builders |-> {}]

Goto(b, place) == pc' = [pc EXCEPT ![b] = place]

(* A finished future nothing refers to any more is gone, and its slot free. *)
Gone(f) ==
  /\ state[f] \in Finished /\ f \notin listening'
  /\ inflight'[f[1]] # f /\ \A b \in Builders : f \notin joined'[b]

Collect(new, written) ==
  /\ state' = [f \in F |-> IF f \in new THEN "queued" ELSE IF Gone(f) THEN "free" ELSE state[f]]
  /\ off' = {f \in off \cup written : ~Gone(f)}

(* The build returns, or an exception leaves it: its locals are gone. *)
Leave(b) ==
  /\ Goto(b, "idle")
  /\ asks' = [asks EXCEPT ![b] = {}]
  /\ joined' = [joined EXCEPT ![b] = {}] /\ late' = [late EXCEPT ![b] = {}]
  /\ taken' = [taken EXCEPT ![b] = {}] /\ stale' = stale \ {b}

(* The keys answered: their streak ends and their quarantine is lifted. *)
Answered(K) ==
  /\ streak' = [k \in Keys |-> IF k \in K THEN 0 ELSE streak[k]]
  /\ cool' = cool \ K

-----------------------------------------------------------------------------
(* One build_template_context, between its locks. *)

(* What the plugin's cache still holds is served without a fetch, and a    *)
(* quarantined plugin is neither submitted nor waited for.                 *)
Begin(b) ==
  /\ pc[b] = "idle"
  /\ LET wanted == Needs[b] \ (cache \cup cool)
     IN  /\ Answered(Needs[b] \cap cache)
         /\ \/ wanted = {} /\ UNCHANGED <<pc, asks>>
            \/ wanted # {} /\ asks' = [asks EXCEPT ![b] = wanted] /\ Goto(b, "submit")
  /\ UNCHANGED <<futures, listening, inflight, cache, lost, stale, joined, late, taken>>

(* The keys of a build that no fetch is under way for. *)
ToSubmit(b) ==
  {k \in asks[b] : inflight[k] = None \/ state[inflight[k]] \in Finished}

NewFuture(k) == CHOOSE f \in F : f[1] = k /\ state[f] = "free"

Submitted(b, K) ==
  LET new == {NewFuture(k) : k \in K} IN
  /\ inflight' = [k \in Keys |-> IF k \in K THEN NewFuture(k) ELSE inflight[k]]
  /\ retired' = IF b \in stale THEN retired \cup new ELSE retired
  /\ Collect(new, {})

(* A fetch under way is joined, the others are submitted.  Another builder *)
(* may have shut the pool down since, before the first submit or between   *)
(* two: submit raises, the build fails, and what it had submitted stays    *)
(* without a callback.                                                     *)
Join(b) ==
  /\ b \notin stale \/ ToSubmit(b) = {}
  /\ listening' = listening \cup {NewFuture(k) : k \in ToSubmit(b)}
  /\ joined' = [joined EXCEPT ![b] =
       {IF k \in ToSubmit(b) THEN NewFuture(k) ELSE inflight[k] : k \in asks[b]}]
  /\ Submitted(b, ToSubmit(b))
  /\ asks' = [asks EXCEPT ![b] = {}] /\ stale' = stale \ {b}
  /\ Goto(b, "wait") /\ UNCHANGED <<late, taken>>

Refused(b) ==
  /\ b \in stale
  /\ UNCHANGED listening /\ Leave(b)
  /\ \E K \in SUBSET ToSubmit(b) : K # ToSubmit(b) /\ Submitted(b, K)

Submit(b) ==
  /\ pc[b] = "submit"
  /\ \A k \in ToSubmit(b) : \E f \in F : f[1] = k /\ state[f] = "free"
  /\ Join(b) \/ Refused(b)
  /\ UNCHANGED <<breaker, cache, lost>>

(* The wait ends, at the latest when its time is up; the fetches that had  *)
(* not started are cancelled.  A fetch another builder has cancelled counts *)
(* as finished here only once a worker has come across it.                 *)
GiveUp(b) ==
  /\ pc[b] = "wait"
  /\ \E unseen \in SUBSET {f \in joined[b] : state[f] = "cancelled"} :
       late' = [late EXCEPT ![b] = unseen \cup {f \in joined[b] : state[f] \in Unfinished}]
  /\ state' = [f \in F |-> IF f \in late'[b] /\ state[f] = "queued" THEN "cancelled" ELSE state[f]]
  /\ retired' = {f \in retired : state'[f] # "cancelled"}
  /\ Goto(b, "settle")
  /\ UNCHANGED <<off, listening, inflight, breaker, cache, lost,
                 stale, asks, joined, taken>>

(* _record_fetch_timeouts: only fetches that started are held against      *)
(* their plugin, also one that has finished since the wait ended.  A fetch *)
(* that did finish ends its plugin's streak and lifts its quarantine.      *)
Settle(b) ==
  LET answered == {f[1] : f \in joined[b] \ late[b]}
      started  == {f \in late[b] : state[f] # "cancelled"}
      opened   == {f \in started : streak[f[1]] + 1 >= Threshold}
  IN
  /\ pc[b] = "settle"
  /\ streak' = [k \in Keys |->
       IF k \in answered THEN 0
       ELSE IF streak[k] < Threshold /\ \E f \in started : f[1] = k THEN streak[k] + 1
       ELSE streak[k]]
  /\ cool' = (cool \cup {f[1] : f \in opened}) \ answered
  /\ IF opened \subseteq off
     THEN Leave(b)
     ELSE /\ Goto(b, "writeOff") /\ taken' = [taken EXCEPT ![b] = opened \ off]
          /\ joined' = [joined EXCEPT ![b] = {}] /\ late' = [late EXCEPT ![b] = {}]
          /\ UNCHANGED <<asks, stale>>
  /\ UNCHANGED <<listening, inflight>>
  /\ Collect({}, opened)
  /\ UNCHANGED <<retired, cache, lost>>

(* Mutant: the count starts again but the pool stays. *)
WriteOffKeepsPool(b) ==
  /\ pc[b] = "writeOff"
  /\ lost' = IF lost + Cardinality(taken[b]) < LostLimit THEN lost + Cardinality(taken[b]) ELSE 0
  /\ Goto(b, "idle") /\ taken' = [taken EXCEPT ![b] = {}]
  /\ UNCHANGED <<futures, listening, inflight, breaker, cache, stale, asks, joined, late>>

(* _write_off_fetch_workers: once half a pool is lost it takes no more work *)
(* and the next build makes another.                                       *)
WriteOff(b) ==
  /\ pc[b] = "writeOff"
  /\ \/ /\ lost + Cardinality(taken[b]) < LostLimit
        /\ lost' = lost + Cardinality(taken[b]) /\ UNCHANGED <<retired, stale>>
     \/ /\ lost + Cardinality(taken[b]) >= LostLimit
        /\ lost' = 0
        /\ retired' = {f \in F : state[f] \in Unfinished}
        /\ stale' = {c \in Builders : pc[c] = "submit"}
  /\ Goto(b, "idle") /\ taken' = [taken EXCEPT ![b] = {}]
  /\ UNCHANGED <<state, off, listening, inflight, breaker, cache,
                 asks, joined, late>>

-----------------------------------------------------------------------------
(* The workers.  A pool that was retired still runs what it had queued, if *)
(* it has a worker left: which of them has is left open.                   *)

Start(f) ==
  /\ state[f] = "queued"
  /\ f \in retired \/ Cardinality({g \in F \ retired : state[g] = "running"}) < Workers
  /\ state' = [state EXCEPT ![f] = "running"]
  /\ UNCHANGED <<retired, off, listening, inflight, breaker, cache, lost,
                 stale, pc, build>>

(* The plugin answers: with a result its own cache keeps, or with an error. *)
Finish(f) ==
  /\ state[f] = "running" /\ f[1] \notin Wedged
  /\ state' = [state EXCEPT ![f] = "done"] /\ retired' = retired \ {f}
  /\ cache' = cache \cup {f[1]} \/ UNCHANGED cache
  /\ UNCHANGED <<off, listening, inflight, breaker, lost, stale, pc, build>>

(* Mutant: whatever future is registered goes. *)
CallbackUnguarded(f) ==
  /\ state[f] \in Finished /\ f \in listening
  /\ listening' = listening \ {f}
  /\ inflight' = [inflight EXCEPT ![f[1]] = None]
  /\ UNCHANGED joined /\ Collect({}, {})
  /\ UNCHANGED <<retired, breaker, cache, lost, stale, pc, asks, late, taken>>

(* _clear_inflight_entry: only the future that is registered goes. *)
Callback(f) ==
  /\ state[f] \in Finished /\ f \in listening
  /\ listening' = listening \ {f}
  /\ inflight' = [inflight EXCEPT ![f[1]] = IF @ = f THEN None ELSE @]
  /\ UNCHANGED joined /\ Collect({}, {})
  /\ UNCHANGED <<retired, breaker, cache, lost, pc, stale, asks, late, taken>>

(* A cached result is past its refresh interval, or the plugin's           *)
(* configuration is changed, which wipes its cache; a quarantine runs out. *)
Expire(k) ==
  /\ k \in cache /\ cache' = cache \ {k}
  /\ UNCHANGED <<futures, listening, inflight, breaker, lost, stale, pc, build>>

CoolDown(k) ==
  /\ k \in cool /\ cool' = cool \ {k}
  /\ UNCHANGED <<futures, listening, inflight, streak, cache, lost, stale, pc, build>>

-----------------------------------------------------------------------------
Build(b) == Begin(b) \/ Submit(b) \/ GiveUp(b) \/ Settle(b) \/ WriteOff(b)

Next ==
  \/ \E b \in Builders : Build(b)
  \/ \E f \in F : Start(f) \/ Finish(f) \/ Callback(f)
  \/ \E k \in Keys : Expire(k) \/ CoolDown(k)

(* The builds go on for ever, the callbacks run, a plugin that answers     *)
(* does so and comes out of its quarantine.  A worker that is free takes a *)
(* queued fetch at once, long before the build that queued it gives up: a  *)
(* fetch that can start again and again is started some time.              *)
Fairness ==
  /\ \A b \in Builders : WF_vars(Build(b))
  /\ \A k \in Keys :
       /\ WF_vars(\E f \in F : f[1] = k /\ Callback(f))
       /\ SF_vars(\E f \in F : f[1] = k /\ Start(f) /\ f \notin retired)
  /\ \A k \in Keys \ Wedged :
       WF_vars(CoolDown(k)) /\ WF_vars(\E f \in F : f[1] = k /\ Finish(f))

Spec == Init /\ [][Next]_vars /\ Fairness

-----------------------------------------------------------------------------
(* A plugin on a board geometry never has two fetches queued or running,   *)
(* however many builds want it and whatever was cancelled: a wedged plugin *)
(* holds one worker thread for ever, never one more at every tick.         *)
OneFetchPerKey ==
  \A f, g \in F : state[f] \in Unfinished /\ state[g] \in Unfinished /\ f[1] = g[1] => f = g

(* Of the pool that takes new work at least Workers - LostLimit + 1        *)
(* workers are not held by a fetch that was written off, once the builders *)
(* that found one have accounted for it.                                   *)
CapacityReserved ==
  (\A b \in Builders : pc[b] # "writeOff") =>
    Cardinality({f \in off \ retired : state[f] = "running"}) < LostLimit

(* However many plugins are wedged, one that answers goes on being fetched *)
(* and cached (issue 1884).                                                *)
HealthyServed ==
  \A k \in UNION {Needs[b] : b \in Builders} \ Wedged :
    []<>(k \in cache \/ \E f \in F : f[1] = k /\ state[f] = "done")
=============================================================================

---------------------------- MODULE OutputDriver ----------------------------
(***************************************************************************)
(* The writes to ONE third-party device, by every sender that drives it:   *)
(* src/outputs/plugin_driver.py with the lock and cancel token of          *)
(* runtime.py, the frame cache of frames.py, the breaker of breaker.py and *)
(* the floor of floor.py (SendFloors, composed here).                      *)
(*                                                                         *)
(* Senders reach the device through runtimes.  A board's send worker and   *)
(* the direct writes of API threads share the board's runtime; a client an *)
(* API route builds for itself has a runtime of its own and shares with    *)
(* the others the device, its floor and its breaker.                       *)
(*                                                                         *)
(* The plugin runs on a thread of its own: it may answer late or never.    *)
(***************************************************************************)
EXTENDS SendFloors

CONSTANTS
    Runtimes,   \* output runtimes, each with its lock, token, cache and verdict flags
    Via,        \* the runtime a sender writes through
    Frames,     \* what is written
    Endings,    \* how a plugin's write may end: see EndingNames
    Threshold,  \* consecutive failures that open the breaker
    Cooldown,   \* seconds an open breaker refuses
    Sends,      \* bound: the writes asked for
    Clock,      \* bound: the last second of the run
    Mixed       \* a device that shows an intermediate frame, or took a part of one

\* The plugin: wrote the frame and said so; wrote a part of it; failed or raised; was
\* refused by the device for rate; stopped because a newer write had cancelled it.
EndingNames == {"landed", "partial", "failed", "slowdown", "superseded"}

ASSUME SenderAssumption == Via \in [Senders -> Runtimes]
ASSUME FrameAssumption == {None, Mixed} \cap Frames = {} /\ None # Mixed /\ None \notin Runtimes
ASSUME VerdictAssumption == None \notin {"throttled", "superseded"}
ASSUME EndingAssumption == Endings \subseteq EndingNames
ASSUME BoundAssumption == {Threshold, Cooldown} \subseteq Nat \ {0} /\ {Sends, Clock} \subseteq Nat

VARIABLES
    failures,   \* the device's failure streak
    openUntil,  \* until when its breaker refuses
    cancelled,  \* per runtime: its current run's cancel token is set
    cache,      \* per runtime: FrameCache.characters
    throttled,  \* per runtime: last_send_throttled
    preempted,  \* per runtime: last_send_preempted
    pc,         \* where each sender is
    frame,      \* what it writes
    wrote,      \* its write is on the device
    fate,       \* per runtime: how its last run ended; history
    strays,     \* frames that the plugin threads of abandoned writes may still write
    device,     \* what the device shows
    by,         \* through which runtime that was written; None: by a stray
    sends       \* writes asked for so far

breaker == <<failures, openUntil>>
flags == <<throttled, preempted>>
world == <<device, by, strays>>
vars == <<floor, breaker, cancelled, cache, flags, pc, frame, wrote, fate, world, sends>>

Holders(r) == {w \in Senders : Via[w] = r /\ pc[w] \in {"admitted", "writing"}}

Init ==
    /\ FloorInit
    /\ failures = 0 /\ openUntil = 0
    /\ cancelled = [r \in Runtimes |-> FALSE]
    /\ cache = [r \in Runtimes |-> None]
    /\ throttled = [r \in Runtimes |-> FALSE]
    /\ preempted = [r \in Runtimes |-> FALSE]
    /\ pc = [w \in Senders |-> "idle"]
    /\ frame = [w \in Senders |-> None]
    /\ wrote = [w \in Senders |-> FALSE]
    /\ fate = [r \in Runtimes |-> None]
    /\ strays = {} /\ device = None /\ by = None
    /\ sends = 0

Tick ==
    /\ now < Clock
    /\ now' = now + 1 /\ Elapse
    /\ UNCHANGED <<breaker, cancelled, cache, flags, pc, frame, wrote, fate, world, sends>>

\* OutputRuntime.run: whoever wants the lock first preempts the run that holds it.
Ask(w) ==
    /\ pc[w] = "idle" /\ sends < Sends
    /\ sends' = sends + 1
    /\ pc' = [pc EXCEPT ![w] = "waiting"]
    /\ \E f \in Frames : frame' = [frame EXCEPT ![w] = f]
    /\ cancelled' = [cancelled EXCEPT ![Via[w]] = TRUE]
    /\ UNCHANGED <<floor, breaker, cache, flags, wrote, fate, world>>

\* The run returns with its verdict, and its lock is released.
Return(w, verdict) ==
    /\ pc' = [pc EXCEPT ![w] = "idle"]
    /\ fate' = [fate EXCEPT ![Via[w]] = verdict]
    /\ wrote' = [wrote EXCEPT ![w] = FALSE]
    /\ frame' = [frame EXCEPT ![w] = None]

\* The lock, a fresh token, and _admit: the flags of the last send are reset, then the
\* floor is asked, then the cache; a forced send does not ask the cache.
AdmitKeepsFlag(w) ==
    LET r == Via[w] IN
    /\ pc[w] = "waiting" /\ Holders(r) = {}
    /\ cancelled' = [cancelled EXCEPT ![r] = FALSE]
    /\ throttled' = [throttled EXCEPT ![r] = ~Open]
    /\ UNCHANGED preempted
    /\ \/ ~Open /\ Return(w, "throttled") /\ UNCHANGED floor
       \/ Open /\ cache[r] = frame[w] /\ Return(w, "shown") /\ UNCHANGED floor
       \/ /\ Reserve(w)
          /\ pc' = [pc EXCEPT ![w] = "admitted"]
          /\ UNCHANGED <<frame, wrote, fate>>
    /\ UNCHANGED <<breaker, cache, world, sends>>

Admit(w) ==
    LET r == Via[w] IN
    /\ pc[w] = "waiting" /\ Holders(r) = {}
    /\ cancelled' = [cancelled EXCEPT ![r] = FALSE]
    /\ throttled' = [throttled EXCEPT ![r] = ~Open]
    /\ preempted' = [preempted EXCEPT ![r] = FALSE]
    /\ \/ ~Open /\ Return(w, "throttled") /\ UNCHANGED floor
       \/ Open /\ cache[r] = frame[w] /\ Return(w, "shown") /\ UNCHANGED floor
       \/ /\ Reserve(w)
          /\ pc' = [pc EXCEPT ![w] = "admitted"]
          /\ UNCHANGED <<frame, wrote, fate>>
    /\ UNCHANGED <<breaker, cache, world, sends>>

\* _breaker_refusal, then the plugin's thread starts.
StartKeepsSlot(w) ==
    /\ pc[w] = "admitted"
    /\ \/ openUntil > now /\ Return(w, "failed") /\ UNCHANGED floor
       \/ /\ openUntil <= now
          /\ pc' = [pc EXCEPT ![w] = "writing"]
          /\ UNCHANGED <<floor, frame, wrote, fate>>
    /\ UNCHANGED <<breaker, cancelled, cache, flags, world, sends>>

Start(w) ==
    /\ pc[w] = "admitted"
    /\ \/ openUntil > now /\ Release(w) /\ Return(w, "failed")
       \/ /\ openUntil <= now
          /\ pc' = [pc EXCEPT ![w] = "writing"]
          /\ UNCHANGED <<floor, frame, wrote, fate>>
    /\ UNCHANGED <<breaker, cancelled, cache, flags, world, sends>>

\* A transition shows an intermediate frame.
Glimpse(w) ==
    /\ pc[w] = "writing" /\ ~wrote[w]
    /\ device' = Mixed /\ by' = Via[w]
    /\ UNCHANGED <<floor, breaker, cancelled, cache, flags, pc, frame, wrote, fate, strays, sends>>

\* The device takes the frame.  The answer is still to come.
Write(w) ==
    /\ pc[w] = "writing" /\ ~wrote[w]
    /\ wrote' = [wrote EXCEPT ![w] = TRUE]
    /\ device' = frame[w] /\ by' = Via[w]
    /\ UNCHANGED <<floor, breaker, cancelled, cache, flags, pc, frame, fate, strays, sends>>

\* record_failure: the streak, and the breaker once it is long enough.
Charge ==
    /\ failures' = failures + 1
    /\ openUntil' = IF failures + 1 >= Threshold THEN now + Cooldown ELSE openUntil

Cache(w, f) == cache' = [cache EXCEPT ![Via[w]] = f]

\* _deliver, once the plugin has answered, by what it answered.
\* Success.  A write that was cancelled meanwhile is forgotten: its transition may still
\* be restoring the device.
Landed(w) ==
    /\ wrote[w]
    /\ Keep(w)
    /\ Cache(w, IF cancelled[Via[w]] THEN None ELSE frame[w])
    /\ failures' = 0 /\ openUntil' = 0
    /\ Return(w, "shown")
    /\ UNCHANGED <<preempted, throttled, device, by>>

\* A part of the board took the frame: the slot stays taken, the cache stays as it was.
Partial(w) ==
    /\ ~wrote[w]
    /\ Keep(w)
    /\ device' = Mixed /\ by' = Via[w]
    /\ Return(w, "failed")
    /\ UNCHANGED <<cache, breaker, preempted, throttled>>

\* A failure or an exception.  Its answer can be lost after the device took the frame.
FailedKeepsCache(w) ==
    /\ Release(w)
    /\ Charge
    /\ Return(w, "failed")
    /\ UNCHANGED <<cache, preempted, throttled, device, by>>

Failed(w) ==
    /\ Release(w)
    /\ Cache(w, None)
    /\ Charge
    /\ Return(w, "failed")
    /\ UNCHANGED <<preempted, throttled, device, by>>

\* _device_throttled.
Slowdown(w) ==
    /\ ~wrote[w]
    /\ \E seconds \in Delays : Hold(w, seconds)
    /\ Cache(w, None)
    /\ throttled' = [throttled EXCEPT ![Via[w]] = TRUE]
    /\ Return(w, "throttled")
    /\ UNCHANGED <<breaker, preempted, device, by>>

\* Preempted before anything landed: the newer write gets the slot.
SupersededKeepsSlot(w) ==
    /\ ~wrote[w] /\ cancelled[Via[w]]
    /\ slot' = [slot EXCEPT ![w] = None] /\ UNCHANGED <<now, last, kept, asked>>
    /\ Cache(w, None)
    /\ preempted' = [preempted EXCEPT ![Via[w]] = TRUE]
    /\ Return(w, "superseded")
    /\ UNCHANGED <<breaker, throttled, device, by>>

Superseded(w) ==
    /\ ~wrote[w] /\ cancelled[Via[w]]
    /\ Release(w)
    /\ Cache(w, None)
    /\ preempted' = [preempted EXCEPT ![Via[w]] = TRUE]
    /\ Return(w, "superseded")
    /\ UNCHANGED <<breaker, throttled, device, by>>

Answer(w) ==
    /\ pc[w] = "writing"
    /\ \/ "landed" \in Endings /\ Landed(w)
       \/ "partial" \in Endings /\ Partial(w)
       \/ "failed" \in Endings /\ Failed(w)
       \/ "slowdown" \in Endings /\ Slowdown(w)
       \/ "superseded" \in Endings /\ Superseded(w)
    /\ UNCHANGED <<cancelled, strays, sends>>

\* _run_bounded gives up: the token is set, the slot stays taken, the thread goes on.
TimeOutJoins(w) ==
    /\ pc[w] = "writing"
    /\ cancelled' = [cancelled EXCEPT ![Via[w]] = TRUE]
    /\ UNCHANGED <<floor, breaker, cache, flags, pc, frame, wrote, fate, world, sends>>

TimeOut(w) ==
    /\ pc[w] = "writing"
    /\ cancelled' = [cancelled EXCEPT ![Via[w]] = TRUE]
    /\ Keep(w)
    /\ Cache(w, None)
    /\ Charge
    /\ strays' = strays \cup (IF wrote[w] THEN {} ELSE {frame[w]})
    /\ Return(w, "failed")
    /\ UNCHANGED <<flags, device, by, sends>>

\* An abandoned thread reaches the device after all, or gives up.
Stray(f) ==
    /\ f \in strays
    /\ strays' = strays \ {f}
    /\ \/ device' = f /\ by' = None
       \/ UNCHANGED <<device, by>>
    /\ UNCHANGED <<floor, breaker, cancelled, cache, flags, pc, frame, wrote, fate, sends>>

\* clear_cache, from any thread and without the lock: the next send goes through.
Forget(r) ==
    /\ cache' = [cache EXCEPT ![r] = None]
    /\ UNCHANGED <<floor, breaker, cancelled, flags, pc, frame, wrote, fate, world, sends>>

Next ==
    \/ Tick
    \/ \E w \in Senders :
          Ask(w) \/ Admit(w) \/ Start(w) \/ Glimpse(w) \/ Write(w) \/ Answer(w) \/ TimeOut(w)
    \/ \E f \in Frames : Stray(f)
    \/ \E r \in Runtimes : Forget(r)

Spec == Init /\ [][Next]_vars

\* Core's own steps are taken: a lock that is free is granted (only so many writes are
\* asked for), and a budget that runs out ends the wait.  Nothing is assumed of the
\* plugin: it may never answer.
FairSpec ==
    /\ Spec
    /\ \A w \in Senders : WF_vars(Admit(w) \/ Start(w) \/ TimeOut(w))

-----------------------------------------------------------------------------
Places == {"idle", "waiting", "admitted", "writing"}

\* Type invariant: the slots belong to the writes under way, and a lock to one of them.
TypeOK ==
    /\ FloorTypeOK
    /\ failures \in Nat /\ openUntil \in Nat
    /\ cancelled \in [Runtimes -> BOOLEAN]
    /\ throttled \in [Runtimes -> BOOLEAN] /\ preempted \in [Runtimes -> BOOLEAN]
    /\ cache \in [Runtimes -> Frames \cup {None}]
    /\ pc \in [Senders -> Places]
    /\ frame \in [Senders -> Frames \cup {None}] /\ wrote \in [Senders -> BOOLEAN]
    /\ fate \in [Runtimes -> {None, "shown", "failed", "throttled", "superseded"}]
    /\ strays \subseteq Frames /\ device \in Frames \cup {None, Mixed}
    /\ by \in Runtimes \cup {None} /\ sends \in 0 .. Sends
    /\ \A w \in Senders : slot[w] # None <=> pc[w] \in {"admitted", "writing"}
    /\ \A v, w \in Senders : v # w /\ Via[v] = Via[w] =>
          ~({pc[v], pc[w]} \subseteq {"admitted", "writing"})

\* What a quiet runtime's cache says is on the device, if the last write to it went
\* through that runtime (frames.py 7-9 "the grid the device was last known to show ...
\* A send of an equal grid is acknowledged without a device write").
CacheTruth ==
    \A r \in Runtimes : Holders(r) = {} /\ cache[r] # None /\ by = r => device = cache[r]

\* The same, but for a device that took only a part of a frame: whatever failed, was
\* refused, cancelled or given up, the cache never claims one frame while the device
\* shows another.
NeverAnotherFrame ==
    \A r \in Runtimes :
        Holders(r) = {} /\ cache[r] # None /\ by = r => device \in {cache[r], Mixed}

\* Between two runs a runtime's flags tell how the last one ended, whichever of a write's
\* endings and refusals that was (outputs/driver.py 80, plugin_driver.py 167).  Who reads
\* them under the lock, as runtime.py 80 does, reads its own verdict.
FlagsAreLast ==
    \A r \in Runtimes : Holders(r) = {} =>
        /\ throttled[r] <=> fate[r] = "throttled"
        /\ preempted[r] <=> fate[r] = "superseded"

\* Whoever asks for a write gets an answer, though the plugin may never give one
\* (breaker.py: "a wedged plugin is failed and cancelled long before").
EveryoneAnswered == \A w \in Senders : pc[w] = "waiting" ~> pc[w] = "idle"
=============================================================================

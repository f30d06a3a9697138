----------------------------- MODULE SendFloors -----------------------------
(***************************************************************************)
(* The send floor of ONE device (src/outputs/floor.py): the last-send time *)
(* that every sender to the device shares, whichever board or throwaway    *)
(* client it writes through, and the slots of the sends under way.         *)
(*                                                                         *)
(* Each operation holds the registry's lock, so each is one action.  A     *)
(* device without a floor keeps no state and is left out.  `kept` and      *)
(* `asked` are history variables: they say which windows had a reason.     *)
(***************************************************************************)
EXTENDS Integers

CONSTANTS
    Senders,  \* threads that send to the device, one send at a time each
    Floor,    \* floor_seconds, the driver's min_interval_ms
    Delays,   \* the seconds a device may ask for in Retry-After
    None      \* Python's None; not a time

ASSUME FloorAssumption == Floor \in Nat \ {0} /\ Delays \subseteq Nat
\* An admission that was granted: reserved_at and prev_last.
Slots == [at : Nat, prev : Nat \cup {None}]

\* None is neither a time nor a slot.
ASSUME NoneAssumption == None \notin Int /\ None \notin Slots

VARIABLES
    now,   \* the monotonic clock, in seconds
    last,  \* SendFloors._last[device_key]
    slot,  \* the admission each sender holds: reserved_at and prev_last
    kept,  \* when the writes that kept their slot had reserved it
    asked  \* where a device's Retry-After has moved the last-send time to

floor == <<now, last, slot, kept, asked>>

FloorInit ==
    /\ now = 0
    /\ last = None
    /\ slot = [s \in Senders |-> None]
    /\ kept = {} /\ asked = {}

\* The device's window is over.
Open == last # None => now - last >= Floor

\* admit: only a send that will go out records now as the device's last send.  The two
\* other verdicts, throttled (~Open) and unchanged, leave the floor as it is.
Reserve(s) ==
    /\ slot[s] = None /\ Open
    /\ slot' = [slot EXCEPT ![s] = [at |-> now, prev |-> last]]
    /\ last' = now
    /\ UNCHANGED <<now, kept, asked>>

\* The write ended as landed, partial or timed out: its slot is never given back.
Keep(s) ==
    /\ slot[s] # None
    /\ slot' = [slot EXCEPT ![s] = None]
    /\ kept' = kept \cup {slot[s].at}
    /\ UNCHANGED <<now, last, asked>>

\* release: the write was reported failed or preempted, which the code takes for nothing
\* having reached the device; a slot taken since is not clobbered.
ReleaseAlways(s) ==
    /\ slot[s] # None
    /\ slot' = [slot EXCEPT ![s] = None]
    /\ last' = slot[s].prev
    /\ UNCHANGED <<now, kept, asked>>

Release(s) ==
    /\ slot[s] # None
    /\ slot' = [slot EXCEPT ![s] = None]
    /\ last' = IF last = slot[s].at THEN slot[s].prev ELSE last
    /\ UNCHANGED <<now, kept, asked>>

\* hold: the device answered 429 and asked for `seconds` from the reservation.
Hold(s, seconds) ==
    LET until == slot[s].at + seconds - Floor IN
    /\ slot[s] # None
    /\ slot' = [slot EXCEPT ![s] = None]
    /\ kept' = kept \cup {slot[s].at}
    /\ IF seconds > Floor /\ (last = None \/ last < until)
       THEN last' = until /\ asked' = asked \cup {until}
       ELSE UNCHANGED <<last, asked>>
    /\ UNCHANGED now

Elapse ==
    /\ now' \in Nat /\ now' > now
    /\ UNCHANGED <<last, slot, kept, asked>>

FloorNext ==
    \/ \E s \in Senders :
          Reserve(s) \/ Keep(s) \/ Release(s) \/ (\E seconds \in Delays : Hold(s, seconds))
    \/ Elapse

FloorSpec == FloorInit /\ [][FloorNext]_floor

-----------------------------------------------------------------------------
Holding == {s \in Senders : slot[s] # None}

\* The slots that are taken: of the writes under way and of those that ended without giving
\* theirs back (landed, partial, timed out, refused by the device for its rate).
Taken == kept \cup {slot[s].at : s \in Holding}

FloorTypeOK ==
    /\ now \in Nat /\ last \in Nat \cup {None}
    /\ slot \in [Senders -> Slots \cup {None}]
    /\ kept \subseteq Nat /\ asked \subseteq Nat

\* Two slots that are taken were reserved a floor apart, whatever failed, was given back or
\* was held in between: however slots are given back out of order, no two of the writes that
\* hold or keep one share a window (floor.py 15-18 "concurrent per-board send workers can
\* never double-send inside one window").  It says nothing of a write that gave its slot back
\* although the device had taken its frame (plugin_driver.py 373-375, 399-407, 424-426).
Spacing ==
    /\ \A a, b \in Taken : a < b => b - a >= Floor
    /\ \A s \in Holding : slot[s].at \notin kept
    /\ \A s, t \in Holding : slot[s].at = slot[t].at => s = t

\* A closed device is closed on behalf of a slot that is taken, or because it asked: never
\* by a write that gave its slot back (plugin_driver.py 399-403 "otherwise
\* that write is 'throttled' by a write that never reached the device, and the board
\* stays dark").
NoPhantomWindow == ~Open => last \in Taken \cup asked
=============================================================================

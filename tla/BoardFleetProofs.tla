-------------------------- MODULE BoardFleetProofs --------------------------
(***************************************************************************)
(* That the registry ends with what the settings say, and that nothing     *)
(* goes out through a runtime that was replaced, for any settings,         *)
(* editors, callers and runtimes.                                          *)
(***************************************************************************)
EXTENDS BoardFleet, TLAPS

(* Nobody holds the runtime and no worker of it has a job.                 *)
Untouched(r) ==
  /\ \A c \in Callers : held[c] # None => held[c][1] # r
  /\ \A k \in {1, 2} : queued[<<r, k>>] = {} /\ sending[<<r, k>>] = {}

(* Whoever has the lock goes through the steps of a rebuild, in order, and *)
(* only the registered runtime and the next are open.                      *)
LockInv ==
  /\ lock = None => step = "build" /\ next = None
  /\ lock # None => step # "build"
  /\ lock \in Editors => lock \in due
  /\ lock = Poll => step = "publish" /\ registered = Failed /\ next \in Runtimes
  /\ step \in {"stop", "close"} => registered \in Runtimes /\ registered # next
  /\ step \in {"build", "stop"} => stopped = {}
  /\ step = "close" => registered \in stopped
  /\ step = "publish" /\ registered \in Runtimes =>
       IF registered = next THEN stopped = {} ELSE registered \in stopped \cap closed
  /\ next \in Runtimes => next \notin closed
  /\ registered \in Runtimes /\ step # "publish" => registered \notin closed
  /\ \A r \in Runtimes : r \notin closed => r \in {registered, next}

(* A pass has a runtime from the moment it finds one until it submits.     *)
PassInv ==
  /\ \A c \in Callers : pc[c] \in {"resolved", "making"} => held[c] \in Runtimes \X (0 .. 2)
  /\ \A c \in Callers : pc[c] = "submit" => held[c] \in Workers
  /\ next \in Runtimes /\ next # registered => Untouched(next)

(* What is registered, or about to be, is true to the settings.            *)
Follows(what) ==
  IF config = Gone THEN what \notin Runtimes
  ELSE what = Failed \/ (what \in Runtimes /\ built[what] = config)

RegInv ==
  /\ due = {} /\ lock = None => Follows(registered)
  /\ due = {} /\ lock = Poll => Follows(next)
  /\ lock \in Editors /\ due = {lock} => Follows(next)

IInv == TypeOK /\ LockInv /\ PassInv /\ RegInv

-----------------------------------------------------------------------------
LEMMA InitInv == Init => IInv
<1> SUFFICES ASSUME Init PROVE IInv
  OBVIOUS
<1>1. TypeOK
  BY FleetAssumption DEF Init, TypeOK, IsStopped, Workers
<1>2. LockInv
  BY FleetAssumption DEF Init, LockInv
<1>3. PassInv
  BY FleetAssumption DEF Init, PassInv
<1>4. RegInv
  BY FleetAssumption DEF Init, RegInv, Follows
<1> QED BY <1>1, <1>2, <1>3, <1>4 DEF IInv

(* A rebuild or a retry begins. *)
LEMMA FreshIs ==
  ASSUME TypeOK, LockInv, lock = None, config # Gone, NEW r \in Runtimes, Fresh(r)
  PROVE  /\ built' \in [Runtimes -> Configs \cup {None}] /\ built'[r] = config
         /\ \A s \in Runtimes : s # r => built'[s] = built[s]
         /\ r # registered /\ Untouched(r) /\ built[r] = None
         /\ closed' = closed \ {r} /\ stopped' = stopped
<1>1. built[r] = None /\ Untouched(r)
  BY DEF Fresh, Unheld, Untouched, Group
<1>2. built' = [built EXCEPT ![r] = config] /\ config \in Configs
  BY DEF Fresh, TypeOK
<1>3. r # registered
  BY <1>1 DEF TypeOK
<1>4. closed' = closed \ {r} /\ stopped' = stopped
  BY DEF Fresh
<1> QED BY <1>1, <1>2, <1>3, <1>4 DEF TypeOK

(* What a rebuild, or a retry, finds out about the board. *)
LEMMA FindsInv ==
  ASSUME IInv, lock = None,
         \/ config = Gone /\ next' = None /\ UNCHANGED runtimes
         \/ config # Gone /\ Kept /\ next' = registered /\ UNCHANGED runtimes
         \/ config # Gone /\ next' = Failed /\ UNCHANGED runtimes
         \/ config # Gone /\ \E r \in Runtimes : Fresh(r) /\ next' = r,
         UNCHANGED <<config, registry, passes, sends>>
  PROVE  /\ next' \in Runtimes \cup {None, Failed}
         /\ built' \in [Runtimes -> Configs \cup {None}]
         /\ \A r \in Runtimes : built'[r] # None <=> r \in {registered, next'}
         /\ stopped' = {} /\ closed' \subseteq Runtimes
         /\ next' \in Runtimes => next' \notin closed'
         /\ registered \in Runtimes => registered \notin closed'
         /\ \A r \in Runtimes : r \notin closed' => r \in {registered, next'}
         /\ next' \in Runtimes /\ next' # registered => Untouched(next')
         /\ \A w \in Workers : IsStopped(w)' => queued[w] = {}
         /\ IF config = Gone THEN next' \notin Runtimes
            ELSE next' = Failed \/ (next' \in Runtimes /\ built'[next'] = config)
<1> USE DEF IInv
<1>1. /\ next = None /\ stopped = {} /\ step = "build"
      /\ registered \in Runtimes => registered \notin closed
      /\ \A r \in Runtimes : r \notin closed => r = registered
      /\ \A r \in Runtimes : built[r] # None <=> r = registered
  BY FleetAssumption DEF LockInv, TypeOK
<1>2. CASE /\ UNCHANGED runtimes
            /\ \/ config = Gone /\ next' = None
               \/ config # Gone /\ Kept /\ next' = registered
               \/ config # Gone /\ next' = Failed
  <2>1. built' = built /\ stopped' = {} /\ closed' = closed
    BY <1>1, <1>2 DEF runtimes
  <2>2. \A w \in Workers : IsStopped(w)' => queued[w] = {}
    BY <2>1, <1>1 DEF TypeOK, IsStopped
  <2>3. next' \in Runtimes => next' = registered /\ config # Gone /\ Kept
    BY FleetAssumption, <1>2
  <2>4. IF config = Gone THEN next' \notin Runtimes
        ELSE next' = Failed \/ (next' \in Runtimes /\ built'[next'] = config)
    BY FleetAssumption, <1>2, <2>1 DEF Kept
  <2>5. \A r \in Runtimes : built'[r] # None <=> r \in {registered, next'}
    BY <1>1, <2>1, <2>3
  <2>6. next' \in Runtimes \cup {None, Failed}
    BY <1>2 DEF TypeOK
  <2> QED BY <1>1, <2>1, <2>2, <2>3, <2>4, <2>5, <2>6 DEF TypeOK
<1>3. CASE config # Gone /\ \E r \in Runtimes : Fresh(r) /\ next' = r
  <2>1. PICK r \in Runtimes : Fresh(r) /\ next' = r
    BY <1>3
  <2>2. /\ built' \in [Runtimes -> Configs \cup {None}] /\ built'[r] = config
        /\ \A s \in Runtimes : s # r => built'[s] = built[s]
        /\ r # registered /\ Untouched(r) /\ built[r] = None
        /\ closed' = closed \ {r} /\ stopped' = {}
    BY <1>1, <1>3, <2>1, FreshIs
  <2>3. config \in Configs /\ config # None
    BY <1>3, FleetAssumption DEF TypeOK
  <2>4. \A w \in Workers : IsStopped(w)' => queued[w] = {}
    <3> SUFFICES ASSUME NEW w \in Workers, IsStopped(w)' PROVE queued[w] = {}
      OBVIOUS
    <3>1. w[2] = 1 /\ built'[w[1]] = None /\ w[1] \in Runtimes
      BY <2>2 DEF IsStopped, Workers
    <3>2. w[1] # r
      BY <3>1, <2>2, <2>3
    <3> QED BY <3>1, <3>2, <2>2 DEF TypeOK, IsStopped
  <2> QED BY <1>1, <1>3, <2>1, <2>2, <2>3, <2>4 DEF TypeOK
<1> QED
  <2> HIDE DEF IInv
  <2> QED BY <1>2, <1>3

LEMMA BeginsInv ==
  ASSUME IInv, NEW e \in Editors, RebuildBegins(e) PROVE IInv'
<1>1. /\ lock = None /\ e \in due /\ lock' = e /\ e # None /\ e # Poll
      /\ UNCHANGED <<config, due, registry, passes, sends>>
      /\ step' = IF registered \in Runtimes /\ registered # next' THEN "stop" ELSE "publish"
      /\ \/ config = Gone /\ next' = None /\ UNCHANGED runtimes
         \/ config # Gone /\ Kept /\ next' = registered /\ UNCHANGED runtimes
         \/ config # Gone /\ next' = Failed /\ UNCHANGED runtimes
         \/ config # Gone /\ \E r \in Runtimes : Fresh(r) /\ next' = r
  BY FleetAssumption DEF RebuildBegins
<1>2. /\ next' \in Runtimes \cup {None, Failed}
      /\ built' \in [Runtimes -> Configs \cup {None}]
      /\ \A r \in Runtimes : built'[r] # None <=> r \in {registered, next'}
      /\ stopped' = {} /\ closed' \subseteq Runtimes
      /\ next' \in Runtimes => next' \notin closed'
      /\ registered \in Runtimes => registered \notin closed'
      /\ \A r \in Runtimes : r \notin closed' => r \in {registered, next'}
      /\ next' \in Runtimes /\ next' # registered => Untouched(next')
      /\ \A w \in Workers : IsStopped(w)' => queued[w] = {}
      /\ IF config = Gone THEN next' \notin Runtimes
         ELSE next' = Failed \/ (next' \in Runtimes /\ built'[next'] = config)
  BY <1>1, FindsInv
<1>3. /\ config' = config /\ due' = due /\ registered' = registered /\ shown' = shown
      /\ pc' = pc /\ held' = held /\ queued' = queued /\ sending' = sending /\ out' = out
  BY <1>1 DEF registry, passes, sends
<1>4. TypeOK'
  BY <1>1, <1>2, <1>3 DEF IInv, TypeOK, Group
<1>5. LockInv'
  BY <1>1, <1>2, <1>3 DEF IInv, LockInv
<1>6. PassInv'
  BY <1>2, <1>3 DEF IInv, PassInv, Untouched
<1>7. RegInv'
  BY <1>1, <1>2, <1>3 DEF RegInv, Follows
<1> QED BY <1>4, <1>5, <1>6, <1>7 DEF IInv

LEMMA RetryInv ==
  ASSUME IInv, RetryBegins PROVE IInv'
<1>1. /\ lock = None /\ lock' = Poll /\ Poll # None /\ Poll \notin Editors /\ config # Gone
      /\ registered = Failed /\ UNCHANGED <<config, due, registry, passes, sends>>
      /\ step' = "publish" /\ \E r \in Runtimes : Fresh(r) /\ next' = r
  BY FleetAssumption DEF RetryBegins
<1>2. /\ next' \in Runtimes
      /\ built' \in [Runtimes -> Configs \cup {None}]
      /\ \A r \in Runtimes : built'[r] # None <=> r \in {registered, next'}
      /\ stopped' = {} /\ closed' \subseteq Runtimes
      /\ next' \in Runtimes => next' \notin closed'
      /\ \A r \in Runtimes : r \notin closed' => r \in {registered, next'}
      /\ next' \in Runtimes /\ next' # registered => Untouched(next')
      /\ \A w \in Workers : IsStopped(w)' => queued[w] = {}
      /\ IF config = Gone THEN next' \notin Runtimes
         ELSE next' = Failed \/ (next' \in Runtimes /\ built'[next'] = config)
  BY <1>1, FindsInv
<1>3. /\ config' = config /\ due' = due /\ registered' = registered /\ shown' = shown
      /\ pc' = pc /\ held' = held /\ queued' = queued /\ sending' = sending /\ out' = out
  BY <1>1 DEF registry, passes, sends
<1>4. TypeOK'
  BY <1>1, <1>2, <1>3 DEF IInv, TypeOK, Group
<1>5. LockInv'
  BY <1>1, <1>2, <1>3, FleetAssumption DEF IInv, LockInv
<1>6. PassInv'
  BY <1>2, <1>3 DEF IInv, PassInv, Untouched
<1>7. RegInv'
  BY <1>1, <1>2, <1>3 DEF RegInv, Follows
<1> QED BY <1>4, <1>5, <1>6, <1>7 DEF IInv

(* The rest of the rebuild. *)
LEMMA EditInv ==
  ASSUME IInv, NEW e \in Editors, Edit(e) PROVE IInv'
<1> USE DEF IInv
<1>1. /\ e \notin due /\ due' = due \cup {e} /\ config' \in Configs \cup {Gone}
      /\ UNCHANGED <<registered, shown, lock, step, next, built, stopped, closed, pc, held,
                     queued, sending, out>>
  BY DEF Edit, registry, rebuild, runtimes, passes, sends
<1>2. TypeOK'
  BY <1>1 DEF TypeOK, Group, IsStopped
<1>3. LockInv'
  BY <1>1 DEF LockInv
<1>4. PassInv'
  BY <1>1 DEF PassInv, Untouched
<1>5. RegInv'
  BY <1>1 DEF RegInv, LockInv
<1> QED BY <1>2, <1>3, <1>4, <1>5

LEMMA StopInv ==
  ASSUME IInv, StopOld PROVE IInv'
<1> USE DEF IInv
<1>1. /\ step = "stop" /\ step' = "close" /\ stopped' = {registered}
      /\ queued' = [queued EXCEPT ![<<registered, 1>>] = {}]
      /\ pc' = [c \in Callers |-> IF c \in queued[<<registered, 1>>] /\ pc[c] = "waiting"
                                  THEN "idle" ELSE pc[c]]
      /\ UNCHANGED <<config, due, registered, shown, lock, next, built, closed, held, sending, out>>
  BY DEF StopOld, Answered, registry
<1>2. /\ registered \in Runtimes /\ registered # next /\ stopped = {}
      /\ <<registered, 1>> \in Workers /\ lock # None /\ lock \in Editors
  BY <1>1, FleetAssumption DEF LockInv, TypeOK, Workers
<1>3. TypeOK'
  <2>1. /\ queued' \in [Workers -> SUBSET Callers] /\ queued'[<<registered, 1>>] = {}
        /\ \A w \in Workers : w # <<registered, 1>> => queued'[w] = queued[w]
    BY <1>1, <1>2 DEF TypeOK
  <2>2. \A w \in Workers : IsStopped(w)' => queued'[w] = {}
    <3> SUFFICES ASSUME NEW w \in Workers, IsStopped(w)', w # <<registered, 1>>
                 PROVE queued'[w] = {}
      BY <2>1
    <3>1. w = <<w[1], w[2]>>
      BY DEF Workers
    <3>2. IsStopped(w)
      BY <1>1, <1>2, <3>1 DEF IsStopped
    <3> QED BY <2>1, <3>2 DEF TypeOK
  <2>3. \A c \in Callers : pc'[c] = "waiting" => \E w \in Workers : c \in Group(w)'
    <3> SUFFICES ASSUME NEW c \in Callers, pc'[c] = "waiting"
                 PROVE \E w \in Workers : c \in Group(w)'
      OBVIOUS
    <3>1. pc[c] = "waiting" /\ c \notin queued[<<registered, 1>>]
      BY <1>1
    <3>2. PICK w \in Workers : c \in queued[w] \/ c \in sending[w]
      BY <3>1 DEF TypeOK, Group
    <3>3. CASE c \in sending[w]
      BY <3>3, <1>1 DEF Group
    <3>4. CASE c \in queued[w]
      BY <3>1, <3>4, <2>1 DEF Group
    <3> QED BY <3>2, <3>3, <3>4
  <2>4. pc' \in [Callers -> {"idle", "resolved", "making", "submit", "waiting"}]
    BY <1>1 DEF TypeOK
  <2> QED BY <1>1, <1>2, <2>1, <2>2, <2>3, <2>4 DEF TypeOK
<1>4. LockInv'
  BY <1>1, <1>2 DEF LockInv
<1>5. PassInv'
  <2>1. \A c \in Callers : pc'[c] \in {"resolved", "making", "submit"} => pc[c] = pc'[c]
    BY <1>1
  <2>2. next \in Runtimes => Untouched(next)'
    <3> SUFFICES ASSUME next \in Runtimes, NEW k \in {1, 2} PROVE queued'[<<next, k>>] = {}
      BY <1>1, <1>2 DEF PassInv, Untouched
    <3>1. <<next, k>> # <<registered, 1>> /\ <<next, k>> \in Workers
      BY <1>2 DEF Workers
    <3> QED BY <1>1, <1>2, <3>1 DEF PassInv, Untouched, TypeOK
  <2> QED BY <1>1, <2>1, <2>2 DEF PassInv
<1>6. RegInv'
  BY <1>1 DEF RegInv, Follows
<1> QED BY <1>3, <1>4, <1>5, <1>6

LEMMA CloseInv ==
  ASSUME IInv, CloseOld PROVE IInv'
<1> USE DEF IInv
<1>1. /\ step = "close" /\ step' = "publish" /\ closed' = closed \cup {registered}
      /\ UNCHANGED <<config, due, registered, shown, lock, next, built, stopped, pc, held,
                     queued, sending, out>>
  BY DEF CloseOld, registry, passes, sends
<1>2. registered \in Runtimes /\ registered # next /\ lock # None
  BY <1>1 DEF LockInv
<1>3. TypeOK'
  BY <1>1, <1>2 DEF TypeOK, Group, IsStopped
<1>4. LockInv'
  BY <1>1, <1>2 DEF LockInv
<1>5. PassInv'
  BY <1>1 DEF PassInv, Untouched
<1>6. RegInv'
  BY <1>1 DEF RegInv, Follows
<1> QED BY <1>3, <1>4, <1>5, <1>6

(* What is left out of the registry is stopped, closed and dead. *)
LEMMA RegistersInv ==
  ASSUME IInv, lock # None, step = "publish", Registers(next), due' \in SUBSET due,
         due' = {} /\ config # Gone => next = Failed \/ (next \in Runtimes /\ built[next] = config),
         due' = {} /\ config = Gone => next \notin Runtimes
  PROVE  IInv'
<1> USE DEF IInv
<1>1. /\ registered' = next /\ shown' \in BOOLEAN
      /\ built' = [r \in Runtimes |-> IF r = next THEN built[r] ELSE None]
      /\ stopped' = {} /\ lock' = None /\ step' = "build" /\ next' = None
      /\ UNCHANGED <<config, closed, pc, held, queued, sending, out>>
  BY DEF Registers, passes, sends, TypeOK
<1>2. /\ next \in Runtimes => next \notin closed
      /\ \A r \in Runtimes : r \notin closed => r = next
    BY DEF LockInv
<1>3. TypeOK'
  <2>1. \A w \in Workers : IsStopped(w)' => queued[w] = {}
    <3> SUFFICES ASSUME NEW w \in Workers, IsStopped(w)' PROVE queued[w] = {}
      OBVIOUS
    <3>1. w[1] \in Runtimes /\ w[2] = 1 /\ built'[w[1]] = None
      BY <1>1 DEF IsStopped, Workers
    <3>2. CASE built[w[1]] = None
      BY <3>1, <3>2 DEF IsStopped, TypeOK
    <3>3. CASE built[w[1]] # None
      <4>1. w[1] # next /\ w[1] = registered
        BY <1>1, <3>1, <3>3 DEF TypeOK
      <4>2. registered \in stopped
        BY <3>1, <4>1 DEF LockInv
      <4> QED BY <3>1, <4>1, <4>2 DEF IsStopped, TypeOK
    <3> QED BY <3>2, <3>3
  <2>2. /\ built' \in [Runtimes -> Configs \cup {None}]
        /\ \A r \in Runtimes : built'[r] # None <=> r \in {registered', next'}
    BY <1>1, FleetAssumption DEF TypeOK
  <2> QED BY <1>1, <2>1, <2>2 DEF TypeOK, Group
<1>4. LockInv'
  BY <1>1, <1>2, FleetAssumption DEF LockInv, TypeOK
<1>5. PassInv'
  BY <1>1, FleetAssumption DEF PassInv
<1>6. RegInv'
  BY <1>1, FleetAssumption DEF RegInv, Follows, TypeOK
<1> QED BY <1>3, <1>4, <1>5, <1>6

LEMMA PublishInv ==
  ASSUME IInv, Publish PROVE IInv'
<1>1. /\ lock \in Editors /\ lock # None /\ step = "publish" /\ Registers(next)
      /\ due' = due \ {lock}
  BY FleetAssumption DEF Publish
<1>2. due' = {} => due = {lock}
  BY <1>1 DEF IInv, LockInv
<1>3. due' = {} => Follows(next)
  BY <1>1, <1>2 DEF IInv, RegInv
<1> QED BY <1>1, <1>3, RegistersInv DEF Follows

LEMMA RetryEndsInv ==
  ASSUME IInv, RetryEnds PROVE IInv'
<1>1. lock = Poll /\ lock # None /\ step = "publish" /\ Registers(next) /\ due' = due
  BY FleetAssumption DEF RetryEnds, IInv, LockInv
<1>2. due' = {} => Follows(next)
  BY <1>1 DEF IInv, RegInv
<1> QED BY <1>1, <1>2, RegistersInv DEF Follows

LEMMA DroppedInv ==
  ASSUME IInv, RetryDropped PROVE IInv'
<1> USE DEF IInv
<1>1. /\ lock = None /\ registered = Failed /\ config = Gone /\ registered' = None
      /\ UNCHANGED <<config, due, shown, lock, step, next, built, stopped, closed, pc, held,
                     queued, sending, out>>
  BY DEF RetryDropped, rebuild, runtimes, passes, sends
<1>2. TypeOK'
  <2>1. \A r \in Runtimes : built[r] # None <=> r \in {registered', next}
    BY <1>1, FleetAssumption DEF TypeOK, LockInv
  <2>2. \A w \in Workers : IsStopped(w)' <=> IsStopped(w)
    BY <1>1 DEF IsStopped
  <2>3. stopped = {}
    BY <1>1 DEF LockInv
  <2> QED BY <1>1, <2>1, <2>2, <2>3 DEF TypeOK, Group
<1>3. LockInv'
  BY <1>1, FleetAssumption DEF LockInv
<1>4. PassInv'
  BY <1>1, FleetAssumption DEF PassInv, LockInv
<1>5. RegInv'
  BY <1>1, FleetAssumption DEF RegInv, Follows
<1> QED BY <1>2, <1>3, <1>4, <1>5

(* A pass or a worker leaves the registry as it is. *)
Aside == UNCHANGED <<config, due, registered, lock, step, next, built, stopped, closed>>

LEMMA AsideInv ==
  ASSUME IInv, Aside PROVE LockInv' /\ RegInv'
BY DEF IInv, Aside, LockInv, RegInv, Follows

LEMMA ResolveInv ==
  ASSUME IInv, NEW c \in Callers, Resolve(c) PROVE IInv'
<1> USE DEF IInv
<1>1. /\ pc[c] = "idle" /\ registered \in Runtimes
      /\ pc' = [pc EXCEPT ![c] = "resolved"] /\ held' = [held EXCEPT ![c] = <<registered, 0>>]
      /\ UNCHANGED <<shown, queued, sending, out>> /\ Aside
  BY DEF Resolve, Aside, registry, rebuild, runtimes, sends
<1>2. TypeOK'
  <2>1. <<registered, 0>> \in Runtimes \X (0 .. 2)
    BY <1>1
  <2> QED BY <1>1, <2>1 DEF TypeOK, Group, IsStopped, Aside
<1>3. PassInv'
  BY <1>1 DEF PassInv, Untouched, TypeOK, Aside
<1> QED BY <1>1, <1>2, <1>3, AsideInv

LEMMA LeaveInv ==
  ASSUME IInv, NEW c \in Callers, Leave(c), pc[c] # "waiting",
         UNCHANGED <<shown, queued, sending, out>>, Aside
  PROVE  IInv'
<1> USE DEF IInv
<1>1. pc' = [pc EXCEPT ![c] = "idle"] /\ held' = [held EXCEPT ![c] = None]
  BY DEF Leave
<1>2. TypeOK'
  BY <1>1 DEF TypeOK, Group, IsStopped, Aside
<1>3. PassInv'
  BY <1>1 DEF PassInv, Untouched, TypeOK, Aside
<1> QED BY <1>2, <1>3, AsideInv

LEMMA FindInv ==
  ASSUME IInv, NEW c \in Callers, FindWorker(c) PROVE IInv'
<1>1. /\ pc[c] = "resolved" /\ UNCHANGED <<shown, queued, sending, out>> /\ Aside
      /\ Leave(c) \/ (pc' = [pc EXCEPT ![c] = "making"] /\ held' = held)
  BY DEF FindWorker, Aside, registry, rebuild, runtimes, sends
<1>2. CASE Leave(c)
  BY <1>1, <1>2, LeaveInv
<1>3. CASE pc' = [pc EXCEPT ![c] = "making"] /\ held' = held
  <2> USE DEF IInv
  <2>1. TypeOK'
    BY <1>1, <1>3 DEF TypeOK, Group, IsStopped, Aside
  <2>2. PassInv'
    BY <1>1, <1>3 DEF PassInv, Untouched, TypeOK, Aside
  <2> QED BY <1>1, <2>1, <2>2, AsideInv
<1> QED BY <1>1, <1>2, <1>3

LEMMA MakeInv ==
  ASSUME IInv, NEW c \in Callers, MakeWorker(c) PROVE IInv'
<1> USE DEF IInv
<1> DEFINE k == IF IsStopped(<<held[c][1], 1>>) THEN 2 ELSE 1
<1>1. /\ pc[c] = "making" /\ UNCHANGED <<shown, queued, sending, out>> /\ Aside
      /\ pc' = [pc EXCEPT ![c] = "submit"] /\ held' = [held EXCEPT ![c] = <<held[c][1], k>>]
  BY DEF MakeWorker, Aside, registry, rebuild, runtimes, sends
<1>2. held[c][1] \in Runtimes /\ k \in {1, 2} /\ held[c] # None
  BY <1>1, FleetAssumption DEF PassInv, TypeOK
<1> HIDE DEF k
<1>3. <<held[c][1], k>> \in Workers /\ <<held[c][1], k>> \in Runtimes \X (0 .. 2)
  BY <1>2 DEF Workers
<1>4. TypeOK'
  BY <1>1, <1>3 DEF TypeOK, Group, IsStopped, Aside
<1>5. PassInv'
  <2>1. \A d \in Callers : held'[d] # None => held[d] # None /\ held'[d][1] = held[d][1]
    BY <1>1, <1>2 DEF TypeOK
  <2> QED BY <1>1, <1>3, <2>1 DEF PassInv, Untouched, TypeOK, Aside
<1> QED BY <1>1, <1>4, <1>5, AsideInv

LEMMA SubmitInv ==
  ASSUME IInv, NEW c \in Callers, Submit(c) PROVE IInv'
<1>1. pc[c] = "submit" /\ shown' = shown /\ UNCHANGED <<sending, out>> /\ Aside
  BY DEF Submit, Aside, registry, rebuild, runtimes
<1>2. CASE IsStopped(held[c])
  BY <1>1, <1>2, LeaveInv DEF Submit
<1>3. CASE ~IsStopped(held[c])
  <2> USE DEF IInv
  <2> DEFINE w == held[c]
             place == IF c = Tick THEN "idle" ELSE "waiting"
  <2>1. /\ queued' = [queued EXCEPT ![w] = queued[w] \cup {c}]
        /\ pc' = [pc EXCEPT ![c] = place] /\ held' = [held EXCEPT ![c] = None]
    BY <1>3 DEF Submit
  <2>2. w \in Workers /\ place \in {"idle", "waiting"}
    BY <1>1 DEF PassInv
  <2>w. w[1] \in Runtimes /\ w = <<w[1], w[2]>> /\ w # None
    BY <2>2, <1>1, FleetAssumption DEF Workers, TypeOK
  <2> HIDE DEF w, place
  <2>3. TypeOK'
    <3>1. queued' \in [Workers -> SUBSET Callers] /\ c \in queued'[w]
          /\ \A v \in Workers : queued[v] \subseteq queued'[v]
      BY <2>1, <2>2 DEF TypeOK
    <3>2. \A v \in Workers : IsStopped(v)' => queued'[v] = {}
      <4> SUFFICES ASSUME NEW v \in Workers, IsStopped(v)' PROVE queued'[v] = {}
        OBVIOUS
      <4>1. IsStopped(v)
        BY <1>1 DEF IsStopped, Aside
      <4>2. v # w
        BY <4>1, <1>3 DEF w
      <4> QED BY <4>1, <4>2, <2>1 DEF TypeOK
    <3>3. \A d \in Callers : pc'[d] = "waiting" => \E v \in Workers : d \in Group(v)'
      <4> SUFFICES ASSUME NEW d \in Callers, pc'[d] = "waiting"
                   PROVE \E v \in Workers : d \in queued'[v] \cup sending'[v]
        BY DEF Group
      <4>1. CASE d = c
        BY <4>1, <3>1, <2>2
      <4>2. CASE d # c
        <5>1. pc[d] = "waiting"
          BY <4>2, <2>1 DEF TypeOK
        <5>2. PICK v \in Workers : d \in queued[v] \cup sending[v]
          BY <5>1 DEF TypeOK, Group
        <5> QED BY <5>2, <3>1, <1>1
      <4> QED BY <4>1, <4>2
    <3> QED BY <1>1, <2>1, <2>2, <3>1, <3>2, <3>3 DEF TypeOK, Aside
  <2>4. PassInv'
    <3>1. next \in Runtimes /\ next # registered => w[1] # next
      BY <2>w DEF PassInv, Untouched, TypeOK, w
    <3>2. \A v \in Workers : v # w => queued'[v] = queued[v]
      BY <2>1 DEF TypeOK
    <3>3. \A d \in Callers : held'[d] # None => held'[d] = held[d]
      BY <2>1 DEF TypeOK
    <3>4. ASSUME next \in Runtimes, next # registered PROVE Untouched(next)'
      <4>1. \A k \in {1, 2} : <<next, k>> \in Workers /\ <<next, k>> # w
        BY <3>4, <3>1 DEF Workers
      <4> QED BY <4>1, <3>2, <3>3, <3>4, <1>1 DEF PassInv, Untouched, Aside
    <3> QED BY <3>4, <1>1, <2>1, <2>2 DEF PassInv, TypeOK, Aside
  <2> QED BY <1>1, <2>3, <2>4, AsideInv
<1> QED BY <1>2, <1>3

LEMMA TakeInv ==
  ASSUME IInv, NEW w \in Workers, Take(w) PROVE IInv'
<1> USE DEF IInv
<1>1. /\ queued[w] # {} /\ sending[w] = {} /\ sending' = [sending EXCEPT ![w] = queued[w]]
      /\ queued' = [queued EXCEPT ![w] = {}]
      /\ UNCHANGED <<shown, pc, held, out>> /\ Aside
  BY DEF Take, Aside, registry, rebuild, runtimes, passes
<1>2. \A v \in Workers : Group(v)' = Group(v)
  BY <1>1 DEF Group, TypeOK
<1>3. TypeOK'
  <2>1. \A v \in Workers : IsStopped(v)' => queued'[v] = {}
    BY <1>1 DEF TypeOK, IsStopped, Aside
  <2> QED BY <1>1, <1>2, <2>1 DEF TypeOK, Aside
<1>4. PassInv'
  <2>1. ASSUME next \in Runtimes, next # registered PROVE Untouched(next)'
    <3>1. \A k \in {1, 2} : <<next, k>> \in Workers /\ <<next, k>> # w
      BY <2>1, <1>1 DEF PassInv, Untouched, Workers
    <3> QED BY <2>1, <3>1, <1>1 DEF PassInv, Untouched, TypeOK, Aside
  <2> QED BY <2>1, <1>1 DEF PassInv, Aside
<1> QED BY <1>1, <1>3, <1>4, AsideInv

LEMMA RequestInv ==
  ASSUME IInv, NEW w \in Workers, Request(w) PROVE IInv'
<1> USE DEF IInv
<1>1. out' = out \cup {w} /\ UNCHANGED <<shown, pc, held, queued, sending>> /\ Aside
  BY DEF Request, Aside, registry, rebuild, runtimes, passes
<1>2. TypeOK'
  BY <1>1 DEF TypeOK, Group, IsStopped, Aside
<1>3. PassInv'
  BY <1>1 DEF PassInv, Untouched, Aside
<1> QED BY <1>1, <1>2, <1>3, AsideInv

LEMMA EndsInv ==
  ASSUME IInv, NEW w \in Workers, Ends(w), shown' \in BOOLEAN PROVE IInv'
<1> USE DEF IInv
<1>1. /\ sending' = [sending EXCEPT ![w] = {}] /\ out' = out \ {w} /\ sending[w] # {}
      /\ pc' = [c \in Callers |-> IF c \in sending[w] /\ pc[c] = "waiting" THEN "idle" ELSE pc[c]]
      /\ UNCHANGED <<held, queued>> /\ Aside
  BY DEF Ends, Answered, Aside, rebuild, runtimes
<1>2. TypeOK'
  <2>1. \A v \in Workers : IsStopped(v)' => queued'[v] = {}
    BY <1>1 DEF TypeOK, IsStopped, Aside
  <2>2. \A c \in Callers : pc'[c] = "waiting" => \E v \in Workers : c \in Group(v)'
    <3> SUFFICES ASSUME NEW c \in Callers, pc'[c] = "waiting"
                 PROVE \E v \in Workers : c \in queued'[v] \cup sending'[v]
      BY DEF Group
    <3>1. pc[c] = "waiting" /\ c \notin sending[w]
      BY <1>1
    <3>2. PICK v \in Workers : c \in queued[v] \cup sending[v]
      BY <3>1 DEF TypeOK, Group
    <3>3. c \in queued'[v] \cup sending'[v]
      BY <3>1, <3>2, <1>1 DEF TypeOK
    <3> QED BY <3>3
  <2>3. pc' \in [Callers -> {"idle", "resolved", "making", "submit", "waiting"}]
    BY <1>1 DEF TypeOK
  <2> QED BY <1>1, <2>1, <2>2, <2>3 DEF TypeOK, Aside
<1>3. PassInv'
  <2>1. \A c \in Callers : pc'[c] \in {"resolved", "making", "submit"} => pc[c] = pc'[c]
    BY <1>1
  <2>2. ASSUME next \in Runtimes, next # registered PROVE Untouched(next)'
    <3>1. \A k \in {1, 2} : <<next, k>> \in Workers
      BY <2>2 DEF Workers
    <3> QED BY <2>2, <3>1, <1>1 DEF PassInv, Untouched, TypeOK, Aside
  <2> QED BY <2>1, <2>2, <1>1 DEF PassInv, Aside
<1> QED BY <1>1, <1>2, <1>3, AsideInv

LEMMA StutterInv == ASSUME IInv, UNCHANGED vars PROVE IInv'
<1>1. UNCHANGED <<shown, pc, held, queued, sending, out>> /\ Aside
  BY DEF vars, Aside, registry, rebuild, runtimes, passes, sends
<1>2. TypeOK'
  BY <1>1 DEF IInv, TypeOK, Group, IsStopped, Aside
<1>3. PassInv'
  BY <1>1 DEF IInv, PassInv, Untouched, Aside
<1> QED BY <1>1, <1>2, <1>3, AsideInv DEF IInv

LEMMA NextInv == IInv /\ [Next]_vars => IInv'
<1> SUFFICES ASSUME IInv, [Next]_vars PROVE IInv'
  OBVIOUS
<1>1. ASSUME NEW e \in Editors, Edit(e) PROVE IInv'
  BY <1>1, EditInv
<1>2. ASSUME NEW e \in Editors, Rebuild(e) PROVE IInv'
  BY <1>2, BeginsInv, StopInv, CloseInv, PublishInv DEF Rebuild
<1>3. ASSUME Retry PROVE IInv'
  BY <1>3, RetryInv, RetryEndsInv, DroppedInv DEF Retry
<1>4. ASSUME NEW c \in Callers, Resolve(c) \/ Pass(c) PROVE IInv'
  BY <1>4, ResolveInv, FindInv, MakeInv, SubmitInv DEF Pass
<1>5. ASSUME NEW w \in Workers, Work(w) PROVE IInv'
  <2>1. CASE Take(w) \/ Request(w)
    BY <2>1, TakeInv, RequestInv
  <2>2. CASE Succeed(w) \/ Fail(w)
    <3>1. Ends(w) /\ shown' \in BOOLEAN
      BY <2>2 DEF Succeed, Fail, IInv, TypeOK
    <3> QED BY <3>1, EndsInv
  <2> QED BY <1>5, <2>1, <2>2 DEF Work
<1>6. CASE UNCHANGED vars
  BY <1>6, StutterInv
<1> QED BY <1>1, <1>2, <1>3, <1>4, <1>5, <1>6 DEF Next

LEMMA Inductive == Spec => []IInv
<1>1. IInv /\ [Next]_vars => IInv'
  BY NextInv
<1> QED BY <1>1, InitInv, PTL DEF Spec

-----------------------------------------------------------------------------
(* The registry, the passes and the workers keep their types; a stopped    *)
(* worker has no job, and whoever waits has one.                           *)
THEOREM TypeCorrect == Spec => []TypeOK
<1>1. IInv => TypeOK
  BY DEF IInv
<1> QED BY <1>1, Inductive, PTL

(* However rebuilds and retries interleave, the registry ends with what    *)
(* the settings say or with the failure on record.                         *)
THEOREM RegistryTrue == Spec => []RegistryFollows
<1>1. IInv => RegistryFollows
  BY FleetAssumption DEF IInv, LockInv, RegInv, Follows, RegistryFollows, Sound
<1> QED BY <1>1, Inductive, PTL

(* Only the registered runtime's workers find a driver that still sends.   *)
THEOREM NothingThroughOld == Spec => NeverThroughOld
<1>1. ASSUME IInv, [Next]_vars, NEW w \in Workers, w \notin out, w \in out'
      PROVE  w[1] = registered
  <2>1. Request(w)
    <3>1. ASSUME Retry \/ (\E e \in Editors : Edit(e) \/ Rebuild(e)) PROVE out' = out
      BY <3>1 DEF Retry, Edit, Rebuild, RebuildBegins, StopOld, CloseOld, Publish, Registers,
                  RetryBegins, RetryEnds, RetryDropped, sends
    <3>2. ASSUME NEW c \in Callers, Resolve(c) \/ Pass(c) PROVE out' = out
      BY <3>2 DEF Resolve, Pass, FindWorker, MakeWorker, Submit, sends
    <3>3. ASSUME NEW v \in Workers, Work(v) PROVE out' \subseteq out \/ (Request(v) /\ out' = out \cup {v})
      BY <3>3 DEF Work, Take, Request, Succeed, Fail, Ends
    <3>4. ASSUME UNCHANGED vars PROVE out' = out
      BY <3>4 DEF vars, sends
    <3> QED BY <1>1, <3>1, <3>2, <3>3, <3>4 DEF Next
  <2>2. sending[w] # {} /\ w[1] \notin closed
    BY <2>1 DEF Request
  <2>3. w[1] \in Runtimes /\ w[2] \in {1, 2} /\ w = <<w[1], w[2]>>
    BY DEF Workers
  <2>4. w[1] \in {registered, next}
    BY <1>1, <2>2, <2>3 DEF IInv, LockInv
  <2>5. w[1] = next => next = registered
    BY <1>1, <2>2, <2>3 DEF IInv, PassInv, Untouched
  <2> QED BY <2>4, <2>5
<1>2. IInv /\ [Next]_vars => [\A w \in Workers : w \notin out /\ w \in out' => w[1] = registered]_vars
  BY <1>1
<1> QED BY <1>2, Inductive, PTL DEF Spec, NeverThroughOld
=============================================================================

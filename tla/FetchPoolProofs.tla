--------------------------- MODULE FetchPoolProofs ---------------------------
(***************************************************************************)
(* One fetch at a time for every plugin and board, and a bounded number of *)
(* workers lost, for any number of plugins, builders and workers and any   *)
(* thresholds.                                                             *)
(***************************************************************************)
EXTENDS FetchPool, FunctionTheorems, FiniteSetTheorems, TLAPS

(* The registry names every fetch under way. *)
Registered == \A f \in F : state[f] \in Unfinished => inflight[f[1]] = f

(* What it names is a future of that key, and not collected. *)
Named ==
  \A k \in Keys : inflight[k] # None => inflight[k][1] = k /\ state[inflight[k]] # "free"

(* What a build holds is not collected; what it gave up on is not queued.  *)
Held ==
  \A b \in Builders :
    /\ late[b] \subseteq joined[b]
    /\ \A f \in joined[b] : state[f] # "free"
    /\ pc[b] = "settle" => \A f \in late[b] : state[f] # "queued"
    /\ pc[b] # "settle" => late[b] = {}
    /\ pc[b] # "writeOff" => taken[b] = {}

(* Only a fetch that started is written off. *)
StartedOff == \A f \in off : state[f] \in {"running", "done"}

(* The workers written off, of the pool in use, that nobody has counted. *)
Counted == {f \in off \ retired : state[f] = "running" /\ \A b \in Builders : f \notin taken[b]}

Accounted == Cardinality(Counted) <= lost

IInv == TypeOK /\ Registered /\ Named /\ Held /\ StartedOff /\ Accounted

-----------------------------------------------------------------------------
LEMMA FutureIsNot == ASSUME NEW f \in F PROVE f # None /\ f[1] \in Keys
BY FetchAssumption DEF None

LEMMA FutureFinite == IsFiniteSet(F)
BY FetchAssumption

(* The future a submit takes is free and of the key. *)
LEMMA NewIsFree ==
  ASSUME NEW k \in Keys, \E f \in F : f[1] = k /\ state[f] = "free"
  PROVE  NewFuture(k) \in F /\ NewFuture(k)[1] = k /\ state[NewFuture(k)] = "free"
BY DEF NewFuture

(* Nothing the pool has lost is forgotten as long as nothing is added to   *)
(* it uncounted.                                                           *)
LEMMA StaysAccounted ==
  ASSUME TypeOK, Accounted, Counted' \subseteq Counted, lost' = lost
  PROVE  Accounted'
<1>1. IsFiniteSet(Counted)
  BY FutureFinite, FS_Subset DEF Counted, TypeOK
<1>2. Cardinality(Counted') <= Cardinality(Counted)
  BY <1>1, FS_Subset
<1>3. /\ Cardinality(Counted') \in Nat /\ Cardinality(Counted) \in Nat /\ lost \in Int
  <2>1. IsFiniteSet(Counted')
    BY <1>1, FS_Subset
  <2>2. lost \in Int
    BY FetchAssumption DEF TypeOK
  <2> QED BY <1>1, <2>1, <2>2, FS_CardinalityType
<1> QED BY <1>2, <1>3 DEF Accounted

THEOREM InitIInv == Init => IInv
<1> SUFFICES ASSUME Init PROVE IInv
  OBVIOUS
<1>1. TypeOK
  BY FetchAssumption DEF Init, TypeOK, Places
<1>2. Registered /\ Named /\ Held /\ StartedOff
  BY DEF Init, Registered, Named, Held, StartedOff, Unfinished
<1>3. Counted = {}
  BY DEF Init, Counted
<1>4. Accounted
  BY <1>3, FS_EmptySet DEF Init, Accounted
<1> QED BY <1>1, <1>2, <1>4 DEF IInv

-----------------------------------------------------------------------------
(* The steps.  What each does to the futures decides everything but the    *)
(* types.                                                                  *)

LEMMA StartStep == ASSUME IInv, NEW f \in F, Start(f) PROVE IInv'
<1> USE DEF IInv
<1>1. TypeOK'
  BY DEF Start, TypeOK, Unfinished, build, breaker
<1>2. (Registered /\ Named)'
  <2>1. state' = [state EXCEPT ![f] = "running"] /\ inflight' = inflight /\ state[f] = "queued"
    BY DEF Start
  <2> QED BY <2>1 DEF TypeOK, Registered, Named, Unfinished
<1>3. (Held /\ StartedOff)'
  BY DEF Start, TypeOK, Held, StartedOff, build
<1>4. Counted' \subseteq Counted /\ lost' = lost
  BY DEF Start, TypeOK, Counted, StartedOff, build
<1> QED BY <1>1, <1>2, <1>3, <1>4, StaysAccounted

LEMMA FinishStep == ASSUME IInv, NEW f \in F, Finish(f) PROVE IInv'
<1> USE DEF IInv
<1>1. TypeOK'
  <2>1. f[1] \in Keys
    BY FutureIsNot
  <2> QED BY <2>1 DEF Finish, TypeOK, Finished, build, breaker
<1>2. (Registered /\ Named)'
  <2>1. state' = [state EXCEPT ![f] = "done"] /\ inflight' = inflight
    BY DEF Finish
  <2> QED BY <2>1 DEF TypeOK, Registered, Named, Unfinished
<1>3. (Held /\ StartedOff)'
  BY DEF Finish, TypeOK, Held, StartedOff, build
<1>4. Counted' \subseteq Counted /\ lost' = lost
  BY DEF Finish, TypeOK, Counted, build
<1> QED BY <1>1, <1>2, <1>3, <1>4, StaysAccounted

LEMMA TimeStep ==
  ASSUME IInv, NEW k \in Keys, Expire(k) \/ CoolDown(k)
  PROVE  IInv'
<1> USE DEF IInv
<1>1. TypeOK'
  BY DEF Expire, CoolDown, TypeOK, futures, breaker, build
<1>2. UNCHANGED <<state, retired, off, inflight, lost, pc, late, joined, taken>>
  BY DEF Expire, CoolDown, futures, build
<1>3. (Registered /\ Named /\ Held /\ StartedOff)'
  BY <1>2 DEF Registered, Named, Held, StartedOff
<1>4. Counted' \subseteq Counted /\ lost' = lost
  BY <1>2 DEF Counted
<1> QED BY <1>1, <1>3, <1>4, StaysAccounted

LEMMA BeginStep == ASSUME IInv, NEW b \in Builders, Begin(b) PROVE IInv'
<1> USE DEF IInv
<1>1. TypeOK'
  <2>1. streak' \in [Keys -> 0 .. Threshold] /\ cool' \subseteq Keys
    BY FetchAssumption DEF Begin, Answered, TypeOK
  <2>2. pc' \in [Builders -> Places] /\ asks' \in [Builders -> SUBSET Keys]
    BY FetchAssumption DEF Begin, Goto, TypeOK, Places
  <2> QED BY <2>1, <2>2 DEF Begin, TypeOK, futures
<1>2. UNCHANGED <<state, retired, off, inflight, lost, late, joined, taken>>
  BY DEF Begin, futures
<1>3. \A c \in Builders : pc'[c] = pc[c] \/ (pc[c] = "idle" /\ pc'[c] = "submit")
  BY DEF Begin, Goto, TypeOK
<1>4. (Registered /\ Named /\ Held /\ StartedOff)'
  BY <1>2, <1>3 DEF Registered, Named, Held, StartedOff
<1>5. Counted' \subseteq Counted /\ lost' = lost
  BY <1>2 DEF Counted
<1> QED BY <1>1, <1>4, <1>5, StaysAccounted

LEMMA GiveUpStep == ASSUME IInv, NEW b \in Builders, GiveUp(b) PROVE IInv'
<1> USE DEF IInv
<1>1. PICK unseen \in SUBSET {f \in joined[b] : state[f] = "cancelled"} :
        late' = [late EXCEPT ![b] = unseen \cup {f \in joined[b] : state[f] \in Unfinished}]
  BY DEF GiveUp
<1>2. late'[b] \subseteq joined[b] /\ \A c \in Builders \ {b} : late'[c] = late[c]
  BY <1>1 DEF TypeOK
<1>3. \A f \in F : state'[f] = IF f \in late'[b] /\ state[f] = "queued" THEN "cancelled" ELSE state[f]
  BY DEF GiveUp
<1>4. TypeOK'
  <2>1. late' \in [Builders -> SUBSET F]
    BY <1>1 DEF TypeOK
  <2>2. state' \in [F -> {"free"} \cup Unfinished \cup Finished]
    BY DEF GiveUp, TypeOK, Finished
  <2>3. pc' \in [Builders -> Places]
    BY DEF GiveUp, Goto, TypeOK, Places
  <2> QED BY <2>1, <2>2, <2>3 DEF GiveUp, TypeOK, breaker
<1>5. (Registered /\ Named)'
  <2>1. inflight' = inflight
    BY DEF GiveUp
  <2>2. \A f \in F : /\ state'[f] \in Unfinished => state[f] \in Unfinished
                     /\ state[f] # "free" => state'[f] # "free"
    BY <1>3 DEF Unfinished
  <2> QED BY <2>1, <2>2 DEF TypeOK, Registered, Named
<1>6. Held'
  <2>1. UNCHANGED <<joined, taken>> /\ pc' = [pc EXCEPT ![b] = "settle"]
    BY DEF GiveUp, Goto
  <2>2. \A c \in Builders : late'[c] \subseteq joined'[c] /\ \A f \in joined'[c] : state'[f] # "free"
    BY <1>2, <1>3, <2>1 DEF Held, TypeOK
  <2>3. \A f \in late'[b] : state'[f] # "queued"
    BY <1>2, <1>3 DEF TypeOK
  <2>4. ASSUME NEW c \in Builders \ {b}, pc[c] = "settle", NEW f \in late[c] PROVE state'[f] # "queued"
    BY <2>4, <1>3 DEF Held, TypeOK
  <2>5. \A c \in Builders : pc'[c] = "settle" => \A f \in late'[c] : state'[f] # "queued"
    BY <1>2, <2>1, <2>3, <2>4 DEF TypeOK
  <2>6. \A c \in Builders : pc'[c] # "writeOff" => taken'[c] = {}
    BY <2>1 DEF Held, TypeOK, GiveUp
  <2>7. \A c \in Builders : pc'[c] # "settle" => late'[c] = {}
    BY <1>2, <2>1 DEF Held, TypeOK
  <2> QED BY <2>2, <2>5, <2>6, <2>7 DEF Held
<1>7. StartedOff'
  BY <1>3 DEF GiveUp, StartedOff, TypeOK
<1>8. Counted' \subseteq Counted /\ lost' = lost
  BY <1>3 DEF GiveUp, Counted, TypeOK
<1> QED BY <1>4, <1>5, <1>6, <1>7, <1>8, StaysAccounted

LEMMA WriteOffStep == ASSUME IInv, NEW b \in Builders, WriteOff(b) PROVE IInv'
<1> USE DEF IInv
<1> DEFINE n == Cardinality(taken[b])
<1>1. IsFiniteSet(Counted) /\ IsFiniteSet(taken[b])
  BY FutureFinite, FS_Subset DEF Counted, TypeOK
<1>2. n \in Nat /\ Cardinality(Counted) \in Nat
  BY <1>1, FS_CardinalityType
<1>3. lost \in Nat /\ LostLimit \in Nat \ {0}
  BY FetchAssumption DEF TypeOK
<1>4. pc[b] = "writeOff" /\ pc' = [pc EXCEPT ![b] = "idle"] /\ taken' = [taken EXCEPT ![b] = {}]
  BY DEF WriteOff, Goto
<1>5. UNCHANGED <<state, off, inflight, late, joined>>
  BY DEF WriteOff
<1>6. lost' \in 0 .. LostLimit - 1
  BY <1>2, <1>3 DEF WriteOff
<1>7. TypeOK'
  <2>1. retired' \subseteq F /\ stale' \subseteq Builders
    BY DEF WriteOff, TypeOK
  <2>2. pc' \in [Builders -> Places] /\ taken' \in [Builders -> SUBSET F]
    BY <1>4 DEF TypeOK, Places
  <2> QED BY <1>6, <2>1, <2>2 DEF WriteOff, TypeOK, breaker
<1>8. (Registered /\ Named /\ Held /\ StartedOff)'
  BY <1>4, <1>5 DEF Registered, Named, Held, StartedOff, TypeOK
<1>9. CASE lost + n < LostLimit
  <2>1. lost' = lost + n /\ retired' = retired
    BY <1>9, <1>2, <1>3 DEF WriteOff
  <2>2. Counted' \subseteq Counted \cup taken[b]
    BY <2>1, <1>4, <1>5 DEF Counted, TypeOK
  <2>3. Cardinality(Counted \cup taken[b]) <= Cardinality(Counted) + n
    <3>1. Cardinality(Counted \cap taken[b]) \in Nat
      BY <1>1, FS_Intersection, FS_CardinalityType
    <3>2. Cardinality(Counted \cup taken[b])
            = Cardinality(Counted) + Cardinality(taken[b]) - Cardinality(Counted \cap taken[b])
      BY <1>1, FS_Union
    <3> QED BY <1>2, <3>1, <3>2
  <2>4. IsFiniteSet(Counted \cup taken[b])
    BY <1>1, FS_Union
  <2>5. Cardinality(Counted') <= Cardinality(Counted \cup taken[b]) /\ IsFiniteSet(Counted')
    BY <2>2, <2>4, FS_Subset
  <2>6. Cardinality(Counted') \in Nat /\ Cardinality(Counted \cup taken[b]) \in Nat
    BY <2>4, <2>5, FS_CardinalityType
  <2>7. Cardinality(Counted') <= lost'
    BY <2>1, <2>3, <2>5, <2>6, <1>2, <1>3 DEF Accounted
  <2> QED BY <1>7, <1>8, <2>7 DEF Accounted
<1>10. CASE lost + n >= LostLimit
  <2>1. lost' = 0 /\ retired' = {f \in F : state[f] \in Unfinished}
    BY <1>10, <1>2, <1>3 DEF WriteOff
  <2>2. Counted' = {}
    BY <2>1, <1>5 DEF Counted, Unfinished, TypeOK
  <2>3. Accounted'
    BY <2>1, <2>2, FS_EmptySet DEF Accounted
  <2> QED BY <1>7, <1>8, <2>3
<1> QED BY <1>2, <1>3, <1>9, <1>10

LEMMA CallbackStep == ASSUME IInv, NEW f \in F, Callback(f) PROVE IInv'
<1> USE DEF IInv
<1>1. /\ UNCHANGED <<retired, breaker, cache, lost, stale, pc, asks, joined, late, taken>>
      /\ listening' = listening \ {f} /\ state[f] \in Finished
  BY DEF Callback
<1>2. \A k \in Keys : inflight'[k] = IF k = f[1] /\ inflight[k] = f THEN None ELSE inflight[k]
  BY FutureIsNot DEF Callback, TypeOK
<1>3. \A g \in F : state'[g] = IF Gone(g) THEN "free" ELSE state[g]
  BY DEF Callback, Collect
<1>4. off' \subseteq off /\ \A g \in off' : ~Gone(g)
  BY DEF Callback, Collect, TypeOK
<1>5. TypeOK'
  <2>1. inflight' \in [Keys -> F \cup {None}]
    BY <1>2 DEF Callback, TypeOK
  <2>2. state' \in [F -> {"free"} \cup Unfinished \cup Finished]
    BY DEF Callback, Collect, TypeOK
  <2> QED BY <1>1, <1>4, <2>1, <2>2 DEF TypeOK, breaker
<1>6. \A g \in F : Gone(g) => state[g] \in Finished
  BY DEF Gone
<1>7. Registered'
  <2> SUFFICES ASSUME NEW g \in F, state'[g] \in Unfinished PROVE inflight'[g[1]] = g
    BY DEF Registered
  <2>1. state[g] \in Unfinished /\ g # f
    BY <1>1, <1>3 DEF Unfinished, Finished
  <2> QED BY <2>1, <1>2, FutureIsNot DEF Registered
<1>8. Named'
  <2> SUFFICES ASSUME NEW k \in Keys, inflight'[k] # None
               PROVE  inflight'[k][1] = k /\ state'[inflight'[k]] # "free"
    BY DEF Named
  <2>1. inflight'[k] = inflight[k] /\ inflight[k] # None
    BY <1>2
  <2>2. inflight[k] \in F /\ inflight[k][1] = k /\ state[inflight[k]] # "free"
    BY <2>1 DEF Named, TypeOK
  <2>3. ~Gone(inflight[k])
    BY <2>1, <2>2 DEF Gone
  <2> QED BY <1>3, <2>1, <2>2, <2>3
<1>9. Held'
  <2>1. \A c \in Builders : \A g \in joined[c] : ~Gone(g)
    BY <1>1 DEF Gone
  <2> QED BY <1>1, <1>3, <2>1 DEF Held, TypeOK
<1>10. StartedOff'
  BY <1>3, <1>4 DEF StartedOff, TypeOK
<1>11. Counted' \subseteq Counted /\ lost' = lost
  BY <1>1, <1>3, <1>4 DEF Counted, TypeOK
<1> QED BY <1>5, <1>7, <1>8, <1>9, <1>10, <1>11, StaysAccounted

LEMMA SettleStep == ASSUME IInv, NEW b \in Builders, Settle(b) PROVE IInv'
<1> USE DEF IInv
<1> DEFINE started == {f \in late[b] : state[f] # "cancelled"}
           opened == {f \in started : streak[f[1]] + 1 >= Threshold}
<1>1. /\ UNCHANGED <<retired, cache, lost, listening, inflight>>
      /\ pc[b] = "settle" /\ taken[b] = {}
  BY DEF Settle, Held
<1>2. Collect({}, opened)
  BY DEF Settle
<1>3. \A g \in F : state'[g] = IF Gone(g) THEN "free" ELSE state[g]
  BY <1>2 DEF Collect
<1>4. off' \subseteq off \cup opened /\ \A g \in off' : ~Gone(g)
  BY <1>2 DEF Collect, TypeOK
<1>5. opened \subseteq F /\ \A g \in opened : state[g] \in {"running", "done"}
  BY <1>1 DEF Held, TypeOK, Unfinished, Finished
<1>6. /\ joined' = [joined EXCEPT ![b] = {}] /\ late' = [late EXCEPT ![b] = {}]
      /\ stale' \subseteq stale /\ asks' \in [Builders -> SUBSET Keys]
  BY DEF Settle, Leave, TypeOK
<1>7. \/ /\ opened \subseteq off /\ pc' = [pc EXCEPT ![b] = "idle"]
         /\ taken' = [taken EXCEPT ![b] = {}]
      \/ pc' = [pc EXCEPT ![b] = "writeOff"] /\ taken' = [taken EXCEPT ![b] = opened \ off]
  BY DEF Settle, Leave, Goto
<1>8. TypeOK'
  <2>1. streak' \in [Keys -> 0 .. Threshold] /\ cool' \subseteq Keys
    <3>1. streak' \in [Keys -> 0 .. Threshold]
      BY FetchAssumption DEF Settle, TypeOK
    <3>2. \A f \in opened : f[1] \in Keys
      BY <1>5, FutureIsNot
    <3>3. cool' \subseteq cool \cup {f[1] : f \in opened}
      BY DEF Settle
    <3> QED BY <3>1, <3>2, <3>3 DEF TypeOK
  <2>2. state' \in [F -> {"free"} \cup Unfinished \cup Finished]
    BY <1>2 DEF Collect, TypeOK
  <2>3. pc' \in [Builders -> Places] /\ taken' \in [Builders -> SUBSET F]
    BY <1>5, <1>7 DEF TypeOK, Places
  <2>4. joined' \in [Builders -> SUBSET F] /\ late' \in [Builders -> SUBSET F]
    BY <1>6 DEF TypeOK
  <2>5. off' \subseteq F /\ stale' \subseteq Builders
    BY <1>4, <1>5, <1>6 DEF TypeOK
  <2> QED BY <1>1, <1>6, <2>1, <2>2, <2>3, <2>4, <2>5 DEF TypeOK
<1>9. \A g \in F : Gone(g) => state[g] \in Finished
  BY DEF Gone
<1>10. Registered'
  BY <1>1, <1>3 DEF Registered, Unfinished
<1>11. Named'
  <2> SUFFICES ASSUME NEW k \in Keys, inflight[k] # None PROVE state'[inflight[k]] # "free"
    BY <1>1 DEF Named
  <2>1. inflight[k] \in F /\ inflight[k][1] = k /\ state[inflight[k]] # "free"
    BY DEF Named, TypeOK
  <2>2. ~Gone(inflight[k])
    BY <1>1, <2>1 DEF Gone
  <2> QED BY <1>3, <2>1, <2>2
<1>12. Held'
  <2>1. \A c \in Builders : \A g \in joined'[c] : ~Gone(g)
    BY DEF Gone
  <2>2. \A c \in Builders : joined'[c] \subseteq joined[c] /\ late'[c] \subseteq late[c]
                              /\ late'[c] \subseteq joined'[c]
    BY <1>6 DEF Held, TypeOK
  <2>3. \A c \in Builders : \A g \in joined'[c] : state'[g] # "free"
    BY <1>3, <2>1, <2>2 DEF Held, TypeOK
  <2>4. \A c \in Builders : pc'[c] = "settle" => pc[c] = "settle" /\ c # b
    BY <1>7 DEF TypeOK
  <2>5. \A c \in Builders : pc'[c] = "settle" => \A g \in late'[c] : state'[g] # "queued"
    BY <1>3, <2>2, <2>4 DEF Held, TypeOK
  <2>6. \A c \in Builders : pc'[c] # "writeOff" => taken'[c] = {}
    BY <1>7 DEF Held, TypeOK
  <2>7. \A c \in Builders : pc'[c] # "settle" => late'[c] = {}
    BY <1>6, <1>7 DEF Held, TypeOK
  <2> QED BY <2>2, <2>3, <2>5, <2>6, <2>7 DEF Held
<1>13. StartedOff'
  BY <1>3, <1>4, <1>5 DEF StartedOff, TypeOK
<1>14. Counted' \subseteq Counted
  <2> SUFFICES ASSUME NEW g \in Counted' PROVE g \in Counted
    OBVIOUS
  <2>1. /\ g \in off' /\ g \notin retired /\ state'[g] = "running"
        /\ \A c \in Builders : g \notin taken'[c]
    BY <1>1 DEF Counted
  <2>2. g \in F /\ state[g] = "running"
    BY <1>3, <1>4, <1>5, <2>1 DEF TypeOK
  <2>3. g \in off
    BY <1>4, <1>7, <2>1 DEF TypeOK
  <2>4. \A c \in Builders : g \notin taken[c]
    BY <1>1, <1>7, <2>1 DEF TypeOK
  <2> QED BY <2>1, <2>2, <2>3, <2>4 DEF Counted
<1> QED BY <1>1, <1>8, <1>10, <1>11, <1>12, <1>13, <1>14, StaysAccounted

(* What both ways a submit can end have in common. *)
SubmitEffect(b, K) ==
  /\ UNCHANGED <<breaker, cache, lost, late>>
  /\ \A k \in Keys : inflight'[k] = IF k \in K THEN NewFuture(k) ELSE inflight[k]
  /\ \A g \in F : state'[g] = IF g \in {NewFuture(k) : k \in K} THEN "queued"
                              ELSE IF Gone(g) THEN "free" ELSE state[g]
  /\ off' \subseteq off /\ \A g \in off' : ~Gone(g)
  /\ \A c \in Builders \ {b} : joined'[c] = joined[c]
  /\ \A g \in joined'[b] : \/ \E k \in K : g = NewFuture(k)
                           \/ \E k \in Keys \ K : g = inflight[k] /\ inflight[k] # None
  /\ pc[b] = "submit" /\ pc'[b] \in {"wait", "idle"}
  /\ \A c \in Builders \ {b} : pc'[c] = pc[c]
  /\ taken' = taken /\ late[b] \subseteq joined'[b]
  /\ retired \subseteq retired'

LEMMA SubmitInvariant ==
  ASSUME IInv, TypeOK', NEW b \in Builders, NEW K \in SUBSET ToSubmit(b), SubmitEffect(b, K),
         \A k \in ToSubmit(b) : \E f \in F : f[1] = k /\ state[f] = "free"
  PROVE  IInv'
<1> USE DEF IInv
<1>1. K \subseteq Keys
  BY DEF ToSubmit, TypeOK
<1>2. \A k \in K : NewFuture(k) \in F /\ NewFuture(k)[1] = k /\ state[NewFuture(k)] = "free"
  BY <1>1, NewIsFree
<1>3. \A k \in K : \A g \in F : g[1] = k => state[g] \notin Unfinished
  <2> SUFFICES ASSUME NEW k \in K, NEW g \in F, g[1] = k, state[g] \in Unfinished PROVE FALSE
    OBVIOUS
  <2>1. inflight[k] = g /\ g # None
    BY FutureIsNot DEF Registered
  <2> QED BY <2>1 DEF ToSubmit, Unfinished, Finished
<1>4. \A g \in F : Gone(g) => state[g] \in Finished /\ inflight'[g[1]] # g
                              /\ \A c \in Builders : g \notin joined'[c]
  BY DEF Gone
<1>5. Registered'
  <2> SUFFICES ASSUME NEW g \in F, state'[g] \in Unfinished PROVE inflight'[g[1]] = g
    BY DEF Registered
  <2>1. CASE \E k \in K : g = NewFuture(k)
    BY <1>1, <1>2, <2>1 DEF SubmitEffect
  <2>2. CASE ~\E k \in K : g = NewFuture(k)
    <3>1. state[g] \in Unfinished
      BY <2>2 DEF SubmitEffect, Unfinished
    <3> QED BY <1>3, <3>1, FutureIsNot DEF SubmitEffect, Registered
  <2> QED BY <2>1, <2>2
<1>6. Named'
  <2> SUFFICES ASSUME NEW k \in Keys, inflight'[k] # None
               PROVE  inflight'[k][1] = k /\ state'[inflight'[k]] # "free"
    BY DEF Named
  <2>1. CASE k \in K
    BY <1>2, <2>1 DEF SubmitEffect
  <2>2. CASE k \notin K
    <3>1. inflight'[k] = inflight[k] /\ inflight[k] \in F /\ inflight[k][1] = k
                                    /\ state[inflight[k]] # "free"
      BY <2>2 DEF SubmitEffect, Named, TypeOK
    <3>2. ~Gone(inflight[k])
      BY <1>4, <3>1
    <3> QED BY <3>1, <3>2 DEF SubmitEffect
  <2> QED BY <2>1, <2>2
<1>7. \A c \in Builders : \A g \in joined'[c] : g \in F /\ state'[g] # "free"
  <2> SUFFICES ASSUME NEW c \in Builders, NEW g \in joined'[c] PROVE g \in F /\ state'[g] # "free"
    OBVIOUS
  <2>1. g \in F /\ ~Gone(g)
    BY <1>4 DEF TypeOK
  <2>2. CASE \E k \in K : g = NewFuture(k)
    BY <2>1, <2>2 DEF SubmitEffect
  <2>3. CASE c # b
    BY <2>1, <2>3 DEF SubmitEffect, Held
  <2>4. CASE c = b /\ \E k \in Keys \ K : g = inflight[k] /\ inflight[k] # None
    BY <2>1, <2>4 DEF SubmitEffect, Named
  <2> QED BY <2>2, <2>3, <2>4 DEF SubmitEffect
<1>8. Held'
  <2>1. \A c \in Builders : late'[c] \subseteq joined'[c]
    BY DEF SubmitEffect, Held
  <2>2. ASSUME NEW c \in Builders, pc'[c] = "settle", NEW g \in late'[c] PROVE state'[g] # "queued"
    <3>1. c # b /\ pc[c] = "settle" /\ g \in late[c] /\ g \in joined[c] /\ g \in F
      BY <2>2 DEF SubmitEffect, Held, TypeOK
    <3>2. state[g] # "queued" /\ state[g] # "free"
      BY <3>1 DEF Held
    <3> QED BY <1>2, <3>1, <3>2 DEF SubmitEffect
  <2>3. \A c \in Builders : pc'[c] # "writeOff" => taken'[c] = {}
    <3> SUFFICES ASSUME NEW c \in Builders, pc'[c] # "writeOff" PROVE taken'[c] = {}
      OBVIOUS
    <3>1. CASE pc[c] # "writeOff"
      BY <3>1 DEF Held, SubmitEffect
    <3>2. CASE pc[c] = "writeOff"
      BY <3>2 DEF Held, SubmitEffect
    <3> QED BY <3>1, <3>2
  <2>4. \A c \in Builders : pc'[c] # "settle" => late'[c] = {}
    BY DEF SubmitEffect, Held
  <2> QED BY <1>7, <2>1, <2>2, <2>3, <2>4 DEF Held
<1>9. StartedOff'
  BY <1>2 DEF SubmitEffect, StartedOff, TypeOK
<1>10. Counted' \subseteq Counted /\ lost' = lost
  BY DEF SubmitEffect, Counted, TypeOK
<1> QED BY <1>5, <1>6, <1>8, <1>9, <1>10, StaysAccounted

LEMMA SubmitStep == ASSUME IInv, NEW b \in Builders, Submit(b) PROVE IInv'
<1> USE DEF IInv
<1>1. /\ pc[b] = "submit" /\ taken[b] = {} /\ UNCHANGED <<breaker, cache, lost>>
      /\ ToSubmit(b) \subseteq asks[b] /\ asks[b] \subseteq Keys
      /\ \A k \in ToSubmit(b) : \E f \in F : f[1] = k /\ state[f] = "free"
  BY DEF Submit, Held, ToSubmit, TypeOK
<1>2. \A k \in ToSubmit(b) : NewFuture(k) \in F
  BY <1>1, NewIsFree
<1>3. ASSUME NEW K \in SUBSET ToSubmit(b), Submitted(b, K)
      PROVE  /\ inflight' = [k \in Keys |-> IF k \in K THEN NewFuture(k) ELSE inflight[k]]
             /\ \A g \in F : state'[g] = IF g \in {NewFuture(k) : k \in K} THEN "queued"
                                         ELSE IF Gone(g) THEN "free" ELSE state[g]
             /\ off' \subseteq off /\ \A g \in off' : ~Gone(g)
             /\ inflight' \in [Keys -> F \cup {None}]
             /\ state' \in [F -> {"free"} \cup Unfinished \cup Finished]
             /\ retired \subseteq retired' /\ retired' \subseteq F
             /\ off' \subseteq F
  <2>1. /\ inflight' = [k \in Keys |-> IF k \in K THEN NewFuture(k) ELSE inflight[k]]
        /\ state' = [g \in F |-> IF g \in {NewFuture(k) : k \in K} THEN "queued"
                                 ELSE IF Gone(g) THEN "free" ELSE state[g]]
        /\ retired' = IF b \in stale THEN retired \cup {NewFuture(k) : k \in K} ELSE retired
        /\ off' = {g \in off \cup {} : ~Gone(g)}
    BY <1>3 DEF Submitted, Collect
  <2>2. inflight' \in [Keys -> F \cup {None}]
    BY <1>2, <2>1 DEF TypeOK
  <2>3. state' \in [F -> {"free"} \cup Unfinished \cup Finished]
    BY <2>1 DEF TypeOK, Unfinished
  <2> QED BY <1>2, <2>1, <2>2, <2>3 DEF TypeOK
<1>4. CASE Join(b)
  <2> DEFINE K == ToSubmit(b)
  <2>1. Submitted(b, K)
    BY <1>4 DEF Join
  <2>2. /\ listening' = listening \cup {NewFuture(k) : k \in K}
        /\ joined' = [joined EXCEPT ![b] = {IF k \in K THEN NewFuture(k) ELSE inflight[k] : k \in asks[b]}]
        /\ asks' = [asks EXCEPT ![b] = {}] /\ stale' = stale \ {b}
        /\ pc' = [pc EXCEPT ![b] = "wait"] /\ UNCHANGED <<late, taken>>
    BY <1>4 DEF Join, Goto
  <2>3. \A g \in joined'[b] : \/ \E k \in K : g = NewFuture(k)
                             \/ \E k \in Keys \ K : g = inflight[k] /\ inflight[k] # None
    BY <1>1, <2>2 DEF ToSubmit, TypeOK
  <2>4. joined' \in [Builders -> SUBSET F]
    <3>1. joined'[b] \subseteq F
      BY <1>2, <2>3 DEF TypeOK
    <3> QED BY <2>2, <3>1 DEF TypeOK
  <2>5. pc' \in [Builders -> Places] /\ asks' \in [Builders -> SUBSET Keys]
    BY <2>2 DEF TypeOK, Places
  <2>6. TypeOK'
    BY <1>1, <1>2, <1>3, <2>1, <2>2, <2>4, <2>5 DEF TypeOK, breaker
  <2>7. late[b] = {}
    BY <1>1 DEF Held
  <2>8. SubmitEffect(b, K)
    BY <1>1, <1>3, <2>1, <2>2, <2>3, <2>7 DEF SubmitEffect, TypeOK
  <2> QED BY <1>1, <2>6, <2>8, SubmitInvariant
<1>5. CASE Refused(b)
  <2>1. PICK K \in SUBSET ToSubmit(b) : Submitted(b, K)
    BY <1>5 DEF Refused
  <2>2. /\ listening' = listening /\ pc' = [pc EXCEPT ![b] = "idle"]
        /\ asks' = [asks EXCEPT ![b] = {}] /\ stale' = stale \ {b}
        /\ joined' = [joined EXCEPT ![b] = {}] /\ late' = [late EXCEPT ![b] = {}]
        /\ taken' = [taken EXCEPT ![b] = {}]
    BY <1>5 DEF Refused, Leave, Goto
  <2>3. TypeOK'
    <3>1. pc' \in [Builders -> Places] /\ asks' \in [Builders -> SUBSET Keys]
      BY <2>2 DEF TypeOK, Places
    <3>2. joined' \in [Builders -> SUBSET F] /\ late' \in [Builders -> SUBSET F]
          /\ taken' \in [Builders -> SUBSET F]
      BY <2>2 DEF TypeOK
    <3> QED BY <1>1, <1>3, <2>1, <2>2, <3>1, <3>2 DEF TypeOK, breaker
  <2>4. late' = late /\ taken' = taken /\ late[b] = {}
    BY <1>1, <2>2 DEF Held, TypeOK
  <2>5. SubmitEffect(b, K)
    BY <1>1, <1>3, <2>1, <2>2, <2>4 DEF SubmitEffect, TypeOK
  <2> QED BY <1>1, <2>3, <2>5, SubmitInvariant
<1> QED BY <1>4, <1>5 DEF Submit

-----------------------------------------------------------------------------
THEOREM StepIInv == IInv /\ [Next]_vars => IInv'
<1> SUFFICES ASSUME IInv, [Next]_vars PROVE IInv'
  OBVIOUS
<1>1. ASSUME NEW b \in Builders, Build(b) PROVE IInv'
  BY <1>1, BeginStep, SubmitStep, GiveUpStep, SettleStep, WriteOffStep DEF Build
<1>2. ASSUME NEW f \in F, Start(f) \/ Finish(f) \/ Callback(f) PROVE IInv'
  BY <1>2, StartStep, FinishStep, CallbackStep
<1>3. ASSUME NEW k \in Keys, Expire(k) \/ CoolDown(k) PROVE IInv'
  BY <1>3, TimeStep
<1>4. CASE UNCHANGED vars
  BY <1>4 DEF IInv, TypeOK, Registered, Named, Held, StartedOff, Accounted, Counted,
              vars, futures, breaker, build
<1> QED BY <1>1, <1>2, <1>3, <1>4 DEF Next

(* The registry, the futures and the count of lost workers stay in step.   *)
THEOREM Invariance == Spec => []IInv
BY InitIInv, StepIInv, PTL DEF Spec

THEOREM TypeCorrect == Spec => []TypeOK
<1>1. IInv => TypeOK
  BY DEF IInv
<1> QED BY <1>1, Invariance, PTL

(* The in-flight registry holds every plugin to one fetch per board,       *)
(* whichever builds race, cancel or fail.                                  *)
THEOREM NeverTwice == Spec => []OneFetchPerKey
<1>1. IInv => OneFetchPerKey
  BY DEF IInv, Registered, OneFetchPerKey
<1> QED BY <1>1, Invariance, PTL

(* The pool in use never has LostLimit of its workers held by fetches that *)
(* were written off.                                                       *)
THEOREM CapacityKept == Spec => []CapacityReserved
<1>1. ASSUME IInv PROVE CapacityReserved
  <2> SUFFICES ASSUME \A b \in Builders : pc[b] # "writeOff"
               PROVE  Cardinality({f \in off \ retired : state[f] = "running"}) < LostLimit
    BY DEF CapacityReserved
  <2>1. Counted = {f \in off \ retired : state[f] = "running"}
    BY <1>1 DEF IInv, Held, Counted
  <2>2. IsFiniteSet(Counted)
    BY <1>1, FutureFinite, FS_Subset DEF Counted, IInv, TypeOK
  <2>3. Cardinality(Counted) \in Nat
    BY <2>2, FS_CardinalityType
  <2>4. Cardinality(Counted) <= lost /\ lost \in 0 .. LostLimit - 1
    BY <1>1 DEF IInv, Accounted, TypeOK
  <2> QED BY <2>1, <2>3, <2>4, FetchAssumption
<1>2. IInv => CapacityReserved
  BY <1>1
<1> QED BY <1>2, Invariance, PTL

(* The threads that wedged plugins hold for ever are never more than the   *)
(* plugins on their boards, however many ticks go by (issue 1751).         *)
ThreadsBounded == Cardinality({f \in F : state[f] = "running"}) <= Cardinality(Keys)

THEOREM NoThreadLeak == Spec => []ThreadsBounded
<1>1. ASSUME IInv PROVE ThreadsBounded
  <2> DEFINE R == {f \in F : state[f] = "running"}
             key == [f \in R |-> f[1]]
  <2>1. key \in Injection(R, Keys)
    <3>1. key \in [R -> Keys]
      BY FutureIsNot
    <3>2. \A f, g \in R : key[f] = key[g] => f = g
      BY <1>1 DEF IInv, Registered, Unfinished
    <3> QED BY <3>1, <3>2, Fun_IsInj
  <2>2. IsFiniteSet(Keys)
    BY FetchAssumption
  <2>3. Cardinality(R) <= Cardinality(Keys)
    BY <2>1, <2>2, FS_Injection
  <2> QED BY <2>3 DEF ThreadsBounded
<1>2. IInv => ThreadsBounded
  BY <1>1
<1> QED BY <1>2, Invariance, PTL
=============================================================================

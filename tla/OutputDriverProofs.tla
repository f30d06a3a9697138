------------------------- MODULE OutputDriverProofs -------------------------
(***************************************************************************)
(* What the device's floor and the driver keep, for any senders, runtimes, *)
(* frames, delays and bounds: the floor keeps its spacing and closes       *)
(* nothing without a reason; the driver uses it only through its           *)
(* operations, its locks exclude, and its cache is true unless a plugin    *)
(* reports a partial write.                                                *)
(***************************************************************************)
EXTENDS OutputDriver, TLAPS

-----------------------------------------------------------------------------
\* The floor (SendFloors).  Spacing speaks only of the slots that are taken; a release puts
\* an older time back, so the invariant also says what that older time still covers.


\* The last-send time is no older than any slot that is taken.
Newest == \A a \in Taken : a <= now /\ last # None /\ a <= last

\* What a release would put back covers every slot taken before the released one, and
\* was over a floor before it.
Fallback ==
    \A s \in Holding :
        /\ \A a \in Taken : a < slot[s].at => slot[s].prev # None /\ a <= slot[s].prev
        /\ slot[s].prev # None => slot[s].at - slot[s].prev >= Floor
        /\ slot[s].at <= now

FloorInv == FloorTypeOK /\ Spacing /\ Newest /\ Fallback /\ NoPhantomWindow

\* The slots of a sender are a record, and the taken times are natural numbers.
LEMMA SlotFacts ==
  ASSUME FloorTypeOK
  PROVE  /\ \A s \in Holding : slot[s] \in Slots /\ slot[s].at \in Nat /\ slot[s].at \in Taken
                               /\ slot[s].prev \in Nat \cup {None}
         /\ Taken \subseteq Nat
  BY DEF FloorTypeOK, Holding, Taken, Slots

LEMMA FloorStart == FloorInit => FloorInv
  BY FloorAssumption, NoneAssumption
  DEF FloorInit, FloorInv, FloorTypeOK, Spacing, Newest, Fallback, NoPhantomWindow, Taken,
      Holding, Open

\* A reservation: the device was open, so the new slot is a floor past every other.
LEMMA ReserveKeeps ==
  ASSUME FloorInv, NEW s \in Senders, Reserve(s)
  PROVE  FloorInv'
<1> USE FloorAssumption, NoneAssumption
<1>1. FloorTypeOK'
  BY DEF FloorInv, FloorTypeOK, Reserve, Slots
<1>2. Holding' = Holding \cup {s} /\ s \notin Holding
  BY DEF FloorInv, FloorTypeOK, Reserve, Holding, Slots
<1>3. /\ slot'[s].at = now /\ slot'[s].prev = last
      /\ \A t \in Holding : slot'[t] = slot[t]
  BY <1>2 DEF FloorInv, FloorTypeOK, Reserve, Holding
<1>4. Taken' = Taken \cup {now}
  BY <1>2, <1>3 DEF Taken, Reserve
<1>5. \A a \in Taken : a \in Nat /\ last # None /\ last \in Nat /\ a <= last /\ now - a >= Floor
                       /\ a # now
  BY SlotFacts DEF FloorInv, FloorTypeOK, Newest, Reserve, Open
<1>6. Spacing'
  <2>1. \A a, b \in Taken' : a < b => b - a >= Floor
    BY <1>4, <1>5 DEF FloorInv, FloorTypeOK, Spacing
  <2>2. \A t \in Holding' : slot'[t].at \notin kept'
    BY <1>2, <1>3, <1>5 DEF FloorInv, Spacing, Reserve, Taken
  <2>3. \A t, u \in Holding' : slot'[t].at = slot'[u].at => t = u
    BY <1>2, <1>3, <1>5 DEF FloorInv, Spacing, Taken
  <2>4. QED
    BY <2>1, <2>2, <2>3 DEF Spacing
<1>7. Newest'
  BY <1>4, <1>5 DEF FloorInv, FloorTypeOK, Newest, Reserve
<1>8. Fallback'
  <2>1. now' = now /\ last' = now /\ (last # None => now - last >= Floor)
    BY DEF Reserve, Open
  <2>2. \A a \in Taken' : a < now => a \in Taken
    BY <1>4, <1>5 DEF FloorInv, FloorTypeOK
  <2>3. \A t \in Holding : slot[t].at \in Nat /\ slot[t].at <= now
    BY SlotFacts DEF FloorInv, Fallback
  <2>4. \A t \in Holding : \A a \in Taken' : a < slot[t].at => a \in Taken
    BY <2>3, <1>4 DEF FloorInv, FloorTypeOK
  <2>5. ASSUME NEW t \in Holding' PROVE
          /\ \A a \in Taken' : a < slot'[t].at => slot'[t].prev # None /\ a <= slot'[t].prev
          /\ slot'[t].prev # None => slot'[t].at - slot'[t].prev >= Floor
          /\ slot'[t].at <= now'
    <3>1. CASE t = s
      BY <3>1, <1>3, <1>5, <2>1, <2>2 DEF FloorInv, FloorTypeOK
    <3>2. CASE t # s
      BY <3>2, <1>2, <1>3, <2>1, <2>3, <2>4 DEF Fallback, FloorInv
    <3>3. QED
      BY <3>1, <3>2
  <2>6. QED
    BY <2>5 DEF Fallback
<1>9. NoPhantomWindow'
  BY <1>4 DEF NoPhantomWindow, Reserve
<1>10. QED
  BY <1>1, <1>6, <1>7, <1>8, <1>9 DEF FloorInv

\* A write that keeps its slot: only the place where its time is remembered changes.
LEMMA KeepKeeps ==
  ASSUME FloorInv, NEW s \in Senders, slot[s] # None,
         slot' = [slot EXCEPT ![s] = None], kept' = kept \cup {slot[s].at}, now' = now,
         \/ last' = last /\ asked' = asked
         \/ /\ last' \in Nat /\ (last = None \/ last < last')
            /\ asked' = asked \cup {last'}
  PROVE  FloorInv'
<1> USE FloorAssumption, NoneAssumption
<1>1. FloorTypeOK'
  BY SlotFacts DEF FloorInv, FloorTypeOK, Holding
<1>2. Holding' = Holding \ {s} /\ s \in Holding /\ \A t \in Holding \ {s} : slot'[t] = slot[t]
  BY DEF FloorInv, FloorTypeOK, Holding
<1>3. Taken' = Taken
  BY <1>2 DEF Taken
<1>4. Spacing'
  BY <1>2, <1>3 DEF FloorInv, Spacing
<1>5. Newest'
  BY <1>3, SlotFacts DEF FloorInv, FloorTypeOK, Newest
<1>6. Fallback'
  BY <1>2, <1>3 DEF FloorInv, Fallback
<1>7. NoPhantomWindow'
  BY <1>3 DEF FloorInv, NoPhantomWindow, Open
<1>8. QED
  BY <1>1, <1>4, <1>5, <1>6, <1>7 DEF FloorInv

\* A write that gives its slot back.  If it held the newest one, the older time that
\* returns covers every slot still taken, and its own window is over.
LEMMA ReleaseKeeps ==
  ASSUME FloorInv, NEW s \in Senders, Release(s)
  PROVE  FloorInv'
<1> USE FloorAssumption, NoneAssumption
<1>1. /\ s \in Holding /\ slot[s].at \in Nat /\ slot[s].at \in Taken
      /\ slot[s].prev \in Nat \cup {None}
  BY SlotFacts DEF FloorInv, Release, Holding
<1>2. FloorTypeOK'
  BY <1>1 DEF FloorInv, FloorTypeOK, Release
<1>3. Holding' = Holding \ {s} /\ \A t \in Holding \ {s} : slot'[t] = slot[t]
  BY DEF FloorInv, FloorTypeOK, Holding, Release
<1>4. Taken' = Taken \ {slot[s].at}
  BY <1>1, <1>3 DEF Taken, Release, FloorInv, Spacing
<1>5. Spacing'
  BY <1>3, <1>4 DEF FloorInv, Spacing, Release
<1>6. Newest'
  <2>1. CASE last = slot[s].at
    <3>1. ASSUME NEW a \in Taken' PROVE slot[s].prev # None /\ a <= slot[s].prev /\ a <= now
      <4>1. a \in Taken /\ a # slot[s].at /\ a \in Nat /\ a <= last /\ a <= now
        BY <1>4, SlotFacts DEF FloorInv, Newest
      <4>2. a < slot[s].at
        BY <4>1, <2>1, <1>1
      <4>3. QED
        BY <4>1, <4>2, <1>1 DEF FloorInv, Fallback
    <3>2. QED
      BY <3>1, <2>1 DEF Newest, Release
  <2>2. CASE last # slot[s].at
    BY <2>2, <1>4 DEF FloorInv, Newest, Release
  <2>3. QED
    BY <2>1, <2>2
<1>7. Fallback'
  BY <1>3, <1>4 DEF FloorInv, Fallback, Release
<1>8. NoPhantomWindow'
  <2>1. CASE last = slot[s].at
    <3>1. slot[s].prev # None => now - slot[s].prev >= Floor
      BY <1>1 DEF FloorInv, FloorTypeOK, Fallback
    <3>2. QED
      BY <3>1, <2>1 DEF NoPhantomWindow, Open, Release
  <2>2. CASE last # slot[s].at
    BY <2>2, <1>4 DEF FloorInv, NoPhantomWindow, Open, Release
  <2>3. QED
    BY <2>1, <2>2
<1>9. QED
  BY <1>2, <1>5, <1>6, <1>7, <1>8 DEF FloorInv

\* A window that is over stays over.
LEMMA Later ==
  ASSUME NEW a \in Nat, NEW b \in Nat, b > a, NEW c \in Nat, a - c >= Floor
  PROVE  b - c >= Floor
  BY FloorAssumption

\* Time passes: windows only open.
LEMMA ElapseKeeps ==
  ASSUME FloorInv, Elapse
  PROVE  FloorInv'
<1> USE FloorAssumption, NoneAssumption
<1>1. FloorTypeOK' /\ Holding' = Holding /\ Taken' = Taken
  BY DEF FloorInv, FloorTypeOK, Elapse, Holding, Taken
<1>2. Spacing'
  BY <1>1 DEF FloorInv, Spacing, Elapse
<1>3. Newest' /\ Fallback'
  BY <1>1, SlotFacts DEF FloorInv, FloorTypeOK, Newest, Fallback, Elapse
<1>4. NoPhantomWindow'
  <2>1. now \in Nat /\ now' \in Nat /\ now' > now /\ last \in Nat \cup {None}
    BY DEF FloorInv, FloorTypeOK, Elapse
  <2>2. ASSUME last # None, now - last >= Floor PROVE now' - last >= Floor
    BY <2>1, <2>2, Later
  <2>3. QED
    BY <1>1, <2>2 DEF FloorInv, NoPhantomWindow, Open, Elapse
<1>5. QED
  BY <1>1, <1>2, <1>3, <1>4 DEF FloorInv

LEMMA FloorStep == FloorInv /\ [FloorNext]_floor => FloorInv'
<1> SUFFICES ASSUME FloorInv, [FloorNext]_floor PROVE FloorInv'
  OBVIOUS
<1>1. ASSUME NEW s \in Senders, Reserve(s) PROVE FloorInv'
  BY <1>1, ReserveKeeps
<1>2. ASSUME NEW s \in Senders, Keep(s) PROVE FloorInv'
  BY <1>2, KeepKeeps DEF Keep
<1>3. ASSUME NEW s \in Senders, Release(s) PROVE FloorInv'
  BY <1>3, ReleaseKeeps
<1>4. ASSUME NEW s \in Senders, NEW seconds \in Delays, Hold(s, seconds) PROVE FloorInv'
  <2>1. slot[s].at \in Nat /\ seconds \in Nat
    BY <1>4, SlotFacts, FloorAssumption DEF FloorInv, Hold, Holding
  <2>2. seconds > Floor => slot[s].at + seconds - Floor \in Nat
    BY <2>1, FloorAssumption
  <2>3. QED
    BY <1>4, <2>2, KeepKeeps DEF Hold
<1>5. ASSUME Elapse PROVE FloorInv'
  BY <1>5, ElapseKeeps
<1>6. ASSUME UNCHANGED floor PROVE FloorInv'
  BY <1>6 DEF FloorInv, FloorTypeOK, Spacing, Newest, Fallback, NoPhantomWindow, Taken, Holding,
              Open, floor
<1>7. QED
  BY <1>1, <1>2, <1>3, <1>4, <1>5, <1>6 DEF FloorNext

\* The slots that are taken are a floor apart (floor.py: admit, release, hold).
THEOREM FloorSpaced == FloorSpec => []Spacing
<1>1. FloorInv => Spacing
  BY DEF FloorInv
<1>2. QED
  BY FloorStart, FloorStep, <1>1, PTL DEF FloorSpec

\* A closed device has a reason to be closed (floor.py: release).
THEOREM FloorHasReason == FloorSpec => []NoPhantomWindow
<1>1. FloorInv => NoPhantomWindow
  BY DEF FloorInv
<1>2. QED
  BY FloorStart, FloorStep, <1>1, PTL DEF FloorSpec

-----------------------------------------------------------------------------
\* The driver's use of it: every step is a step of SendFloors, or leaves it alone.

LEMMA StepKeepsFloor == Next => [FloorNext]_floor
<1> SUFFICES ASSUME Next PROVE [FloorNext]_floor
  OBVIOUS
<1>1. CASE Tick
  BY <1>1 DEF Tick, FloorNext
<1>2. ASSUME NEW w \in Senders, Ask(w) PROVE [FloorNext]_floor
  BY <1>2 DEF Ask
<1>3. ASSUME NEW w \in Senders, Admit(w) PROVE [FloorNext]_floor
  BY <1>3 DEF Admit, FloorNext
<1>4. ASSUME NEW w \in Senders, Start(w) PROVE [FloorNext]_floor
  BY <1>4 DEF Start, FloorNext
<1>5. ASSUME NEW w \in Senders, Write(w) PROVE [FloorNext]_floor
  BY <1>5 DEF Write
<1>6. ASSUME NEW w \in Senders, Answer(w) PROVE [FloorNext]_floor
  BY <1>6 DEF Answer, Landed, Partial, Failed, Slowdown, Superseded, FloorNext
<1>7. ASSUME NEW w \in Senders, TimeOut(w) PROVE [FloorNext]_floor
  BY <1>7 DEF TimeOut, FloorNext
<1>9. ASSUME NEW f \in Frames, Stray(f) PROVE [FloorNext]_floor
  BY <1>9 DEF Stray
<1>10. ASSUME NEW w \in Senders, Glimpse(w) PROVE [FloorNext]_floor
  BY <1>10 DEF Glimpse
<1>11. ASSUME NEW r \in Runtimes, Forget(r) PROVE [FloorNext]_floor
  BY <1>11 DEF Forget
<1>12. QED
  BY <1>1, <1>2, <1>3, <1>4, <1>5, <1>6, <1>7, <1>9, <1>10, <1>11 DEF Next

\* plugin_driver.py's admission, refusals, preemptions and timeouts use the floor only
\* through admit, release and hold.
THEOREM FloorUsed == Spec => FloorSpec
<1>1. Init => FloorInit
  BY DEF Init
<1>2. [Next]_vars => [FloorNext]_floor
  BY StepKeepsFloor DEF vars, floor
<1>3. QED
  BY <1>1, <1>2, PTL DEF Spec, FloorSpec

\* The slots of the writes under way, and of those whose ending keeps them (landed, partial,
\* timed out, refused for rate), are a floor apart over every runtime that drives the device.
THEOREM WritesSpaced == Spec => []Spacing
  BY FloorUsed, FloorSpaced, PTL

\* The device is never closed by a write that gave its slot back.
THEOREM ClosedForAReason == Spec => []NoPhantomWindow
  BY FloorUsed, FloorHasReason, PTL

-----------------------------------------------------------------------------
\* The cache: the induction needs what the device shows WHILE a write is under way.

InHand == {"admitted", "writing"}

\* The lock: one holder per runtime, and only a running write has reached the device.
LockInv ==
    /\ pc \in [Senders -> Places] /\ wrote \in [Senders -> BOOLEAN]
    /\ frame \in [Senders -> Frames \cup {None}]
    /\ cache \in [Runtimes -> Frames \cup {None}]
    /\ \A w \in Senders : wrote[w] => pc[w] = "writing"
    /\ \A v, w \in Senders :
          pc[v] \in InHand /\ pc[w] \in InHand /\ Via[v] = Via[w] => v = w

\* What the cache of r may claim of the device.
Claim(r) == device = cache[r] \/ ("partial" \in Endings /\ device = Mixed)

\* The claim stands until a write starts, and a frame that was written is there until
\* its answer, unless another runtime or a stray has written since.
ClaimInv ==
    /\ \A r \in Runtimes :
          (\A w \in Senders : Via[w] = r => pc[w] # "writing") /\ cache[r] # None /\ by = r
             => Claim(r)
    /\ \A w \in Senders : wrote[w] /\ by = Via[w] => device = frame[w]

CacheInv == LockInv /\ ClaimInv

LEMMA CacheStart == Init => CacheInv
  BY SenderAssumption DEF Init, CacheInv, LockInv, ClaimInv, Places, InHand

\* A run that returns gives the lock back and touches no other sender.
LEMMA ReturnMoves ==
  ASSUME LockInv, NEW w \in Senders, NEW verdict, Return(w, verdict),
         cache' \in [Runtimes -> Frames \cup {None}]
  PROVE  /\ LockInv'
         /\ pc'[w] \notin InHand /\ ~wrote'[w]
         /\ \A v \in Senders \ {w} :
               pc'[v] = pc[v] /\ wrote'[v] = wrote[v] /\ frame'[v] = frame[v]
<1>1. /\ pc' \in [Senders -> Places] /\ wrote' \in [Senders -> BOOLEAN]
      /\ frame' \in [Senders -> Frames \cup {None}]
  BY DEF LockInv, Return, Places
<1>2. pc'[w] \notin InHand /\ ~wrote'[w]
  BY DEF LockInv, Return, InHand
<1>3. \A v \in Senders \ {w} :
         pc'[v] = pc[v] /\ wrote'[v] = wrote[v] /\ frame'[v] = frame[v]
  BY DEF LockInv, Return
<1>4. LockInv'
  BY <1>1, <1>2, <1>3 DEF LockInv
<1>5. QED
  BY <1>2, <1>3, <1>4

\* A write that returns leaves its runtime without a claim, or with the frame it wrote.
LEMMA ReturnKeepsClaim ==
  ASSUME LockInv, ClaimInv, NEW w \in Senders, NEW verdict, Return(w, verdict),
         NEW c \in Frames \cup {None}, c # None => wrote[w] /\ c = frame[w],
         cache' = [cache EXCEPT ![Via[w]] = c], UNCHANGED <<device, by>>
  PROVE  CacheInv'
<1> USE SenderAssumption
<1>1. cache' \in [Runtimes -> Frames \cup {None}]
  BY DEF LockInv
<1>2. /\ LockInv'
      /\ pc'[w] \notin InHand /\ ~wrote'[w]
      /\ \A v \in Senders \ {w} :
            pc'[v] = pc[v] /\ wrote'[v] = wrote[v] /\ frame'[v] = frame[v]
  BY <1>1, ReturnMoves
<1>3. ASSUME NEW r \in Runtimes, \A v \in Senders : Via[v] = r => pc'[v] # "writing",
             cache'[r] # None, by' = r
      PROVE  Claim(r)'
  <2>1. CASE r = Via[w]
    BY <1>3, <2>1 DEF Claim, LockInv, ClaimInv
  <2>2. CASE r # Via[w]
    <3>1. \A v \in Senders : Via[v] = r => pc[v] # "writing"
      BY <1>2, <1>3, <2>2
    <3>2. cache[r] # None /\ by = r /\ cache'[r] = cache[r]
      BY <1>3, <2>2 DEF LockInv
    <3>3. Claim(r)
      BY <3>1, <3>2 DEF ClaimInv
    <3>4. QED
      BY <3>2, <3>3 DEF Claim
  <2>3. QED
    BY <2>1, <2>2
<1>4. \A v \in Senders : wrote'[v] /\ by' = Via[v] => device' = frame'[v]
  BY <1>2 DEF ClaimInv
<1>5. QED
  BY <1>2, <1>3, <1>4 DEF CacheInv, ClaimInv

\* A step before the write, with the device and the caches as they were.
LEMMA RefusalKeepsClaim ==
  ASSUME LockInv, ClaimInv, NEW w \in Senders, NEW verdict, Return(w, verdict),
         pc[w] # "writing", UNCHANGED <<cache, device, by>>
  PROVE  CacheInv'
<1> USE SenderAssumption
<1>1. cache' \in [Runtimes -> Frames \cup {None}]
  BY DEF LockInv
<1>2. /\ LockInv'
      /\ ~wrote'[w]
      /\ \A v \in Senders \ {w} :
            pc'[v] = pc[v] /\ wrote'[v] = wrote[v] /\ frame'[v] = frame[v]
  BY <1>1, ReturnMoves
<1>3. ClaimInv'
  BY <1>2 DEF ClaimInv, Claim
<1>4. QED
  BY <1>2, <1>3 DEF CacheInv

LEMMA AdmitKeepsCache ==
  ASSUME CacheInv, NEW w \in Senders, Admit(w) PROVE CacheInv'
<1> USE SenderAssumption
<1>1. LockInv /\ ClaimInv /\ pc[w] = "waiting" /\ UNCHANGED <<cache, device, by>>
  BY DEF CacheInv, Admit, world
<1>2. CASE \E verdict \in {"throttled", "shown"} : Return(w, verdict)
  BY <1>1, <1>2, RefusalKeepsClaim
<1>3. CASE pc' = [pc EXCEPT ![w] = "admitted"] /\ UNCHANGED <<frame, wrote, fate>>
  <2>1. \A v \in Senders : pc[v] \in InHand => Via[v] # Via[w]
    BY DEF Admit, Holders, InHand
  <2>2. /\ pc' \in [Senders -> Places] /\ pc'[w] = "admitted"
        /\ \A v \in Senders \ {w} : pc'[v] = pc[v]
    BY <1>1, <1>3 DEF LockInv, Places
  <2>3. LockInv'
    BY <1>1, <1>3, <2>1, <2>2 DEF LockInv
  <2>4. ClaimInv'
    BY <1>1, <1>3, <2>2 DEF ClaimInv, Claim
  <2>5. QED
    BY <2>3, <2>4 DEF CacheInv
<1>4. QED
  BY <1>2, <1>3 DEF Admit

LEMMA RunKeepsCache ==
  ASSUME CacheInv, NEW w \in Senders, Start(w) \/ Glimpse(w) \/ Write(w) PROVE CacheInv'
<1> USE SenderAssumption DEF CacheInv
<1>1. CASE pc[w] = "admitted" /\ Return(w, "failed") /\ UNCHANGED <<cache, device, by>>
  BY <1>1, RefusalKeepsClaim
<1>2. CASE /\ pc[w] = "admitted" /\ pc' = [pc EXCEPT ![w] = "writing"]
           /\ UNCHANGED <<frame, wrote, cache, device, by>>
  <2>1. /\ pc' \in [Senders -> Places] /\ pc'[w] = "writing"
        /\ \A v \in Senders \ {w} : pc'[v] = pc[v]
    BY <1>2 DEF LockInv, Places
  <2>2. LockInv'
    BY <1>2, <2>1 DEF LockInv, InHand
  <2>3. ClaimInv'
    BY <1>2, <2>1 DEF ClaimInv, Claim
  <2>4. QED
    BY <2>2, <2>3
<1>3. CASE Glimpse(w)
  <2>1. LockInv'
    BY <1>3 DEF LockInv, Glimpse
  <2>2. \A v \in Senders : ~(wrote[v] /\ Via[v] = Via[w])
    BY <1>3 DEF LockInv, Glimpse, InHand
  <2>3. ClaimInv'
    BY <1>3, <2>2 DEF ClaimInv, Claim, Glimpse
  <2>4. QED
    BY <2>1, <2>3
<1>4. CASE Write(w)
  <2>1. /\ wrote' \in [Senders -> BOOLEAN] /\ pc[w] = "writing"
        /\ \A v \in Senders \ {w} : wrote'[v] = wrote[v]
    BY <1>4 DEF LockInv, Write
  <2>2. LockInv'
    BY <1>4, <2>1 DEF LockInv, Write
  <2>3. \A v \in Senders \ {w} : ~(wrote[v] /\ Via[v] = Via[w])
    BY <1>4 DEF LockInv, Write, InHand
  <2>4. ClaimInv'
    BY <1>4, <2>1, <2>3 DEF ClaimInv, Claim, Write
  <2>5. QED
    BY <2>2, <2>4
<1>5. QED
  BY <1>1, <1>2, <1>3, <1>4 DEF Start, world

LEMMA AnswerKeepsCache ==
  ASSUME CacheInv, NEW w \in Senders, Answer(w) PROVE CacheInv'
<1> USE SenderAssumption DEF CacheInv
<1>1. CASE Landed(w)
  <2>1. PICK c \in {None, frame[w]} : cache' = [cache EXCEPT ![Via[w]] = c]
    BY <1>1 DEF Landed, Cache
  <2>2. c \in Frames \cup {None}
    BY <2>1 DEF LockInv
  <2>3. wrote[w] /\ Return(w, "shown") /\ UNCHANGED <<device, by>>
    BY <1>1 DEF Landed
  <2>4. QED
    BY <2>1, <2>2, <2>3, ReturnKeepsClaim
<1>2. CASE "partial" \in Endings /\ Partial(w)
  <2>1. /\ pc[w] = "writing" /\ ~wrote[w] /\ Return(w, "failed") /\ UNCHANGED cache
        /\ device' = Mixed /\ by' = Via[w]
    BY <1>2 DEF Answer, Partial
  <2>2. /\ LockInv'
        /\ ~wrote'[w]
        /\ \A v \in Senders \ {w} :
              pc'[v] = pc[v] /\ wrote'[v] = wrote[v] /\ frame'[v] = frame[v]
    <3>1. cache' \in [Runtimes -> Frames \cup {None}]
      BY <2>1 DEF LockInv
    <3>2. QED
      BY <2>1, <3>1, ReturnMoves
  <2>3. \A v \in Senders : ~(wrote'[v] /\ Via[v] = Via[w])
    BY <2>1, <2>2 DEF LockInv, InHand
  <2>4. ClaimInv'
    BY <1>2, <2>1, <2>2, <2>3 DEF ClaimInv, Claim
  <2>5. QED
    BY <2>2, <2>4
<1>3. CASE Failed(w) \/ Slowdown(w) \/ Superseded(w)
  <2>1. PICK verdict \in {"failed", "throttled", "superseded"} : Return(w, verdict)
    BY <1>3 DEF Failed, Slowdown, Superseded
  <2>2. cache' = [cache EXCEPT ![Via[w]] = None] /\ UNCHANGED <<device, by>>
    BY <1>3 DEF Failed, Slowdown, Superseded, Cache
  <2>3. QED
    BY <2>1, <2>2, ReturnKeepsClaim
<1>4. QED
  BY <1>1, <1>2, <1>3 DEF Answer

LEMMA TimeOutKeepsCache ==
  ASSUME CacheInv, NEW w \in Senders, TimeOut(w) PROVE CacheInv'
<1>1. /\ Return(w, "failed") /\ UNCHANGED <<device, by>>
      /\ cache' = [cache EXCEPT ![Via[w]] = None]
  BY DEF TimeOut, Cache
<1>2. QED
  BY <1>1, ReturnKeepsClaim DEF CacheInv

LEMMA StepKeepsCache == CacheInv /\ [Next]_vars => CacheInv'
<1> SUFFICES ASSUME CacheInv, [Next]_vars PROVE CacheInv'
  OBVIOUS
<1> USE SenderAssumption
<1>1. CASE Tick
  BY <1>1 DEF CacheInv, LockInv, ClaimInv, Claim, Tick, world
<1>2. ASSUME NEW w \in Senders, Ask(w) PROVE CacheInv'
  <2>1. /\ pc' \in [Senders -> Places] /\ pc'[w] = "waiting"
        /\ frame' \in [Senders -> Frames \cup {None}]
        /\ \A v \in Senders \ {w} : pc'[v] = pc[v] /\ frame'[v] = frame[v]
    BY <1>2 DEF CacheInv, LockInv, Ask, Places
  <2>2. pc[w] = "idle" /\ UNCHANGED <<cache, wrote, device, by>>
    BY <1>2 DEF Ask, world
  <2>3. LockInv'
    BY <2>1, <2>2 DEF CacheInv, LockInv, InHand
  <2>4. ClaimInv'
    BY <2>1, <2>2 DEF CacheInv, LockInv, ClaimInv, Claim
  <2>5. QED
    BY <2>3, <2>4 DEF CacheInv
<1>4. ASSUME NEW f \in Frames, Stray(f) PROVE CacheInv'
  BY <1>4, FrameAssumption DEF CacheInv, LockInv, ClaimInv, Claim, Stray
<1>5. ASSUME NEW r \in Runtimes, Forget(r) PROVE CacheInv'
  BY <1>5 DEF CacheInv, LockInv, ClaimInv, Claim, Forget, world
<1>6. CASE UNCHANGED vars
  BY <1>6 DEF CacheInv, LockInv, ClaimInv, Claim, vars, world
<1>7. QED
  BY <1>1, <1>2, <1>4, <1>5, <1>6, AdmitKeepsCache, RunKeepsCache,
     AnswerKeepsCache, TimeOutKeepsCache DEF Next

LEMMA CacheInvariant == Spec => []CacheInv
  BY CacheStart, StepKeepsCache, PTL DEF Spec

\* A runtime that holds a claim, with no write under way, is right about the device but
\* for a part of a frame that the device took.
THEOREM CacheNearTruth == Spec => []NeverAnotherFrame
<1>1. CacheInv => NeverAnotherFrame
  BY DEF CacheInv, ClaimInv, Claim, NeverAnotherFrame, Holders
<1>2. QED
  BY <1>1, CacheInvariant, PTL

\* With a plugin that never reports a part of a write, it is right: frames.py's "known to
\* show" holds on every path but the partial one.
THEOREM CacheIsTrue == ASSUME "partial" \notin Endings PROVE Spec => []CacheTruth
<1>1. CacheInv => CacheTruth
  BY DEF CacheInv, ClaimInv, Claim, CacheTruth, Holders
<1>2. QED
  BY <1>1, CacheInvariant, PTL

-----------------------------------------------------------------------------
\* The verdict flags: a run under way has reset them, and sets them as it ends.

Verdicts == {"shown", "failed", "throttled", "superseded"}

FlagInv ==
    /\ throttled \in [Runtimes -> BOOLEAN] /\ preempted \in [Runtimes -> BOOLEAN]
    /\ fate \in [Runtimes -> Verdicts \cup {None}]
    /\ \A w \in Senders :
          pc[w] \in InHand => throttled[Via[w]] = FALSE /\ preempted[Via[w]] = FALSE
    /\ FlagsAreLast

LEMMA FlagStart == Init => FlagInv
<1> SUFFICES ASSUME Init PROVE FlagInv
  OBVIOUS
<1>1. /\ throttled = [r \in Runtimes |-> FALSE] /\ preempted = [r \in Runtimes |-> FALSE]
      /\ fate = [r \in Runtimes |-> None] /\ \A w \in Senders : pc[w] = "idle"
  BY DEF Init
<1>2. \A r \in Runtimes : fate[r] # "throttled" /\ fate[r] # "superseded"
  BY <1>1, VerdictAssumption
<1>3. QED
  BY <1>1, <1>2, SenderAssumption DEF FlagInv, FlagsAreLast, InHand

\* A run that has the lock ends with its verdict in the flags.
LEMMA ReturnKeepsFlags ==
  ASSUME LockInv, FlagInv, NEW w \in Senders, NEW verdict \in Verdicts, Return(w, verdict),
         \A v \in Senders \ {w} : Via[v] = Via[w] => pc[v] \notin InHand,
         throttled' = [throttled EXCEPT ![Via[w]] = (verdict = "throttled")],
         preempted' = [preempted EXCEPT ![Via[w]] = (verdict = "superseded")]
  PROVE  FlagInv'
<1> USE SenderAssumption
<1>1. /\ throttled' \in [Runtimes -> BOOLEAN] /\ preempted' \in [Runtimes -> BOOLEAN]
      /\ fate' \in [Runtimes -> Verdicts \cup {None}]
  BY DEF FlagInv, Return
<1>2. /\ pc'[w] = "idle" /\ fate'[Via[w]] = verdict
      /\ throttled'[Via[w]] = (verdict = "throttled")
      /\ preempted'[Via[w]] = (verdict = "superseded")
  BY DEF FlagInv, LockInv, Return
<1>3. \A v \in Senders \ {w} : pc'[v] = pc[v]
  BY DEF LockInv, Return
<1>4. \A r \in Runtimes \ {Via[w]} :
         throttled'[r] = throttled[r] /\ preempted'[r] = preempted[r] /\ fate'[r] = fate[r]
  BY DEF FlagInv, Return
<1>5. ASSUME NEW v \in Senders, pc'[v] \in InHand
      PROVE  throttled'[Via[v]] = FALSE /\ preempted'[Via[v]] = FALSE
  <2>1. v # w /\ Via[v] # Via[w]
    BY <1>2, <1>3, <1>5 DEF InHand
  <2>2. QED
    BY <1>3, <1>4, <1>5, <2>1 DEF FlagInv
<1>6. ASSUME NEW r \in Runtimes, Holders(r)' = {}
      PROVE  (throttled'[r] <=> fate'[r] = "throttled") /\ (preempted'[r] <=> fate'[r] = "superseded")
  <2>1. CASE r = Via[w]
    BY <1>2, <2>1
  <2>2. CASE r # Via[w]
    <3>1. Holders(r) = {}
      BY <1>3, <1>6, <2>2 DEF Holders
    <3>2. QED
      BY <1>4, <2>2, <3>1 DEF FlagInv, FlagsAreLast
  <2>3. QED
    BY <2>1, <2>2
<1>7. FlagsAreLast'
  BY <1>6 DEF FlagsAreLast
<1>8. QED
  BY <1>1, <1>5, <1>7 DEF FlagInv

\* A step that moves a sender within its run, or asks for the lock, and leaves the flags.
LEMMA MoveKeepsFlags ==
  ASSUME LockInv, FlagInv, NEW w \in Senders, NEW place \in Places,
         pc' = [pc EXCEPT ![w] = place], pc[w] \in InHand <=> place \in InHand,
         UNCHANGED <<throttled, preempted, fate>>
  PROVE  FlagInv'
<1>1. \A v \in Senders : pc'[v] \in InHand <=> pc[v] \in InHand
  BY DEF LockInv
<1>2. \A r \in Runtimes : Holders(r)' = Holders(r)
  BY <1>1 DEF Holders, InHand
<1>3. QED
  BY <1>1, <1>2 DEF FlagInv, FlagsAreLast

LEMMA StepKeepsFlags == LockInv /\ FlagInv /\ [Next]_vars => FlagInv'
<1> SUFFICES ASSUME LockInv, FlagInv, [Next]_vars PROVE FlagInv'
  OBVIOUS
<1> USE SenderAssumption
<1>0. ASSUME NEW w \in Senders, pc[w] \in InHand, NEW v \in Senders \ {w}, Via[v] = Via[w]
      PROVE  pc[v] \notin InHand
  BY <1>0 DEF LockInv
<1>1. ASSUME UNCHANGED <<pc, throttled, preempted, fate>> PROVE FlagInv'
  BY <1>1 DEF FlagInv, FlagsAreLast, Holders
<1>2. ASSUME NEW w \in Senders, Ask(w) PROVE FlagInv'
  BY <1>2, MoveKeepsFlags DEF Ask, flags, Places, InHand
<1>3. ASSUME NEW w \in Senders, Admit(w) PROVE FlagInv'
  <2> DEFINE r == Via[w]
  <2>1. /\ pc[w] = "waiting" /\ \A v \in Senders : Via[v] = r => pc[v] \notin InHand
        /\ throttled' = [throttled EXCEPT ![r] = ~Open]
        /\ preempted' = [preempted EXCEPT ![r] = FALSE]
    BY <1>3 DEF Admit, Holders, InHand
  <2>2. CASE ~Open /\ Return(w, "throttled")
    BY <2>1, <2>2, ReturnKeepsFlags DEF Verdicts
  <2>3. CASE Open /\ Return(w, "shown")
    BY <2>1, <2>3, ReturnKeepsFlags DEF Verdicts
  <2>4. CASE Reserve(w) /\ pc' = [pc EXCEPT ![w] = "admitted"] /\ UNCHANGED fate
    <3>1. Open
      BY <2>4 DEF Reserve
    <3>2. /\ throttled' \in [Runtimes -> BOOLEAN] /\ preempted' \in [Runtimes -> BOOLEAN]
          /\ throttled'[r] = FALSE /\ preempted'[r] = FALSE
      BY <2>1, <3>1 DEF FlagInv
    <3>3. \A s \in Runtimes \ {r} : throttled'[s] = throttled[s] /\ preempted'[s] = preempted[s]
      BY <2>1 DEF FlagInv
    <3>4. pc'[w] = "admitted" /\ \A v \in Senders \ {w} : pc'[v] = pc[v]
      BY <2>4 DEF LockInv
    <3>5. \A v \in Senders : pc'[v] \in InHand =>
             throttled'[Via[v]] = FALSE /\ preempted'[Via[v]] = FALSE
      BY <3>2, <3>3, <3>4 DEF FlagInv
    <3>6. Holders(r)' # {}
      BY <3>4 DEF Holders
    <3>7. \A s \in Runtimes \ {r} : Holders(s)' = Holders(s)
      BY <3>4 DEF Holders
    <3>8. FlagsAreLast'
      BY <2>4, <3>3, <3>6, <3>7 DEF FlagInv, FlagsAreLast
    <3>9. QED
      BY <2>4, <3>2, <3>5, <3>8 DEF FlagInv
  <2>5. QED
    BY <1>3, <2>2, <2>3, <2>4 DEF Admit
<1>4. ASSUME NEW w \in Senders, NEW verdict \in {"shown", "failed"}, pc[w] \in InHand,
             Return(w, verdict), UNCHANGED flags
      PROVE  FlagInv'
  <2>1. throttled' = [throttled EXCEPT ![Via[w]] = FALSE]
    BY <1>4 DEF FlagInv, flags
  <2>2. preempted' = [preempted EXCEPT ![Via[w]] = FALSE]
    BY <1>4 DEF FlagInv, flags
  <2>3. QED
    BY <1>0, <1>4, <2>1, <2>2, ReturnKeepsFlags DEF Verdicts
<1>5. ASSUME NEW w \in Senders, Start(w) PROVE FlagInv'
  <2>1. CASE Return(w, "failed") /\ UNCHANGED flags
    BY <1>4, <1>5, <2>1 DEF Start, InHand
  <2>2. CASE pc' = [pc EXCEPT ![w] = "writing"] /\ UNCHANGED <<fate, flags>>
    BY <1>5, <2>2, MoveKeepsFlags DEF Start, flags, Places, InHand
  <2>3. QED
    BY <1>5, <2>1, <2>2 DEF Start
<1>6. ASSUME NEW w \in Senders, Answer(w) PROVE FlagInv'
  <2>1. pc[w] \in InHand
    BY <1>6 DEF Answer, InHand
  <2>2. CASE Landed(w) \/ Partial(w) \/ Failed(w)
    BY <1>4, <2>1, <2>2 DEF Landed, Partial, Failed, flags
  <2>3. CASE Slowdown(w)
    <3>1. preempted' = [preempted EXCEPT ![Via[w]] = FALSE]
      BY <2>1, <2>3 DEF FlagInv, Slowdown
    <3>2. throttled' = [throttled EXCEPT ![Via[w]] = TRUE] /\ Return(w, "throttled")
      BY <2>3 DEF Slowdown
    <3>3. QED
      BY <1>0, <2>1, <3>1, <3>2, ReturnKeepsFlags DEF Verdicts
  <2>4. CASE Superseded(w)
    <3>1. throttled' = [throttled EXCEPT ![Via[w]] = FALSE]
      BY <2>1, <2>4 DEF FlagInv, Superseded
    <3>2. preempted' = [preempted EXCEPT ![Via[w]] = TRUE] /\ Return(w, "superseded")
      BY <2>4 DEF Superseded
    <3>3. QED
      BY <1>0, <2>1, <3>1, <3>2, ReturnKeepsFlags DEF Verdicts
  <2>5. QED
    BY <1>6, <2>2, <2>3, <2>4 DEF Answer
<1>7. ASSUME NEW w \in Senders, TimeOut(w) PROVE FlagInv'
  BY <1>4, <1>7 DEF TimeOut, InHand
<1>8. ASSUME Tick \/ (\E w \in Senders : Glimpse(w) \/ Write(w)) \/ (\E f \in Frames : Stray(f))
             \/ (\E r \in Runtimes : Forget(r)) \/ UNCHANGED vars
      PROVE  FlagInv'
  BY <1>1, <1>8 DEF Tick, Glimpse, Write, Stray, Forget, vars, flags
<1>9. QED
  BY <1>2, <1>3, <1>5, <1>6, <1>7, <1>8 DEF Next

\* Read under the lock, or with no run under way, a runtime's verdict flags are those of
\* its last run, through every ending, refusal and timeout.
THEOREM FlagsTrue == Spec => []FlagsAreLast
<1>1. FlagInv => FlagsAreLast
  BY DEF FlagInv
<1>2. CacheInv => LockInv
  BY DEF CacheInv
<1>3. QED
  BY <1>1, <1>2, CacheInvariant, FlagStart, StepKeepsFlags, PTL DEF Spec

-----------------------------------------------------------------------------
\* The types, and with them who holds a slot of the floor.

\* A sender holds a slot exactly while it has the lock for a write, and has a frame to write
\* from its request to its answer.
SlotInv ==
    /\ failures \in Nat /\ openUntil \in Nat
    /\ cancelled \in [Runtimes -> BOOLEAN]
    /\ strays \subseteq Frames /\ device \in Frames \cup {None, Mixed}
    /\ by \in Runtimes \cup {None} /\ sends \in 0 .. Sends
    /\ \A w \in Senders : slot[w] # None <=> pc[w] \in InHand
    /\ \A w \in Senders : pc[w] # "idle" => frame[w] \in Frames

LEMMA FloorTyped == Spec => []FloorTypeOK
<1>1. FloorInv => FloorTypeOK
  BY DEF FloorInv
<1>2. FloorSpec => []FloorInv
  BY FloorStart, FloorStep, PTL DEF FloorSpec
<1>3. QED
  BY <1>1, <1>2, FloorUsed, PTL

\* A run that returns has no slot any more, and disturbs no other sender's.
LEMMA ReturnKeepsSlots ==
  ASSUME FloorTypeOK, LockInv, SlotInv, NEW w \in Senders, NEW verdict, Return(w, verdict),
         slot' = [slot EXCEPT ![w] = None]
  PROVE  /\ \A v \in Senders : slot'[v] # None <=> pc'[v] \in InHand
         /\ \A v \in Senders : pc'[v] # "idle" => frame'[v] \in Frames
<1>1. /\ pc'[w] = "idle" /\ slot'[w] = None
      /\ \A v \in Senders \ {w} : pc'[v] = pc[v] /\ frame'[v] = frame[v] /\ slot'[v] = slot[v]
  BY DEF Return, LockInv, FloorTypeOK
<1>2. QED
  BY <1>1 DEF SlotInv, InHand

\* A streak and a cool-down are natural numbers.
LEMMA ChargeCounts ==
  ASSUME FloorTypeOK, SlotInv, Charge
  PROVE  failures' \in Nat /\ openUntil' \in Nat
  BY BoundAssumption DEF FloorTypeOK, SlotInv, Charge

LEMMA AdmitKeepsSlots ==
  ASSUME FloorTypeOK, LockInv, SlotInv, NEW w \in Senders, Admit(w) \/ Start(w)
  PROVE  SlotInv'
<1> USE SenderAssumption
<1>1. /\ cancelled' \in [Runtimes -> BOOLEAN] /\ frame[w] \in Frames
      /\ UNCHANGED <<failures, openUntil, strays, device, by, sends>>
  BY DEF Admit, Start, SlotInv, breaker, world
<1>2. ASSUME NEW verdict, Return(w, verdict), slot' = [slot EXCEPT ![w] = None] PROVE SlotInv'
  BY <1>1, <1>2, ReturnKeepsSlots DEF SlotInv
<1>3. CASE Admit(w)
  <2>1. pc[w] = "waiting" /\ slot[w] = None
    BY <1>3 DEF Admit, SlotInv, InHand
  <2>2. CASE UNCHANGED floor /\ \E verdict : Return(w, verdict)
    <3>1. slot' = [slot EXCEPT ![w] = None]
      BY <2>1, <2>2 DEF floor, FloorTypeOK
    <3>2. QED
      BY <1>2, <2>2, <3>1
  <2>3. CASE Reserve(w) /\ pc' = [pc EXCEPT ![w] = "admitted"] /\ UNCHANGED frame
    <3>1. /\ pc'[w] = "admitted" /\ slot'[w] # None
          /\ \A v \in Senders \ {w} : pc'[v] = pc[v] /\ slot'[v] = slot[v]
      BY <2>3, NoneAssumption DEF Reserve, FloorTypeOK, LockInv, Slots
    <3>2. QED
      BY <1>1, <2>3, <3>1 DEF SlotInv, InHand
  <2>4. QED
    BY <1>3, <2>2, <2>3 DEF Admit
<1>4. CASE Start(w)
  <2>1. CASE Release(w) /\ Return(w, "failed")
    BY <1>2, <2>1 DEF Release
  <2>2. CASE UNCHANGED <<floor, frame>> /\ pc' = [pc EXCEPT ![w] = "writing"]
    <3>1. pc[w] = "admitted" /\ pc'[w] = "writing" /\ \A v \in Senders \ {w} : pc'[v] = pc[v]
      BY <1>4, <2>2 DEF Start, LockInv
    <3>2. QED
      BY <1>1, <2>2, <3>1 DEF SlotInv, InHand, floor
  <2>3. QED
    BY <1>4, <2>1, <2>2 DEF Start
<1>5. QED
  BY <1>3, <1>4

LEMMA AnswerKeepsSlots ==
  ASSUME FloorTypeOK, LockInv, SlotInv, NEW w \in Senders, Answer(w) \/ TimeOut(w)
  PROVE  SlotInv'
<1> USE SenderAssumption
<1>1. /\ slot' = [slot EXCEPT ![w] = None] /\ frame[w] \in Frames
      /\ \E verdict : Return(w, verdict)
  BY DEF Answer, TimeOut, Landed, Partial, Failed, Slowdown, Superseded, Keep, Release, Hold, SlotInv
<1>2. /\ \A v \in Senders : slot'[v] # None <=> pc'[v] \in InHand
      /\ \A v \in Senders : pc'[v] # "idle" => frame'[v] \in Frames
  BY <1>1, ReturnKeepsSlots
<1>3. failures' \in Nat /\ openUntil' \in Nat
  BY ChargeCounts DEF Answer, TimeOut, Landed, Partial, Failed, Slowdown, Superseded, SlotInv, breaker
<1>4. device' \in Frames \cup {None, Mixed} /\ by' \in Runtimes \cup {None}
  BY DEF Answer, TimeOut, Landed, Partial, Failed, Slowdown, Superseded, SlotInv
<1>5. cancelled' \in [Runtimes -> BOOLEAN] /\ strays' \subseteq Frames /\ sends' = sends
  BY <1>1 DEF Answer, TimeOut, SlotInv
<1>6. QED
  BY <1>2, <1>3, <1>4, <1>5 DEF SlotInv

LEMMA StepKeepsSlots == FloorTypeOK /\ LockInv /\ SlotInv /\ [Next]_vars => SlotInv'
<1> SUFFICES ASSUME FloorTypeOK, LockInv, SlotInv, [Next]_vars PROVE SlotInv'
  OBVIOUS
<1> USE SenderAssumption
<1>1. CASE Tick \/ (\E r \in Runtimes : Forget(r)) \/ UNCHANGED vars
  <2>1. UNCHANGED <<slot, breaker, cancelled, pc, frame, world, sends>>
    BY <1>1 DEF Tick, Elapse, Forget, vars, floor
  <2>2. QED
    BY <2>1 DEF SlotInv, breaker, world
<1>2. ASSUME NEW w \in Senders, Ask(w) PROVE SlotInv'
  <2>1. /\ pc[w] = "idle" /\ pc'[w] = "waiting" /\ frame'[w] \in Frames
        /\ \A v \in Senders \ {w} : pc'[v] = pc[v] /\ frame'[v] = frame[v]
    BY <1>2 DEF Ask, LockInv
  <2>2. sends' \in 0 .. Sends
    BY <1>2, BoundAssumption DEF Ask, SlotInv
  <2>3. cancelled' \in [Runtimes -> BOOLEAN] /\ UNCHANGED <<slot, breaker, world>>
    BY <1>2 DEF Ask, SlotInv, floor
  <2>4. QED
    BY <2>1, <2>2, <2>3 DEF SlotInv, InHand, breaker, world
<1>3. ASSUME NEW w \in Senders, Glimpse(w) \/ Write(w) PROVE SlotInv'
  <2>1. /\ UNCHANGED <<slot, breaker, cancelled, pc, frame, strays, sends>> /\ frame[w] \in Frames
        /\ device' \in {Mixed, frame[w]} /\ by' = Via[w]
    BY <1>3 DEF Glimpse, Write, SlotInv, floor
  <2>2. QED
    BY <2>1 DEF SlotInv, breaker
<1>4. ASSUME NEW f \in Frames, Stray(f) PROVE SlotInv'
  <2>1. /\ UNCHANGED <<slot, breaker, cancelled, pc, frame, sends>> /\ strays' \subseteq strays
        /\ device' \in {device, f} /\ by' \in {by, None}
    BY <1>4 DEF Stray, floor
  <2>2. QED
    BY <2>1 DEF SlotInv, breaker
<1>5. QED
  BY <1>1, <1>2, <1>3, <1>4, AdmitKeepsSlots, AnswerKeepsSlots DEF Next

\* Types; a slot of the floor is held by the writes under way and by no other sender, and at
\* most one write is under way through a runtime (plugin_driver.py: every refusal, ending and
\* timeout after the admission gives the slot back or keeps its time).
THEOREM TypeCorrect == Spec => []TypeOK
<1>1. Init => SlotInv
  BY SenderAssumption, BoundAssumption DEF Init, FloorInit, SlotInv, InHand
<1>2. CacheInv => LockInv
  BY DEF CacheInv
<1>3. FloorTypeOK /\ LockInv /\ FlagInv /\ SlotInv => TypeOK
  <2>1. LockInv => \A v, w \in Senders : v # w /\ Via[v] = Via[w] =>
                      ~({pc[v], pc[w]} \subseteq {"admitted", "writing"})
    BY DEF LockInv, InHand
  <2>2. QED
    BY <2>1 DEF LockInv, FlagInv, SlotInv, TypeOK, InHand, Verdicts
<1>4. QED
  BY <1>1, <1>2, <1>3, CacheInvariant, FlagStart, StepKeepsFlags, FloorTyped, StepKeepsSlots, PTL
  DEF Spec
=============================================================================

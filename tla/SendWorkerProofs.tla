-------------------------- MODULE SendWorkerProofs --------------------------
(***************************************************************************)
(* What holds of one board's send queue for every set of jobs, proved from *)
(* one inductive invariant.  It has two halves: ThreadInv ties the flags   *)
(* of the worker to its threads (so a second drain thread is never         *)
(* started), Partition says that the queued job, the executed job and the  *)
(* jobs a stop has taken divide the unresolved jobs between them.          *)
(***************************************************************************)
EXTENDS SendWorker, TLAPS

\* _draining says exactly whether a thread is inside _drain; a thread's local `job` is
\* set exactly while it executes and releases it; a stopped worker's slot is empty.
ThreadInv ==
    /\ draining <=> Live # {}
    /\ \A t, u \in Live : t = u
    /\ \A t \in Jobs : thread[t] \in {"execute", "release"} <=> hand[t] # None
    /\ \A t \in Jobs : thread[t] \in {"execute", "release"} => current = hand[t]
    /\ \A t \in Jobs : verdict[t] = "new" => thread[t] = "unborn"
    /\ pending # None => draining
    /\ stopped => pending = None

\* The three places a job can wait in hold different jobs.
Apart ==
    /\ pending \notin taken
    /\ \A t \in Jobs : thread[t] = "execute" => hand[t] # pending /\ hand[t] \notin taken

\* The groups of the heads partition the unresolved jobs.
Partition ==
    /\ \A j \in Jobs : absorbed[j] # {} => j \in Heads
    /\ \A h \in Heads : \A j \in Group(h) : verdict[j] = "open"
    /\ \A h \in Heads : h \notin absorbed[h]
    /\ \A h, k \in Heads : h # k => Group(h) \cap Group(k) = {}
    /\ \A j \in Jobs : verdict[j] = "open" => \E h \in Heads : j \in Group(h)

IInv == TypeOK /\ ThreadInv /\ Apart /\ Partition /\ ToldOnce

-----------------------------------------------------------------------------
\* The initial state satisfies the inductive invariant: no job, no thread.
LEMMA InitIInv == Init => IInv
  <1> SUFFICES ASSUME Init PROVE IInv
    OBVIOUS
  <1> USE DEF Init
  <1>1. TypeOK
    BY DEF TypeOK, Verdicts, Places
  <1>2. ThreadInv
    BY DEF ThreadInv, Live
  <1>3. Heads = {}
    BY DEF Heads
  <1>4. Apart /\ Partition
    BY <1>3 DEF Partition, Apart
  <1>5. ToldOnce
    <2> SUFFICES ASSUME NEW j \in Jobs PROVE told[j] <= 1 /\ told[j] = 0
      BY DEF ToldOnce
    <2>1. QED
      OBVIOUS
  <1>6. QED
    BY <1>1, <1>2, <1>4, <1>5 DEF IInv

\* Who is a head: the queued job, what an executing thread holds, what a stop took.
LEMMA HeadsOf ==
  ASSUME TypeOK, ThreadInv
  PROVE  /\ Heads \subseteq Jobs
         /\ \A h : h \in Heads <=> \/ h = pending /\ h # None
                                   \/ h \in taken
                                   \/ \E t \in Jobs : thread[t] = "execute" /\ h = hand[t]
  BY NoneAssumption DEF Heads, TypeOK, ThreadInv

\* Resolving a head's group keeps the partition, the types and the sinks right.
LEMMA FinishKeeps ==
  ASSUME TypeOK, Partition, ToldOnce, Heads \subseteq Jobs,
         NEW j \in Heads, NEW value \in {"sent", "failed"}, NEW why \in BOOLEAN,
         why => value = "failed",
         Finish(j, value, why), Heads' = Heads \ {j}
  PROVE  /\ Partition' /\ ToldOnce'
         /\ absorbed' \in [Jobs -> SUBSET Jobs]
         /\ verdict' \in [Jobs -> Verdicts]
         /\ told' \in [Jobs -> Nat]
         /\ \A k \in Jobs : verdict'[k] = "new" => verdict[k] = "new"
  <1> USE DEF Finish, TypeOK
  <1>1. /\ absorbed' \in [Jobs -> SUBSET Jobs]
        /\ verdict' \in [Jobs -> Verdicts]
        /\ told' \in [Jobs -> Nat]
        /\ \A k \in Jobs : verdict'[k] = "new" => verdict[k] = "new"
    BY DEF Verdicts
  <1>2. \A h \in Heads' : h \in Jobs /\ h # j /\ absorbed'[h] = absorbed[h]
    OBVIOUS
  <1>3. \A h \in Heads' : Group(h)' = Group(h) /\ Group(h) \cap Group(j) = {} /\ Group(h) \subseteq Jobs
    BY <1>2 DEF Group, Partition
  <1>4. \A k \in Jobs : verdict'[k] = IF k \in Group(j) THEN value ELSE verdict[k]
    OBVIOUS
  <1>5. \A h \in Heads' : \A k \in Group(h)' : verdict'[k] = "open"
    BY <1>3, <1>4 DEF Partition
  <1>6. \A k \in Jobs : verdict'[k] = "open" => verdict[k] = "open" /\ k \notin Group(j)
    BY <1>4
  <1>7. \A k \in Jobs : verdict'[k] = "open" => \E h \in Heads' : k \in Group(h)'
    BY <1>3, <1>6 DEF Partition
  <1>8. \A h, k \in Heads' : h # k => Group(h)' \cap Group(k)' = {}
    BY <1>3 DEF Partition
  <1>9. \A k \in Jobs : absorbed'[k] # {} => k \in Heads'
    BY DEF Partition
  <1>10. \A h \in Heads' : h \notin absorbed'[h]
    BY <1>2 DEF Partition
  <1>11. Partition'
    BY <1>5, <1>7, <1>8, <1>9, <1>10 DEF Partition
  <1>12. \A k \in Group(j) : verdict[k] = "open" /\ k \in Jobs /\ told[k] = 0
    BY DEF Partition, Group, ToldOnce
  <1>13. ToldOnce'
    BY <1>12, <1>4 DEF ToldOnce
  <1>14. QED
    BY <1>1, <1>11, <1>13

-----------------------------------------------------------------------------
\* submit() keeps the invariant: the new job heads the slot's group, and a thread is
\* started only when none is inside _drain.
LEMMA SubmitAcceptedKeeps ==
  ASSUME IInv, NEW j \in Jobs, SubmitAccepted(j)
  PROVE  IInv'
  <1> USE NoneAssumption DEF SubmitAccepted, Adopt, StartDrain
  <1>0. TypeOK /\ ThreadInv /\ Apart /\ Partition /\ ToldOnce
    BY DEF IInv
  <1>1. TypeOK'
    BY <1>0 DEF TypeOK, Verdicts, Places, Group
  <1>2. ThreadInv'
    <2>1. thread[j] = "unborn" /\ j \notin Live
      BY <1>0 DEF ThreadInv, Live
    <2>2. Live' = IF draining THEN Live ELSE {j}
      BY <1>0, <2>1 DEF ThreadInv, Live, TypeOK, Places
    <2>3. QED
      BY <1>0, <2>1, <2>2 DEF ThreadInv, TypeOK, Live, Places
  <1>3. /\ \A h : h \in Heads => h \in Jobs /\ verdict[h] = "open"
        /\ j \notin Heads /\ absorbed[j] = {}
    BY <1>0, HeadsOf DEF Partition, Group
  <1>4. Heads' = (Heads \ {pending}) \cup {j}
    <2>1. \A h : h \in Heads' <=> \/ h = j \/ h \in taken
                                  \/ \E t \in Jobs : thread[t] = "execute" /\ h = hand[t]
      <3>1. {u \in Jobs : thread'[u] = "execute"} = {u \in Jobs : thread[u] = "execute"}
        BY <1>0 DEF ThreadInv, TypeOK
      <3>2. QED
        BY <3>1 DEF Heads
    <2>2. \A h : h \in Heads <=> \/ h = pending /\ h # None
                                 \/ h \in taken
                                 \/ \E t \in Jobs : thread[t] = "execute" /\ h = hand[t]
      BY <1>0, HeadsOf
    <2>3. QED
      BY <1>0, <1>3, <2>1, <2>2 DEF Apart, TypeOK, ThreadInv
  <1>5. Apart'
    BY <1>0, <1>3, HeadsOf DEF Apart, TypeOK, ThreadInv
  <1>6. /\ Group(j)' = {j} \cup (IF pending = None THEN {} ELSE Group(pending))
        /\ \A h \in Heads \ {pending} : Group(h)' = Group(h) /\ absorbed'[h] = absorbed[h]
    BY <1>0, <1>3 DEF Group, TypeOK
  <1>7. \A h \in Heads : j \notin Group(h)
    BY <1>0 DEF Partition
  <1>8. Partition'
    <2>0. pending # None => pending \in Heads
      BY <1>0, HeadsOf
    <2>1. \A k \in Jobs : absorbed'[k] # {} => k \in Heads'
      BY <1>0, <1>4 DEF Partition, TypeOK
    <2>2. \A h \in Heads' : \A k \in Group(h)' : k \in Jobs /\ verdict'[k] = "open"
      BY <1>0, <1>3, <1>4, <1>6, <1>7, <2>0 DEF Partition, TypeOK, Group
    <2>3. \A h \in Heads' : h \notin absorbed'[h]
      BY <1>0, <1>3, <1>4, <1>6, <1>7, <2>0 DEF Partition, TypeOK, Group
    <2>4. \A h, k \in Heads' : h # k => Group(h)' \cap Group(k)' = {}
      BY <1>0, <1>4, <1>6, <1>7, <2>0 DEF Partition
    <2>5. \A k \in Jobs : verdict'[k] = "open" => \E h \in Heads' : k \in Group(h)'
      <3> SUFFICES ASSUME NEW k \in Jobs, verdict'[k] = "open", k # j
                   PROVE  \E h \in Heads' : k \in Group(h)'
        BY <1>4, <1>6
      <3>1. PICK h \in Heads : k \in Group(h)
        BY <1>0 DEF Partition, TypeOK
      <3>2. CASE h = pending
        BY <1>3, <1>4, <1>6, <3>1, <3>2
      <3>3. CASE h # pending
        BY <1>4, <1>6, <3>1, <3>3
      <3>4. QED
        BY <3>2, <3>3
    <2>6. QED
      BY <2>1, <2>2, <2>3, <2>4, <2>5 DEF Partition
  <1>9. ToldOnce'
    BY <1>0 DEF ToldOnce, TypeOK
  <1>10. QED
    BY <1>1, <1>2, <1>5, <1>8, <1>9 DEF IInv

\* A refused job resolves at once and touches nobody else's.
LEMMA SubmitRefusedKeeps ==
  ASSUME IInv, NEW j \in Jobs, SubmitRefused(j)
  PROVE  IInv'
  <1> USE NoneAssumption DEF SubmitRefused, slot
  <1>0. TypeOK /\ ThreadInv /\ Apart /\ Partition /\ ToldOnce
    BY DEF IInv
  <1>1. /\ \A h : h \in Heads => h \in Jobs /\ verdict[h] = "open"
        /\ j \notin Heads /\ absorbed[j] = {} /\ Group(j) = {j}
    BY <1>0, HeadsOf DEF Partition, Group
  <1>2. /\ absorbed' = absorbed
        /\ verdict' = [verdict EXCEPT ![j] = "failed"]
        /\ told' = [told EXCEPT ![j] = told[j] + 1]
    BY <1>0, <1>1 DEF Finish, TypeOK
  <1>3. TypeOK'
    BY <1>0, <1>2 DEF TypeOK, Verdicts
  <1>4. ThreadInv'
    BY <1>0, <1>2 DEF ThreadInv, Live, TypeOK
  <1>5. Heads' = Heads /\ \A h : Group(h)' = Group(h)
    BY <1>2 DEF Heads, Group
  <1>6. Apart'
    BY <1>0 DEF Apart
  <1>7. Partition'
    BY <1>0, <1>1, <1>2, <1>5 DEF Partition, TypeOK
  <1>8. ToldOnce'
    BY <1>0, <1>2 DEF ToldOnce, TypeOK
  <1>9. QED
    BY <1>3, <1>4, <1>6, <1>7, <1>8 DEF IInv

\* stop()'s critical section moves the queued job to the stopper.
LEMMA StopTakeKeeps == ASSUME IInv, StopTake PROVE IInv'
  <1> USE NoneAssumption DEF StopTake, jobs
  <1>0. TypeOK /\ ThreadInv /\ Apart /\ Partition /\ ToldOnce
    BY DEF IInv
  <1>1. TypeOK'
    BY <1>0 DEF TypeOK
  <1>2. ThreadInv'
    BY <1>0 DEF ThreadInv, Live
  <1>3. Heads' = Heads /\ \A h : Group(h)' = Group(h)
    BY <1>0 DEF Heads, Group, TypeOK
  <1>4. Apart'
    BY <1>0 DEF Apart, TypeOK, ThreadInv
  <1>5. Partition' /\ ToldOnce'
    BY <1>0, <1>3 DEF Partition, ToldOnce
  <1>6. QED
    BY <1>1, <1>2, <1>4, <1>5 DEF IInv

\* The stopper fails a job it took, with everything that job absorbed.
LEMMA StopFailKeeps ==
  ASSUME IInv, NEW j \in Jobs, StopFail(j)
  PROVE  IInv'
  <1> USE NoneAssumption DEF StopFail, slot
  <1>0. TypeOK /\ ThreadInv /\ Apart /\ Partition /\ ToldOnce
    BY DEF IInv
  <1>1. j \in Heads /\ Heads \subseteq Jobs
    BY <1>0, HeadsOf
  <1>2. Heads' = Heads \ {j}
    BY <1>0 DEF Heads, Apart, TypeOK, ThreadInv
  <1>3. /\ Partition' /\ ToldOnce'
        /\ absorbed' \in [Jobs -> SUBSET Jobs]
        /\ verdict' \in [Jobs -> Verdicts]
        /\ told' \in [Jobs -> Nat]
        /\ \A k \in Jobs : verdict'[k] = "new" => verdict[k] = "new"
    BY <1>0, <1>1, <1>2, FinishKeeps
  <1>4. TypeOK'
    BY <1>0, <1>3 DEF TypeOK
  <1>5. ThreadInv' /\ Apart'
    BY <1>0, <1>3 DEF ThreadInv, Apart, Live
  <1>6. QED
    BY <1>3, <1>4, <1>5 DEF IInv

\* The one thread inside _drain takes the slot.
LEMMA DrainTakeKeeps ==
  ASSUME IInv, NEW t \in Jobs, DrainTake(t)
  PROVE  IInv'
  <1> USE NoneAssumption DEF DrainTake, jobs
  <1>0. TypeOK /\ ThreadInv /\ Apart /\ Partition /\ ToldOnce
    BY DEF IInv
  <1>1. TypeOK'
    BY <1>0 DEF TypeOK, Places
  <1>2. \A u \in Jobs : u # t => thread[u] \notin {"loop", "execute", "release"} /\ hand[u] = None
    BY <1>0 DEF ThreadInv, Live, TypeOK
  <1>3. Live' = Live
    BY <1>0 DEF Live, TypeOK
  <1>4. ThreadInv'
    BY <1>0, <1>2, <1>3 DEF ThreadInv, TypeOK
  <1>5. Heads' = Heads /\ \A h : Group(h)' = Group(h)
    BY <1>0, <1>2 DEF Heads, Group, TypeOK
  <1>6. Apart'
    BY <1>0, <1>2 DEF Apart, TypeOK
  <1>7. Partition' /\ ToldOnce'
    BY <1>0, <1>5 DEF Partition, ToldOnce
  <1>8. QED
    BY <1>1, <1>4, <1>6, <1>7 DEF IInv

\* The thread leaves: a stopped worker's slot is empty, so it leaves no job behind.
LEMMA DrainExitKeeps ==
  ASSUME IInv, NEW t \in Jobs, DrainExit(t)
  PROVE  IInv'
  <1> USE NoneAssumption DEF DrainExit, jobs
  <1>0. TypeOK /\ ThreadInv /\ Apart /\ Partition /\ ToldOnce
    BY DEF IInv
  <1>1. pending = None /\ UNCHANGED <<pending, absorbed, verdict, told>>
    BY <1>0 DEF ThreadInv
  <1>2. TypeOK'
    BY <1>0, <1>1 DEF TypeOK, Places
  <1>3. Live = {t} /\ Live' = {}
    BY <1>0 DEF ThreadInv, Live, TypeOK
  <1>4. ThreadInv'
    BY <1>0, <1>1, <1>3 DEF ThreadInv, TypeOK
  <1>5. Heads' = Heads /\ \A h : Group(h)' = Group(h)
    BY <1>0, <1>1 DEF Heads, Group, TypeOK
  <1>6. Apart'
    BY <1>0, <1>1 DEF Apart, TypeOK
  <1>7. Partition' /\ ToldOnce'
    BY <1>0, <1>1, <1>5 DEF Partition, ToldOnce
  <1>8. QED
    BY <1>2, <1>4, <1>6, <1>7 DEF IInv

\* The executed job resolves with its group.
LEMMA DrainExecuteKeeps ==
  ASSUME IInv, NEW t \in Jobs, DrainExecute(t)
  PROVE  IInv'
  <1> USE NoneAssumption DEF DrainExecute, slot
  <1>0. TypeOK /\ ThreadInv /\ Apart /\ Partition /\ ToldOnce
    BY DEF IInv
  <1>1. PICK value \in {"sent", "failed"}, why \in BOOLEAN :
            (why => value = "failed") /\ Finish(hand[t], value, why)
    OBVIOUS
  <1>2. hand[t] \in Jobs /\ hand[t] \in Heads /\ Heads \subseteq Jobs
    BY <1>0, HeadsOf DEF TypeOK, ThreadInv
  <1>3. \A u \in Jobs : u # t => thread[u] \notin {"loop", "execute", "release"}
    BY <1>0 DEF ThreadInv, Live, TypeOK
  <1>4. Heads' = Heads \ {hand[t]}
    BY <1>0, <1>3 DEF Heads, Apart, TypeOK
  <1>5. /\ Partition' /\ ToldOnce'
        /\ absorbed' \in [Jobs -> SUBSET Jobs]
        /\ verdict' \in [Jobs -> Verdicts]
        /\ told' \in [Jobs -> Nat]
        /\ \A k \in Jobs : verdict'[k] = "new" => verdict[k] = "new"
    BY <1>0, <1>1, <1>2, <1>4, FinishKeeps
  <1>6. TypeOK'
    BY <1>0, <1>5 DEF TypeOK, Places
  <1>7. Live' = Live
    BY <1>0 DEF Live, TypeOK
  <1>8. ThreadInv'
    BY <1>0, <1>3, <1>5, <1>7 DEF ThreadInv, TypeOK
  <1>9. Apart'
    BY <1>0, <1>3 DEF Apart, TypeOK
  <1>10. QED
    BY <1>5, <1>6, <1>8, <1>9 DEF IInv

\* The thread retires the job it executed and looks at the slot again.
LEMMA DrainReleaseKeeps ==
  ASSUME IInv, NEW t \in Jobs, DrainRelease(t)
  PROVE  IInv'
  <1> USE NoneAssumption DEF DrainRelease, jobs
  <1>0. TypeOK /\ ThreadInv /\ Apart /\ Partition /\ ToldOnce
    BY DEF IInv
  <1>1. TypeOK'
    BY <1>0 DEF TypeOK, Places
  <1>2. \A u \in Jobs : u # t => thread[u] \notin {"loop", "execute", "release"}
    BY <1>0 DEF ThreadInv, Live, TypeOK
  <1>3. Live' = Live
    BY <1>0 DEF Live, TypeOK
  <1>4. ThreadInv'
    BY <1>0, <1>2, <1>3 DEF ThreadInv, TypeOK
  <1>5. Heads' = Heads /\ \A h : Group(h)' = Group(h)
    BY <1>0, <1>2 DEF Heads, Group, TypeOK
  <1>6. Apart'
    BY <1>0, <1>2 DEF Apart, TypeOK
  <1>7. Partition' /\ ToldOnce'
    BY <1>0, <1>5 DEF Partition, ToldOnce
  <1>8. QED
    BY <1>1, <1>4, <1>6, <1>7 DEF IInv

-----------------------------------------------------------------------------
\* Every step of the worker keeps the inductive invariant.
LEMMA NextKeeps == IInv /\ [Next]_vars => IInv'
  <1> SUFFICES ASSUME IInv, [Next]_vars PROVE IInv'
    OBVIOUS
  <1>1. ASSUME NEW j \in Jobs, SubmitAccepted(j) PROVE IInv'
    BY <1>1, SubmitAcceptedKeeps
  <1>2. ASSUME NEW j \in Jobs, SubmitRefused(j) PROVE IInv'
    BY <1>2, SubmitRefusedKeeps
  <1>3. ASSUME NEW j \in Jobs, StopFail(j) PROVE IInv'
    BY <1>3, StopFailKeeps
  <1>4. CASE StopTake
    BY <1>4, StopTakeKeeps
  <1>5. ASSUME NEW t \in Jobs, Drain(t) PROVE IInv'
    BY <1>5, DrainTakeKeeps, DrainExitKeeps, DrainExecuteKeeps, DrainReleaseKeeps DEF Drain
  <1>6. CASE UNCHANGED vars
    BY <1>6 DEF vars, slot, jobs, IInv, TypeOK, ThreadInv, Apart, Partition, ToldOnce,
                Live, Heads, Group
  <1>7. QED
    BY <1>1, <1>2, <1>3, <1>4, <1>5, <1>6 DEF Next

LEMMA Invariance == Spec => []IInv
  BY InitIInv, NextKeeps, PTL DEF Spec

\* The worker's fields, jobs and threads keep their types.
THEOREM TypeCorrect == Spec => []TypeOK
  BY Invariance, PTL DEF IInv

\* Sends of one board never overlap, for any number of jobs: however submits, stops and
\* thread exits interleave, at most one thread is inside _drain.
THEOREM OneDrain == Spec => []OneDrainThread
  <1>1. IInv => OneDrainThread
    BY DEF IInv, ThreadInv, OneDrainThread, Live
  <1>2. QED
    BY <1>1, Invariance, PTL

\* No accepted send is ever lost: until it resolves it belongs to exactly one job that a
\* live thread or a stop() caller is about to resolve.
THEOREM NoneStranded == Spec => []NoJobStranded
  <1>1. ASSUME IInv PROVE NoJobStranded
    <2>1. ASSUME NEW j \in Jobs, verdict[j] = "open"
          PROVE  \E h \in Heads : \A k \in Heads : j \in Group(k) <=> k = h
      <3>1. PICK h \in Heads : j \in Group(h)
        BY <1>1, <2>1 DEF IInv, Partition
      <3>2. \A k \in Heads : j \in Group(k) => k = h
        BY <1>1, <3>1 DEF IInv, Partition
      <3>3. QED
        BY <3>1, <3>2
    <2>2. pending # None => Live # {}
      BY <1>1 DEF IInv, ThreadInv
    <2>3. QED
      BY <2>1, <2>2 DEF NoJobStranded
  <1>2. QED
    BY <1>1, Invariance, PTL

\* A failure's reason reaches each waiter at most once.
THEOREM ToldAtMostOnce == Spec => []ToldOnce
  BY Invariance, PTL DEF IInv

-----------------------------------------------------------------------------
\* The groups the mapping mentions are those of heads, and a head's group is not empty.
LEMMA MappedGroups ==
  ASSUME IInv
  PROVE  /\ \A t \in Jobs : thread[t] = "execute" =>
                hand[t] \in Heads /\ Underway = Group(hand[t]) /\ Running = {hand[t]}
         /\ (\A t \in Jobs : thread[t] # "execute") => Underway = {} /\ Running = {}
         /\ taken \subseteq Heads
         /\ pending # None => pending \in Heads
  <1>0. TypeOK /\ ThreadInv
    BY DEF IInv
  <1>1. ASSUME NEW t \in Jobs, thread[t] = "execute" PROVE Underway = Group(hand[t]) /\ Running = {hand[t]}
    <2>1. {u \in Jobs : thread[u] = "execute"} = {t}
      BY <1>0, <1>1 DEF ThreadInv, Live
    <2>2. QED
      BY <2>1 DEF Underway, Running
  <1>2. ASSUME \A t \in Jobs : thread[t] # "execute" PROVE Underway = {} /\ Running = {}
    BY <1>2 DEF Underway, Running
  <1>3. QED
    BY <1>0, <1>1, <1>2, HeadsOf DEF TypeOK, ThreadInv

\* Initial states of the worker are initial states of the promise.
LEMMA RefinesInit == Init => Promise!Init
  BY DEF Init, Newest, Waiting, Running, Underway, Dropped, Promise!Init

\* A submit that is accepted supersedes what waits; one that is refused fails at once.
LEMMA RefinesAccept ==
  ASSUME IInv, IInv', NEW j \in Jobs, SubmitAccepted(j)
  PROVE  Promise!Accept(j)
  <1> USE NoneAssumption DEF SubmitAccepted, Adopt
  <1>0. TypeOK /\ ThreadInv /\ Apart /\ Partition /\ TypeOK'
    BY DEF IInv
  <1>1. /\ \A h : h \in Heads => h \in Jobs /\ verdict[h] = "open"
        /\ j \notin Heads /\ absorbed[j] = {}
    BY <1>0, HeadsOf DEF Partition, Group
  <1>2. \A h \in Heads \ {pending} : Group(h)' = Group(h)
    BY <1>0, <1>1 DEF Group, TypeOK
  <1>3. Waiting' = Waiting \cup {j}
    <2>1. CASE pending = None
      BY <1>0, <1>1, <2>1 DEF Waiting, Group, TypeOK
    <2>2. CASE pending # None
      <3>1. pending \in Jobs /\ pending # j
        BY <1>0, <1>1, <2>2, MappedGroups DEF TypeOK
      <3>2. absorbed'[j] = Group(pending)
        BY <1>0, <2>2, <3>1 DEF TypeOK
      <3>3. QED
        BY <2>2, <3>2 DEF Waiting, Group
    <2>3. QED
      BY <2>1, <2>2
  <1>4. {u \in Jobs : thread'[u] = "execute"} = {u \in Jobs : thread[u] = "execute"}
    BY <1>0 DEF StartDrain, ThreadInv, TypeOK
  <1>5. \A t \in Jobs : thread[t] = "execute" => Group(hand[t])' = Group(hand[t])
    BY <1>0, <1>2, MappedGroups DEF Apart
  <1>6. Underway' = Underway /\ Running' = Running /\ Newest' = {j}
    BY <1>4, <1>5 DEF Underway, Running, Newest
  <1>7. \A k \in taken : Group(k)' = Group(k)
    BY <1>0, <1>2, MappedGroups DEF Apart
  <1>8. Dropped' = Dropped
    BY <1>7 DEF Dropped
  <1>9. Promise!Tell({j}, "open")
    BY <1>0 DEF Promise!Tell, TypeOK
  <1>10. QED
    BY <1>3, <1>6, <1>8, <1>9 DEF Promise!Accept

LEMMA RefinesRefuse ==
  ASSUME IInv, NEW j \in Jobs, SubmitRefused(j)
  PROVE  Promise!Refuse(j)
  <1> USE NoneAssumption DEF SubmitRefused, slot
  <1>0. TypeOK /\ Partition /\ ThreadInv
    BY DEF IInv
  <1>1. j \notin Heads /\ absorbed[j] = {} /\ Group(j) = {j}
    BY <1>0 DEF Partition, Group
  <1>2. absorbed' = absorbed
    BY <1>0, <1>1 DEF Finish, TypeOK
  <1>3. \A h : Group(h)' = Group(h)
    BY <1>2 DEF Group
  <1>4. UNCHANGED <<Newest, Waiting, Running, Underway, Dropped>>
    BY <1>3 DEF Newest, Waiting, Running, Underway, Dropped
  <1>5. Promise!Tell({j}, "failed")
    BY <1>1 DEF Finish, Promise!Tell
  <1>6. QED
    BY <1>4, <1>5 DEF Promise!Refuse

\* stop() closes the promise and gives up on what waits; the stopper then says so.
LEMMA RefinesClose ==
  ASSUME IInv, StopTake
  PROVE  Promise!Close
  <1> USE NoneAssumption DEF StopTake, jobs
  <1>1. \A h : Group(h)' = Group(h) /\ Group(h) # {}
    BY DEF Group
  <1>2. Underway' = Underway /\ Running' = Running /\ Newest' = {}
    BY <1>1 DEF Underway, Running, Newest
  <1>3. Waiting' = {} /\ Dropped' = IF Waiting = {} THEN Dropped ELSE Dropped \cup {Waiting}
    BY <1>1 DEF Waiting, Dropped
  <1>4. QED
    BY <1>2, <1>3 DEF Promise!Close

LEMMA RefinesTellDropped ==
  ASSUME IInv, NEW j \in Jobs, StopFail(j)
  PROVE  Promise!TellDropped
  <1> USE NoneAssumption DEF StopFail, slot
  <1>0. TypeOK /\ ThreadInv /\ Apart /\ Partition
    BY DEF IInv
  <1>1. \A h \in Heads \ {j} : Group(h)' = Group(h) /\ Group(h) # Group(j)
    BY <1>0, MappedGroups DEF Finish, Group, TypeOK, Partition
  <1>2. Waiting' = Waiting /\ Newest' = Newest
    BY <1>0, <1>1, MappedGroups DEF Waiting, Newest, Apart
  <1>3. Underway' = Underway /\ Running' = Running
    <2>1. \A t \in Jobs : thread[t] = "execute" => Group(hand[t])' = Group(hand[t])
      BY <1>0, <1>1, MappedGroups DEF Apart
    <2>2. QED
      BY <2>1 DEF Underway, Running
  <1>4. Dropped' = Dropped \ {Group(j)}
    BY <1>1, MappedGroups DEF Dropped
  <1>5. Group(j) \in Dropped /\ Promise!Tell(Group(j), "failed")
    BY DEF Dropped, Finish, Promise!Tell
  <1>6. QED
    BY <1>2, <1>3, <1>4, <1>5 DEF Promise!TellDropped

\* A thread that takes the slot starts what waits; executing finishes it.
LEMMA RefinesStart ==
  ASSUME IInv, IInv', NEW t \in Jobs, DrainTake(t)
  PROVE  Promise!Start
  <1> USE NoneAssumption DEF DrainTake, jobs
  <1>0. TypeOK /\ ThreadInv /\ ThreadInv'
    BY DEF IInv
  <1>1. \A h : Group(h)' = Group(h)
    BY DEF Group
  <1>2. \A u \in Jobs : thread[u] # "execute"
    BY <1>0 DEF ThreadInv, Live
  <1>3. Underway = {} /\ Running = {}
    BY <1>2, MappedGroups
  <1>4. {u \in Jobs : thread'[u] = "execute"} = {t}
    BY <1>0, <1>2 DEF TypeOK
  <1>5. Underway' = Waiting /\ Running' = Newest
    BY <1>0, <1>1, <1>4 DEF Underway, Waiting, Running, Newest, TypeOK
  <1>6. Newest # {} /\ Newest' = {} /\ Waiting' = {} /\ Dropped' = Dropped
    BY <1>1 DEF Newest, Waiting, Dropped, Group
  <1>7. QED
    BY <1>3, <1>5, <1>6 DEF Promise!Start

LEMMA RefinesFinish ==
  ASSUME IInv, IInv', NEW t \in Jobs, DrainExecute(t)
  PROVE  Promise!Finish
  <1> USE NoneAssumption DEF DrainExecute, slot
  <1>0. TypeOK /\ ThreadInv /\ Apart /\ Partition
    BY DEF IInv
  <1>1. PICK value \in {"sent", "failed"}, why \in BOOLEAN : Finish(hand[t], value, why)
    OBVIOUS
  <1>2. Underway = Group(hand[t]) /\ Running = {hand[t]} /\ hand[t] \in Heads
    BY MappedGroups
  <1>3. Running # {} /\ Promise!Tell(Underway, value)
    BY <1>1, <1>2 DEF Finish, Promise!Tell, Group
  <1>4. \A u \in Jobs : thread'[u] # "execute"
    BY <1>0 DEF ThreadInv, Live, TypeOK
  <1>5. Underway' = {} /\ Running' = {}
    BY <1>4 DEF Underway, Running
  <1>6. \A h \in Heads \ {hand[t]} : Group(h)' = Group(h)
    BY <1>0, <1>1 DEF Finish, Group, TypeOK
  <1>7. Waiting' = Waiting /\ Newest' = Newest
    BY <1>0, <1>6, MappedGroups DEF Waiting, Newest, Apart
  <1>8. Dropped' = Dropped
    <2>1. \A k \in taken : Group(k)' = Group(k)
      BY <1>0, <1>6, MappedGroups DEF Apart
    <2>2. QED
      BY <2>1 DEF Dropped
  <1>9. QED
    BY <1>3, <1>5, <1>7, <1>8 DEF Promise!Finish

\* Leaving _drain and retiring the executed job are invisible to the submitters.
LEMMA RefinesStutter ==
  ASSUME IInv, IInv', NEW t \in Jobs, DrainExit(t) \/ DrainRelease(t)
  PROVE  UNCHANGED Promise!vars
  <1> USE NoneAssumption
  <1>0. TypeOK /\ ThreadInv
    BY DEF IInv
  <1>1. UNCHANGED <<pending, stopped, absorbed, verdict, taken>>
    BY <1>0 DEF DrainExit, DrainRelease, jobs, ThreadInv
  <1>2. \A h : Group(h)' = Group(h)
    BY <1>1 DEF Group
  <1>3. /\ {u \in Jobs : thread'[u] = "execute"} = {u \in Jobs : thread[u] = "execute"}
        /\ \A u \in Jobs : thread[u] = "execute" => hand'[u] = hand[u]
    <2>1. CASE DrainExit(t)
      BY <1>0, <2>1 DEF DrainExit, TypeOK
    <2>2. CASE DrainRelease(t)
      BY <1>0, <2>2 DEF DrainRelease, TypeOK
    <2>3. QED
      BY <2>1, <2>2
  <1>4. UNCHANGED <<Newest, Waiting, Running, Underway, Dropped>>
    BY <1>1, <1>2, <1>3 DEF Newest, Waiting, Running, Underway, Dropped
  <1>5. QED
    BY <1>1, <1>4 DEF Promise!vars

\* Every step of the worker is a step of the promise or leaves it unchanged.
LEMMA RefinesNext == IInv /\ IInv' /\ [Next]_vars => [Promise!Next]_Promise!vars
  <1> SUFFICES ASSUME IInv, IInv', [Next]_vars PROVE [Promise!Next]_Promise!vars
    OBVIOUS
  <1>1. ASSUME NEW j \in Jobs, SubmitAccepted(j) \/ SubmitRefused(j) PROVE Promise!Next
    BY <1>1, RefinesAccept, RefinesRefuse DEF Promise!Next
  <1>2. CASE StopTake
    BY <1>2, RefinesClose DEF Promise!Next
  <1>3. ASSUME NEW j \in Jobs, StopFail(j) PROVE Promise!Next
    BY <1>3, RefinesTellDropped DEF Promise!Next
  <1>4. ASSUME NEW t \in Jobs, DrainTake(t) \/ DrainExecute(t) PROVE Promise!Next
    BY <1>4, RefinesStart, RefinesFinish DEF Promise!Next
  <1>5. ASSUME NEW t \in Jobs, DrainExit(t) \/ DrainRelease(t) PROVE UNCHANGED Promise!vars
    BY <1>5, RefinesStutter
  <1>6. CASE UNCHANGED vars
    BY <1>6 DEF vars, slot, jobs, Newest, Waiting, Running, Underway, Dropped, Group, Promise!vars
  <1>7. QED
    BY <1>1, <1>2, <1>3, <1>4, <1>5, <1>6 DEF Next, Drain

\* For any set of jobs, any number of submitters and stoppers: the worker with its lock,
\* threads and adoption lists implements LatestWins - one send at a time, the last one
\* accepted, and each submitted send is told exactly one verdict, that of the send which
\* superseded it.
THEOREM Refinement == Spec => KeepsPromise
  BY RefinesInit, RefinesNext, Invariance, PTL DEF Spec, KeepsPromise, Promise!Spec
=============================================================================

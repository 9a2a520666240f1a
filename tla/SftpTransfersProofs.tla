------------------------ MODULE SftpTransfersProofs ------------------------
(***************************************************************************)
(* Proofs about SftpTransfers: the accounting of the pool of connections,  *)
(* that a started task always finds a place in it, the order in which      *)
(* tasks start and end, and with all of that the refinement of             *)
(* TransferQueue. All for any limit and any number of tasks.               *)
(***************************************************************************)
EXTENDS SftpTransfers, FiniteSetTheorems, TLAPS

\* A worker that is between its start and the callback with its result.
Busy == {"started", "connecting", "working"} \cup Results

Connecting == {i \in Tasks : worker[i] = "connecting"}
Holders == {i \in Tasks : client[i] # None}

\* Exactly the running tasks have a busy worker, those that wait have had none;
\* numbers above enqueued are unused.
WorkerInv ==
  \A i \in Tasks :
    /\ worker[i] \in Busy <=> state[i] = "running"
    /\ state[i] \in {"none", "pending"} => worker[i] = "none"
    /\ i > enqueued <=> state[i] = "none"

\* A waiting task is in the queue, and no more tasks run than there are slots.
QueueInv ==
  /\ \A i \in Tasks : state[i] = "pending" => i \in pending
  /\ Cardinality(Running(state)) <= MaxConcurrent

\* A worker holds a client exactly while it works on the remote host.
HoldInv ==
  \A i \in Tasks :
    /\ client[i] # None <=> worker[i] = "working" /\ kind[i] # "localDelete"
    /\ worker[i] = "connecting" => kind[i] # "localDelete"

\* A client exists only after the task it is named after has connected it.
OriginInv ==
  \A i \in Tasks :
    (i \in available \/ \E j \in Tasks : client[j] = i) =>
      worker[i] \in {"working", "over"} \cup Results

\* Before the tab is connected nothing remote has been asked for.
ConnInv ==
  conn # "connected" =>
    /\ sftp = "none" /\ held = "none" /\ check = "no"
    /\ available = {} /\ created = 0
    /\ \A i \in Tasks : state[i] # "none" => kind[i] = "localDelete"

IInv ==
  /\ TypeOK
  /\ WorkerInv
  /\ QueueInv
  /\ HoldInv
  /\ OriginInv
  /\ ConnInv
  /\ PoolAccounted

-----------------------------------------------------------------------------
(* Cardinalities *)

LEMMA SubsetsFinite ==
  ASSUME NEW S \in SUBSET Tasks
  PROVE  IsFiniteSet(S) /\ Cardinality(S) \in Nat
<1>1. IsFiniteSet(Tasks)
  BY FS_Interval, TransfersAssumption DEF Tasks
<1>2. QED
  BY <1>1, FS_Subset, FS_CardinalityType

LEMMA AddOne ==
  ASSUME NEW S \in SUBSET Tasks, NEW x \in Tasks, x \notin S
  PROVE  Cardinality(S \cup {x}) = Cardinality(S) + 1
BY SubsetsFinite, FS_AddElement

LEMMA RemoveOne ==
  ASSUME NEW S \in SUBSET Tasks, NEW x \in S
  PROVE  Cardinality(S \ {x}) = Cardinality(S) - 1
BY SubsetsFinite, FS_RemoveElement

\* Of the tasks in L, at most k have fewer than k predecessors in L.
LEMMA FirstFew ==
  ASSUME NEW L \in SUBSET Tasks, NEW k \in Nat
  PROVE  Cardinality({i \in L : Cardinality({j \in L : j < i}) < k}) <= k
<1> DEFINE before(i) == {j \in L : j < i}
           F == {i \in L : Cardinality(before(i)) < k}
           f == [i \in F |-> Cardinality(before(i))]
<1>1. \A i \in F : Cardinality(before(i)) \in 0 .. k - 1
  BY SubsetsFinite
<1>2. ASSUME NEW i \in F, NEW m \in F, i < m
      PROVE  Cardinality(before(i)) < Cardinality(before(m))
  <2>1. Cardinality(before(i) \cup {i}) = Cardinality(before(i)) + 1
    BY AddOne DEF Tasks
  <2>2. before(i) \cup {i} \subseteq before(m)
    <3>1. i \in L /\ m \in L /\ \A x \in L : x \in Nat
      BY TransfersAssumption DEF Tasks
    <3>2. \A j \in L : j < i => j < m
      BY <1>2, <3>1
    <3>3. QED
      BY <1>2, <3>1, <3>2
  <2>3. IsFiniteSet(before(m)) /\ Cardinality(before(m)) \in Nat
        /\ Cardinality(before(i)) \in Nat
    BY SubsetsFinite
  <2>4. Cardinality(before(i) \cup {i}) <= Cardinality(before(m))
    BY <2>2, <2>3, FS_Subset
  <2>5. QED
    BY <2>1, <2>3, <2>4
<1>3. f \in Injection(F, 0 .. k - 1)
  <2>1. f \in [F -> 0 .. k - 1]
    BY <1>1
  <2>2. ASSUME NEW i \in F, NEW m \in F, f[i] = f[m]
        PROVE  i = m
    <3>1. i < m \/ m < i \/ i = m
      BY DEF Tasks
    <3>2. ~ (i < m)
      <4>1. SUFFICES ASSUME i < m PROVE FALSE
        OBVIOUS
      <4>2. Cardinality(before(i)) < Cardinality(before(m))
        BY <4>1, <1>2
      <4>3. Cardinality(before(i)) = Cardinality(before(m))
        BY <2>2
      <4>4. QED
        BY <4>2, <4>3, SubsetsFinite
    <3>3. ~ (m < i)
      <4>1. SUFFICES ASSUME m < i PROVE FALSE
        OBVIOUS
      <4>2. Cardinality(before(m)) < Cardinality(before(i))
        BY <4>1, <1>2
      <4>3. Cardinality(before(i)) = Cardinality(before(m))
        BY <2>2
      <4>4. QED
        BY <4>2, <4>3, SubsetsFinite
    <3>4. QED
      BY <3>1, <3>2, <3>3
  <2>3. QED
    BY <2>1, <2>2 DEF Injection, IsInjective
<1>4. IsFiniteSet(0 .. k - 1) /\ Cardinality(0 .. k - 1) = k
  BY FS_Interval
<1>5. Cardinality(F) <= k
  BY <1>3, <1>4, FS_Injection
<1>6. QED
  BY <1>5

\* If some task in L has k predecessors in L or more, then at least k have
\* fewer: those before the first such task.
LEMMA FirstEnough ==
  ASSUME NEW L \in SUBSET Tasks, NEW k \in Nat, NEW m \in L,
         ~ (Cardinality({j \in L : j < m}) < k)
  PROVE  Cardinality({i \in L : Cardinality({j \in L : j < i}) < k}) >= k
<1> DEFINE before(i) == {j \in L : j < i}
           F == {i \in L : Cardinality(before(i)) < k}
           T == {before(i) : i \in L \ F}
           R == StrictSubsetOrdering(Tasks)
<1>1. \A i \in L : before(i) \in SUBSET Tasks /\ Cardinality(before(i)) \in Nat
  BY SubsetsFinite
<1>2. PICK i \in L \ F : \A j \in L \ F : ~ (<<before(j), before(i)>> \in R)
  <2>1. IsWellFoundedOn(R, FiniteSubsetsOf(Tasks))
    BY FS_StrictSubsetOrderingWellFounded
  <2>2. T \subseteq FiniteSubsetsOf(Tasks) /\ T # {}
    BY SubsetsFinite DEF FiniteSubsetsOf
  <2>3. \E x \in T : \A y \in T : ~ (<<y, x>> \in R)
    <3> HIDE DEF T, R
    <3>1. QED
      BY <2>1, <2>2, WFMin
  <2>4. QED
    BY <2>3
<1>3. before(i) \subseteq F
  <2>1. SUFFICES ASSUME NEW j \in before(i), j \notin F
                 PROVE  FALSE
    OBVIOUS
  <2>2. \A x \in L : x \in Nat
    BY TransfersAssumption DEF Tasks
  <2>3. before(j) \subseteq before(i) /\ j \notin before(j)
    BY <2>2
  <2>4. before(j) \in SUBSET Tasks /\ before(i) \in SUBSET Tasks
    OBVIOUS
  <2>5. <<before(j), before(i)>> \in R
    BY <2>1, <2>3, <2>4 DEF StrictSubsetOrdering
  <2>6. QED
    BY <1>2, <2>1, <2>5
<1>4. F \in SUBSET Tasks
  OBVIOUS
<1>5. Cardinality(before(i)) <= Cardinality(F)
  BY <1>3, <1>4, SubsetsFinite, FS_Subset
<1>6. Cardinality(F) \in Nat /\ ~ (Cardinality(before(i)) < k)
  BY <1>2, <1>4, SubsetsFinite
<1>7. QED
  BY <1>1, <1>2, <1>5, <1>6

-----------------------------------------------------------------------------
(* Scheduling *)

\* What a step that schedules leads to, from task states s and workers w.
Scheduled(s, w) ==
  /\ state' \in [Tasks -> TaskStates]
  /\ worker' \in [Tasks -> WorkerStates]
  /\ pending' \in SUBSET Tasks
  /\ \A i \in Tasks :
       \/ state'[i] = s[i] /\ worker'[i] = w[i]
       \/ s[i] = "pending" /\ state'[i] = "running" /\ worker'[i] = "started"
  /\ \A i \in Tasks : state'[i] = "pending" => i \in pending'
  /\ Cardinality(Running(state')) <= MaxConcurrent
  /\ \A i, j \in Tasks :
       i < j /\ s[i] = "pending" /\ state'[i] = "pending" =>
         (state'[j] = "running" => s[j] = "running")
  /\ \A i \in Tasks : state'[i] = "pending" =>
       Cardinality(Running(state')) = MaxConcurrent

\* Scheduling starts waiting tasks, oldest first, as many as there are slots; it leaves every other task as it is.
LEMMA ScheduleEffect ==
  ASSUME NEW s \in [Tasks -> TaskStates], NEW q \in SUBSET Tasks,
         NEW w \in [Tasks -> WorkerStates],
         \A i \in Tasks : s[i] = "pending" => i \in q,
         Cardinality(Running(s)) <= MaxConcurrent,
         Schedule(s, q, w)
  PROVE  Scheduled(s, w)
<1> DEFINE waiting == {i \in q : s[i] = "pending"}
           ahead(i) == {j \in q : j < i /\ s[j] = "pending"}
           starts == {i \in Popped(s, q) : s[i] = "pending"}
           slots == MaxConcurrent - Cardinality(Running(s))
<1>1. /\ state' = [i \in Tasks |-> IF i \in starts THEN "running" ELSE s[i]]
      /\ worker' = [i \in Tasks |-> IF i \in starts THEN "started" ELSE w[i]]
      /\ pending' = q \ Popped(s, q)
  BY DEF Schedule
<1>2. Popped(s, q) \subseteq q /\ starts \subseteq Tasks
  BY DEF Popped
<1>3. /\ state' \in [Tasks -> TaskStates]
      /\ worker' \in [Tasks -> WorkerStates]
      /\ pending' \in SUBSET Tasks
  BY <1>1, <1>2 DEF TaskStates, WorkerStates
<1>4. \A i \in Tasks :
        \/ state'[i] = s[i] /\ worker'[i] = w[i]
        \/ s[i] = "pending" /\ state'[i] = "running" /\ worker'[i] = "started"
  BY <1>1
<1>5. \A i \in Tasks : state'[i] = "pending" => i \in pending'
  BY <1>1, <1>2
<1>6. /\ Cardinality(Running(s)) \in Nat
      /\ \A i \in Tasks : Cardinality(ahead(i)) \in Nat
      /\ slots \in Nat
  <2>1. Running(s) \in SUBSET Tasks /\ \A i \in Tasks : ahead(i) \in SUBSET Tasks
    BY DEF Running
  <2>2. QED
    BY <2>1, SubsetsFinite, TransfersAssumption
<1>7. \A i \in waiting : i \in starts <=> Cardinality(ahead(i)) < slots
  BY <1>6, TransfersAssumption DEF Popped
<1>8. starts = {i \in waiting : Cardinality({j \in waiting : j < i}) < slots}
  <2>1. \A i \in waiting : ahead(i) = {j \in waiting : j < i}
    OBVIOUS
  <2>2. QED
    BY <1>2, <1>7, <2>1
<1>9. /\ Cardinality(Running(state')) = Cardinality(Running(s)) + Cardinality(starts)
      /\ Cardinality(starts) \in Nat
  <2>1. Running(state') = Running(s) \cup starts
    BY <1>1, <1>2 DEF Running
  <2>2. Running(s) \cap starts = {}
    BY DEF Running
  <2>3. IsFiniteSet(Running(s)) /\ IsFiniteSet(starts)
        /\ Cardinality(starts) \in Nat
    <3>1. Running(s) \in SUBSET Tasks
      BY DEF Running
    <3>2. QED
      BY <1>2, <3>1, SubsetsFinite
  <2>4. Cardinality(Running(s) \cup starts)
          = Cardinality(Running(s)) + Cardinality(starts)
            - Cardinality(Running(s) \cap starts)
    BY <2>3, FS_Union
  <2>5. Cardinality(Running(s) \cap starts) = 0
    BY <2>2, FS_EmptySet
  <2>6. QED
    BY <1>6, <2>1, <2>3, <2>4, <2>5
<1>10. Cardinality(Running(state')) <= MaxConcurrent
  <2>1. Cardinality(starts) <= slots
    BY <1>6, <1>8, FirstFew
  <2>2. QED
    BY <1>6, <1>9, <2>1, TransfersAssumption
<1>11. ASSUME NEW i \in Tasks, state'[i] = "pending"
       PROVE  Cardinality(Running(state')) = MaxConcurrent
  <2>1. i \in waiting /\ i \notin starts
    BY <1>1, <1>11
  <2>2. ~ (Cardinality({j \in waiting : j < i}) < slots)
    BY <1>8, <2>1
  <2>3. Cardinality(starts) >= slots
    <3>1. waiting \in SUBSET Tasks
      OBVIOUS
    <3> HIDE DEF waiting, starts, slots
    <3>2. QED
      BY <1>6, <1>8, <2>1, <2>2, <3>1, FirstEnough
  <2>4. QED
    BY <1>6, <1>9, <1>10, <2>3, TransfersAssumption
<1>12. ASSUME NEW i \in Tasks, NEW j \in Tasks, i < j,
             s[i] = "pending", state'[i] = "pending",
             state'[j] = "running", s[j] # "running"
      PROVE  FALSE
  <2>1. j \in starts /\ i \notin starts
    BY <1>1, <1>12
  <2>2. i \in waiting /\ j \in waiting
    BY <1>2, <1>12, <2>1
  <2>3. ahead(i) \subseteq ahead(j)
    <3>1. \A x \in Tasks : x \in Nat
      BY TransfersAssumption DEF Tasks
    <3>2. \A x \in q : x < i => x < j
      BY <1>12, <3>1
    <3>3. QED
      BY <3>2
  <2>4. Cardinality(ahead(i)) <= Cardinality(ahead(j))
    <3>1. ahead(j) \in SUBSET Tasks
      OBVIOUS
    <3>2. IsFiniteSet(ahead(j))
      BY <3>1, SubsetsFinite
    <3>3. QED
      BY <2>3, <3>2, FS_Subset
  <2>5. QED
    BY <1>6, <1>7, <2>1, <2>2, <2>4
<1>13. QED
  BY <1>3, <1>4, <1>5, <1>10, <1>11, <1>12 DEF Scheduled

-----------------------------------------------------------------------------
(* The invariant is inductive: initial states, and steps of the UI thread
   that schedule *)

LEMMA InitIInv == Init => IInv
<1> SUFFICES ASSUME Init PROVE IInv
  OBVIOUS
<1>1. TypeOK /\ WorkerInv /\ HoldInv /\ OriginInv /\ ConnInv
  BY TransfersAssumption
  DEF Init, TypeOK, WorkerInv, HoldInv, OriginInv, ConnInv, Tasks, None,
      Kinds, TaskStates, WorkerStates, Busy, Results
<1>2. /\ Running(state) = {} /\ Connecting = {} /\ Holders = {}
      /\ Cardinality({}) = 0
  BY FS_EmptySet DEF Init, Running, Connecting, Holders
<1>3. QueueInv
  BY <1>2, TransfersAssumption DEF Init, QueueInv
<1>4. PoolAccounted
  BY <1>2 DEF Init, PoolAccounted, Connecting, Holders
<1>5. QED
  BY <1>1, <1>3, <1>4 DEF IInv

\* The pool's accounts depend only on the pool and on who is connecting.
LEMMA PoolKept ==
  ASSUME PoolAccounted, UNCHANGED pool,
         \A i \in Tasks : worker'[i] = "connecting" <=> worker[i] = "connecting"
  PROVE  PoolAccounted'
<1>1. {i \in Tasks : worker'[i] = "connecting"} = {i \in Tasks : worker[i] = "connecting"}
  OBVIOUS
<1>2. client' = client /\ available' = available /\ created' = created
  BY DEF pool
<1>3. QED
  BY <1>1, <1>2 DEF PoolAccounted

\* No task overtakes an older one in this step, and no ended one changes.
InOrder ==
  \A i, j \in Tasks :
    i < j /\ state'[i] = "pending" => (state'[j] = "running" => state[j] = "running")
EndedKept == \A i \in Tasks : state[i] \in Final => state'[i] = state[i]

\* A step of the UI thread that leaves the pool and the tab alone, and
\* schedules after it has added, cancelled or ended tasks.
LEMMA SchedulingStep ==
  ASSUME IInv, UNCHANGED <<pool, view>>,
         NEW s \in [Tasks -> TaskStates], NEW q \in SUBSET Tasks,
         NEW w \in [Tasks -> WorkerStates],
         Schedule(s, q, w),
         enqueued' \in 0 .. MaxTasks, kind' \in [Tasks -> Kinds],
         flagged' \in SUBSET Tasks, check' \in {check, "no"},
         \A i \in Tasks : w[i] \in Busy <=> s[i] = "running",
         \A i \in Tasks : s[i] \in {"none", "pending"} => w[i] = "none",
         \A i \in Tasks : i > enqueued' <=> s[i] = "none",
         \A i \in Tasks : s[i] = "pending" => i \in q,
         Cardinality(Running(s)) <= MaxConcurrent,
         \A i \in Tasks : w[i] = worker[i] \/ (worker[i] \in Results /\ w[i] = "over"),
         \A i \in Tasks : state[i] # "none" => kind'[i] = kind[i],
         \A i \in Tasks : state[i] \in Final => s[i] = state[i],
         conn # "connected" =>
           \A i \in Tasks : s[i] # "none" => kind'[i] = "localDelete"
  PROVE  IInv' /\ InOrder /\ EndedKept /\ WorkConserving'
<1>1. /\ client' = client /\ available' = available /\ created' = created
      /\ tab' = tab /\ conn' = conn /\ sftp' = sftp /\ held' = held
  BY DEF pool, view
<1>2. /\ state' \in [Tasks -> TaskStates]
      /\ worker' \in [Tasks -> WorkerStates]
      /\ pending' \in SUBSET Tasks
      /\ \A i \in Tasks :
           \/ state'[i] = s[i] /\ worker'[i] = w[i]
           \/ s[i] = "pending" /\ state'[i] = "running" /\ worker'[i] = "started"
      /\ \A i \in Tasks : state'[i] = "pending" => i \in pending'
      /\ Cardinality(Running(state')) <= MaxConcurrent
  <2>1. Scheduled(s, w)
    BY ScheduleEffect
  <2>2. QED
    BY <2>1 DEF Scheduled
<1>3. TypeOK'
  BY <1>1, <1>2 DEF IInv, TypeOK
<1>4. WorkerInv'
  BY <1>2 DEF WorkerInv, Busy, Results
<1>5. QueueInv'
  BY <1>2 DEF QueueInv
<1>6. \A i \in Tasks :
        /\ worker'[i] = "working" <=> worker[i] = "working"
        /\ worker'[i] = "connecting" <=> worker[i] = "connecting"
        /\ worker[i] \in {"working", "over"} \cup Results =>
             worker'[i] \in {"working", "over"} \cup Results
  BY <1>2 DEF Results
<1>7. \A i \in Tasks : worker[i] \in {"working", "connecting"} => kind'[i] = kind[i]
  BY DEF IInv, WorkerInv, Busy
<1>8. HoldInv'
  BY <1>1, <1>6, <1>7 DEF IInv, HoldInv
<1>9. OriginInv'
  BY <1>1, <1>6 DEF IInv, OriginInv
<1>10. ConnInv'
  BY <1>1, <1>2 DEF IInv, ConnInv
<1>11. PoolAccounted'
  BY <1>6, PoolKept DEF IInv, pool
<1>12. InOrder
  <2>1. Scheduled(s, w)
    BY ScheduleEffect
  <2>2. \A i, j \in Tasks :
          i < j /\ s[i] = "pending" /\ state'[i] = "pending" =>
            (state'[j] = "running" => s[j] = "running")
    BY <2>1 DEF Scheduled
  <2>3. \A i \in Tasks : state'[i] = "pending" => s[i] = "pending"
    BY <1>2
  <2>4. \A j \in Tasks : s[j] = "running" => state[j] = "running"
    BY DEF IInv, WorkerInv, Busy, Results
  <2>5. QED
    BY <2>2, <2>3, <2>4 DEF InOrder
<1>13. EndedKept
  BY <1>2 DEF EndedKept, Final
<1>14. WorkConserving'
  <2>1. Scheduled(s, w)
    BY ScheduleEffect
  <2>2. QED
    BY <2>1 DEF Scheduled, WorkConserving
<1>15. QED
  BY <1>3, <1>4, <1>5, <1>8, <1>9, <1>10, <1>11, <1>12, <1>13, <1>14 DEF IInv

LEMMA EnqueueIInv ==
  ASSUME IInv, NEW k \in Kinds, NEW n \in Tasks, Enqueue(k, n),
         conn = "connected" \/ k = "localDelete", check' \in {check, "no"}
  PROVE  IInv' /\ InOrder /\ EndedKept /\ WorkConserving'
<1> DEFINE new == enqueued + 1 .. enqueued + n
           s == [i \in Tasks |-> IF i \in new THEN "pending" ELSE state[i]]
<1>1. /\ enqueued + n <= MaxTasks /\ enqueued' = enqueued + n
      /\ kind' = [i \in Tasks |-> IF i \in new THEN k ELSE kind[i]]
      /\ Schedule(s, pending \cup new, worker)
      /\ flagged' = flagged /\ UNCHANGED <<pool, view>>
  BY DEF Enqueue
<1>2. /\ enqueued \in Nat /\ n \in Nat /\ MaxTasks \in Nat
      /\ state \in [Tasks -> TaskStates] /\ kind \in [Tasks -> Kinds]
      /\ worker \in [Tasks -> WorkerStates]
      /\ pending \in SUBSET Tasks /\ flagged \in SUBSET Tasks
  BY TransfersAssumption DEF IInv, TypeOK, Tasks
<1>3. \A i \in Tasks : i \in Nat /\ i >= 1
  BY <1>2 DEF Tasks
<1>4. new \in SUBSET Tasks /\ enqueued' \in 0 .. MaxTasks
  BY <1>1, <1>2 DEF Tasks
<1>5. \A i \in new : state[i] = "none" /\ worker[i] = "none"
  <2>1. \A i \in new : i > enqueued
    BY <1>2
  <2>2. QED
    BY <1>4, <2>1 DEF IInv, WorkerInv
<1>6. s \in [Tasks -> TaskStates] /\ kind' \in [Tasks -> Kinds]
  BY <1>1, <1>2 DEF TaskStates
<1>7. \A i \in Tasks : worker[i] \in Busy <=> s[i] = "running"
  <2>1. "none" \notin Busy
    BY DEF Busy, Results
  <2>2. QED
    BY <1>5, <2>1 DEF IInv, WorkerInv
<1>8. \A i \in Tasks : s[i] \in {"none", "pending"} => worker[i] = "none"
  BY <1>5 DEF IInv, WorkerInv
<1>9. \A i \in Tasks : i > enqueued' <=> s[i] = "none"
  <2>1. \A i \in Tasks : i > enqueued' <=> i > enqueued /\ i \notin new
    BY <1>1, <1>2, <1>3
  <2>2. QED
    BY <2>1 DEF IInv, WorkerInv
<1>10. \A i \in Tasks : s[i] = "pending" => i \in pending \cup new
  BY DEF IInv, QueueInv
<1>11. Cardinality(Running(s)) <= MaxConcurrent
  <2>1. Running(s) = Running(state)
    BY <1>5 DEF Running
  <2>2. QED
    BY <2>1 DEF IInv, QueueInv
<1>12. \A i \in Tasks : state[i] # "none" => kind'[i] = kind[i]
  BY <1>1, <1>5
<1>13. conn # "connected" =>
         \A i \in Tasks : s[i] # "none" => kind'[i] = "localDelete"
  BY <1>1 DEF IInv, ConnInv
<1>14. pending \cup new \in SUBSET Tasks
  BY <1>2, <1>4
<1>15. \A i \in Tasks : state[i] \in Final => s[i] = state[i]
  BY <1>5 DEF Final
<1> HIDE DEF s, new
<1>16. QED
  BY <1>1, <1>2, <1>4, <1>6, <1>7, <1>8, <1>9, <1>10, <1>11, <1>12, <1>13,
     <1>14, <1>15, SchedulingStep

LEMMA CancelIInv ==
  ASSUME IInv, NEW c \in Tasks, CancelTransfer(c)
  PROVE  IInv' /\ InOrder /\ EndedKept /\ WorkConserving'
<1> DEFINE s == [state EXCEPT ![c] = IF @ = "pending" THEN "cancelled" ELSE @]
<1>1. /\ Schedule(s, pending, worker)
      /\ flagged' \in {flagged, flagged \cup {c}}
      /\ enqueued' = enqueued /\ kind' = kind /\ check' = check
      /\ UNCHANGED <<pool, view>>
  BY DEF CancelTransfer
<1>2. /\ enqueued \in 0 .. MaxTasks
      /\ state \in [Tasks -> TaskStates] /\ kind \in [Tasks -> Kinds]
      /\ worker \in [Tasks -> WorkerStates]
      /\ pending \in SUBSET Tasks /\ flagged \in SUBSET Tasks
  BY DEF IInv, TypeOK
<1>3. \A i \in Tasks : s[i] = state[i]
                         \/ (i = c /\ state[i] = "pending" /\ s[i] = "cancelled")
  BY <1>2
<1>4. s \in [Tasks -> TaskStates]
  BY <1>2 DEF TaskStates, Final
<1>5. \A i \in Tasks :
        /\ worker[i] \in Busy <=> s[i] = "running"
        /\ s[i] \in {"none", "pending"} => worker[i] = "none"
        /\ i > enqueued <=> s[i] = "none"
  BY <1>3 DEF IInv, WorkerInv
<1>6. \A i \in Tasks : s[i] = "pending" => i \in pending
  BY <1>3 DEF IInv, QueueInv
<1>7. Cardinality(Running(s)) <= MaxConcurrent
  <2>1. Running(s) = Running(state)
    BY <1>3 DEF Running
  <2>2. QED
    BY <2>1 DEF IInv, QueueInv
<1>8. conn # "connected" =>
        \A i \in Tasks : s[i] # "none" => kind[i] = "localDelete"
  BY <1>3 DEF IInv, ConnInv
<1>9. \A i \in Tasks : state[i] \in Final => s[i] = state[i]
  BY <1>3 DEF Final
<1> HIDE DEF s
<1>10. QED
  BY <1>1, <1>2, <1>4, <1>5, <1>6, <1>7, <1>8, <1>9, SchedulingStep

LEMMA DeliverIInv ==
  ASSUME IInv, NEW d \in Tasks, Deliver(d)
  PROVE  IInv' /\ InOrder /\ EndedKept /\ WorkConserving'
<1> DEFINE s == [state EXCEPT ![d] = Outcome(worker[d])]
           w == [worker EXCEPT ![d] = "over"]
<1>1. /\ Schedule(s, pending, w)
      /\ worker[d] \in Results
      /\ enqueued' = enqueued /\ kind' = kind /\ check' = check
      /\ flagged' = flagged /\ UNCHANGED <<pool, view>>
  BY DEF Deliver
<1>2. /\ enqueued \in 0 .. MaxTasks
      /\ state \in [Tasks -> TaskStates] /\ kind \in [Tasks -> Kinds]
      /\ worker \in [Tasks -> WorkerStates]
      /\ pending \in SUBSET Tasks /\ flagged \in SUBSET Tasks
  BY DEF IInv, TypeOK
<1>3. state[d] = "running" /\ Outcome(worker[d]) \in Final
  BY <1>1 DEF IInv, WorkerInv, Busy, Outcome, Results, Final
<1>4. \A i \in Tasks : \/ i # d /\ s[i] = state[i] /\ w[i] = worker[i]
                       \/ i = d /\ s[i] \in Final /\ w[i] = "over"
  BY <1>2, <1>3
<1>5. s \in [Tasks -> TaskStates] /\ w \in [Tasks -> WorkerStates]
  BY <1>2, <1>3 DEF TaskStates, WorkerStates
<1>6. \A i \in Tasks :
        /\ w[i] \in Busy <=> s[i] = "running"
        /\ s[i] \in {"none", "pending"} => w[i] = "none"
        /\ i > enqueued <=> s[i] = "none"
  BY <1>3, <1>4 DEF IInv, WorkerInv, Busy, Results, Final
<1>7. \A i \in Tasks : s[i] = "pending" => i \in pending
  BY <1>4 DEF IInv, QueueInv, Final
<1>8. Cardinality(Running(s)) <= MaxConcurrent
  <2>1. Running(s) \subseteq Running(state)
    BY <1>4 DEF Running, Final
  <2>2. Running(state) \in SUBSET Tasks /\ Running(s) \in SUBSET Tasks
    BY DEF Running
  <2>3. Cardinality(Running(s)) <= Cardinality(Running(state))
    BY <2>1, <2>2, SubsetsFinite, FS_Subset
  <2>4. Cardinality(Running(state)) \in Nat /\ Cardinality(Running(s)) \in Nat
    BY <2>2, SubsetsFinite
  <2>5. Cardinality(Running(state)) <= MaxConcurrent
    BY DEF IInv, QueueInv
  <2> HIDE DEF s
  <2>6. QED
    BY <2>3, <2>4, <2>5, TransfersAssumption
<1>9. conn # "connected" =>
        \A i \in Tasks : s[i] # "none" => kind[i] = "localDelete"
  BY <1>3, <1>4 DEF IInv, ConnInv
<1>10. \A i \in Tasks : w[i] = worker[i] \/ (worker[i] \in Results /\ w[i] = "over")
  BY <1>1, <1>4
<1>11. \A i \in Tasks : state[i] \in Final => s[i] = state[i]
  BY <1>3, <1>4 DEF Final
<1> HIDE DEF s, w
<1>12. QED
  BY <1>1, <1>2, <1>5, <1>6, <1>7, <1>8, <1>9, <1>10, <1>11, SchedulingStep
-----------------------------------------------------------------------------
(* Steps of the workers *)

\* A busy worker that stays busy leaves the queue's part of the invariant alone.
LEMMA WorkerStep ==
  ASSUME IInv, NEW i \in Tasks, NEW x \in Busy, worker[i] \in Busy,
         worker' = [worker EXCEPT ![i] = x],
         UNCHANGED <<queue, view, check>>,
         client' \in [Tasks -> Tasks \cup {None}],
         available' \in SUBSET Tasks, created' \in Nat,
         kind[i] = "localDelete" => UNCHANGED pool
  PROVE  /\ TypeOK' /\ WorkerInv' /\ QueueInv' /\ ConnInv'
         /\ worker'[i] = x
         /\ \A j \in Tasks : j # i => worker'[j] = worker[j]
<1>1. /\ enqueued' = enqueued /\ kind' = kind /\ state' = state
      /\ pending' = pending /\ flagged' = flagged
      /\ tab' = tab /\ conn' = conn /\ sftp' = sftp /\ held' = held
      /\ check' = check
  BY DEF queue, view
<1>2. /\ worker'[i] = x
      /\ \A j \in Tasks : j # i => worker'[j] = worker[j]
  BY DEF IInv, TypeOK
<1>3. TypeOK'
  BY <1>1 DEF IInv, TypeOK, Busy, WorkerStates
<1>4. WorkerInv'
  BY <1>1, <1>2 DEF IInv, WorkerInv, Busy, Results
<1>5. QueueInv'
  BY <1>1 DEF IInv, QueueInv
<1>6. ConnInv'
  <2>1. SUFFICES ASSUME conn # "connected" PROVE ConnInv'
    BY <1>1 DEF ConnInv
  <2>2. state[i] = "running"
    BY DEF IInv, WorkerInv
  <2>3. UNCHANGED pool
    BY <2>1, <2>2 DEF IInv, ConnInv
  <2>4. QED
    BY <1>1, <2>3 DEF IInv, ConnInv, pool
<1>7. QED
  BY <1>2, <1>3, <1>4, <1>5, <1>6

LEMMA BeginIInv ==
  ASSUME IInv, NEW i \in Tasks, BeginLocal(i)
  PROVE  IInv'
<1>1. /\ worker[i] = "started" /\ kind[i] = "localDelete"
      /\ worker' = [worker EXCEPT ![i] = "working"]
      /\ UNCHANGED <<queue, view, check>> /\ UNCHANGED pool
      /\ client' = client /\ available' = available /\ kind' = kind
  BY DEF BeginLocal, pool, queue
<1>2. /\ TypeOK' /\ WorkerInv' /\ QueueInv' /\ ConnInv'
      /\ worker'[i] = "working"
      /\ \A j \in Tasks : j # i => worker'[j] = worker[j]
  <2>1. created' \in Nat /\ available' \in SUBSET Tasks
        /\ client' \in [Tasks -> Tasks \cup {None}]
    BY <1>1 DEF IInv, TypeOK, pool
  <2>2. worker[i] \in Busy /\ "working" \in Busy
    BY <1>1 DEF Busy
  <2>3. QED
    BY <1>1, <2>1, <2>2, WorkerStep
<1>3. HoldInv'
  BY <1>1, <1>2 DEF IInv, HoldInv
<1>4. OriginInv'
  BY <1>1, <1>2 DEF IInv, OriginInv
<1>5. PoolAccounted'
  <2>1. \A j \in Tasks : worker'[j] = "connecting" <=> worker[j] = "connecting"
    BY <1>1, <1>2
  <2>2. QED
    BY <1>1, <2>1, PoolKept DEF IInv
<1>6. QED
  BY <1>2, <1>3, <1>4, <1>5 DEF IInv

LEMMA AcquireIInv ==
  ASSUME IInv, NEW i \in Tasks, Acquire(i)
  PROVE  IInv'
<1>1. /\ worker[i] = "started" /\ kind[i] # "localDelete"
      /\ UNCHANGED <<queue, view, check>> /\ kind' = kind
  BY DEF Acquire, queue
<1>2. /\ client \in [Tasks -> Tasks \cup {None}] /\ available \in SUBSET Tasks
      /\ created \in Nat /\ None \notin Tasks
      /\ worker[i] \in Busy /\ client[i] = None
      /\ {"working", "connecting", "error"} \subseteq Busy
  BY <1>1 DEF IInv, TypeOK, HoldInv, Tasks, None, Busy, Results
<1>3. PoolAccounted
  BY DEF IInv
<1>4. CASE available # {}
  <2>1. PICK c \in available :
          /\ available' = available \ {c}
          /\ client' = [client EXCEPT ![i] = c]
          /\ worker' = [worker EXCEPT ![i] = "working"]
          /\ created' = created
    BY <1>4 DEF Acquire
  <2>2. /\ TypeOK' /\ WorkerInv' /\ QueueInv' /\ ConnInv'
        /\ worker'[i] = "working"
        /\ \A j \in Tasks : j # i => worker'[j] = worker[j]
    <3>1. client' \in [Tasks -> Tasks \cup {None}] /\ available' \in SUBSET Tasks
      BY <1>2, <2>1
    <3>2. QED
      BY <1>1, <1>2, <2>1, <3>1, WorkerStep
  <2>3. client'[i] = c /\ \A j \in Tasks : j # i => client'[j] = client[j]
    BY <1>2, <2>1
  <2>4. HoldInv'
    BY <1>1, <1>2, <2>2, <2>3 DEF IInv, HoldInv
  <2>5. OriginInv'
    BY <1>1, <2>1, <2>2, <2>3 DEF IInv, OriginInv
  <2>6. PoolAccounted'
    <3>1. {j \in Tasks : worker'[j] = "connecting"} = Connecting
      BY <1>1, <2>2 DEF Connecting
    <3>2. {j \in Tasks : client'[j] # None} = Holders \cup {i} /\ i \notin Holders
      BY <1>2, <2>3 DEF Holders
    <3>3. Cardinality(Holders \cup {i}) = Cardinality(Holders) + 1
      BY <3>2, AddOne DEF Holders
    <3>4. Cardinality(available \ {c}) = Cardinality(available) - 1
      BY <1>2, RemoveOne
    <3>5. /\ Cardinality(available) \in Nat /\ Cardinality(Connecting) \in Nat
          /\ Cardinality(Holders) \in Nat
      BY <1>2, SubsetsFinite DEF Connecting, Holders
    <3>6. created = Cardinality(available) + Cardinality(Connecting)
                      + Cardinality(Holders)
      BY <1>3 DEF PoolAccounted, Connecting, Holders
    <3>7. created' = Cardinality(available')
                       + Cardinality({j \in Tasks : worker'[j] = "connecting"})
                       + Cardinality({j \in Tasks : client'[j] # None})
      <4>1. /\ Cardinality({j \in Tasks : worker'[j] = "connecting"})
                 = Cardinality(Connecting)
            /\ Cardinality({j \in Tasks : client'[j] # None})
                 = Cardinality(Holders) + 1
            /\ Cardinality(available') = Cardinality(available) - 1
        BY <2>1, <3>1, <3>2, <3>3, <3>4
      <4>2. QED
        BY <2>1, <3>5, <3>6, <4>1
    <3>8. \A j \in Tasks : client'[j] # None =>
            /\ client'[j] \notin available'
            /\ \A m \in Tasks : client'[m] = client'[j] => m = j
      BY <1>2, <1>3, <2>1, <2>3 DEF PoolAccounted
    <3>9. QED
      BY <3>7, <3>8 DEF PoolAccounted
  <2>7. QED
    BY <2>2, <2>4, <2>5, <2>6 DEF IInv
<1>5. CASE available = {} /\ created < MaxConcurrent
  <2>1. /\ client' = client /\ available' = available
        /\ created' = created + 1
        /\ worker' = [worker EXCEPT ![i] = "connecting"]
    BY <1>5 DEF Acquire
  <2>2. /\ TypeOK' /\ WorkerInv' /\ QueueInv' /\ ConnInv'
        /\ worker'[i] = "connecting"
        /\ \A j \in Tasks : j # i => worker'[j] = worker[j]
    <3>1. created' \in Nat /\ "connecting" \in Busy
      BY <1>2, <2>1
    <3>2. QED
      BY <1>1, <1>2, <2>1, <3>1, WorkerStep
  <2>3. HoldInv'
    BY <1>1, <1>2, <2>1, <2>2 DEF IInv, HoldInv
  <2>4. OriginInv'
    BY <1>1, <2>1, <2>2 DEF IInv, OriginInv, Results
  <2>5. PoolAccounted'
    <3>1. {j \in Tasks : worker'[j] = "connecting"} = Connecting \cup {i}
          /\ i \notin Connecting
      BY <1>1, <2>2 DEF Connecting
    <3>2. Cardinality(Connecting \cup {i}) = Cardinality(Connecting) + 1
      BY <3>1, AddOne DEF Connecting
    <3>3. /\ Cardinality(available) \in Nat /\ Cardinality(Connecting) \in Nat
          /\ Cardinality(Holders) \in Nat
      BY <1>2, SubsetsFinite DEF Connecting, Holders
    <3>4. created = Cardinality(available) + Cardinality(Connecting)
                      + Cardinality(Holders)
      BY <1>3 DEF PoolAccounted, Connecting, Holders
    <3>5. created' = Cardinality(available')
                       + Cardinality({j \in Tasks : worker'[j] = "connecting"})
                       + Cardinality({j \in Tasks : client'[j] # None})
      <4>1. /\ Cardinality({j \in Tasks : worker'[j] = "connecting"})
                 = Cardinality(Connecting) + 1
            /\ Cardinality({j \in Tasks : client'[j] # None})
                 = Cardinality(Holders)
            /\ Cardinality(available') = Cardinality(available)
        BY <2>1, <3>1, <3>2 DEF Holders
      <4>2. QED
        BY <2>1, <3>3, <3>4, <4>1
    <3>6. QED
      BY <1>3, <2>1, <3>5 DEF PoolAccounted
  <2>6. QED
    BY <2>2, <2>3, <2>4, <2>5 DEF IInv
<1>6. CASE available = {} /\ ~ (created < MaxConcurrent)
  <2>1. /\ client' = client /\ available' = available /\ created' = created
        /\ worker' = [worker EXCEPT ![i] = "error"]
    BY <1>6 DEF Acquire
  <2>2. /\ TypeOK' /\ WorkerInv' /\ QueueInv' /\ ConnInv'
        /\ worker'[i] = "error"
        /\ \A j \in Tasks : j # i => worker'[j] = worker[j]
    BY <1>1, <1>2, <2>1, WorkerStep
  <2>3. HoldInv'
    BY <1>1, <1>2, <2>1, <2>2 DEF IInv, HoldInv
  <2>4. OriginInv'
    BY <1>1, <2>1, <2>2 DEF IInv, OriginInv, Results
  <2>5. PoolAccounted'
    <3>1. \A j \in Tasks : worker'[j] = "connecting" <=> worker[j] = "connecting"
      BY <1>1, <2>2
    <3>2. UNCHANGED pool
      BY <2>1 DEF pool
    <3>3. QED
      BY <1>3, <3>1, <3>2, PoolKept
  <2>6. QED
    BY <2>2, <2>3, <2>4, <2>5 DEF IInv
<1>7. QED
  BY <1>4, <1>5, <1>6

\* What PoolAccounted says of the counter, in the names used here.
LEMMA Accounts ==
  ASSUME IInv
  PROVE  /\ created = Cardinality(available) + Cardinality(Connecting)
                        + Cardinality(Holders)
         /\ created \in Nat /\ Cardinality(available) \in Nat
         /\ Cardinality(Connecting) \in Nat /\ Cardinality(Holders) \in Nat
<1>1. available \in SUBSET Tasks /\ Connecting \in SUBSET Tasks
      /\ Holders \in SUBSET Tasks /\ created \in Nat
  BY DEF IInv, TypeOK, Connecting, Holders
<1>2. QED
  BY <1>1, SubsetsFinite DEF IInv, PoolAccounted, Connecting, Holders

LEMMA ConnectOkIInv ==
  ASSUME IInv, NEW i \in Tasks, ConnectOk(i)
  PROVE  IInv'
<1>1. /\ worker[i] = "connecting"
      /\ worker' = [worker EXCEPT ![i] = "working"]
      /\ client' = [client EXCEPT ![i] = i]
      /\ available' = available /\ created' = created
      /\ UNCHANGED <<queue, view, check>> /\ kind' = kind
  BY DEF ConnectOk, queue
<1>2. /\ client \in [Tasks -> Tasks \cup {None}] /\ available \in SUBSET Tasks
      /\ None \notin Tasks
      /\ worker[i] \in Busy /\ "working" \in Busy
      /\ client[i] = None /\ kind[i] # "localDelete"
  BY <1>1 DEF IInv, TypeOK, HoldInv, Tasks, None, Busy
<1>3. i \notin available /\ \A j \in Tasks : client[j] # i
  BY <1>1 DEF IInv, OriginInv, Results
<1>4. /\ TypeOK' /\ WorkerInv' /\ QueueInv' /\ ConnInv'
      /\ worker'[i] = "working"
      /\ \A j \in Tasks : j # i => worker'[j] = worker[j]
  <2>1. client' \in [Tasks -> Tasks \cup {None}] /\ available' \in SUBSET Tasks
        /\ created' \in Nat
    BY <1>1, <1>2, Accounts
  <2>2. QED
    BY <1>1, <1>2, <2>1, WorkerStep
<1>5. client'[i] = i /\ \A j \in Tasks : j # i => client'[j] = client[j]
  BY <1>1, <1>2
<1>6. HoldInv'
  BY <1>1, <1>2, <1>4, <1>5 DEF IInv, HoldInv
<1>7. OriginInv'
  BY <1>1, <1>4, <1>5 DEF IInv, OriginInv
<1>8. PoolAccounted'
  <2>1. {j \in Tasks : worker'[j] = "connecting"} = Connecting \ {i}
        /\ i \in Connecting
    BY <1>1, <1>4 DEF Connecting
  <2>2. {j \in Tasks : client'[j] # None} = Holders \cup {i} /\ i \notin Holders
    BY <1>2, <1>5 DEF Holders
  <2>3. Cardinality(Holders \cup {i}) = Cardinality(Holders) + 1
    BY <2>2, AddOne DEF Holders
  <2>4. Cardinality(Connecting \ {i}) = Cardinality(Connecting) - 1
    BY <2>1, RemoveOne DEF Connecting
  <2>5. created' = Cardinality(available')
                     + Cardinality({j \in Tasks : worker'[j] = "connecting"})
                     + Cardinality({j \in Tasks : client'[j] # None})
    <3>1. /\ Cardinality({j \in Tasks : worker'[j] = "connecting"})
               = Cardinality(Connecting) - 1
          /\ Cardinality({j \in Tasks : client'[j] # None})
               = Cardinality(Holders) + 1
          /\ Cardinality(available') = Cardinality(available)
          /\ created' = created
      BY <1>1, <2>1, <2>2, <2>3, <2>4
    <3>2. QED
      BY <3>1, Accounts
  <2>6. \A j \in Tasks : client'[j] # None =>
          /\ client'[j] \notin available'
          /\ \A m \in Tasks : client'[m] = client'[j] => m = j
    BY <1>1, <1>3, <1>5 DEF IInv, PoolAccounted
  <2>7. QED
    BY <2>5, <2>6 DEF PoolAccounted
<1>9. QED
  BY <1>4, <1>6, <1>7, <1>8 DEF IInv

LEMMA ConnectErrIInv ==
  ASSUME IInv, NEW i \in Tasks, ConnectErr(i)
  PROVE  IInv'
<1>1. /\ worker[i] = "connecting"
      /\ worker' = [worker EXCEPT ![i] = "error"]
      /\ client' = client /\ available' = available /\ created' = created - 1
      /\ UNCHANGED <<queue, view, check>> /\ kind' = kind
  BY DEF ConnectErr, queue
<1>2. /\ client \in [Tasks -> Tasks \cup {None}] /\ available \in SUBSET Tasks
      /\ worker[i] \in Busy /\ "error" \in Busy
      /\ client[i] = None /\ kind[i] # "localDelete"
  BY <1>1 DEF IInv, TypeOK, HoldInv, Busy, Results
<1>3. i \in Connecting /\ Cardinality(Connecting \ {i}) = Cardinality(Connecting) - 1
  BY <1>1, RemoveOne DEF Connecting
<1>4. Cardinality(Connecting \ {i}) \in Nat
  BY SubsetsFinite DEF Connecting
<1>5. created' \in Nat
  BY <1>1, <1>3, <1>4, Accounts
<1>6. /\ TypeOK' /\ WorkerInv' /\ QueueInv' /\ ConnInv'
      /\ worker'[i] = "error"
      /\ \A j \in Tasks : j # i => worker'[j] = worker[j]
  BY <1>1, <1>2, <1>5, WorkerStep
<1>7. HoldInv'
  BY <1>1, <1>2, <1>6 DEF IInv, HoldInv
<1>8. OriginInv'
  BY <1>1, <1>6 DEF IInv, OriginInv, Results
<1>9. PoolAccounted'
  <2>1. {j \in Tasks : worker'[j] = "connecting"} = Connecting \ {i}
    BY <1>1, <1>6 DEF Connecting
  <2>2. created' = Cardinality(available')
                     + Cardinality({j \in Tasks : worker'[j] = "connecting"})
                     + Cardinality({j \in Tasks : client'[j] # None})
    <3>1. /\ Cardinality({j \in Tasks : worker'[j] = "connecting"})
               = Cardinality(Connecting) - 1
          /\ Cardinality({j \in Tasks : client'[j] # None})
               = Cardinality(Holders)
          /\ Cardinality(available') = Cardinality(available)
      BY <1>1, <1>3, <2>1 DEF Holders
    <3>2. QED
      BY <1>1, <3>1, Accounts
  <2>3. QED
    BY <1>1, <2>2 DEF IInv, PoolAccounted
<1>10. QED
  BY <1>6, <1>7, <1>8, <1>9 DEF IInv

LEMMA FinishIInv ==
  ASSUME IInv, NEW i \in Tasks, NEW r \in Results, Finish(i, r)
  PROVE  IInv'
<1>1. /\ worker[i] = "working"
      /\ worker' = [worker EXCEPT ![i] = r]
      /\ Release(i) /\ created' = created
      /\ UNCHANGED <<queue, view, check>> /\ kind' = kind
  BY DEF Finish, queue
<1>2. /\ client \in [Tasks -> Tasks \cup {None}] /\ available \in SUBSET Tasks
      /\ None \notin Tasks
      /\ worker[i] \in Busy /\ r \in Busy
      /\ r \notin {"working", "connecting"}
      /\ client[i] # None <=> kind[i] # "localDelete"
  BY <1>1 DEF IInv, TypeOK, HoldInv, Tasks, None, Busy, Results
<1>3. /\ client' \in [Tasks -> Tasks \cup {None}] /\ available' \in SUBSET Tasks
      /\ client'[i] = None /\ \A j \in Tasks : j # i => client'[j] = client[j]
      /\ created' \in Nat
      /\ client[i] = None => UNCHANGED pool
  BY <1>1, <1>2, Accounts DEF Release, pool
<1>4. /\ TypeOK' /\ WorkerInv' /\ QueueInv' /\ ConnInv'
      /\ worker'[i] = r
      /\ \A j \in Tasks : j # i => worker'[j] = worker[j]
  <2>1. kind[i] = "localDelete" => UNCHANGED pool
    BY <1>2, <1>3
  <2>2. QED
    BY <1>1, <1>2, <1>3, <2>1, WorkerStep
<1>5. HoldInv'
  BY <1>1, <1>2, <1>3, <1>4 DEF IInv, HoldInv
<1>6. OriginInv'
  <2>1. \A c \in Tasks : c \in available' \/ (\E j \in Tasks : client'[j] = c) =>
          c \in available \/ (\E j \in Tasks : client[j] = c)
    BY <1>1, <1>2, <1>3 DEF Release
  <2>2. QED
    BY <1>1, <1>4, <2>1 DEF IInv, OriginInv
<1>7. PoolAccounted'
  <2>1. CASE client[i] = None
    <3>1. \A j \in Tasks : worker'[j] = "connecting" <=> worker[j] = "connecting"
      BY <1>1, <1>2, <1>4
    <3>2. QED
      BY <1>3, <2>1, <3>1, PoolKept DEF IInv
  <2>2. CASE client[i] # None
    <3>1. available' = available \cup {client[i]} /\ client[i] \in Tasks
          /\ client[i] \notin available
      BY <1>1, <1>2, <2>2 DEF Release, IInv, PoolAccounted
    <3>2. {j \in Tasks : worker'[j] = "connecting"} = Connecting
      BY <1>1, <1>2, <1>4 DEF Connecting
    <3>3. {j \in Tasks : client'[j] # None} = Holders \ {i} /\ i \in Holders
      BY <1>3, <2>2 DEF Holders
    <3>4. Cardinality(available \cup {client[i]}) = Cardinality(available) + 1
      BY <1>2, <3>1, AddOne
    <3>5. Cardinality(Holders \ {i}) = Cardinality(Holders) - 1
      BY <3>3, RemoveOne DEF Holders
    <3>6. created' = Cardinality(available')
                       + Cardinality({j \in Tasks : worker'[j] = "connecting"})
                       + Cardinality({j \in Tasks : client'[j] # None})
      <4>1. /\ Cardinality({j \in Tasks : worker'[j] = "connecting"})
                 = Cardinality(Connecting)
            /\ Cardinality({j \in Tasks : client'[j] # None})
                 = Cardinality(Holders) - 1
            /\ Cardinality(available') = Cardinality(available) + 1
        BY <3>1, <3>2, <3>3, <3>4, <3>5
      <4>2. QED
        BY <1>1, <4>1, Accounts
    <3>7. \A j \in Tasks : client'[j] # None =>
            /\ client'[j] \notin available'
            /\ \A m \in Tasks : client'[m] = client'[j] => m = j
      BY <1>3, <2>2, <3>1 DEF IInv, PoolAccounted
    <3>8. QED
      BY <3>6, <3>7 DEF PoolAccounted
  <2>3. QED
    BY <2>1, <2>2
<1>8. QED
  BY <1>4, <1>5, <1>6, <1>7 DEF IInv

-----------------------------------------------------------------------------
(* Steps of the tab *)

\* A step that leaves the queue, the workers and the pool alone.
LEMMA TabStep ==
  ASSUME IInv, UNCHANGED <<queue, worker, pool>>, TypeOK', ConnInv'
  PROVE  IInv'
<1>1. /\ enqueued' = enqueued /\ kind' = kind /\ state' = state
      /\ pending' = pending /\ worker' = worker
      /\ client' = client /\ available' = available /\ created' = created
  BY DEF queue, pool
<1>2. WorkerInv' /\ QueueInv' /\ HoldInv' /\ OriginInv'
  BY <1>1 DEF IInv, WorkerInv, QueueInv, HoldInv, OriginInv
<1>3. PoolAccounted'
  BY <1>1, PoolKept DEF IInv, pool
<1>4. QED
  BY <1>2, <1>3 DEF IInv

TabAction ==
  \/ RequestUpload \/ Listed \/ DropUpload \/ Connected \/ ConnectFailed
  \/ TryClose \/ DisconnectTaken \/ DeclineClose \/ Closed \/ Gone

LEMMA TabIInv ==
  ASSUME IInv, TabAction
  PROVE  IInv'
<1> USE DEF IInv, TypeOK, ConnInv, queue, pool, view
<1>1. CASE RequestUpload
  BY <1>1, TabStep DEF RequestUpload
<1>2. CASE Listed
  BY <1>2, TabStep DEF Listed
<1>3. CASE DropUpload
  BY <1>3, TabStep DEF DropUpload
<1>4. CASE Connected
  BY <1>4, TabStep DEF Connected
<1>5. CASE ConnectFailed
  BY <1>5, TabStep DEF ConnectFailed
<1>6. CASE TryClose
  BY <1>6, TabStep DEF TryClose
<1>7. CASE DisconnectTaken
  BY <1>7, TabStep DEF DisconnectTaken
<1>8. CASE DeclineClose
  BY <1>8, TabStep DEF DeclineClose
<1>9. CASE Closed
  BY <1>9, TabStep DEF Closed
<1>10. CASE Gone
  BY <1>10, TabStep DEF Gone
<1>11. QED
  BY <1>1, <1>2, <1>3, <1>4, <1>5, <1>6, <1>7, <1>8, <1>9, <1>10 DEF TabAction

LEMMA ConfirmIInv ==
  ASSUME IInv, ConfirmClose
  PROVE  IInv'
<1>1. /\ tab' = "cancelling" /\ pending' = {}
      /\ state' = [i \in Tasks |-> IF state[i] = "pending" THEN "cancelled" ELSE state[i]]
      /\ flagged' = flagged \cup Running(state)
      /\ enqueued' = enqueued /\ kind' = kind /\ worker' = worker
      /\ client' = client /\ available' = available /\ created' = created
      /\ conn' = conn /\ sftp' = sftp /\ held' = held /\ check' = check
      /\ UNCHANGED pool
  BY DEF ConfirmClose, pool
<1>2. TypeOK'
  BY <1>1 DEF IInv, TypeOK, TaskStates, Final, Running
<1>3. WorkerInv'
  BY <1>1 DEF IInv, WorkerInv
<1>4. QueueInv'
  <2>1. Running(state') = Running(state)
    BY <1>1 DEF Running
  <2>2. QED
    BY <1>1, <2>1 DEF IInv, QueueInv
<1>5. HoldInv' /\ OriginInv' /\ ConnInv'
  BY <1>1 DEF IInv, HoldInv, OriginInv, ConnInv
<1>6. PoolAccounted'
  BY <1>1, PoolKept DEF IInv
<1>7. QED
  BY <1>2, <1>3, <1>4, <1>5, <1>6 DEF IInv

LEMMA ReconnectIInv ==
  ASSUME IInv, Reconnect
  PROVE  IInv'
<1>1. /\ conn = "disconnected" /\ conn' = "connecting" /\ sftp' = "none"
      /\ available' = {} /\ created' = 0
      /\ enqueued' = enqueued /\ kind' = kind /\ state' = state
      /\ pending' = pending /\ flagged' = flagged /\ worker' = worker
      /\ client' = client /\ tab' = tab /\ held' = held /\ check' = check
  BY DEF Reconnect, queue
<1>2. TypeOK'
  BY <1>1 DEF IInv, TypeOK
<1>3. WorkerInv' /\ QueueInv' /\ HoldInv'
  BY <1>1 DEF IInv, WorkerInv, QueueInv, HoldInv
<1>4. OriginInv' /\ ConnInv'
  BY <1>1 DEF IInv, OriginInv, ConnInv
<1>5. available = available' /\ created = created'
  BY <1>1 DEF IInv, ConnInv
<1>6. PoolAccounted'
  BY <1>1, <1>5, PoolKept DEF IInv, pool
<1>7. QED
  BY <1>2, <1>3, <1>4, <1>6 DEF IInv

-----------------------------------------------------------------------------
(* Every step *)

LEMMA NextIInv ==
  ASSUME IInv, [Next]_vars
  PROVE  IInv'
<1>1. ASSUME NEW n \in Tasks, Download(n)
      PROVE  IInv'
  <2>1. conn = "connected" /\ "transfer" \in Kinds
    BY <1>1 DEF Download, IInv, ConnInv, Kinds
  <2>2. Enqueue("transfer", n) /\ check' = check
    BY <1>1 DEF Download
  <2>3. QED
    BY <2>1, <2>2, EnqueueIInv
<1>2. ASSUME NEW n \in Tasks, Upload(n)
      PROVE  IInv'
  <2>1. conn = "connected" /\ "transfer" \in Kinds
    BY <1>2 DEF Upload, IInv, ConnInv, Kinds
  <2>2. Enqueue("transfer", n) /\ check' = "no"
    BY <1>2 DEF Upload
  <2>3. QED
    BY <2>1, <2>2, EnqueueIInv
<1>3. 1 \in Tasks /\ {"delete", "localDelete"} \subseteq Kinds
  BY TransfersAssumption DEF Tasks, Kinds
<1>4. CASE Delete
  <2>1. conn = "connected"
    BY <1>4 DEF Delete, IInv, ConnInv
  <2>2. Enqueue("delete", 1) /\ check' = check
    BY <1>4 DEF Delete
  <2>3. QED
    BY <1>3, <2>1, <2>2, EnqueueIInv
<1>5. CASE DeleteLocal
  <2>1. Enqueue("localDelete", 1) /\ check' = check
    BY <1>5 DEF DeleteLocal
  <2>2. QED
    BY <1>3, <2>1, EnqueueIInv
<1>6. ASSUME NEW i \in Tasks,
             \/ CancelTransfer(i)
             \/ BeginLocal(i) \/ Acquire(i) \/ ConnectOk(i) \/ ConnectErr(i)
             \/ Succeed(i) \/ Fail(i) \/ Abandon(i)
             \/ Deliver(i)
      PROVE  IInv'
  <2>1. CASE CancelTransfer(i)
    BY <2>1, CancelIInv
  <2>2. CASE BeginLocal(i)
    BY <2>2, BeginIInv
  <2>3. CASE Acquire(i)
    BY <2>3, AcquireIInv
  <2>4. CASE ConnectOk(i)
    BY <2>4, ConnectOkIInv
  <2>5. CASE ConnectErr(i)
    BY <2>5, ConnectErrIInv
  <2>6. CASE Succeed(i) \/ Fail(i) \/ Abandon(i)
    <3>1. PICK r \in Results : Finish(i, r)
      BY <2>6 DEF Succeed, Fail, Abandon, Results
    <3>2. QED
      BY <3>1, FinishIInv
  <2>7. CASE Deliver(i)
    BY <2>7, DeliverIInv
  <2>8. QED
    BY <1>6, <2>1, <2>2, <2>3, <2>4, <2>5, <2>6, <2>7
<1>7. CASE TabAction
  BY <1>7, TabIInv
<1>8. CASE ConfirmClose
  BY <1>8, ConfirmIInv
<1>9. CASE Reconnect
  BY <1>9, ReconnectIInv
<1>10. CASE UNCHANGED vars
  <2>1. TypeOK' /\ ConnInv' /\ UNCHANGED <<queue, worker, pool>>
    BY <1>10 DEF vars, queue, pool, IInv, TypeOK, ConnInv
  <2>2. QED
    BY <2>1, TabStep
<1>11. QED
  BY <1>1, <1>2, <1>4, <1>5, <1>6, <1>7, <1>8, <1>9, <1>10 DEF Next, TabAction

LEMMA NextSteps ==
  ASSUME IInv, [Next]_vars
  PROVE  InOrder /\ EndedKept /\ (WorkConserving => WorkConserving')
<1>1. CASE state' = state
  BY <1>1 DEF InOrder, EndedKept, WorkConserving
<1>2. CASE ConfirmClose
  <2>1. state' = [i \in Tasks |-> IF state[i] = "pending" THEN "cancelled" ELSE state[i]]
    BY <1>2 DEF ConfirmClose
  <2>2. QED
    BY <2>1 DEF InOrder, EndedKept, Final, WorkConserving
<1>3. ASSUME NEW k \in Kinds, NEW n \in Tasks, Enqueue(k, n),
             conn = "connected" \/ k = "localDelete", check' \in {check, "no"}
      PROVE  InOrder /\ EndedKept /\ WorkConserving'
  BY <1>3, EnqueueIInv
<1>4. ASSUME NEW n \in Tasks, Download(n) \/ Upload(n)
      PROVE  InOrder /\ EndedKept /\ WorkConserving'
  <2>1. conn = "connected" /\ "transfer" \in Kinds
    BY <1>4 DEF Download, Upload, IInv, ConnInv, Kinds
  <2>2. Enqueue("transfer", n) /\ check' \in {check, "no"}
    BY <1>4 DEF Download, Upload
  <2>3. QED
    BY <2>1, <2>2, <1>3
<1>5. ASSUME Delete \/ DeleteLocal
      PROVE  InOrder /\ EndedKept /\ WorkConserving'
  <2>1. PICK k \in {"delete", "localDelete"} :
          /\ Enqueue(k, 1) /\ check' = check
          /\ conn = "connected" \/ k = "localDelete"
    BY <1>5 DEF Delete, DeleteLocal, IInv, ConnInv
  <2>2. 1 \in Tasks /\ k \in Kinds
    BY TransfersAssumption DEF Tasks, Kinds
  <2>3. QED
    BY <2>1, <2>2, <1>3
<1>6. ASSUME NEW i \in Tasks, CancelTransfer(i)
      PROVE  InOrder /\ EndedKept /\ WorkConserving'
  BY <1>6, CancelIInv
<1>7. ASSUME NEW i \in Tasks, Deliver(i)
      PROVE  InOrder /\ EndedKept /\ WorkConserving'
  BY <1>7, DeliverIInv
<1>8. ASSUME NEW i \in Tasks,
             \/ BeginLocal(i) \/ Acquire(i) \/ ConnectOk(i) \/ ConnectErr(i)
             \/ Succeed(i) \/ Fail(i) \/ Abandon(i)
      PROVE  state' = state
  BY <1>8 DEF BeginLocal, Acquire, ConnectOk, ConnectErr, Succeed, Fail,
              Abandon, Finish, queue
<1>9. TabAction \/ Reconnect \/ UNCHANGED vars => state' = state
  BY DEF TabAction, RequestUpload, Listed, DropUpload, Connected, ConnectFailed,
         TryClose, DisconnectTaken, DeclineClose, Closed, Gone, Reconnect,
         queue, vars
<1>10. QED
  BY <1>1, <1>2, <1>4, <1>5, <1>6, <1>7, <1>8, <1>9 DEF Next, TabAction

-----------------------------------------------------------------------------
(* Theorems *)

\* The inductive invariant holds in every reachable state, for any limit and
\* any number of tasks.
THEOREM TransfersInvariant == Spec => []IInv
<1>1. IInv /\ [Next]_vars => IInv'
  BY NextIInv
<1>2. QED
  BY InitIInv, <1>1, PTL DEF Spec

\* Type correctness of the SFTP tab.
THEOREM TransferTypes == Spec => []TypeOK
<1>1. IInv => TypeOK
  BY DEF IInv
<1>2. QED
  BY TransfersInvariant, <1>1, PTL

\* No way out of a transfer leaks a connection or shares one (lib.rs:267-300).
THEOREM EveryPlaceAccounted == Spec => []PoolAccounted
<1>1. IInv => PoolAccounted
  BY DEF IInv
<1>2. QED
  BY TransfersInvariant, <1>1, PTL

\* The queue never starts a task the pool has no place for: those that hold a
\* place all run, and one that has just started is not among them.
LEMMA StartedFindsPlace == IInv => NeverExhausted
<1> SUFFICES ASSUME IInv, NEW i \in Tasks,
                    worker[i] = "started", kind[i] # "localDelete", available = {}
             PROVE  created < MaxConcurrent
  BY DEF NeverExhausted
<1>1. Connecting \cap Holders = {}
  BY DEF IInv, HoldInv, Connecting, Holders
<1>2. Connecting \cup Holders \subseteq Running(state) \ {i}
  <2>1. \A j \in Connecting \cup Holders : worker[j] \in {"connecting", "working"}
    BY DEF IInv, HoldInv, Connecting, Holders
  <2>2. QED
    BY <2>1 DEF IInv, WorkerInv, Busy, Running, Connecting, Holders
<1>3. i \in Running(state)
  BY DEF IInv, WorkerInv, Busy, Running
<1>4. Cardinality(Running(state) \ {i}) = Cardinality(Running(state)) - 1
  BY <1>3, RemoveOne DEF Running
<1>5. /\ IsFiniteSet(Connecting) /\ IsFiniteSet(Holders)
      /\ IsFiniteSet(Running(state) \ {i})
      /\ Cardinality(Running(state)) \in Nat
      /\ Cardinality(Connecting \cup Holders) \in Nat
  <2>1. /\ Connecting \in SUBSET Tasks /\ Holders \in SUBSET Tasks
        /\ Running(state) \in SUBSET Tasks /\ Running(state) \ {i} \in SUBSET Tasks
        /\ Connecting \cup Holders \in SUBSET Tasks
    BY DEF Connecting, Holders, Running
  <2>2. QED
    BY <2>1, SubsetsFinite
<1>6. Cardinality(Connecting \cup Holders)
        = Cardinality(Connecting) + Cardinality(Holders)
          - Cardinality(Connecting \cap Holders)
  BY <1>5, FS_Union
<1>7. Cardinality(Connecting \cap Holders) = 0
  BY <1>1, FS_EmptySet
<1>8. Cardinality(Connecting \cup Holders) <= Cardinality(Running(state) \ {i})
  BY <1>2, <1>5, FS_Subset
<1>9. Cardinality(Running(state)) <= MaxConcurrent
  BY DEF IInv, QueueInv
<1>10. created = Cardinality(Connecting) + Cardinality(Holders)
  <2>1. Cardinality(available) = 0
    BY FS_EmptySet
  <2>2. QED
    BY <2>1, Accounts
<1>11. QED
  BY <1>4, <1>5, <1>6, <1>7, <1>8, <1>9, <1>10, Accounts, TransfersAssumption

\* No started task fails with "Transfer client pool exhausted" (lib.rs:277).
THEOREM StartedFindPlace == Spec => []NeverExhausted
BY TransfersInvariant, StartedFindsPlace, PTL

\* No slot is idle while a task waits (lib.rs:2267-2279 after every change).
THEOREM SlotsAreUsed == Spec => []WorkConserving
<1>1. Init => WorkConserving
  BY DEF Init, WorkConserving
<1>2. IInv /\ WorkConserving /\ [Next]_vars => WorkConserving'
  BY NextSteps
<1>3. QED
  BY TransfersInvariant, <1>1, <1>2, PTL DEF Spec

\* Tasks start in the order in which they were enqueued (lib.rs:232-253).
THEOREM StartOrder == Spec => StartsInOrder
<1>1. IInv /\ [Next]_vars =>
        [\A i, j \in Tasks :
           i < j /\ state'[i] = "pending" =>
             (state'[j] = "running" => state[j] = "running")]_vars
  BY NextSteps DEF InOrder
<1>2. QED
  BY TransfersInvariant, <1>1, PTL DEF Spec, StartsInOrder

\* Nothing that arrives late changes a task that has ended (lib.rs:2903-2940).
THEOREM EndedStay == Spec => EndedStaysEnded
<1>1. IInv /\ [Next]_vars =>
        [\A i \in Tasks : state[i] \in Final => state'[i] = state[i]]_vars
  BY NextSteps DEF EndedKept
<1>2. QED
  BY TransfersInvariant, <1>1, PTL DEF Spec, EndedStaysEnded

-----------------------------------------------------------------------------
(* The tab implements the queue of transfers.  WorkConserving is needed to    *)
(* tell a running task to stop: the scheduling that follows starts nothing.   *)

LEMMA SameCardinality ==
  ASSUME NEW S
  PROVE  Queue!Cardinality(S) = Cardinality(S)
BY DEF Queue!Cardinality, Cardinality

LEMMA ScheduleAdmits ==
  ASSUME NEW s \in [Tasks -> TaskStates], NEW q \in SUBSET Tasks,
         NEW w \in [Tasks -> WorkerStates],
         \A i \in Tasks : s[i] = "pending" => i \in q,
         Cardinality(Running(s)) <= MaxConcurrent,
         Schedule(s, q, w)
  PROVE  /\ Queue!Admit({i \in Tasks : s[i] = "pending"}, Running(s))
         /\ InState(Final)' = {i \in Tasks : s[i] \in Final}
<1> DEFINE W == {i \in Tasks : s[i] = "pending"}
           S == {i \in W : state'[i] = "running"}
<1>1. Scheduled(s, w)
  BY ScheduleEffect
<1>2. \A i \in Tasks : state'[i] = s[i] \/ (s[i] = "pending" /\ state'[i] = "running")
  BY <1>1 DEF Scheduled
<1>3. W \ S = InState({"pending"})' /\ Running(s) \cup S = InState({"running"})'
  BY <1>2 DEF InState, Running
<1>4. InState({"running"})' = Running(state')
  BY DEF InState, Running
<1>5. InState(Final)' = {i \in Tasks : s[i] \in Final}
  BY <1>2 DEF InState, Final
<1>6. ASSUME NEW i \in S, NEW j \in W \ S
      PROVE  i < j
  <2>1. /\ i \in Tasks /\ j \in Tasks /\ s[i] = "pending" /\ s[j] = "pending"
        /\ state'[i] = "running" /\ state'[j] = "pending"
    BY <1>2
  <2>2. ~ (j < i) /\ i # j
    BY <1>1, <2>1 DEF Scheduled
  <2>3. i \in Nat /\ j \in Nat
    BY <2>1, TransfersAssumption DEF Tasks
  <2> QED BY <2>2, <2>3
<1>7. Cardinality(Running(s) \cup S) <= MaxConcurrent
  BY <1>1, <1>3, <1>4 DEF Scheduled
<1>8. W \ S # {} => Cardinality(Running(s) \cup S) = MaxConcurrent
  BY <1>1, <1>3, <1>4 DEF Scheduled, InState
<1> HIDE DEF W, S
<1>9. S \in SUBSET W
  BY DEF S
<1>10. Queue!Admit(W, Running(s))
  BY <1>3, <1>6, <1>7, <1>8, <1>9, SameCardinality DEF Queue!Admit
<1> QED BY <1>5, <1>10 DEF W

LEMMA EnqueueRefines ==
  ASSUME IInv, NEW k \in Kinds, NEW n \in Tasks, Enqueue(k, n)
  PROVE  Queue!Next
<1> DEFINE new == enqueued + 1 .. enqueued + n
           s == [i \in Tasks |-> IF i \in new THEN "pending" ELSE state[i]]
<1>1. /\ enqueued + n <= MaxTasks /\ enqueued' = enqueued + n
      /\ Schedule(s, pending \cup new, worker) /\ UNCHANGED flagged
  BY DEF Enqueue
<1>2. /\ enqueued \in Nat /\ n \in Nat /\ MaxTasks \in Nat
      /\ state \in [Tasks -> TaskStates] /\ worker \in [Tasks -> WorkerStates]
      /\ pending \in SUBSET Tasks
  BY TransfersAssumption DEF IInv, TypeOK, Tasks
<1>3. new \in SUBSET Tasks /\ \A i \in new : i > enqueued
  BY <1>1, <1>2 DEF Tasks
<1>4. \A i \in new : state[i] = "none"
  BY <1>3 DEF IInv, WorkerInv
<1>5. s \in [Tasks -> TaskStates] /\ pending \cup new \in SUBSET Tasks
  BY <1>2, <1>3 DEF TaskStates
<1>6. \A i \in Tasks : s[i] = "pending" => i \in pending \cup new
  BY DEF IInv, QueueInv
<1>7. /\ Running(s) = Running(state) /\ Running(state) = InState({"running"})
      /\ {i \in Tasks : s[i] = "pending"} = InState({"pending"}) \cup new
      /\ {i \in Tasks : s[i] \in Final} = InState(Final)
  BY <1>3, <1>4 DEF Running, InState, Final
<1>8. Cardinality(Running(s)) <= MaxConcurrent
  BY <1>7 DEF IInv, QueueInv
<1>9. /\ Queue!Admit({i \in Tasks : s[i] = "pending"}, Running(s))
      /\ InState(Final)' = {i \in Tasks : s[i] \in Final}
  <2> HIDE DEF s, new
  <2> QED BY <1>1, <1>2, <1>5, <1>6, <1>8, ScheduleAdmits
<1>10. Queue!Admit(InState({"pending"}) \cup new, InState({"running"})) /\ UNCHANGED InState(Final)
  <2> HIDE DEF s, new
  <2> QED BY <1>7, <1>9
<1> QED BY <1>1, <1>3, <1>10 DEF Queue!Next, Queue!Arrive

LEMMA CancelRefines ==
  ASSUME IInv, WorkConserving, NEW c \in Tasks, CancelTransfer(c)
  PROVE  Queue!Next
<1> DEFINE s == [state EXCEPT ![c] = IF @ = "pending" THEN "cancelled" ELSE @]
<1>1. /\ Schedule(s, pending, worker) /\ enqueued' = enqueued
      /\ flagged' = IF state[c] = "running" THEN flagged \cup {c} ELSE flagged
      /\ state[c] \in {"pending", "running"}
  BY DEF CancelTransfer
<1>2. /\ state \in [Tasks -> TaskStates] /\ worker \in [Tasks -> WorkerStates]
      /\ pending \in SUBSET Tasks
  BY DEF IInv, TypeOK
<1>3. \A i \in Tasks : \/ s[i] = state[i] /\ (i = c => state[i] = "running")
                       \/ i = c /\ state[i] = "pending" /\ s[i] = "cancelled"
  BY <1>1, <1>2
<1>4. s \in [Tasks -> TaskStates]
  BY <1>2 DEF TaskStates, Final
<1>5. /\ Running(s) = Running(state) /\ Running(state) = InState({"running"})
      /\ {i \in Tasks : s[i] = "pending"} = InState({"pending"}) \ {c}
  BY <1>1, <1>3 DEF Running, InState
<1>6. /\ Queue!Admit(InState({"pending"}) \ {c}, InState({"running"}))
      /\ InState(Final)' = {i \in Tasks : s[i] \in Final}
  <2>1. \A i \in Tasks : s[i] = "pending" => i \in pending
    BY <1>3 DEF IInv, QueueInv
  <2>2. Cardinality(Running(s)) <= MaxConcurrent
    BY <1>5 DEF IInv, QueueInv
  <2> HIDE DEF s
  <2>3. /\ Queue!Admit({i \in Tasks : s[i] = "pending"}, Running(s))
        /\ InState(Final)' = {i \in Tasks : s[i] \in Final}
    BY <1>1, <1>2, <1>4, <2>1, <2>2, ScheduleAdmits
  <2> QED BY <1>5, <2>3
<1>7. CASE state[c] = "pending"
  <2>1. c \in InState({"pending"}) /\ {i \in Tasks : s[i] \in Final} = InState(Final) \cup {c}
    BY <1>2, <1>7 DEF InState, Final
  <2>2. Queue!Withdraw(c)
    BY <1>1, <1>6, <1>7, <2>1 DEF Queue!Withdraw
  <2> QED BY <2>2 DEF Queue!Next
<1>8. CASE state[c] = "running"
  <2>1. c \in InState({"running"}) /\ {i \in Tasks : s[i] \in Final} = InState(Final)
    BY <1>2, <1>8 DEF InState, Final
  <2>2. InState({"pending"}) \ {c} = InState({"pending"})
    BY <1>8 DEF InState
  <2>3. PICK S \in SUBSET InState({"pending"}) :
          /\ Cardinality(InState({"running"}) \cup S) <= MaxConcurrent
          /\ InState({"running"})' = InState({"running"}) \cup S
          /\ InState({"pending"})' = InState({"pending"}) \ S
    BY <1>6, <2>2, SameCardinality DEF Queue!Admit
  <2>4. S = {}
    <3> SUFFICES ASSUME NEW x \in S PROVE FALSE
      OBVIOUS
    <3>1. x \in Tasks /\ state[x] = "pending" /\ x \notin InState({"running"})
      BY <2>3 DEF InState
    <3>2. Cardinality(InState({"running"})) = MaxConcurrent
      BY <1>5, <3>1 DEF WorkConserving
    <3>3. /\ InState({"running"}) \in SUBSET Tasks
          /\ InState({"running"}) \cup S \in SUBSET Tasks
      BY <2>3 DEF InState
    <3>4. Cardinality(InState({"running"}) \cup {x}) = MaxConcurrent + 1
      BY <3>1, <3>2, <3>3, AddOne
    <3>5. Cardinality(InState({"running"}) \cup {x}) <= Cardinality(InState({"running"}) \cup S)
      BY <3>3, SubsetsFinite, FS_Subset
    <3>6. Cardinality(InState({"running"}) \cup S) \in Nat
      BY <3>3, SubsetsFinite
    <3> QED BY <2>3, <3>4, <3>5, <3>6, TransfersAssumption
  <2>5. Queue!Tell(c)
    BY <1>1, <1>6, <1>8, <2>1, <2>3, <2>4 DEF Queue!Tell
  <2> QED BY <2>5 DEF Queue!Next
<1> QED BY <1>1, <1>7, <1>8

LEMMA DeliverRefines ==
  ASSUME IInv, NEW d \in Tasks, Deliver(d)
  PROVE  Queue!Next
<1> DEFINE s == [state EXCEPT ![d] = Outcome(worker[d])]
           w == [worker EXCEPT ![d] = "over"]
<1>1. /\ Schedule(s, pending, w) /\ worker[d] \in Results
      /\ enqueued' = enqueued /\ flagged' = flagged
  BY DEF Deliver
<1>2. /\ state \in [Tasks -> TaskStates] /\ worker \in [Tasks -> WorkerStates]
      /\ pending \in SUBSET Tasks
  BY DEF IInv, TypeOK
<1>3. state[d] = "running" /\ Outcome(worker[d]) \in Final
  BY <1>1 DEF IInv, WorkerInv, Busy, Outcome, Results, Final
<1>4. \A i \in Tasks : IF i = d THEN s[i] \in Final ELSE s[i] = state[i]
  BY <1>2, <1>3
<1>5. s \in [Tasks -> TaskStates] /\ w \in [Tasks -> WorkerStates]
  BY <1>2, <1>3 DEF TaskStates, WorkerStates
<1>6. /\ Running(s) = InState({"running"}) \ {d}
      /\ {i \in Tasks : s[i] = "pending"} = InState({"pending"})
      /\ {i \in Tasks : s[i] \in Final} = InState(Final) \cup {d}
  BY <1>3, <1>4 DEF Running, InState, Final
<1>7. \A i \in Tasks : s[i] = "pending" => i \in pending
  BY <1>4 DEF IInv, QueueInv, Final
<1>8. Cardinality(Running(s)) <= MaxConcurrent
  <2>1. InState({"running"}) = Running(state) /\ Running(state) \in SUBSET Tasks
    BY DEF InState, Running
  <2>2. Cardinality(InState({"running"}) \ {d}) = Cardinality(Running(state)) - 1
    BY <1>3, <2>1, RemoveOne DEF Running
  <2>3. Cardinality(Running(state)) \in Nat /\ Cardinality(Running(state)) <= MaxConcurrent
    BY <2>1, SubsetsFinite DEF IInv, QueueInv
  <2> HIDE DEF s
  <2> QED BY <1>6, <2>2, <2>3, TransfersAssumption
<1>9. d \in InState({"running"})
  BY <1>3 DEF InState
<1> HIDE DEF s, w
<1>10. /\ Queue!Admit({i \in Tasks : s[i] = "pending"}, Running(s))
       /\ InState(Final)' = {i \in Tasks : s[i] \in Final}
  BY <1>1, <1>2, <1>5, <1>7, <1>8, ScheduleAdmits
<1>11. /\ Queue!Admit(InState({"pending"}), InState({"running"}) \ {d})
       /\ InState(Final)' = InState(Final) \cup {d}
  BY <1>6, <1>10
<1>12. Queue!End(d)
  BY <1>1, <1>9, <1>11 DEF Queue!End
<1> QED BY <1>12 DEF Queue!Next

LEMMA ConfirmRefines ==
  ASSUME ConfirmClose
  PROVE  Queue!Next
<1>1. /\ state' = [i \in Tasks |-> IF state[i] = "pending" THEN "cancelled" ELSE state[i]]
      /\ flagged' = flagged \cup Running(state) /\ enqueued' = enqueued
  BY DEF ConfirmClose
<1>2. /\ InState({"pending"})' = {} /\ InState({"running"})' = InState({"running"})
      /\ InState(Final)' = InState(Final) \cup InState({"pending"})
  BY <1>1 DEF InState, Final
<1>3. Running(state) = InState({"running"})
  BY DEF Running, InState
<1> QED BY <1>1, <1>2, <1>3 DEF Queue!Next, Queue!Abort

LEMMA TransferStepRefines ==
  IInv /\ WorkConserving /\ [Next]_vars => [Queue!Next]_(Queue!vars)
<1> SUFFICES ASSUME IInv, WorkConserving, [Next]_vars
             PROVE  Queue!Next \/ UNCHANGED Queue!vars
  OBVIOUS
<1>1. CASE UNCHANGED <<enqueued, state, flagged>>
  BY <1>1 DEF Queue!vars, InState
<1>2. CASE ConfirmClose
  BY <1>2, ConfirmRefines
<1>3. ASSUME NEW n \in Tasks, Download(n) \/ Upload(n)
      PROVE  Queue!Next
  BY <1>3, EnqueueRefines DEF Download, Upload, Kinds
<1>4. CASE Delete \/ DeleteLocal
  <2>1. 1 \in Tasks
    BY TransfersAssumption DEF Tasks
  <2> QED BY <1>4, <2>1, EnqueueRefines DEF Delete, DeleteLocal, Kinds
<1>5. ASSUME NEW i \in Tasks, CancelTransfer(i)
      PROVE  Queue!Next
  BY <1>5, CancelRefines
<1>6. ASSUME NEW i \in Tasks, Deliver(i)
      PROVE  Queue!Next
  BY <1>6, DeliverRefines
<1>7. ASSUME NEW i \in Tasks,
             \/ BeginLocal(i) \/ Acquire(i) \/ ConnectOk(i) \/ ConnectErr(i)
             \/ Succeed(i) \/ Fail(i) \/ Abandon(i)
      PROVE  UNCHANGED <<enqueued, state, flagged>>
  BY <1>7 DEF BeginLocal, Acquire, ConnectOk, ConnectErr, Succeed, Fail,
              Abandon, Finish, queue
<1>8. TabAction \/ Reconnect \/ UNCHANGED vars => UNCHANGED <<enqueued, state, flagged>>
  BY DEF TabAction, RequestUpload, Listed, DropUpload, Connected, ConnectFailed,
         TryClose, DisconnectTaken, DeclineClose, Closed, Gone, Reconnect,
         queue, vars
<1> QED
  BY <1>1, <1>2, <1>3, <1>4, <1>5, <1>6, <1>7, <1>8 DEF Next, TabAction

\* The tab implements the queue: the order of starts, the limit, the use of
\* every slot and what cancelling means hold whatever workers, results,
\* connecting and closing do (lib.rs:215-260 and 2267-2279).
THEOREM TransfersImplement == Spec => ImplementsTransferQueue
<1>1. Init => Queue!Init
  BY DEF Init, Queue!Init, InState, Final
<1>2. IInv /\ WorkConserving /\ [Next]_vars => [Queue!Next]_(Queue!vars)
  BY TransferStepRefines
<1> QED
  BY <1>1, <1>2, TransfersInvariant, SlotsAreUsed, PTL
     DEF Spec, Queue!Spec, ImplementsTransferQueue

=============================================================================

--------------------------- MODULE WorkerPool_proofs ---------------------------
(***************************************************************************)
(* Proofs about WorkerPool, and about the controller that is torn down     *)
(* while its jobs wait (Teardown), for any number of workers and jobs.     *)
(***************************************************************************)
EXTENDS Teardown, FiniteSetTheorems, TLAPS

\* A pool starts with no job, its workers awake, or without workers.
LEMMA InitInv == Init => Inv
<1> SUFFICES ASSUME Init PROVE Inv
  OBVIOUS
<1>1. inline \in BOOLEAN /\ stopping \in BOOLEAN
  BY Zenon DEF Init
<1>2. TypeOK
  BY <1>1, WorkerPoolAssumption DEF Init, TypeOK, Places
<1>3. threads = {} => inline
  BY Zenon DEF Init
<1>4. Placed
  BY <1>3, WorkerPoolAssumption DEF Init, Placed, Asleep, Joined
<1>5. Len(queue) = 0 /\ Len(ran) = 0 /\ given = 0
  BY DEF Init
<1>6. InOrder
  BY <1>5 DEF InOrder
<1> QED BY <1>2, <1>4, <1>6 DEF Inv

\* Every variable keeps its type: nothing but given jobs waits or runs.
LEMMA TypeStep ==
    ASSUME Inv, [Next]_vars
    PROVE  TypeOK'
<1> USE WorkerPoolAssumption DEF Inv, TypeOK, Places
<1>1. CASE RunInline
  BY <1>1 DEF RunInline
<1>2. CASE Add
  <2>1. given' \in 1 .. MaxJobs /\ Append(queue, given') \in Seq(1 .. MaxJobs)
    BY <1>2 DEF Add
  <2>2. queue' \in Seq(1 .. MaxJobs) /\ owner' \in {"free", "notify", "notifyAll", "join"}
    BY <1>2, <2>1 DEF Add, AfterPush
  <2> QED BY <1>2, <2>1, <2>2 DEF Add
<1>3. CASE Stop
  BY <1>3 DEF Stop
<1>4. CASE NotifyOne
  BY <1>4 DEF NotifyOne, WakeOne, Asleep
<1>5. CASE NotifyAll
  BY <1>5 DEF NotifyAll, WakeAll
<1>6. CASE Join
  BY <1>6 DEF Join
<1>7. ASSUME NEW w \in Workers, Start(w) PROVE TypeOK'
  <2>1. Head(queue) \in 1 .. MaxJobs /\ Tail(queue) \in Seq(1 .. MaxJobs)
    BY <1>7 DEF Start
  <2> QED BY <1>7, <2>1 DEF Start, Popped
<1>8. ASSUME NEW w \in Workers, Exit(w) \/ Sleep(w) \/ Finish(w) \/ SpuriousWake(w) PROVE TypeOK'
  BY <1>8 DEF Exit, Sleep, Finish, LookAgain, SpuriousWake
<1>9. CASE UNCHANGED vars
  BY <1>9 DEF vars
<1> QED BY <1>1, <1>2, <1>3, <1>4, <1>5, <1>6, <1>7, <1>8, <1>9 DEF Next, Owner, Work

\* A worker leaves only when the pool stops, and stop() joins only those who left.
LEMMA PlacedStep ==
    ASSUME Inv, [Next]_vars
    PROVE  Placed'
<1> USE DEF Inv, TypeOK, Placed, Asleep, Joined
<1>1. CASE RunInline
  BY <1>1 DEF RunInline
<1>2. CASE Add
  BY <1>2 DEF Add, AfterPush
<1>3. CASE Stop
  BY <1>3 DEF Stop
<1>4. CASE NotifyOne
  BY <1>4 DEF NotifyOne, WakeOne
<1>5. CASE NotifyAll
  BY <1>5 DEF NotifyAll, WakeAll
<1>6. CASE Join
  BY <1>6 DEF Join, AllGone
<1>7. ASSUME NEW w \in Workers, Start(w) PROVE Placed'
  <2>1. Head(queue) # NoJob
    BY <1>7, WorkerPoolAssumption DEF Start
  <2>2. w \in threads /\ ~inline
    BY <1>7 DEF Start
  <2> QED BY <1>7, <2>1, <2>2 DEF Start, Popped
<1>8. ASSUME NEW w \in Workers, Exit(w) \/ Sleep(w) PROVE Placed'
  BY <1>8 DEF Exit, Sleep
<1>9. ASSUME NEW w \in Workers, Finish(w) \/ SpuriousWake(w) PROVE Placed'
  BY <1>9 DEF Finish, LookAgain, SpuriousWake
<1>10. CASE UNCHANGED vars
  BY <1>10 DEF vars
<1> QED
  BY <1>1, <1>2, <1>3, <1>4, <1>5, <1>6, <1>7, <1>8, <1>9, <1>10 DEF Next, Owner, Work

\* What has started and what waits stays the numbers given, in order.
LEMMA OrderStep ==
    ASSUME Inv, [Next]_vars
    PROVE  InOrder'
<1> USE WorkerPoolAssumption DEF Inv, TypeOK, InOrder
<1>1. CASE RunInline
  BY <1>1 DEF RunInline, Placed
<1>2. CASE Add
  <2>1. given' = given + 1 /\ ran' = ran /\ stopping' = stopping
    BY <1>2 DEF Add
  <2>2. CASE stopping
    BY <1>2, <2>1, <2>2 DEF Add
  <2>3. CASE ~stopping
    <3>1. queue' = Append(queue, given + 1) /\ Len(ran) + Len(queue) = given
      BY <1>2, <2>1, <2>3 DEF Add
    <3>2. Len(queue') = Len(queue) + 1 /\ Len(queue) \in Nat /\ Len(ran) \in Nat
      BY <3>1
    <3>3. \A n \in 1 .. Len(queue') : queue'[n] = Len(ran) + n
      <4>1. \A n \in 1 .. Len(queue) : queue'[n] = Len(ran) + n
        BY <3>1
      <4>2. queue'[Len(queue) + 1] = given + 1
        BY <3>1
      <4>3. \A n \in 1 .. Len(queue') : n \in 1 .. Len(queue) \/ n = Len(queue) + 1
        BY <3>2
      <4> HIDE DEF Inv, TypeOK, InOrder
      <4>4. given + 1 = Len(ran) + (Len(queue) + 1)
        BY <3>1, <3>2
      <4> QED BY <4>1, <4>2, <4>3, <4>4
    <3>4. Len(ran) + Len(queue') = given'
      BY <2>1, <3>1, <3>2
    <3> HIDE DEF TypeOK
    <3>5. \A n \in 1 .. Len(ran') : ran'[n] = n
      BY <2>1
    <3>6. Len(ran') + Len(queue') <= given'
      BY <2>1, <3>2, <3>4 DEF TypeOK
    <3> QED BY <2>1, <3>3, <3>4, <3>5, <3>6
  <2> QED BY <2>2, <2>3
<1>3. CASE Stop
  BY <1>3 DEF Stop
<1>4. CASE Owner
  BY <1>4 DEF Owner, NotifyOne, WakeOne, NotifyAll, Join
<1>5. ASSUME NEW w \in Workers, Start(w) PROVE InOrder'
  <2>1. /\ queue # << >> /\ ran' = Append(ran, Head(queue)) /\ queue' = Tail(queue)
        /\ UNCHANGED <<given, stopping>>
    BY <1>5 DEF Start, Popped
  <2>2. /\ Len(ran') = Len(ran) + 1 /\ Len(queue') = Len(queue) - 1
        /\ Len(ran) \in Nat /\ Len(queue) \in Nat \ {0}
    BY <2>1
  <2>3. Head(queue) = Len(ran) + 1
    BY <2>1, <2>2
  <2>4. \A n \in 1 .. Len(queue') : queue'[n] = queue[n + 1] /\ n + 1 \in 1 .. Len(queue)
    BY <2>1, <2>2
  <2>5. \A n \in 1 .. Len(ran') : ran'[n] = n
    BY <2>1, <2>2, <2>3
  <2>6. \A n \in 1 .. Len(queue') : queue'[n] = Len(ran') + n
    <3> SUFFICES ASSUME NEW n \in 1 .. Len(queue') PROVE queue'[n] = Len(ran') + n
      OBVIOUS
    <3>1. queue'[n] = queue[n + 1] /\ queue[n + 1] = Len(ran) + (n + 1)
      BY <2>4
    <3> QED BY <2>2, <3>1
  <2>7. Len(ran') + Len(queue') = Len(ran) + Len(queue)
    BY <2>2
  <2> QED BY <2>1, <2>5, <2>6, <2>7
<1>6. ASSUME NEW w \in Workers, Exit(w) \/ Sleep(w) \/ Finish(w) \/ SpuriousWake(w) PROVE InOrder'
  BY <1>6 DEF Exit, Sleep, Finish, SpuriousWake
<1>7. CASE UNCHANGED vars
  BY <1>7 DEF vars
<1> QED BY <1>1, <1>2, <1>3, <1>4, <1>5, <1>6, <1>7 DEF Next, Work

\* Jobs start in the order given, each once, and a worker leaves only on stop().
THEOREM Invariance == Spec => []Inv
<1>1. Init => Inv
  BY InitInv
<1>2. Inv /\ [Next]_vars => Inv'
  BY TypeStep, PlacedStep, OrderStep DEF Inv
<1> QED BY <1>1, <1>2, PTL DEF Spec

\* When stop() has returned nothing of the pool runs.
THEOREM StopTheorem == Spec => []NothingRunsAfterStop
<1>1. Inv => NothingRunsAfterStop
  BY DEF Inv, TypeOK, Placed, Joined, NothingRunsAfterStop
<1> QED BY <1>1, Invariance, PTL

-----------------------------------------------------------------------------
Awake == {w \in threads : place[w] = "awake"}
Notices == IF owner = "notify" THEN 1 ELSE 0

\* Of finitely many workers, finitely many are awake, and one that gets up or
\* leaves their number changes it by one.
LEMMA AwakeCount ==
    ASSUME Inv, IsFiniteSet(Workers)
    PROVE  /\ Cardinality(Awake) \in Nat
           /\ \A w \in threads \ Awake : Cardinality(Awake \cup {w}) = Cardinality(Awake) + 1
           /\ \A w \in Awake : Cardinality(Awake \ {w}) = Cardinality(Awake) - 1
<1>1. Awake \subseteq Workers
  BY DEF Awake, Inv, TypeOK
<1>2. IsFiniteSet(Awake)
  BY <1>1, FS_Subset
<1> QED BY <1>2, FS_CardinalityType, FS_AddElement, FS_RemoveElement

\* One notification for each job, sent after the push, wakes enough workers: it
\* may find nobody asleep, and then somebody awake looks at the queue.
THEOREM NotifyTheorem ==
    ASSUME IsFiniteSet(Workers)
    PROVE  Spec => []JobsHaveWorkers
<1> DEFINE Enough == Asleep # {} => Len(queue) <= Cardinality(Awake) + Notices
<1>1. Enough <=> JobsHaveWorkers
  BY DEF JobsHaveWorkers, Awake, Notices
<1>2. Init => Enough
  BY DEF Init, Asleep
<1>3. Inv /\ Enough /\ [Next]_vars => Enough'
  <2> SUFFICES ASSUME Inv, Enough, [Next]_vars PROVE Enough'
    OBVIOUS
  <2> USE DEF Inv, TypeOK
  <2>a. Awake' \subseteq Workers
    BY TypeStep DEF Awake
  <2>b. Len(queue) \in Nat /\ Cardinality(Awake) \in Nat
    BY AwakeCount
  <2>c. Cardinality(Awake)' \in Nat
    BY <2>a, FS_Subset, FS_CardinalityType
  <2>0. Len(queue) \in Nat /\ Cardinality(Awake) \in Nat /\ Cardinality(Awake)' \in Nat
    BY <2>b, <2>c
  <2>1. CASE queue' = << >>
    BY <2>0, <2>1 DEF Notices
  <2>2. CASE Add
    BY <2>0, <2>2 DEF Add, AfterPush, Awake, Asleep, Notices
  <2>3. CASE NotifyOne
    <3>1. CASE Asleep = {}
      BY <2>3, <3>1 DEF NotifyOne, WakeOne, Asleep
    <3>2. CASE Asleep # {}
      <4>1. PICK w \in Asleep : place' = [place EXCEPT ![w] = "awake"]
        BY <2>3, <3>2 DEF NotifyOne, WakeOne
      <4>2. w \in threads \ Awake /\ Awake' = Awake \cup {w} /\ queue' = queue
        BY <2>3, <4>1 DEF NotifyOne, WakeOne, Asleep, Awake
      <4>3. Cardinality(Awake)' = Cardinality(Awake) + 1
        BY <4>2, AwakeCount
      <4> QED BY <2>0, <2>3, <3>2, <4>2, <4>3 DEF NotifyOne, WakeOne, Notices
    <3> QED BY <3>1, <3>2
  <2>4. ASSUME NEW w \in Workers, Start(w) PROVE Enough'
    <3>1. w \in Awake /\ Awake' = Awake \ {w} /\ Asleep' = Asleep
      BY <2>4 DEF Start, Awake, Asleep, Placed
    <3>2. Len(queue') = Len(queue) - 1 /\ owner' = owner
      BY <2>4 DEF Start, Popped
    <3>3. Cardinality(Awake)' = Cardinality(Awake) - 1
      BY <3>1, AwakeCount
    <3> QED BY <2>0, <3>1, <3>2, <3>3 DEF Notices
  <2>5. ASSUME NEW w \in Workers, Finish(w) \/ SpuriousWake(w) PROVE Enough'
    <3>1. w \in threads \ Awake /\ Awake' = Awake \cup {w} /\ queue' = queue /\ owner' = owner
      BY <2>5 DEF Finish, LookAgain, SpuriousWake, Awake, Placed
    <3>2. Asleep' # {} => Asleep # {}
      BY <2>5 DEF Finish, LookAgain, SpuriousWake, Asleep
    <3>3. Cardinality(Awake)' = Cardinality(Awake) + 1
      BY <3>1, AwakeCount
    <3> QED BY <2>0, <3>1, <3>2, <3>3 DEF Notices
  <2>6. CASE UNCHANGED vars
    BY <2>0, <2>6 DEF vars, Awake, Asleep, Notices
  <2>7. ASSUME RunInline \/ Stop \/ NotifyAll \/ Join \/ \E w \in Workers : Exit(w) \/ Sleep(w)
        PROVE  queue' = << >>
    BY <2>7 DEF RunInline, Stop, NotifyAll, Join, Exit, Sleep, Placed
  <2> QED BY <2>1, <2>2, <2>3, <2>4, <2>5, <2>6, <2>7 DEF Next, Owner, Work
<1> QED BY <1>1, <1>2, <1>3, Invariance, PTL DEF Spec

-----------------------------------------------------------------------------
(* The controller and its destructor.                                      *)

\* Whatever a job waits for, the pool under it is WorkerPool's.
LEMMA PoolSteps == [TeardownNext]_allVars => [Next]_vars
<1> SUFFICES ASSUME [TeardownNext]_allVars PROVE [Next]_vars
  OBVIOUS
<1>1. CASE AddJob \/ AddInline
  BY <1>1 DEF AddJob, AddInline, Next
<1>2. CASE CancelLicensing \/ SiblingLocks \/ SiblingUnlocks
  BY <1>2 DEF CancelLicensing, CancelTransport, SiblingLocks, SiblingUnlocks
<1>3. CASE Destructor
  BY <1>3 DEF Destructor, CancelInventory, CancelTransport, CancelLockWaits, StopPool, Next
<1>4. CASE PoolOwner
  BY <1>4 DEF PoolOwner, Next
<1>5. ASSUME NEW w \in Workers, JobStep(w) \/ Wakes(w) \/ ServerAnswers(w) PROVE [Next]_vars
  <2>1. \/ Exit(w) \/ Sleep(w) \/ Start(w) \/ Finish(w) \/ SpuriousWake(w)
        \/ UNCHANGED vars
    BY <1>5 DEF JobStep, PoolWorker, StartJob, TakeTurn, TakeLock, Send, Request, FinishJob, Wakes,
                ServerAnswers
  <2> QED
    BY <2>1 DEF Next, Work
<1>6. CASE UNCHANGED allVars
  BY <1>6 DEF allVars
<1> QED
  BY <1>1, <1>2, <1>3, <1>4, <1>5, <1>6 DEF TeardownNext

\* A controller's workers are a worker pool: what holds of the one holds of the other.
THEOREM PoolTheorem == TeardownSpec => Spec
<1>1. TeardownInit => Init
  BY DEF TeardownInit
<1> QED
  BY <1>1, PoolSteps, PTL DEF TeardownSpec, Spec

\* cancel() finds every stream that may block in the registry.
Registered == \A w \in Workers : stream[w] \in {"open", "read"} => w \in active

RequestsInv == Http!RequestsOK /\ Http!NoneEscapes /\ Http!ReachesLiveStreams /\ Registered

\* A request is registered before it may block, and cancel() and the registry's look at
\* the flag come one after the other: either the stream is refused, or it is reached.
LEMMA RequestsStep ==
    ASSUME RequestsInv,
           \/ \E w \in Workers : \/ \E t \in Transports : Http!Make(w, t)
                                 \/ Http!Register(w) \/ Http!Answer(w) \/ Http!Unregister(w)
           \/ \E t \in Transports : Http!Cancel(t)
           \/ UNCHANGED requests
    PROVE  RequestsInv'
<1> USE DEF RequestsInv, Http!RequestsOK, Http!NoneEscapes, Http!ReachesLiveStreams, Registered,
            Http!Stages
<1>1. ASSUME NEW w \in Workers, NEW t \in Transports, Http!Make(w, t) PROVE RequestsInv'
  BY <1>1 DEF Http!Make
<1>2. ASSUME NEW w \in Workers, Http!Register(w) PROVE RequestsInv'
  BY <1>2 DEF Http!Register, Http!Destroy, Http!Refused
<1>3. ASSUME NEW w \in Workers, Http!Answer(w) PROVE RequestsInv'
  BY <1>3 DEF Http!Answer
<1>4. ASSUME NEW w \in Workers, Http!Unregister(w) PROVE RequestsInv'
  BY <1>4 DEF Http!Unregister, Http!Destroy
<1>5. ASSUME NEW t \in Transports, Http!Cancel(t) PROVE RequestsInv'
  BY <1>5 DEF Http!Cancel
<1>6. CASE UNCHANGED requests
  BY <1>6 DEF requests
<1> QED
  BY <1>1, <1>2, <1>3, <1>4, <1>5, <1>6

LEMMA TeardownRequests ==
    ASSUME RequestsInv, [TeardownNext]_allVars
    PROVE  RequestsInv'
<1> DEFINE Moves == \/ \E w \in Workers : \/ \E t \in Transports : Http!Make(w, t)
                                         \/ Http!Register(w) \/ Http!Answer(w) \/ Http!Unregister(w)
                    \/ \E t \in Transports : Http!Cancel(t)
                    \/ UNCHANGED requests
<1>1. ASSUME AddJob \/ AddInline \/ PoolOwner \/ SiblingLocks \/ SiblingUnlocks \/ UNCHANGED allVars
      PROVE  Moves
  BY <1>1 DEF AddJob, AddInline, PoolOwner, SiblingLocks, SiblingUnlocks, Unchanged, allVars
<1>2. ASSUME CancelLicensing \/ Destructor PROVE Moves
  <2>1. \/ \E t \in {"licensing", "inventory"} : Http!Cancel(t)
        \/ UNCHANGED requests
    BY <1>2 DEF CancelLicensing, Destructor, CancelInventory, CancelTransport, CancelLockWaits, StopPool,
                Unchanged
  <2> QED
    BY <2>1, TeardownAssumption
<1>3. ASSUME NEW w \in Workers, Send(w) PROVE Moves
  BY <1>3, TeardownAssumption DEF Send, TransportOf
<1>4. ASSUME NEW w \in Workers, Request(w) \/ ServerAnswers(w) PROVE Moves
  BY <1>4 DEF Request, ServerAnswers, Http!Interrupted
<1>5. ASSUME NEW w \in Workers,
             PoolWorker(w) \/ StartJob(w) \/ TakeTurn(w) \/ TakeLock(w) \/ FinishJob(w) \/ Wakes(w)
      PROVE  Moves
  BY <1>5 DEF PoolWorker, StartJob, TakeTurn, TakeLock, FinishJob, Wakes, Unchanged
<1>6. Moves
  BY <1>1, <1>2, <1>3, <1>4, <1>5 DEF TeardownNext, JobStep
<1> HIDE DEF Moves
<1>7. Moves => RequestsInv'
  BY RequestsStep DEF Moves
<1> QED
  BY <1>6, <1>7

\* Where the jobs stand, and what they hold.
HoldersInv ==
    /\ waits \in [Workers -> {"none", "turn", "lock", "send", "asking", "over"}]
    /\ turn \in Workers \cup {NoJob}
    /\ lock \in Workers \cup {"sibling", NoJob}
    /\ giveUp \in BOOLEAN
    /\ phase \in {"alive", "licensing", "inventory", "locks", "stop"}
    /\ turn \in Workers => place[turn] = "running"
    /\ lock \in Workers => place[lock] = "running"
    /\ \A w \in Workers : waits[w] = "none" <=> place[w] # "running"

\* A worker that is not told to do so neither starts nor ends a job.
LEMMA PlacesStay ==
    ASSUME TypeOK, HoldersInv, UNCHANGED jobState, giveUp' \in BOOLEAN,
           phase' \in {"alive", "licensing", "inventory", "locks", "stop"},
           \A w \in Workers : place'[w] = "running" <=> place[w] = "running"
    PROVE  HoldersInv'
BY DEF HoldersInv, jobState

LEMMA HoldersStep ==
    ASSUME TypeOK, HoldersInv, [TeardownNext]_allVars
    PROVE  HoldersInv'
<1>T. /\ place \in [Workers -> Places] /\ threads \subseteq Workers
      /\ giveUp \in BOOLEAN /\ phase \in {"alive", "licensing", "inventory", "locks", "stop"}
  BY DEF TypeOK, HoldersInv
<1>1. CASE AddJob \/ AddInline \/ UNCHANGED allVars
  <2>1. UNCHANGED <<place, jobState, giveUp, phase>>
    BY <1>1 DEF AddJob, AddInline, Add, RunInline, Unchanged, allVars, vars
  <2> QED
    BY <2>1, <1>T, PlacesStay
<1>2. CASE CancelLicensing \/ Destructor
  <2>1. /\ UNCHANGED <<place, jobState>> /\ giveUp' \in BOOLEAN
        /\ phase' \in {"alive", "licensing", "inventory", "locks", "stop"}
    BY <1>2, <1>T DEF CancelLicensing, Destructor, CancelInventory, CancelTransport, CancelLockWaits, StopPool,
                      Stop, Unchanged, vars, jobState
  <2> QED
    BY <2>1, PlacesStay
<1>3. CASE PoolOwner
  <2>1. /\ UNCHANGED <<jobState, giveUp, phase>>
        /\ \/ place' = place \/ WakeOne \/ WakeAll
    BY <1>3 DEF PoolOwner, Owner, NotifyOne, NotifyAll, Join, Unchanged
  <2>2. \A w \in Workers : place'[w] = "running" <=> place[w] = "running"
    BY <2>1, <1>T DEF WakeOne, WakeAll, Asleep
  <2> QED
    BY <2>1, <2>2, <1>T, PlacesStay
<1>4. ASSUME NEW w \in Workers, PoolWorker(w) \/ Wakes(w) PROVE HoldersInv'
  <2>1. /\ UNCHANGED <<jobState, giveUp, phase>>
        /\ place[w] \in {"awake", "asleep"}
        /\ \E at \in {"gone", "asleep", "awake"} : place' = [place EXCEPT ![w] = at]
    BY <1>4 DEF PoolWorker, Wakes, Exit, Sleep, SpuriousWake, Unchanged
  <2>2. \A v \in Workers : place'[v] = "running" <=> place[v] = "running"
    BY <2>1, <1>T
  <2> QED
    BY <2>1, <2>2, <1>T, PlacesStay
<1>5. ASSUME NEW w \in Workers, StartJob(w) PROVE HoldersInv'
  <2>1. /\ place[w] = "awake" /\ place' = [place EXCEPT ![w] = "running"]
        /\ UNCHANGED <<turn, lock, giveUp, phase>>
        /\ \E what \in {"turn", "lock", "send"} : waits' = [waits EXCEPT ![w] = what]
    BY <1>5 DEF StartJob, Start, Goes, Begins
  <2> QED
    BY <2>1, <1>T DEF HoldersInv
<1>6. ASSUME NEW w \in Workers, FinishJob(w) PROVE HoldersInv'
  <2>1. /\ place[w] = "running" /\ place' = [place EXCEPT ![w] = "awake"]
        /\ waits' = [waits EXCEPT ![w] = "none"]
        /\ turn' = IF turn = w THEN NoJob ELSE turn
        /\ lock' = IF lock = w THEN NoJob ELSE lock
        /\ UNCHANGED <<giveUp, phase>>
    BY <1>6 DEF FinishJob, Finish, LookAgain, Goes
  <2> QED
    BY <2>1, <1>T, TeardownAssumption DEF HoldersInv
<1>7. ASSUME NEW w \in Workers, TakeTurn(w) \/ TakeLock(w) \/ Send(w) \/ Request(w) \/ ServerAnswers(w)
      PROVE  HoldersInv'
  <2>1. /\ UNCHANGED <<place, giveUp, phase>>
        /\ \/ UNCHANGED waits
           \/ /\ waits[w] # "none"
              /\ \E what \in {"lock", "send", "asking", "over"} : waits' = [waits EXCEPT ![w] = what]
        /\ turn' # turn => waits[w] # "none" /\ turn' = w
        /\ lock' # lock => waits[w] # "none" /\ lock' = w
    BY <1>7 DEF TakeTurn, TakeLock, Send, Request, ServerAnswers, Goes, vars, jobState
  <2> QED
    BY <2>1, <1>T DEF HoldersInv
<1>8. CASE SiblingLocks \/ SiblingUnlocks
  BY <1>8, TeardownAssumption DEF SiblingLocks, SiblingUnlocks, HoldersInv, vars
<1> QED
  BY <1>1, <1>2, <1>3, <1>4, <1>5, <1>6, <1>7, <1>8 DEF TeardownNext, JobStep

\* Whoever the destructor waits for, it can reach: the turn and the lock are held by
\* jobs that run, and no request of theirs slips past cancel().
THEOREM ReachTheorem == TeardownSpec => []HoldersAreReached
<1>1. TeardownInit => RequestsInv /\ HoldersInv
  <2> SUFFICES ASSUME TeardownInit PROVE RequestsInv /\ HoldersInv
    OBVIOUS
  <2>1. RequestsInv
    BY DEF TeardownInit, Http!NoRequests, RequestsInv, Http!RequestsOK, Http!NoneEscapes,
           Http!ReachesLiveStreams, Registered, Http!Stages
  <2>2. \A w \in Workers : place[w] \in {"awake", "gone"}
    BY DEF TeardownInit, Init
  <2>3. HoldersInv
    BY <2>2, TeardownAssumption DEF TeardownInit, HoldersInv
  <2> QED
    BY <2>1, <2>3
<1>2. Inv /\ RequestsInv /\ HoldersInv /\ [TeardownNext]_allVars => RequestsInv' /\ HoldersInv'
  BY TeardownRequests, HoldersStep DEF Inv
<1>3. RequestsInv /\ HoldersInv => HoldersAreReached
  BY DEF RequestsInv, HoldersInv, HoldersAreReached, TeardownOK
<1>4. TeardownSpec => []Inv
  BY PoolTheorem, Invariance, PTL
<1> QED
  BY <1>1, <1>2, <1>3, <1>4, PTL DEF TeardownSpec
=============================================================================

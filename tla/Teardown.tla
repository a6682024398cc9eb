------------------------------- MODULE Teardown -------------------------------
(***************************************************************************)
(* A controller with its workers, while it is used and while it is torn    *)
(* down: the pool of WorkerPool runs jobs that wait for their turn, for    *)
(* the license lock and for the server, and the destructor interrupts the  *)
(* waits before it stops the pool.                                         *)
(***************************************************************************)
EXTENDS WorkerPool

CONSTANTS
    Transports,     \* {"licensing", "inventory"}
    Does            \* [1 .. MaxJobs -> {"online", "check", "poll", "release"}]

ASSUME TeardownAssumption ==
    /\ Transports = {"licensing", "inventory"}
    /\ Does \in [1 .. MaxJobs -> {"online", "check", "poll", "release"}]
    /\ NoJob \notin Workers /\ "sibling" \notin Workers

VARIABLES
    on, stream, active, cut, cancelled,
    waits,      \* what each worker's job does next
    turn,       \* onlineCalls_: the worker that holds it, or NoJob
    lock,       \* the license lock: a worker, "sibling", or NoJob
    giveUp,     \* cancel_lock_waits() was called
    phase       \* the destructor's progress

Http == INSTANCE HttpTransport

requests == <<on, stream, active, cut, cancelled>>
jobState == <<waits, turn, lock>>
allVars == <<vars, requests, jobState, giveUp, phase>>

TeardownOK ==
    /\ Http!RequestsOK
    /\ waits \in [Workers -> {"none", "turn", "lock", "send", "asking", "over"}]
    /\ turn \in Workers \cup {NoJob}
    /\ lock \in Workers \cup {"sibling", NoJob}
    /\ giveUp \in BOOLEAN
    /\ phase \in {"alive", "licensing", "inventory", "locks", "stop"}

TeardownInit ==
    /\ Init /\ Http!NoRequests
    /\ waits = [w \in Workers |-> "none"]
    /\ turn = NoJob /\ lock = NoJob /\ giveUp = FALSE
    /\ phase = "alive"

Goes(w, what) == waits' = [waits EXCEPT ![w] = what]

-----------------------------------------------------------------------------
(* A job, from its start to its end.                                       *)

Begins(n) == CASE Does[n] = "online" -> "turn"
               [] Does[n] = "check"  -> "lock"
               [] OTHER -> "send"

StartJob(w) ==
    /\ Start(w)
    /\ Goes(w, Begins(Head(queue)))
    /\ UNCHANGED <<requests, turn, lock, giveUp, phase>>

\* The lock_guard on onlineCalls_ of a refresh and of an add-on call.
TakeTurn(w) ==
    /\ waits[w] = "turn" /\ turn = NoJob
    /\ turn' = w
    /\ Goes(w, "lock")
    /\ UNCHANGED <<vars, requests, lock, giveUp, phase>>

\* validate_mutex_ and lock_for_update: a free lock is taken, and a wait for a sibling
\* is given up once giveUp is set.  The wait for a job of this instance is the mutex's,
\* which nothing interrupts.
TakeLock(w) ==
    /\ waits[w] = "lock"
    /\ \/ lock = NoJob /\ lock' = w /\ Goes(w, "send")
       \/ lock = "sibling" /\ giveUp /\ Goes(w, "over") /\ UNCHANGED lock
    /\ UNCHANGED <<vars, requests, turn, giveUp, phase>>

TransportOf(n) == IF Does[n] = "release" THEN "inventory" ELSE "licensing"

Send(w) ==
    /\ waits[w] = "send"
    /\ Http!Make(w, TransportOf(job[w]))
    /\ Goes(w, "asking")
    /\ UNCHANGED <<vars, turn, lock, giveUp, phase>>

\* The request is refused, interrupted or read; the job goes on without it.
Request(w) ==
    /\ waits[w] = "asking"
    /\ Http!Register(w) \/ Http!Interrupted(w) \/ Http!Unregister(w)
    /\ IF stream'[w] = "none" THEN Goes(w, "over") ELSE UNCHANGED waits
    /\ UNCHANGED <<vars, turn, lock, giveUp, phase>>

ServerAnswers(w) ==
    /\ Http!Answer(w)
    /\ UNCHANGED <<vars, jobState, giveUp, phase>>

\* The guards of the job go out of scope.
FinishJob(w) ==
    /\ waits[w] = "over" /\ Finish(w)
    /\ Goes(w, "none")
    /\ turn' = IF turn = w THEN NoJob ELSE turn
    /\ lock' = IF lock = w THEN NoJob ELSE lock
    /\ UNCHANGED <<requests, giveUp, phase>>

SiblingLocks ==
    /\ lock = NoJob /\ lock' = "sibling"
    /\ UNCHANGED <<vars, requests, waits, turn, giveUp, phase>>

SiblingUnlocks ==
    /\ lock = "sibling" /\ lock' = NoJob
    /\ UNCHANGED <<vars, requests, waits, turn, giveUp, phase>>

-----------------------------------------------------------------------------
(* ~ActivationController: cancelInFlight_, then the pool's stop().          *)

Unchanged == UNCHANGED <<requests, jobState, giveUp>>

AddJob == phase = "alive" /\ Add /\ Unchanged /\ UNCHANGED phase

\* Without threads the job runs here, on the message thread, to its end; nobody
\* can tear the controller down meanwhile.
AddInline == phase = "alive" /\ RunInline /\ Unchanged /\ UNCHANGED phase

CancelTransport(t, next) ==
    /\ Http!Cancel(t)
    /\ phase' = next
    /\ UNCHANGED <<vars, jobState, giveUp>>

CancelLicensing == phase = "alive" /\ owner = "free" /\ CancelTransport("licensing", "licensing")

\* Mutant: the transport of the update calls is forgotten.
InventoryForgotten ==
    phase = "licensing" /\ phase' = "inventory" /\ UNCHANGED <<vars, requests, jobState, giveUp>>

CancelInventory == phase = "licensing" /\ CancelTransport("inventory", "inventory")

CancelLockWaits ==
    /\ phase = "inventory"
    /\ giveUp' = TRUE /\ phase' = "locks"
    /\ UNCHANGED <<vars, requests, jobState>>

StopPool ==
    /\ phase = "locks"
    /\ \/ Stop
       \/ threads = {} /\ UNCHANGED vars
    /\ phase' = "stop"
    /\ Unchanged

Destructor == CancelInventory \/ CancelLockWaits \/ StopPool

PoolOwner == Owner /\ Unchanged /\ UNCHANGED phase
PoolWorker(w) == (Exit(w) \/ Sleep(w)) /\ Unchanged /\ UNCHANGED phase
Wakes(w) == SpuriousWake(w) /\ Unchanged /\ UNCHANGED phase

JobStep(w) ==
    \/ PoolWorker(w) \/ StartJob(w) \/ TakeTurn(w) \/ TakeLock(w)
    \/ Send(w) \/ Request(w) \/ FinishJob(w)

TeardownNext ==
    \/ AddJob \/ AddInline \/ CancelLicensing \/ Destructor \/ PoolOwner
    \/ (\E w \in Workers : JobStep(w) \/ Wakes(w) \/ ServerAnswers(w))
    \/ SiblingLocks \/ SiblingUnlocks

\* Threads are scheduled, and the destructor runs on once it has begun.  The
\* server may never answer and a sibling may never let go of the lock.
TeardownFairness ==
    /\ WF_allVars(Destructor) /\ WF_allVars(PoolOwner)
    /\ \A w \in Workers : WF_allVars(JobStep(w))

TeardownSpec == TeardownInit /\ [][TeardownNext]_allVars /\ TeardownFairness

-----------------------------------------------------------------------------
\* The license lock and the turn are held by workers that run a job, and the requests
\* they make are within cancel()'s reach: whoever the destructor waits for, it can
\* reach.
HoldersAreReached ==
    /\ TeardownOK
    /\ turn \in Workers => place[turn] = "running"
    /\ lock \in Workers => place[lock] = "running"
    /\ \A w \in Workers : waits[w] = "none" <=> place[w] # "running"
    /\ Http!NoneEscapes /\ Http!ReachesLiveStreams

\* The destructor returns, whatever the server and the siblings do.
DestructorReturns == phase # "alive" ~> phase = "stop" /\ threads = {}

\* While the server answers and the siblings let go of the lock, every job given is
\* started in the end (MaxJobs ends the giving), or dropped by stop().
Responsive ==
    /\ \A w \in Workers : WF_allVars(ServerAnswers(w))
    /\ \A w \in Workers : SF_allVars(TakeLock(w))
    /\ WF_allVars(SiblingUnlocks)
JobsGetTheirTurn ==
    Responsive => (Len(ran) < given ~> Len(ran) = given \/ stopping)
=============================================================================

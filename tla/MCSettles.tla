------------------------------- MODULE MCSettles -------------------------------
(***************************************************************************)
(* What must happen in the end, on three small systems side by side: a     *)
(* controller that is torn down under its workers (Teardown), a controller *)
(* that is left alone, and two plugin instances on one license file.  They *)
(* share no state, so a behaviour moves one of them, and the others stand  *)
(* where they began.                                                       *)
(***************************************************************************)
EXTENDS Teardown

CONSTANTS w1, w2, NoLicense, full, i1, i2, worker, message, sibling, NoThread

\* Two calls that take turns, a call of the update server and a check.
MCDoes == <<"online", "online", "release", "check">>

VARIABLES
    part,
    self, jobs, posted, disk, changed, existed, watching, elsewhere, issued, stale, ended,
    log, seats, lastAt, now, stored, lockHolder, mutex, closing, pc, call, token, answer,
    inGrace, outcome, superseded, begun, forgotten, floor

controllerVars == <<self, jobs, posted, disk, changed, existed, watching, elsewhere,
                    issued, stale, ended>>
callVars == <<log, seats, lastAt, now, stored, lockHolder, mutex, closing, pc, call,
              token, answer, inGrace, outcome, superseded, begun, forgotten, floor>>

\* One license, and no host: the user, siblings and time.
Controller == INSTANCE ActivationController WITH
    Activations <- {full}, KindOf <- [a \in {full} |-> "full"], Workers <- 1,
    HostCalls <- {}, Siblings <- {"check", "remove"}, Times <- {"end", "grace"},
    MaxJobs <- 2, MaxIssued <- 2

\* i1 closes; refreshes hold the locks through their requests, clearing waits for them,
\* and nothing is throttled.
Calls == INSTANCE LicenseUpdates WITH
    active <- seats, Activations <- {full},
    Instances <- {i1, i2}, Threads <- {worker, message, sibling},
    InstanceOf <- [t \in {worker, message, sibling} |-> IF t = sibling THEN i2 ELSE i1],
    Kinds <- {"refresh", "forget"}, Events <- {"close"}, MinInterval <- 0, Grace <- 1,
    MaxCalls <- 3, MaxTime <- 0

\* What stands still has no thread, no license or an empty file.
SettlesInit ==
    /\ part \in {"teardown", "controller", "calls"}
    /\ TeardownInit /\ Controller!Init /\ Calls!Init
    /\ part # "teardown" => threads = {}
    /\ part # "controller" => disk = NoLicense
    /\ part # "calls" => stored = 0

SettlesNext ==
    \/ part = "teardown" /\ TeardownNext /\ UNCHANGED <<part, controllerVars, callVars>>
    \/ part = "controller" /\ Controller!Next /\ UNCHANGED <<part, allVars, callVars>>
    \/ part = "calls" /\ Calls!Next /\ UNCHANGED <<part, allVars, controllerVars>>

\* The fairness of TeardownSpec for the destructor and its workers, that of FairSpec
\* for the controller; of the callers only i1 is known to be scheduled: i2 may hang, in
\* a request or anywhere else.
SettlesSpec ==
    /\ SettlesInit /\ [][SettlesNext]_<<part, allVars, controllerVars, callVars>>
    /\ WF_allVars(part = "teardown" /\ Destructor)
    /\ WF_allVars(part = "teardown" /\ PoolOwner)
    /\ \A w \in Workers : WF_allVars(part = "teardown" /\ JobStep(w))
    /\ WF_controllerVars(part = "controller" /\ Controller!WatchLicense)
    /\ WF_controllerVars(part = "controller" /\ Controller!RunJob(1))
    /\ WF_controllerVars(part = "controller" /\ Controller!Continue)
    /\ WF_callVars(part = "calls" /\ Calls!Step(worker))
    /\ WF_callVars(part = "calls" /\ Calls!Step(message))

\* A controller left alone: a load settles on a screen, a license file that is removed
\* is noticed, and a license that runs out is locked or replaced (ActivationController).
LoadingEnds     == Controller!LoadingEnds
RemovalLocks    == Controller!RemovalLocks
RunOutIsSettled == Controller!RunOutIsSettled

\* An instance that closes gets its calls back although the sibling that holds the
\* lock may never run again (store.hpp, cancel_lock_waits); and with the sibling
\* scheduled too no call waits for ever on the mutex, the file lock or a request
\* (licensing.hpp, validate_token_online and call_and_store).
CallsReturn ==
    /\ Calls!ClosingJoins(i1)
    /\ WF_callVars(part = "calls" /\ Calls!Step(sibling)) => Calls!EveryCallReturns
=============================================================================

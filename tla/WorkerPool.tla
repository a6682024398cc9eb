------------------------------ MODULE WorkerPool ------------------------------
(***************************************************************************)
(* The controller's background workers (juce/WorkerPool.h): a queue of     *)
(* jobs, threads that sleep on a condition variable, and stop(), which     *)
(* drops the queue and joins them.  The controller's message thread owns   *)
(* the pool: it alone adds jobs and stops it.  What happens under the      *)
(* queue's mutex is one step; a notification comes after it.               *)
(***************************************************************************)
EXTENDS Integers, Sequences, FiniteSets

CONSTANTS
    Workers,    \* the threads the pool asks for
    NoJob,      \* what an idle worker runs
    MaxJobs     \* bound: jobs given in a behaviour, numbered in that order

ASSUME WorkerPoolAssumption == MaxJobs \in Nat /\ NoJob \notin Nat

VARIABLES
    threads,    \* the workers that were started and not yet joined
    inline,     \* none could be: jobs run on the owner's thread
    queue,      \* jobs waiting
    stopping,   \* stop() was called
    place,      \* where each worker stands
    job,        \* the job it runs
    owner,      \* where the message thread stands
    given,      \* jobs given so far
    ran         \* history: the jobs started, in the order they were

vars == <<threads, inline, queue, stopping, place, job, owner, given, ran>>

Places == {"awake", "asleep", "running", "gone"}

TypeOK ==
    /\ threads \subseteq Workers
    /\ inline \in BOOLEAN
    /\ queue \in Seq(1 .. MaxJobs)
    /\ stopping \in BOOLEAN
    /\ place \in [Workers -> Places]
    /\ job \in [Workers -> 1 .. MaxJobs \cup {NoJob}]
    /\ owner \in {"free", "notify", "notifyAll", "join"}
    /\ given \in 0 .. MaxJobs
    /\ ran \in Seq(1 .. MaxJobs)

\* The system may refuse to start a thread: the pool makes do with those before.
Init ==
    /\ threads \in SUBSET Workers
    /\ inline = (threads = {})
    /\ place = [w \in Workers |-> IF w \in threads THEN "awake" ELSE "gone"]
    /\ queue = << >>
    /\ stopping = FALSE
    /\ job = [w \in Workers |-> NoJob]
    /\ owner = "free"
    /\ given = 0
    /\ ran = << >>

-----------------------------------------------------------------------------
\* addJob
RunInline ==
    /\ inline /\ owner = "free" /\ given < MaxJobs
    /\ given' = given + 1
    /\ ran' = Append(ran, given')
    /\ UNCHANGED <<threads, inline, queue, stopping, place, job, owner>>

OnlyWhenEmpty == IF queue = << >> THEN "notify" ELSE "free"
AfterPush == "notify"

Add ==
    /\ ~inline /\ owner = "free" /\ given < MaxJobs
    /\ given' = given + 1
    /\ IF stopping
         THEN UNCHANGED <<queue, owner>>
         ELSE queue' = Append(queue, given') /\ owner' = AfterPush
    /\ UNCHANGED <<threads, inline, stopping, place, job, ran>>

Asleep == {w \in threads : place[w] = "asleep"}

WakeOne ==
    \/ Asleep = {} /\ UNCHANGED place
    \/ \E w \in Asleep : place' = [place EXCEPT ![w] = "awake"]

\* wake_.notify_one(), after the mutex was given back.
NotifyOne ==
    /\ owner = "notify"
    /\ owner' = "free"
    /\ WakeOne
    /\ UNCHANGED <<threads, inline, queue, stopping, job, given, ran>>

\* stop()
Stop ==
    /\ threads # {} /\ owner = "free"
    /\ stopping' = TRUE
    /\ queue' = << >>
    /\ owner' = "notifyAll"
    /\ UNCHANGED <<threads, inline, place, job, given, ran>>

WakeAll == place' = [w \in Workers |-> IF w \in Asleep THEN "awake" ELSE place[w]]

NotifyAll ==
    /\ owner = "notifyAll"
    /\ WakeAll
    /\ owner' = "join"
    /\ UNCHANGED <<threads, inline, queue, stopping, job, given, ran>>

NotRunning == \A w \in threads : place[w] # "running"
AllGone == \A w \in threads : place[w] = "gone"

Join ==
    /\ owner = "join" /\ AllGone
    /\ threads' = {}
    /\ owner' = "free"
    /\ UNCHANGED <<inline, queue, stopping, place, job, given, ran>>

-----------------------------------------------------------------------------
\* run(): a worker that is awake and has the mutex looks at the flag, then at the
\* queue, and goes to sleep with the mutex given back in the same step.
Exit(w) ==
    /\ place[w] = "awake" /\ stopping
    /\ place' = [place EXCEPT ![w] = "gone"]
    /\ UNCHANGED <<threads, inline, queue, stopping, job, owner, given, ran>>

Popped == Tail(queue)

Start(w) ==
    /\ place[w] = "awake" /\ ~stopping /\ queue # << >>
    /\ job' = [job EXCEPT ![w] = Head(queue)]
    /\ queue' = Popped
    /\ ran' = Append(ran, Head(queue))
    /\ place' = [place EXCEPT ![w] = "running"]
    /\ UNCHANGED <<threads, inline, stopping, owner, given>>

Sleep(w) ==
    /\ place[w] = "awake" /\ ~stopping /\ queue = << >>
    /\ place' = [place EXCEPT ![w] = "asleep"]
    /\ UNCHANGED <<threads, inline, queue, stopping, job, owner, given, ran>>

\* The job returns or throws; the worker looks again before it sleeps.
SleepAtOnce == "asleep"
LookAgain == "awake"

Finish(w) ==
    /\ place[w] = "running"
    /\ job' = [job EXCEPT ![w] = NoJob]
    /\ place' = [place EXCEPT ![w] = LookAgain]
    /\ UNCHANGED <<threads, inline, queue, stopping, owner, given, ran>>

\* A condition variable may wake a thread for no reason.
SpuriousWake(w) ==
    /\ place[w] = "asleep"
    /\ place' = [place EXCEPT ![w] = "awake"]
    /\ UNCHANGED <<threads, inline, queue, stopping, job, owner, given, ran>>

-----------------------------------------------------------------------------
Work(w) == Exit(w) \/ Start(w) \/ Sleep(w) \/ Finish(w)
Owner == NotifyOne \/ NotifyAll \/ Join

Next ==
    \/ RunInline \/ Add \/ Stop \/ Owner
    \/ \E w \in Workers : Work(w) \/ SpuriousWake(w)

Spec == Init /\ [][Next]_vars

-----------------------------------------------------------------------------
\* Between calls of the pool, and before stop() begins to join.
Joined == ~inline /\ threads = {}

Placed ==
    /\ \A w \in Workers : place[w] = "running" <=> job[w] # NoJob
    /\ \A w \in Workers \ threads : place[w] = "gone"
    /\ \A w \in threads : place[w] = "gone" => stopping
    /\ inline => threads = {} /\ queue = << >> /\ ~stopping
    /\ stopping => queue = << >>
    /\ owner \in {"notifyAll", "join"} => stopping
    /\ owner = "join" => Asleep = {}
    /\ Joined => stopping

\* Jobs start in the order they were given, each once, and none is lost but by
\* stop(): what started and what waits is what was given.
InOrder ==
    /\ \A n \in 1 .. Len(ran) : ran[n] = n
    /\ \A n \in 1 .. Len(queue) : queue[n] = Len(ran) + n
    /\ Len(ran) + Len(queue) <= given
    /\ ~stopping => Len(ran) + Len(queue) = given

Inv == TypeOK /\ Placed /\ InOrder

\* No worker sleeps on a job that nobody else is up for: where one is asleep,
\* each waiting job has a worker that is awake or a notification on its way.
JobsHaveWorkers ==
    Asleep # {} =>
        Len(queue) <= Cardinality({w \in threads : place[w] = "awake"})
                      + (IF owner = "notify" THEN 1 ELSE 0)

\* When stop() returns no job runs and no worker is left: no code of the plugin
\* is executed after the plugin is unloaded.
NothingRunsAfterStop == Joined => \A w \in Workers : place[w] = "gone" /\ job[w] = NoJob

=============================================================================

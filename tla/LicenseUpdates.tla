--------------------------- MODULE LicenseUpdates ---------------------------
(***************************************************************************)
(* Plugin instances that share one license file, and the calls that read,  *)
(* check, replace and delete the license in it: moonbase::licensing        *)
(* (include/moonbase/licensing.hpp) with the store's update lock           *)
(* (detail/file_lock.hpp), and the jobs and continuations of               *)
(* ActivationController that go through them.                              *)
(*                                                                         *)
(* A license is the token Moonbase issued for it, and a token is its place *)
(* in `log`, the sequence of everything the server has issued: a greater   *)
(* number was issued later.  0 stands for "no license".                    *)
(***************************************************************************)
EXTENDS Integers, Sequences

CONSTANTS
    Instances,      \* plugin instances, each with its own `licensing` object
    Threads,        \* the threads that make calls
    InstanceOf,     \* [Threads -> Instances]
    Activations,    \* activation ids: one per customer on this device
    NoThread,       \* a free lock
    Kinds,          \* which calls the callers make
    Events,         \* what happens besides: see Next
    MinInterval,    \* online_validation_min_interval
    Grace,          \* online_validation_grace_period
    MaxCalls,       \* bound: calls begun in a behaviour
    MaxTime         \* bound: the clock

\* A call that checks the license with Moonbase (validate_token_online, and the
\* controller's forced refresh), and every call the callers can make.
Checks   == {"start", "refresh", "force"}
AllKinds == Checks \cup {"addon", "activate", "revoke", "forget"}
\* Deletions that follow an answer of the server.
FollowUps == {"discard", "deleteMatching"}

ASSUME LicenseUpdatesAssumption ==
    /\ InstanceOf \in [Threads -> Instances]
    /\ NoThread \notin Threads
    /\ Kinds \subseteq AllKinds
    /\ Events \subseteq {"storage", "supersede", "close", "crash", "portal"}
    /\ MinInterval \in Nat /\ Grace \in Nat
    /\ MaxCalls \in Nat /\ MaxTime \in Nat

VARIABLES
    log,        \* server: the tokens issued, oldest first: for which activation,
                \* validated when, and whether it is the one an activation brings
    active,     \* server: [Activations -> BOOLEAN], the seat is taken
    lastAt,     \* server: when each activation was last validated
    now,        \* the clock, the server's and the devices'
    stored,     \* the license in the file
    lockHolder, \* the store's update lock: a thread or NoThread
    mutex,      \* validate_mutex_ of each instance
    closing,    \* instances being destroyed: lock waits and requests cancelled
    pc,         \* where each thread stands
    call,       \* the call it makes
    token,      \* the token it was given
    answer,     \* the license it has in hand to store or to return
    inGrace,    \* `age <= grace`, taken before the request
    outcome,    \* how the call ended
    superseded, \* the controller's generation has moved since the call began
    begun,      \* calls begun so far
    forgotten,  \* history: clearLicense has deleted the file since the call began
    floor       \* history: Len(log) when the file was last written or deleted

server  == <<log, active, lastAt>>
locks   == <<lockHolder, mutex>>
history == <<forgotten, floor>>
vars == <<server, now, stored, locks, closing, pc, call, token, answer,
          inGrace, outcome, superseded, begun, history>>

-----------------------------------------------------------------------------
Tokens == 1 .. Len(log)
Act(n) == log[n].act
At(n)  == log[n].at
SeatTokens == {n \in Tokens : log[n].seat}

Holding == {"load", "ask", "check", "write", "delete"}
Places  == {"idle", "mutex", "lock", "online", "return"} \cup Holding

Copies   == [act : Activations, at : Nat, seat : BOOLEAN]
Outcomes == {"none", "granted", "kept", "revoked", "refused", "failed"}

ServerOK ==
    /\ log \in Seq(Copies)
    /\ active \in [Activations -> BOOLEAN]
    /\ lastAt \in [Activations -> Nat]
    /\ now \in Nat

LocksOK ==
    /\ lockHolder \in Threads \cup {NoThread}
    /\ mutex \in [Instances -> Threads \cup {NoThread}]
    /\ closing \in [Instances -> BOOLEAN]

CallsOK ==
    /\ pc \in [Threads -> Places]
    /\ call \in [Threads -> AllKinds \cup FollowUps]
    /\ inGrace \in [Threads -> BOOLEAN]
    /\ outcome \in [Threads -> Outcomes]
    /\ superseded \in [Threads -> BOOLEAN]
    /\ forgotten \in [Threads -> BOOLEAN]
    /\ begun \in 0 .. MaxCalls

\* Every token in the file or in a thread's hands was issued.
TokensOK ==
    /\ stored \in 0 .. Len(log)
    /\ floor \in 0 .. Len(log)
    /\ token \in [Threads -> 0 .. Len(log)]
    /\ answer \in [Threads -> 0 .. Len(log)]

TypeOK == ServerOK /\ LocksOK /\ CallsOK /\ TokensOK

\* The device starts with no license, or with one an earlier session stored.
Init ==
    /\ \/ /\ log = << >> /\ stored = 0
          /\ active = [a \in Activations |-> FALSE]
       \/ \E a \in Activations :
            /\ log = << [act |-> a, at |-> 0, seat |-> TRUE] >> /\ stored = 1
            /\ active = [b \in Activations |-> b = a]
    /\ lastAt = [a \in Activations |-> 0]
    /\ now = 0
    /\ lockHolder = NoThread
    /\ mutex = [i \in Instances |-> NoThread]
    /\ closing = [i \in Instances |-> FALSE]
    /\ pc = [t \in Threads |-> "idle"]
    /\ call = [t \in Threads |-> "forget"]
    /\ token = [t \in Threads |-> 0]
    /\ answer = [t \in Threads |-> 0]
    /\ inGrace = [t \in Threads |-> FALSE]
    /\ outcome = [t \in Threads |-> "none"]
    /\ superseded = [t \in Threads |-> FALSE]
    /\ begun = 0
    /\ forgotten = [t \in Threads |-> FALSE]
    /\ floor = Len(log)

-----------------------------------------------------------------------------
Peers(t) == {u \in Threads : InstanceOf[u] = InstanceOf[t]}

\* The message thread of an instance is in a call that stores or deletes, so it
\* takes no click and runs no continuation.
OnMessageThread(t) ==
    \/ call[t] \in {"forget", "deleteMatching"} /\ pc[t] # "idle"
    \/ call[t] = "activate" /\ pc[t] \in {"lock", "write"}
MessageThreadFree(i) == \A t \in Threads : InstanceOf[t] = i => ~OnMessageThread(t)

\* ++generation_: the answers other calls of t's instance bring are out of date,
\* those at least that ask.  Only an add-on call leaves the generation alone.
AsksGeneration == {"refresh", "force", "activate", "revoke"}
Outdated(i) == {u \in Threads : InstanceOf[u] = i /\ pc[u] # "idle" /\ call[u] \in AsksGeneration}
Supersedes(t, k) ==
    [u \in Threads |-> u # t /\ (superseded[u] \/ (k # "addon" /\ u \in Outdated(InstanceOf[t])))]

\* A call starts with any token its caller was ever given; at launch, with the
\* one in the file, read without the lock.
CallersTokens(k) ==
    CASE k \in {"activate", "forget"} -> {0}
      [] k = "start" -> {stored} \ {0}
      [] OTHER -> Tokens

\* Activating and revoking ask the server before they take the lock; the forced
\* refresh and the controller's own deletions don't take the mutex.
Entry(k) ==
    CASE k \in {"start", "refresh", "addon"} -> "mutex"
      [] k \in {"revoke", "activate"} -> "online"
      [] OTHER -> "lock"

Begin(t, k) ==
    /\ pc[t] = "idle" /\ begun < MaxCalls
    /\ ~closing[InstanceOf[t]] /\ MessageThreadFree(InstanceOf[t])
    /\ \E n \in CallersTokens(k) : token' = [token EXCEPT ![t] = n]
    /\ pc' = [pc EXCEPT ![t] = Entry(k)]
    /\ call' = [call EXCEPT ![t] = k]
    /\ superseded' = Supersedes(t, k)
    /\ forgotten' = [forgotten EXCEPT ![t] = FALSE]
    /\ begun' = begun + 1
    /\ UNCHANGED <<server, now, stored, locks, closing, answer, inGrace, outcome, floor>>

\* Both locks are scope guards: whatever ends the call gives them back.
KeepMutex(t) ==
    /\ lockHolder' = IF lockHolder = t THEN NoThread ELSE lockHolder
    /\ UNCHANGED mutex
Unlock(t) ==
    /\ lockHolder' = IF lockHolder = t THEN NoThread ELSE lockHolder
    /\ mutex' = [i \in Instances |-> IF mutex[i] = t THEN NoThread ELSE mutex[i]]

Conclude(t, o) ==
    /\ Unlock(t)
    /\ pc' = [pc EXCEPT ![t] = "return"]
    /\ outcome' = [outcome EXCEPT ![t] = o]

TakeMutex(t) ==
    /\ pc[t] = "mutex" /\ mutex[InstanceOf[t]] = NoThread
    /\ mutex' = [mutex EXCEPT ![InstanceOf[t]] = t]
    /\ pc' = [pc EXCEPT ![t] = "lock"]
    /\ UNCHANGED <<server, now, stored, lockHolder, closing, call, token, answer,
                   inGrace, outcome, superseded, begun, history>>

UnderLock(k) ==
    CASE k \in {"start", "refresh"} -> "load"
      [] k \in {"force", "addon"} -> "ask"
      [] k = "activate" -> "write"
      [] OTHER -> "delete"

\* One lock for every instance and process, on a file beside the license that
\* nobody deletes.
PerProcessLock(t) == lockHolder \notin Peers(t)
LockFree(t) == lockHolder = NoThread

TakeLock(t) ==
    /\ pc[t] = "lock" /\ LockFree(t)
    /\ lockHolder' = t
    /\ pc' = [pc EXCEPT ![t] = UnderLock(call[t])]
    /\ UNCHANGED <<server, now, stored, mutex, closing, call, token, answer,
                   inGrace, outcome, superseded, begun, history>>

\* storage_error out of lock_for_update(): an instance that is closing stops
\* waiting for a lock another one holds, and the lock file can fail to open.  A
\* revocation is done by then, so its call succeeds.
LockFailed(t) == Conclude(t, IF call[t] = "revoke" THEN "granted" ELSE "failed")

WaitForEver(t) == FALSE /\ UNCHANGED vars
GiveUpWaiting(t) ==
    /\ pc[t] = "lock" /\ closing[InstanceOf[t]] /\ lockHolder # NoThread
    /\ LockFailed(t)
    /\ UNCHANGED <<server, now, stored, closing, call, token, answer, inGrace,
                   superseded, begun, history>>

LockError(t) ==
    /\ pc[t] = "lock"
    /\ LockFailed(t)
    /\ UNCHANGED <<server, now, stored, closing, call, token, answer, inGrace,
                   superseded, begun, history>>

-----------------------------------------------------------------------------
\* validate_token_online under its locks: a stored copy of the same activation
\* counts when it was validated later; one of the same time that is another
\* token leaves the question to the server.
SameActivation(n, m) == n # 0 /\ m # 0 /\ Act(n) = Act(m)
Freshest(n, onDisk)  == IF SameActivation(n, onDisk) /\ At(onDisk) > At(n) THEN onDisk ELSE n
TiesIgnored(n, onDisk) == FALSE
Undecided(n, onDisk) == SameActivation(n, onDisk) /\ At(onDisk) = At(n) /\ onDisk # n
Throttled(age)       == age < MinInterval /\ age <= Grace

LoadWith(t, onDisk) ==
    LET n   == token[t]
        age == now - At(Freshest(n, onDisk))
    IN  /\ pc[t] = "load"
        /\ answer' = [answer EXCEPT ![t] = Freshest(n, onDisk)]
        /\ inGrace' = [inGrace EXCEPT ![t] = age <= Grace]
        /\ IF ~Undecided(n, onDisk) /\ Throttled(age)
             THEN Conclude(t, "kept")
             ELSE pc' = [pc EXCEPT ![t] = "ask"] /\ UNCHANGED <<locks, outcome>>
        /\ UNCHANGED <<server, now, stored, closing, call, token, superseded, begun, history>>

Load(t) == LoadWith(t, stored)
\* An unreadable file, or a stored copy that is refused, must not block the check.
LoadFails(t) == stored # 0 /\ LoadWith(t, 0)

\* No answer, or none that is a verdict: a check within the grace period
\* returns the copy it has.
NoVerdict(t) ==
    Conclude(t, IF call[t] \in {"start", "refresh"} /\ inGrace[t] THEN "kept" ELSE "failed")

Unreachable(t) ==
    /\ pc[t] \in {"ask", "online"}
    /\ NoVerdict(t)
    /\ UNCHANGED <<server, now, stored, closing, call, token, answer, inGrace,
                   superseded, begun, history>>

\* The server validates, or answers an add-on call with the activation's last
\* validation time, or gives the customer who activates a seat: each answer is
\* a new token.  The answer can be lost on the way back.
Issue(a, at, seat) ==
    /\ log' = Append(log, [act |-> a, at |-> at, seat |-> seat])
    /\ lastAt' = [lastAt EXCEPT ![a] = at]

Grant(t) ==
    /\ pc[t] = "ask" /\ active[Act(token[t])]
    /\ LET a == Act(token[t])
       IN  Issue(a, IF call[t] = "addon" THEN lastAt[a] ELSE now, FALSE)
    /\ \/ /\ answer' = [answer EXCEPT ![t] = Len(log) + 1]
          /\ pc' = [pc EXCEPT ![t] = "check"]
          /\ UNCHANGED <<locks, outcome>>
       \/ NoVerdict(t) /\ UNCHANGED answer
    /\ UNCHANGED <<active, now, stored, closing, call, token, inGrace, superseded,
                   begun, history>>

GrantActivation(t) ==
    /\ pc[t] = "online" /\ call[t] = "activate"
    /\ \E a \in Activations : Issue(a, now, TRUE) /\ active' = [active EXCEPT ![a] = TRUE]
    /\ \/ Conclude(t, "granted") /\ answer' = [answer EXCEPT ![t] = Len(log) + 1]
       \/ Conclude(t, "failed") /\ UNCHANGED answer
    /\ UNCHANGED <<now, stored, closing, call, token, inGrace, superseded, begun, history>>

GrantRevocation(t) ==
    /\ pc[t] = "online" /\ call[t] = "revoke" /\ active[Act(token[t])]
    /\ active' = [active EXCEPT ![Act(token[t])] = FALSE]
    /\ \/ pc' = [pc EXCEPT ![t] = "lock"] /\ UNCHANGED <<locks, outcome>>
       \/ NoVerdict(t)
    /\ UNCHANGED <<log, lastAt, now, stored, closing, call, token, answer, inGrace,
                   superseded, begun, history>>

\* license_invalid_error or license_expired_error.  A launch deletes the refused
\* license in the same job when the reason is that it was revoked.
Revoked(t) == call[t] # "activate" /\ ~active[Act(token[t])]
Refuse(t) ==
    /\ pc[t] \in {"ask", "online"}
    /\ IF Revoked(t) /\ call[t] = "start"
         THEN /\ Unlock(t)
              /\ pc' = [pc EXCEPT ![t] = "lock"]
              /\ call' = [call EXCEPT ![t] = "discard"]
              /\ UNCHANGED outcome
         ELSE /\ Conclude(t, IF Revoked(t) THEN "revoked" ELSE "refused")
              /\ UNCHANGED call
    /\ UNCHANGED <<server, now, stored, closing, token, answer, inGrace, superseded,
                   begun, history>>

-----------------------------------------------------------------------------
\* should_persist, asked under the locks just before the write: a refresh stores
\* its answer unless it was superseded or another activation's license is there,
\* an add-on call only over a license of its own activation.  A launch does not
\* ask.
Same(t) == SameActivation(stored, token[t])
GenerationIgnored(t) ==
    CASE call[t] = "start" -> TRUE
      [] call[t] = "addon" -> Same(t)
      [] OTHER -> stored = 0 \/ Same(t)
ActivationIgnored(t) ==
    CASE call[t] = "start" -> TRUE
      [] call[t] = "addon" -> Same(t)
      [] OTHER -> ~superseded[t]
MayStore(t) ==
    CASE call[t] = "start" -> TRUE
      [] call[t] = "addon" -> Same(t)
      [] OTHER -> ~superseded[t] /\ (stored = 0 \/ Same(t))

Check(t) ==
    /\ pc[t] = "check"
    /\ IF MayStore(t)
         THEN pc' = [pc EXCEPT ![t] = "write"] /\ UNCHANGED <<locks, outcome>>
         ELSE Conclude(t, "granted")
    /\ UNCHANGED <<server, now, stored, closing, call, token, answer, inGrace,
                   superseded, begun, history>>

\* The predicate reads the file, which can fail: the answer is dropped.
CheckFails(t) ==
    /\ pc[t] = "check" /\ call[t] # "start"
    /\ NoVerdict(t)
    /\ UNCHANGED <<server, now, stored, closing, call, token, answer, inGrace,
                   superseded, begun, history>>

\* How a call that has reached its last step under the lock ends.
Ended(t) == IF call[t] \in {"start", "refresh", "force", "addon", "revoke"}
              THEN "granted" ELSE "none"

Write(t) ==
    /\ pc[t] = "write"
    /\ stored' = answer[t] /\ floor' = Len(log)
    /\ Conclude(t, Ended(t))
    /\ UNCHANGED <<server, now, closing, call, token, answer, inGrace, superseded,
                   begun, forgotten>>

\* What each deletion removes.  After a refusal, the refused copy or one
\* validated earlier; after a deactivation, any copy of that activation.
TimesIgnored(t) == call[t] = "forget" \/ Same(t)
Removes(t) ==
    CASE call[t] = "forget"  -> TRUE
      [] call[t] = "discard" -> Same(t) /\ (stored = token[t] \/ At(stored) < At(token[t]))
      [] OTHER -> Same(t)

Delete(t) ==
    /\ pc[t] = "delete"
    /\ IF Removes(t) THEN stored' = 0 /\ floor' = Len(log) ELSE UNCHANGED <<stored, floor>>
    /\ forgotten' = [u \in Threads |->
                        forgotten[u] \/ (call[t] = "forget" /\ u \in Peers(t) \ {t} /\ pc[u] # "idle")]
    /\ Conclude(t, Ended(t))
    /\ UNCHANGED <<server, now, closing, call, token, answer, inGrace, superseded, begun>>

\* storage_error from the write, the load or the removal is swallowed.
StorageError(t) ==
    /\ pc[t] \in {"write", "delete"}
    /\ Conclude(t, Ended(t))
    /\ UNCHANGED <<server, now, stored, closing, call, token, answer, inGrace,
                   superseded, begun, history>>

-----------------------------------------------------------------------------
\* The continuation on the message thread, which drops an answer that was
\* superseded and every answer once the controller is gone.  An activation is
\* stored, a deactivation deletes once more (revoke_activation did so only when
\* the server answered), and a refresh whose license was revoked discards it.
Continues(t) ==
    /\ ~superseded[t] /\ ~closing[InstanceOf[t]]
    /\ \/ call[t] = "activate" /\ outcome[t] = "granted"
       \/ call[t] = "revoke" /\ outcome[t] \in {"granted", "revoked", "refused"}
       \/ call[t] \in {"refresh", "force"} /\ outcome[t] = "revoked"

Continue(t) ==
    /\ pc[t] = "return" /\ Continues(t) /\ MessageThreadFree(InstanceOf[t])
    /\ pc' = [pc EXCEPT ![t] = "lock"]
    /\ call' = [call EXCEPT ![t] = CASE call[t] = "activate" -> "activate"
                                     [] call[t] = "revoke" -> "deleteMatching"
                                     [] OTHER -> "discard"]
    /\ outcome' = [outcome EXCEPT ![t] = "none"]
    /\ superseded' = IF call[t] = "activate" THEN Supersedes(t, "activate") ELSE superseded
    /\ UNCHANGED <<server, now, stored, locks, closing, token, answer, inGrace, begun, history>>

\* A thread between calls keeps nothing of the last one.
Rest(T) ==
    /\ pc' = [t \in Threads |-> IF t \in T THEN "idle" ELSE pc[t]]
    /\ call' = [t \in Threads |-> IF t \in T THEN "forget" ELSE call[t]]
    /\ token' = [t \in Threads |-> IF t \in T THEN 0 ELSE token[t]]
    /\ answer' = [t \in Threads |-> IF t \in T THEN 0 ELSE answer[t]]
    /\ inGrace' = [t \in Threads |-> t \notin T /\ inGrace[t]]
    /\ outcome' = [t \in Threads |-> IF t \in T THEN "none" ELSE outcome[t]]
    /\ superseded' = [t \in Threads |-> t \notin T /\ superseded[t]]
    /\ forgotten' = [t \in Threads |-> t \notin T /\ forgotten[t]]

Return(t) ==
    /\ pc[t] = "return" /\ ~Continues(t)
    /\ Rest({t})
    /\ UNCHANGED <<server, now, stored, locks, closing, begun, floor>>

-----------------------------------------------------------------------------
\* The rest of what moves the generation: a cancelled activation, a license
\* another instance replaced or removed.
Supersede(i) ==
    /\ ~closing[i] /\ MessageThreadFree(i)
    /\ Outdated(i) # {}
    /\ superseded' = [u \in Threads |-> superseded[u] \/ u \in Outdated(i)]
    /\ UNCHANGED <<server, now, stored, locks, closing, pc, call, token, answer, inGrace,
                   outcome, begun, history>>

\* The destructor cancels requests and lock waits, and joins the workers.
Close(i) ==
    /\ ~closing[i] /\ MessageThreadFree(i)
    /\ closing' = [closing EXCEPT ![i] = TRUE]
    /\ UNCHANGED <<server, now, stored, locks, pc, call, token, answer, inGrace,
                   outcome, superseded, begun, history>>

Reopen(i) ==
    /\ closing[i] /\ \A t \in Threads : InstanceOf[t] = i => pc[t] = "idle"
    /\ closing' = [closing EXCEPT ![i] = FALSE]
    /\ UNCHANGED <<server, now, stored, locks, pc, call, token, answer, inGrace,
                   outcome, superseded, begun, history>>

\* The process dies: the system lets go of its file lock.
Crash(i) ==
    LET T == {t \in Threads : InstanceOf[t] = i}
    IN  /\ \E t \in T : pc[t] # "idle"
        /\ Rest(T)
        /\ lockHolder' = IF lockHolder \in T THEN NoThread ELSE lockHolder
        /\ mutex' = [mutex EXCEPT ![i] = NoThread]
        /\ closing' = [closing EXCEPT ![i] = FALSE]
        /\ UNCHANGED <<server, now, stored, begun, floor>>

\* The customer removes the device in the portal.
ServerRevoke(a) ==
    /\ active[a]
    /\ active' = [active EXCEPT ![a] = FALSE]
    /\ UNCHANGED <<log, lastAt, now, stored, locks, closing, pc, call, token, answer,
                   inGrace, outcome, superseded, begun, history>>

Tick ==
    /\ now < MaxTime
    /\ now' = now + 1
    /\ UNCHANGED <<server, stored, locks, closing, pc, call, token, answer, inGrace,
                   outcome, superseded, begun, history>>

-----------------------------------------------------------------------------
\* What a thread does by itself once its call has begun: every lock wait polls,
\* every request ends in an answer or in an error.
Step(t) ==
    \/ TakeMutex(t) \/ TakeLock(t) \/ GiveUpWaiting(t) \/ Load(t)
    \/ Unreachable(t) \/ Grant(t) \/ GrantActivation(t) \/ GrantRevocation(t) \/ Refuse(t)
    \/ Check(t) \/ Write(t) \/ Delete(t) \/ Continue(t) \/ Return(t)

Fault(t) == LockError(t) \/ LoadFails(t) \/ CheckFails(t) \/ StorageError(t)

Next ==
    \/ \E t \in Threads :
         Step(t) \/ ("storage" \in Events /\ Fault(t)) \/ \E k \in Kinds : Begin(t, k)
    \/ \E i \in Instances :
         \/ "supersede" \in Events /\ Supersede(i)
         \/ "close" \in Events /\ (Close(i) \/ Reopen(i))
         \/ "crash" \in Events /\ Crash(i)
    \/ "portal" \in Events /\ \E a \in Activations : ServerRevoke(a)
    \/ Tick

Spec == Init /\ [][Next]_vars

\* Every instance runs: its threads are scheduled and its requests time out.
FairSpec == Spec /\ \A t \in Threads : WF_vars(Step(t))

-----------------------------------------------------------------------------
Answering == Checks \cup {"addon"}
NeedsToken(t) == pc[t] # "idle" /\ call[t] \notin {"activate", "forget"}

\* The lock is held by the thread that is between taking and releasing it.
LockOwned == \A t \in Threads : lockHolder = t <=> pc[t] \in Holding

\* A call works on a token that exists, and stores one that exists.
TokensExist ==
    \A t \in Threads :
        /\ NeedsToken(t) => token[t] > 0
        /\ pc[t] \in {"check", "write"} => answer[t] > 0
        /\ pc[t] \in {"ask", "check"} => call[t] \in Answering
        /\ pc[t] = "write" => call[t] \in Answering \cup {"activate"}
        /\ pc[t] \in {"mutex", "load"} => call[t] \in {"start", "refresh", "addon"}
        /\ pc[t] = "load" => call[t] # "addon"
        /\ pc[t] = "delete" => call[t] \in FollowUps \cup {"revoke", "forget"}
        /\ pc[t] = "online" => call[t] \in {"revoke", "activate"}

\* An activation the server granted, until it is stored.
SeatInHand ==
    \A t \in Threads :
        call[t] = "activate" /\ (pc[t] \in {"lock", "write"} \/ (pc[t] = "return" /\ outcome[t] = "granted"))
            => answer[t] \in SeatTokens

\* Of one activation's tokens, the later issued was not validated earlier.
TimesFollowOrder ==
    /\ \A a \in Activations : lastAt[a] <= now
    /\ \A n \in Tokens : At(n) <= lastAt[Act(n)]
    /\ \A m, n \in Tokens : m <= n /\ Act(m) = Act(n) => At(m) <= At(n)

\* An answer was issued under the lock the thread still holds, so after the last
\* change of the file.
AnswersAreNew ==
    \A t \in Threads : pc[t] \in {"check", "write"} /\ call[t] \in Answering => answer[t] > floor

\* Between should_persist and the write the file is what the predicate saw.
CheckStillHolds ==
    \A t \in Threads : pc[t] = "write" =>
        /\ call[t] \in {"refresh", "force"} => stored = 0 \/ Same(t)
        /\ call[t] = "addon" => Same(t)

\* clearLicense moves the generation on before it waits for the lock.
ClearingSupersedes ==
    /\ \A t, u \in Threads :
         (/\ call[u] = "forget" /\ pc[u] \in {"lock", "delete"}
          /\ t # u /\ InstanceOf[t] = InstanceOf[u]
          /\ pc[t] # "idle" /\ call[t] \in {"refresh", "force"}) => superseded[t]
    /\ \A t \in Threads : call[t] \in {"refresh", "force"} /\ forgotten[t] =>
                             superseded[t] /\ pc[t] # "write"

Inv ==
    /\ TypeOK /\ LockOwned /\ TokensExist /\ SeatInHand
    /\ TimesFollowOrder /\ AnswersAreNew /\ CheckStillHolds /\ ClearingSupersedes

-----------------------------------------------------------------------------
Stores(t)  == pc[t] = "write" /\ pc'[t] # "write" /\ stored' # stored
Deletes(t) == pc[t] = "delete" /\ stored' # stored

\* Whichever instance asked, the answer of a check or of an add-on call is
\* stored only if the server issued it after the file was last written or
\* deleted: an old answer never replaces a newer license, and none comes back
\* after the server call and the deletion that revoked it.
AnswersLandInOrder ==
    [][\A t \in Threads : Stores(t) /\ call[t] \in Answering => answer[t] > floor]_vars

\* A refresh that was under way when its own instance cleared the license does
\* not write it back once the clearing has deleted the file.
ClearedStaysCleared ==
    [][\A t \in Threads : Stores(t) /\ call[t] \in {"refresh", "force"} => ~forgotten[t]]_vars

\* "A slow request can never clobber a newer state (cancel, a fresh activation,
\* deactivate)" (ActivationController.h), of every check, the one at launch too.
SlowCheckNeverClobbers ==
    [][\A t \in Threads : Stores(t) /\ call[t] \in Checks => ~forgotten[t]]_vars

\* Neither a refresh nor an add-on call replaces another activation's license,
\* whichever instance stored it and whenever it came in, and an add-on call
\* stores nothing where no license is stored.
OtherLicenseStays ==
    [][\A t \in Threads : Stores(t) =>
         /\ call[t] \in {"refresh", "force"} /\ stored # 0 => Act(stored) = Act(token[t])
         /\ call[t] = "addon" => stored # 0 /\ Act(stored) = Act(token[t])]_vars

\* A check that skips the server returns nothing older than the copy of its
\* activation in the file, although two copies can carry the same time.
ThrottleReturnsNewest ==
    [][\A t \in Threads : Load(t) /\ pc'[t] = "return" /\ SameActivation(stored, token[t])
         => answer'[t] >= stored]_vars

\* Discarding a license the server called revoked leaves every copy issued after
\* the refused one, as activating this device again keeps the activation id.
DiscardSparesNewer ==
    [][\A t \in Threads : Deletes(t) /\ call[t] = "discard" => stored <= token[t]]_vars

\* No call waits for ever on the locks or on another call.
EveryCallReturns == \A t \in Threads : pc[t] # "idle" ~> pc[t] = "idle"

\* A closing instance gets all its calls back, even when another one never lets
\* go of the lock.
ClosingJoins(i) ==
    closing[i] ~> (closing[i] => \A t \in Threads : InstanceOf[t] = i => pc[t] = "idle")

\* The file is a LicenseRegister of the tokens the server issues.
Register == INSTANCE LicenseRegister WITH
    current <- stored, issued <- Len(log), seats <- SeatTokens, floor <- floor
ImplementsRegister == Register!RSpec
=============================================================================

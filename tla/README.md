# Verification of moonbase-cpp

TLA+ models of the Moonbase licensing SDK (`src/include/moonbase`) and of the
JUCE activation module built on it (`src/modules/moonbase_licensing/juce`),
checked with TLC on small instances and proved with TLAPS for all of them. Paths
below are relative to `src/`; `modules/moonbase_licensing/moonbase/` is a copy of
`include/moonbase/`, byte for byte, so the headers are cited only once.

## The system

A plugin unlocks by a *license*: a signed token the Moonbase API issued for an
*activation* (a customer's seat on this device). The token carries the time it was
last validated. It is kept in one file, which every plugin instance on the
machine reads, re-validates, replaces and deletes, in one process or in several.

| part | code | state | operations |
|---|---|---|---|
| licensing facade | `licensing.hpp` | `validate_mutex_` of an instance | `validate_token_online`, `revoke_activation`, `call_and_store` (add-on calls) |
| update lock | `detail/file_lock.hpp` | a lock on a file beside the license | take (polling), give up, release |
| file store | `store.hpp` | the license file, temporary files | load, store, delete, `lock_for_update`, `cancel_lock_waits` |
| memory store | `store.hpp` | an optional license under a recursive mutex | the same |
| client, errors | `client.hpp`, `errors.hpp` | none | requests; which answer becomes which error |
| poll gate | `client.hpp` | last poll of each request, one hold | `try_claim`, `back_off` |
| validator | `validator.hpp` | none | checks a token's form, signature, claims, expiry, device, version |
| release access | `release_access.hpp`, `version.hpp` | none | whether a license covers a version |
| worker pool | `juce/WorkerPool.h` | queue, stop flag, threads | `addJob`, `stop` |
| activation controller | `juce/ActivationController.cpp` | screen, license in memory, generation, pending request, single-flight flags | `start`, `startActivation`, the poll timer, `refreshLicense`, `deactivate`, `clearLicense`, add-on calls, update flow |
| license watch | same | a stamp of the file, deadlines | compare, read, adopt, notice a removal |
| HTTP transport | `juce/juce_http_transport.h` | requests in flight, a cancelled flag | send, `cancel` |
| update dismissals | `juce/ActivationState.h` | a JSON file | `ignoreUpdate` |
| activation UI | `juce/ui/ActivationComponent.cpp` | the overlay, the view shown and the one it slides over, timers, what the plugin was told | present, close, show the controller's screen, copy the link |
| inventory client | `inventory.hpp` | none | releases and their downloads |
| unlock bridge | `examples/juce/MoonbaseJuceBridge.h` | license, generation, background calls | load, activate, revoke, clear, destroy |
| device identity | `*device_id_resolver.hpp` | what was read of the machine, the ids made of it | name, id, former ids |
| license gate | `juce/LicenseGate.h` | an atomic flag | read on the audio thread |
| the rest | `fingerprint*.hpp`, `http_curl.hpp`, `detail/crypto` | none | reads of the machine; one request; library calls |

How they interact. The controller owns a `licensing` object, which owns the
store and the client. Everything on the controller's members runs on the message
thread; what may block is queued on the worker pool, and a job's result is posted
back as a *continuation* that is dropped when the `generation_` counter has
moved. The store's lock is shared with every other instance and process, and is
held across a request, so that answers are stored in the order the server gave
them. The load at launch and the watch read the file without the lock. The
activation UI listens to the controller's change messages, which collapse into one
however many changes there were, and calls the controller back. The unlock bridge
is another user of the same `licensing` object, for plugins that don't use the
controller.

### What is hard

`PROJECT.json` lists each hazard at its line. In short:

- *Order.* Checks, add-on calls, activations, revocations and deletions of several
  threads and processes interleave around a request that may take a minute. An old
  answer must not land on a newer license, nor a license come back that the user
  cleared.
- *Checked, then used.* `should_persist` and the write; a refusal and the deletion
  that follows it under a lock taken anew; a launch's findings and its
  continuation; a file stamp and the read after it.
- *Half-written files.* Loads without the lock, processes that die, systems on which
  an open file cannot be replaced, folders that take no new file.
- *Waiting.* A mutex, then a file lock, held through a request that can hang in
  another process while this instance is being destroyed on the message thread.
- *Lost answers and failing storage*, at each step.

### What makes each part correct

- Facade and lock: answers are stored in the order they were issued; nothing is
  stored over another activation; a cleared license stays cleared; a skipped
  check returns the newest copy; discarding a revoked license spares a newer one;
  every call returns; closing never waits for a sibling.
- File store: a load finds a license the file held during the load; only the last
  license given to the store lands; nothing is left behind; a store ends.
- Poll gate: polls of one request are a second apart, whoever makes them, but for the
  time one waits for the gate, and none is made before a Retry-After has passed; no
  request is starved for ever.
- Worker pool: each job runs once or is dropped by `stop`, no worker sleeps on a
  job, `stop` returns once the running jobs do.
- Controller: a continuation acts only on the state its job was started from; one
  poll in flight; the license in memory is the newest seen; a locked screen and a
  license in memory exclude each other.
- Watch: a license another instance stored is adopted in the end, a removed one
  locks, none is traded for an older one.
- Add-ons: a list or a seat's outcome counts only for the license it was asked for;
  every spinner has an answer on its way; re-reading the list and the license does
  not go on for ever.
- Updates: a screen that says "Checking" or "Downloading" will hear of the end of it.
- Transport: after `cancel` no request is left running that `cancel` did not reach.
- UI: a locked plugin is behind the overlay, unless it was closed; the overlay never
  takes itself away from who opened it; with nothing on its way the plugin knows the
  license; one view is up and it is the right one.
- Device ids: one name, one id and one verdict per license and process.
- Bridge: what was cleared or activated last is not undone by what was under way.
- Errors: only Moonbase's own words lock a license or end a request.
- Release access: the documented rule; the order on versions is a total preorder.


## Modules

| module | models | composed in |
|---|---|---|
| LicenseUpdates, LicenseRegister | calls on the shared file and the lock; what the file promises | MCLicenseUpdates, MCSettles |
| FileStore, AtomicFile | one store on a file system; what a load gets | MCShared |
| PollGate | polling for an activation | MCShared |
| UnlockBridge | the JUCE bridge and its sample screen | MCShared |
| ActivationController | the controller's handlers, jobs, continuations and watch | MCActivationController, MCSettles |
| WorkerPool, HttpTransport, Teardown | the background threads; requests and `cancel()`; both with the destructor | MCSettles |
| AddOns, UpdateFlow, Dismissals, DeviceIds, LicenseNews | the rest of the controller, by what each shares | MCFlows |
| Overlay, Views, LinkCopy, AddOnRows, Countdowns | the activation UI | MCFlows |
| Versions, ErrorMapping, LaunchRules, UpdateOffers | pure rules | MCFlows |

`X_proofs` modules hold the theorems. A definition's comment `\* Mutant:` marks a
mutated form of the one below it, as a bug would have it; `PROJECT.json` says which
property each breaks.

### LicenseUpdates: the calls on the shared file

Any number of `Instances`, each with `Threads` that make calls. A token is its place
in `log`, the sequence of everything the server issued, so "newer" is "greater";
it carries its activation, the time it was validated (with the resolution of the
clock, so several can share one) and whether an activation brought it (`seat`).
`stored` is the file.

| state | code |
|---|---|
| `log`, `active`, `lastAt`, `now` | the server, and the clock (external) |
| `stored` | the license file, read and written in one step each (see FileStore) |
| `lockHolder`, `mutex` | the update lock; `validate_mutex_` of each instance |
| `closing` | `cancel_lock_waits()` and the transport's `cancel()` were called |
| `pc`, `call`, `token`, `answer`, `inGrace`, `outcome` | each thread's place and locals |
| `superseded` | the `generation_` the job took is out of date |
| `forgotten`, `floor` | history: used by properties only |

Calls, by `Kinds`: `start` (the check at launch), `refresh` (`refreshLicense`),
`force` (the same, past the throttle), `addon` (the sub-product calls), `activate`
(the poll that is answered, then `storeLicense`), `revoke` (`deactivate`), `forget`
(`clearLicense`). Two deletions follow an answer: `discard` (`deleteRevoked`) and
`deleteMatching` (`deleteStoredMatching`). A call goes

    Begin -> [TakeMutex] -> TakeLock -> Load -> Grant -> Check -> Write -> Return

with a step each where the code can be interrupted or fail: `GiveUpWaiting`,
`LockError`, `LoadFails`, `Unreachable` (no answer, or a lost one: `Grant` has an
outcome in which the server acted and the device never learns), `Refuse`,
`CheckFails`, `StorageError`, `Continue` (the continuation on the message thread),
`Supersede`, `Close`, `Reopen`, `Crash`, and `ServerRevoke` in the portal. Activating
and revoking ask the server before they take the lock, as the code does.

`LicenseRegister` says what the file promises: a register that takes an answer
only if it was issued after the register last changed, or if an activation brought
it. LicenseUpdates implements it with `current <- stored`, `issued <- Len(log)`.

### FileStore: one store on a file system

What LicenseUpdates takes to be one step, in steps: `load_local_license` (`Exists`,
`Open`, `Read`, `RemoveCorrupt`), `store_local_license` (`WriteTemp`, `Rename`, and
where these fail `Truncate`, `Fill`), `delete_local_license`, the retries, and the
lock around them. A file is a number with contents in `disk`; `path` is the file the
license path names, so a load that has a file open keeps reading it after a rename.
`OpenBlocks` and `Attempts` give POSIX or Windows. `Faults` chooses what else goes
wrong: `temp` (no file can be put beside the license), `fill` (the disk is full),
`scanner` (something else has the license open), `crash`, `corrupt` (an earlier
session left half a license). `Updaters` take the lock; the others load without it.

`AtomicFile` says what those get: some license that the file held during the load.
FileStore implements it where a rename replaces the license (`Replaceable` in the
proofs): there LicenseUpdates' one-step `Load`, `Write` and `Delete` are justified.

### ActivationController: the state machine behind the screens

One controller, with siblings on the same file. `self` is its members, from the
screen to the single-flight flags; `jobs` is what the pool was given, `posted` the
continuations, `disk` the file and `changed`/`existed` what the watch knows of it.
A generation is not a number: a job or a continuation is `fresh` until the controller
moves its generation on, which is all a comparison with it can tell.

| actions | code |
|---|---|
| `Start`, `Activate`, `Cancel`, `Refresh`, `ClearLicense`, `Deactivate`, `DeactivateNothing`, `ActivateOffline`, `Navigate` | the calls of the user and the host |
| `RunJob` | a job on a worker: what it does under the store's lock, and the server's answer, is one step |
| `Launched`, `Requested`, `Polled`, `Refreshed`, `Deactivated`, `Discarded`, `Dropped` | the continuations; `Dropped` finds its generation moved |
| `PollTick`, `WatchLicense` | the poll timer; `checkStoredLicense` and `checkLicenseDeadlines` |
| `SiblingChecks`, `SiblingActivates`, `SiblingRemoves`, `GracePasses`, `LicenseEnds` | other instances, the portal and the clock |

Handlers are built of functions from members to members with the code's names
(`SetLicense`, `ApplyLicense`, `ShowTrialExpired`, `AdoptStored`, ...), so that an action
says what a handler calls, in its order.

### WorkerPool, HttpTransport and Teardown

The pool's owner, the controller's message thread, gives jobs (`Add`, or `RunInline`
when no thread could be started) and stops the pool (`Stop`, `NotifyAll`, `Join`); a
worker goes round `Start`, `Finish`, `Sleep` until it sees the flag (`Exit`). `Init`
starts any subset of the workers asked for, as `std::thread` may throw. What the code
does with the mutex held is one step; a notification is a step after it
(`owner = "notify"`), so workers may take the job, fall asleep or leave in between.
`SpuriousWake` is the condition variable's. A job is the number under which it was
given; `ran` is the history of the jobs started.

HttpTransport is `send()` with its registry of open streams: `Make` creates the stream,
`Register` is `in_flight`'s constructor, which refuses once `cancel()` has run,
`Answer` the blocking read and `Unregister` the destructor; `Cancel` runs on another
thread in between. Teardown puts both under a controller: a job waits for its turn
(`onlineCalls_`), the license lock and the server, and `~ActivationController` cancels
the licensing transport, the inventory transport and the lock waits, then stops the
pool. It instantiates HttpTransport and extends WorkerPool, so that a job that runs
in the pool is a job that waits here.

### PollGate: polling for an activation

`Poll` reads the clock, and `Claim` or `Refuse` happens when the gate's mutex is got, at
any later time: the time brought may be old, and older than the one another
thread swept the slots with. An answer ends the poll (`Answered`); a 429 or 503 with a
Retry-After (`RateLimited`) is followed by `BackOff`, again with a clock read before.
`claimed`, `waited` and `told` are histories: when each request's last poll was claimed,
how long it had stood by then since it read the clock, and the end of the longest wait
told. A slot has the time that was read, `claimed - waited` (`Brought`), so the interval
counts from there: `PollsSpaced` says that two claims of one request are an interval
apart less the time the first one stood. The documents take nothing off (`PollsApart`),
which `polls_bunch` shows to be wrong; where no poll stands at the mutex it is right
(`PromptTheorem`). Both are about claims: when a claimed request leaves the machine is up
to the scheduler and the network besides.

### UnlockBridge: the bridge to JUCE's unlock status

`unlocked` and `stored` are the license in memory and in the file, `underWay` the
threads, `posts` the continuations. A call on the message thread that waits for the
store's lock is two steps with `doing` in between, in which background calls run on.
`Outdate` is `++validationGeneration_`. The sample screen's label is there as far as
it says that a revocation is under way. `standing` is a history: what the last
clearing or activation left, until the next call.

### AddOns and UpdateFlow: what the controller does around a license

AddOns has the list (`LoadAddOns`), the calls that take a seat or a trial
(`SetUpAddOn`), the check of the license both may ask for and the return from the
browser after a purchase, with the order in which two workers' answers are queued
(`onlineCalls_`: a job whose answer is there holds the turn until it has queued it).
The rest of the controller is what reaches the add-ons: the license comes, goes or
is replaced, an activation or a deactivation is under way, anybody checks the license.
UpdateFlow has the notes, the download URL, the download on a thread of its own and
the license changes that present, keep or close the screen. What `updateGeneration_`
outdates is dropped at once, as a continuation that finds it moved does nothing.

### The smaller parts

- *LicenseNews*: how a change of the license reaches the plugin, by the controller's
  `onLicenseChanged` and the component's `onActivationChanged`, each in a message
  of its own and each free to change the license again.
- *Overlay*: the component as a modal over the plugin; `ChangeArrives` is
  `changeListenerCallback` with `syncViews` and `notifyHost`, one message however many
  changes there were, and a fade that only advances on screen.
- *Views*: which view is up, the slide between two, the spinners, and the timer that
  follows whether the panel is on screen. *LinkCopy*: "link copied", with timers
  that nothing stops. *AddOnRows*: what a row says and offers, from a list and a
  license of different ages. *Countdowns*: "5 days left" on a screen left open.
- *DeviceIds*: the memos of the id resolvers, threads that ask, and a machine that
  can't always be read. *Dismissals*: the updates that were skipped, in a file that
  processes read and write without a lock.
- *Versions*: the two readers of a version, their order, and what a license covers.
  *ErrorMapping*: which error a response becomes, for every request. *LaunchRules*:
  the validator's checks and what a launch makes of them. *UpdateOffers*: which of
  download, unlock and upgrade a release is offered with.

### The MC modules

`MCLicenseUpdates` has an instance `i1` with a worker and a message thread, and a
sibling `i2` with one thread. `MCShared` and `MCFlows` put systems that share no state
side by side: a behaviour chooses one at the start (`setting`, `flow`) and moves that
one only, the others stand where they began. That makes one run of several small
ones; a product of their interleavings would show nothing about any of them.
`MCShared` has FileStore three times: as POSIX, where the theorems' assumption
holds, as Windows, and under every fault. `MCSettles` has, with the fairness liveness
needs, a Teardown, a controller and two instances of LicenseUpdates (`part`).

## Runs

| run | question | bounds |
|---|---|---|
| `updates` | every pair of calls under every fault: are answers stored in the server's order, does the throttle return the newest copy, does discarding spare newer ones, is another activation's license left alone, does a cleared one stay cleared, is it a `LicenseRegister`? | 2 calls, 2 activations, throttle 1, grace 0, clock 0..1 |
| `shared` | is the store an atomic file on POSIX; under the lock whole on Windows; does a store end; does only the newest land under every fault; are polls spaced and held back rightly; does the bridge's last call stand? | POSIX 3 stores with crashes; Windows and faults 2 stores, 2 attempts; gate: interval 2, cap 2, waits 1 and 3, clock 0..3, 2 threads and requests; bridge: 2 activations (one offline), 3 calls under way, 2 copies |
| `controller` | does every handler leave what it promises, does every wait have an end on its way, do answers about one license leave another alone? | a full, a trial and an offline activation, 1 worker, 2 messages, 2 copies |
| `settles` | does every job get its turn, and does the destructor return although server and sibling are silent for ever; left alone, does a launch end, is a removed file noticed and a license that runs out settled; do the calls of a closing instance return while a sibling hangs? | 0 to 2 workers and 4 jobs: two that take turns, a check, a call of the update server; 1 activation; 3 calls on 2 instances |
| `flows` | do the add-ons, the update screen, the skipped updates, device ids, news, overlay, panel, rows and counts keep their promises, and do the pure rules hold for every small input? | an online and an offline license, 2 messages, 3 copies, 3 releases, 2 threads, 2 processes, 2 links copied 3 times, 3 days |
| `launch_clobbers`, `half_read`, `deactivation_stuck`, `download_lost`, `identity_sticky`, `slow_revoke`, `polls_bunch` | expected violations, below | |

`flows` checks the properties of its parts by name (`AnswersAreForTheLicense`,
`AnswersInOrder`, `HostsKnow`, `LockIsCovered`, `AskedForStays`, `VerdictsStay`) or in
conjunctions that `MCFlows` states: `WaitingHasAnEnd` (the add-ons' and the update screen's
waits), `PanelIsTrue`, `OffersHold`, `NothingIsForgotten`, `RulesHold`,
`UnlockedLawfully`, and `FlowsSettle` for what must come to rest.

Why the bounds are enough. The disagreements looked for need two writers and one
party that comes between them. In `updates` that is two calls of any kind and the
events: an answer overtaken by another, a clearing while a check waits for the lock,
a sibling's activation between a refusal and its deletion. Two activations tell
"mine" from "another's", two times "same second" from "later", and with the
throttle at 1 and the grace period at 0 both sides of each comparison occur. The
store needs one writer, a second one for the lock, and a reader; three licenses make
"old, newer, newest". In `controller` two messages are enough for every pair of job
and continuation to cross, and two copies for one to be older; the host deactivates
and refreshes at any time, a sibling activates, checks or removes. In `settles` four
jobs fill the queue beyond the two workers, and two of them compete for the turn. In
the gate the waits lie on both sides of the cap. What depends on more threads, calls
or times than that is the theorems' part. A mutant of the code for every property
shows that each run sees the case it is about.

`updates` permutes the two threads of `i1` and the two activations, which Init, every
action and every property treat alike; it checks no liveness. `CHECK_DEADLOCK FALSE` is
said where a behaviour ends because its calls have returned, its bounds are reached
or the pool was stopped.

### Fairness

Faults, users, siblings and servers are never fair, unless a property says so.

- `settles`, the callers: `WF(Step(t))` for a thread that is scheduled: a request ends
  in an answer or a timeout (both transports have one), and a lock attempt is repeated
  (`file_lock`'s loop, with no queue). Weak fairness of the polls is enough because
  the number of calls is bounded: a lock cannot be taken by others for ever. Under an
  endless stream of calls the code gives no such promise, as polling has no order;
  nothing here claims it. `ClosingJoins` has fairness of the closing instance's
  threads only: a sibling may hang for ever with the lock.
- `settles`, the controller: `WF` of `WatchLicense` (a timer), of the oldest job
  (`RunJob(1)`: workers take jobs in order and requests time out) and of `Continue`
  (the message loop).
- `settles`, the teardown: `WF` of the destructor's and the pool owner's next step and of each
  worker's; a worker's step is one that does not wait for others. The server's answer
  and the sibling's release of the lock are not fair; only `JobsGetTheirTurn`, which
  is about a controller that goes on, assumes them (`Responsive`), with strong fairness
  of `TakeLock`, as a lock that comes and goes is polled for.
- `shared`: `WF(Step(p))` on Windows for steps inside a call of the store, none of
  which waits; the bridge's call in progress, its oldest thread and its oldest
  continuation.
- `flows`: the workers, message loop and watch behind the add-ons (`Unprompted`); the
  update screen's answers and its download, which ends or breaks (`UpdateStep`); the
  panel's messages and timer (`PanelRunsOn`), the note's timer (`NoteFades`).

Liveness of a component that users can prod for ever is stated for behaviours in
which they stop: `<>[][Unattended]_vars => ...`.

## Theorems

All hold for every value of the constants that satisfies the named assumption of
the module (`LicenseUpdatesAssumption`, `FileStoreAssumption`, ...: the kinds, events
and faults are among those the module knows; what stands for "none" is no member).
Where a theorem assumes more it says so in its statement. Each rests on an invariant
that is stronger than the property, because the property is not inductive; what
follows is why the stronger one is.

*LicenseUpdates.* `Invariance` proves `Spec => []Inv`: the lock is held exactly between
taking and releasing it (`LockOwned`), an answer in hand is newer than the file's last
change (`AnswersAreNew`; inductive because nobody else can move the file while the
lock is held), what `should_persist` saw is still so at the write
(`CheckStillHolds`), the message thread moves the generation before it waits
for the lock (`ClearingSupersedes`), times follow the order of issue
(`TimesFollowOrder`, from the server's clock), and what a thread has in hand
exists (`TokensExist`, `SeatInHand`). From it: `TypeCorrectness`, `OrderTheorem`,
`ClearedTheorem`, `OtherLicenseTheorem`, `ThrottleTheorem`, `DiscardTheorem`, and
`RegisterTheorem`, the refinement: every step is a step of LicenseRegister or leaves it
as it was.

*FileStore.* `LockingTheorem` proves `Spec => []Inv` under every fault: whoever
stores holds the lock and has open the file it made. `NewestTheorem` follows. Under
`Replaceable` (nothing but crashes, and open files don't block) `WholeInvariance`
adds that no file holds half a license and that what a load has open was current
during the load; `WholeTheorem` and `AtomicTheorem`, the refinement, follow.
`InUseTheorem` is about the other systems, where a license may be in use and the
folder may take no file but nothing dies (`InUseOnly`): half a license is one that
somebody is about to fill, with the lock (`HalvesAreFilled`), and a file beside the
license is one that somebody is about to rename (`TempsAreRenamed`), so a load under
the lock reads whole ones and nothing is left behind. `WindowsAlwaysWhole`
(`Shared_proofs`) carries that over to MCShared's store on Windows, beside the gate and
the bridge.

*ActivationController.* `ControllerInvariant` is about any number of activations, jobs
and continuations in any order of completion. What the properties need besides what
handlers promise: that a job or continuation carries what its kind can carry and the
server can have answered (`QueuesOK`), that of the jobs that move the generation on
one at most is not out of date (`OneLead`), that a check or a deactivation that is
not out of date is about the license held (`AboutTheHeld`: the generation moves wherever
that changes), and that the checks counted are the checks under way. From it
`HandlersKeepTheirWord` and `AnswersStay`. `ScreensWaitForSomething` adds that the
load comes before everything else (`LoadIsFirst`) and assumes `"start" \notin HostCalls`:
the code calls it once, `ActivationComponent.cpp:3171-3174` for a controller of its own,
and leaves a shared one to its owner (`ActivationComponent.h:28-29`). It is needed: with
a license held, a second `start()` shows "Loading" and a `refreshLicense()` after it
supersedes the load, so that the screen stays until the check's answer, which may be a
failure that changes no screen.

*AddOns.* `AddOnsInvariant`, for any number of licenses, messages and copies: calls and
checks take turns, so that copies are queued in the order they were issued
(`TurnsTaken`); what moves the generation on and is not out of date is one message
at most (`OneLeads`); no copy under way for the license held is older than the one
held (`NewerUnderWay`); and each spinner's end is under way (`SetUpEnds`, `ListEnds`).
From it `AnswersStayWithTheLicense`, `SpinnersHaveAnEnd`, `AnswersKeepTheirOrder` and
`PurchasesAreFollowedUp`.

*UnlockBridge* (`Shared_proofs`). `BridgeInvariant`: a call that clears or stores has
superseded everything (`CallsSupersede`), a license about to be stored is newer than all that is under way
and than what stands (`NewestIsStored`), and while something stands nothing is
listened to and what is under way is about older copies (`NothingInterferes`). So
`LastCallIsKept`, and `RevocationsAlone`: a check that was refused discards only copies
as old as the one it was asked with.

*Screens.* `LockCovered` and `AskedForNeverTakenAway` from what the component knows
once no message is on its way (`SeesTheLicense`), that having seen the lock it is up
(`UpForTheLock`), and that what was asked for is up for no lock's sake; `HostsAlwaysKnow`
from what each of the two reports says of the license while news are pending;
`ViewsAlwaysTrue` from which views are up (`UpAreTheTwo`) and how (`ShownAsItIs`);
`NoteAlwaysTrue`, `NoteAlwaysStands` and `CountsAlwaysKeepUp` for the note and the count.

*WorkerPool, Teardown.* `Invariance`: what has started is `1 .. n` in order, what waits
follows it, and a worker leaves only after `stop` set the flag; `StopTheorem` follows.
`NotifyTheorem` assumes that the workers are finitely many and proves
`JobsHaveWorkers`, which is inductive next to `Inv`: where a worker sleeps, the jobs
waiting are at most the workers awake and the notification on its way. `PoolTheorem`
shows that Teardown's steps are the pool's or leave it alone, so that all of this
holds with jobs that wait for turns, locks and servers; `ReachTheorem` that whoever
the destructor waits for is within its reach: turn and lock are held by workers that
run a job, registering and `cancel()` exclude each other under `streamLock`, and so a
stream that is open on a cancelled transport was cut.

*PollGate* (`Shared_proofs`). `Invariance`: a slot is what its request's last poll brought
or that is an interval ago, seen from the latest time, because whoever swept it brought
a time that is past; `holdUntil` is the longest wait told. `SpacingTheorem`,
`HoldTheorem`, `CauseTheorem`, `HeldBackTheorem` and `BoundTheorem` follow step by step.
`PromptTheorem` assumes that every poll is claimed at the time it read, so that no poll
of the history stood (`NoneWaited`), and proves `PollsApart`.

*What MCFlows has side by side* (`Flows_proofs`). `VerdictTheorem`: the memos of the
device's identity are written once (`MemosStay`), and every answer given follows from
them (`ToldByMemo`), whichever threads asked. `ProgressIsHeard`: a download that is
being opened is the one the screen is tuned to (`OpeningIsTuned`). `OnlyOverlapForgets`:
what the file has and an instance about to save has not is what it missed
(`WhatIsMissed`). `RowsHold`: what the license and the list say of an add-on is of an
earlier state of the world, and each of the ways in which the two can differ is walked
through. `LaunchesAreLawful` follows the code's branches, for any grace period and any
ages of the two copies of a license.

The rules about versions are proved for texts of any length, without induction: two
pre-releases that differ, differ at a least place (`LeastExists`, from the natural
numbers being well-founded), which decides (`DecidedThere`), or one goes on where the
other ends (`DecidedByLength`); of three versions the earlier of two such places decides
between the outer ones (`PresTransitive`). So `VersionsOrdered`, and from it
`CoveredBefore`, which is `CoverageLasts` for every time.

`FlowsInvariant` and the seven theorems after it bring the parts together: a step of
MCFlows is a step of one part and leaves the others alone (`PartsStep`), so each
part's invariant holds there, and with them every invariant and every action property
that `flows` checks, as that run states it.

### Only model-checked

Liveness: `CallsReturn`, `StoresLand` (that a store ends; that none brings an
older license back is `NewestTheorem`), `LoadingEnds`, `RemovalLocks`, `RunOutIsSettled`,
`DestructorReturns`, `JobsGetTheirTurn`, `FlowsSettle` and `RevokingEnds`. Fairness and
`ENABLED` are beyond the prover. Every invariant and every action property of a passing run
is stated by a theorem.

## Where code and documentation disagree

Each is a run that is expected to fail; `PROJECT.json` quotes the lines.

- `launch_clobbers` (`SlowCheckNeverClobbers`): `ActivationController.h:4-7` says the
  generation keeps a slow request from clobbering a newer state. The check at launch
  (`ActivationController.cpp:388`) passes no `should_persist`, so a license cleared while
  it waits for the lock is stored again when its answer comes. Refreshes do pass it
  (`:634`), and for them `ClearedTheorem` is proved.
- `half_read` (`NeverHalfRead`): `docs/core-sdk.md:532-533` says the file is replaced in
  one step, so a reader never finds half of one. The fallback (`store.hpp:170-185`)
  writes in place, and a load at launch can find half a license, which it deletes. Where
  the rename works the sentence is proved (`WholeTheorem`), and under the lock it holds
  on Windows too (`InUseTheorem`).
- `deactivation_stuck` (`EndedIsRechecked`): `ActivationController.h:14-17` says a license
  whose `exp` passes is re-checked. A deactivation that was superseded by an activation
  leaves `busy_` set (`ActivationController.cpp:1110` returns before `:1112`), and from then
  on the deadlines are not looked at.
- `download_lost` (`DownloadIsHeard`): `ActivationController.h:629-630` says a
  re-validation can't cancel a download. It does not cancel it, but it takes the screen
  back to its start (`ActivationController.cpp:2216`), where nobody is told of the
  download's end.
- `identity_sticky` (`FailureIsRetried`): `moonbase_device_id_resolver.hpp:339-342` says a
  machine that is momentarily unreadable is read again. `identity()` keeps the failed
  read (`:332`), so that every later call gets it.
- `slow_revoke` (`SlowRevokeNeverClobbers`): `docs/juce.md:246-248` says a slow revocation
  can't clobber a freshly activated license. The deletion in
  `licensing::revoke_activation` (`licensing.hpp:357`) asks no generation, and an
  activation of the same computer keeps its activation id.
- `polls_bunch` (`PollsApart`): `client.hpp:511-512` says that polls of a request are at
  least the interval apart, `:503` calls it a hard floor, and `docs/juce.md:186-187` says
  at most one poll per second. The caller reads the clock (`client.hpp:522`, the default
  argument) before it waits for the gate's mutex, and the slot keeps that time: a poll
  that waited is claimed late, and the next one an interval after the clock was read.
  What holds is `PollsSpaced` (`SpacingTheorem`).

### Other observations

These contradict no sentence of the repository; the properties say how far the code
goes.

- A second `start()` with a license held may leave the screen at "Loading" (above, at
  `ScreensWaitForSomething`).
- `RunOutIsSettled` has `self.busy` as an exception, for the reason of
  `deactivation_stuck`.
- `CountsKeepUp` has one: where a license's end moves, the screen is painted and a day goes
  by before the next look, that look takes the new end for the news and the
  count is a day old until the next day (`slipped` in Countdowns).
- A row of the add-ons whose list is newer than the license says that the seats are in
  use, although the seat taken may be this computer's own; `FreshRowsTellTheTruth` is
  about lists and licenses of the same age.
- A view of an add-on's rows that is left keeps the timer of a busy button: unlike the
  other views it has no `visibilityChanged`. Views is about the panel's own spinners.

## Abstractions

- A load, store or deletion in LicenseUpdates is one step; FileStore says when that is
  so. Signatures, claims and JSON are left out: a token is valid, or the server says
  why not. An unreadable file at a load is `LoadFails`.
- The server is as the code uses it: it answers in the order in which it handles
  requests, its clock does not run backwards, an add-on call returns the last validation
  time (`licensing.hpp:413-437` relies on it). One clock for server and devices: skew is
  not modelled.
- A call is made with any token the caller ever had, also an outdated one.
- Revocation, refusals that are not verdicts on the activation, and expiry share
  `Refuse` with the outcome `refused` or `revoked`; the code keeps the file in every
  case but the last.
- A symlinked or hard-linked license is the `temp` fault (written in place).
- In ActivationController, AddOns and UnlockBridge a generation is no number: what
  carries one is fresh until the counter moves and outdated from then on, which is all
  that `!=` can tell, without a wrap after 2^64 moves. What a job does under the store's
  lock is one step there, with the server's answer; LicenseUpdates has those steps, and
  who comes between them.
- Copies of a license are numbers in the order they were issued, and a bound on them
  (`MaxIssued`, `MaxCopies`) is in the guard of the step that issues one. The other
  bounds are named alike: `MaxJobs`, `MaxStores`, `MaxTime`, `MaxUnderWay`, `MaxCalls`,
  `LastDay`, `MaxDay`.
- Times of a clock, a day, a trial's end are small numbers; what the code compares is
  kept, and its units are not.
- The numbers of a version are natural numbers: a text whose number overflows in
  `parse_uint` (`version.hpp:25-40`) is left out.
- `ForeignLaw` is about what has neither Moonbase's error type nor a token, on any status
  but 400, which every endpoint takes for final; a bare success counts as done for a
  revocation.
- Systems that share no state are explored side by side and not interleaved (above, at
  the MC modules).

## Not modelled

- The memory store: load, store, delete and `lock_for_update` share one recursive mutex, so
  that it behaves as the lock and file of LicenseUpdates do.
- The curl transport is one blocking call without state of its own; the license gate a
  gain that follows an atomic flag a sample at a time; the controller's configuration is
  data and shims for older names.
- The device fingerprint and the crypto backends are reads of the machine, text
  normalised by generated tables, and calls into the platforms' libraries.
- The module's copy of the SDK is byte for byte `include/moonbase/`. Vendored JSON,
  console examples, scripts and workflows are no logic of the SDK.
- In part: the wrappers of the facade that pass a call on; a token's decoding and the text
  of requests and messages; the older device id resolvers' own algorithms; layout,
  painting and the success view's animation; the bridge's synthetic key file, and the
  `licensing` object that several bridges of a process may share.

------------------------ MODULE ActivationController ------------------------
(***************************************************************************)
(* ActivationController (juce/ActivationController.cpp): the state machine *)
(* behind the activation screens, one instance of it, on a license file    *)
(* that siblings (other instances and processes) also read and write.      *)
(*                                                                         *)
(* Everything that touches the controller's members runs on the message    *)
(* thread, one handler at a time.  Requests run as jobs on the workers; a  *)
(* job's result comes back as a continuation in the message queue.  What a *)
(* job does under the store's lock is one step here (LicenseUpdates takes  *)
(* it apart), but anything may happen between a job and its continuation.  *)
(***************************************************************************)
EXTENDS Integers, FiniteSets, Sequences, SequencesExt

CONSTANTS
    Activations,    \* activation ids on this device
    KindOf,         \* [Activations -> {"full", "trial", "offline"}]
    NoLicense,
    Workers,        \* threads of the pool
    HostCalls,      \* what the plugin calls by itself, at any time
    Siblings,       \* what other instances and processes do to the file
    Times,          \* what time brings
    MaxJobs,        \* bound: the user and the host wait while so much is under way
    MaxIssued       \* bound: copies the server issues

ASSUME ControllerAssumption ==
    /\ KindOf \in [Activations -> {"full", "trial", "offline"}]
    /\ HostCalls \subseteq {"start", "refresh", "deactivate", "clear"}
    /\ Siblings \subseteq {"check", "activate", "remove"}
    /\ Times \subseteq {"grace", "end", "lapse"}
    /\ Workers \in Nat /\ MaxJobs \in Nat /\ MaxIssued \in Nat

\* A copy of a license: its activation, its place among what the server issued,
\* which is its validated_at, and whether it covers this version of the app.
Copies == [act : Activations, at : Nat, covered : BOOLEAN]

ASSUME NoLicenseAssumption == NoLicense \notin Copies

VARIABLES
    self,       \* the controller's members
    jobs,       \* given to the pool and not yet run, oldest first
    posted,     \* continuations the message thread has not run yet
    disk,       \* the license in the file
    changed,    \* the file's stamp differs from watchedStamp_
    existed,    \* watchedStamp_->exists
    watching,   \* the license watch runs
    elsewhere,  \* a license a sibling activated and has not stored yet
    issued,     \* copies the server has issued
    stale,      \* copies up to this one are past the offline grace period
    ended       \* copies of an activation up to this one are past their `exp`

messages == <<jobs, posted>>
file     == <<disk, changed>>
watch    == <<existed, watching>>
time     == <<stale, ended>>
vars == <<self, messages, file, watch, elsewhere, issued, time>>

-----------------------------------------------------------------------------
Screens == {"Loading", "Welcome", "BrowserWait", "Success", "Offline", "Trial",
            "Expired", "NotCovered", "Details", "Error", "AddOns"}
Reasons == {"None", "Deactivated", "Expired", "Invalid", "Unverified", "NotCovered"}

\* generation_ is not a number here: a job or continuation is `fresh` until the
\* controller moves its generation on, which is all a comparison can tell.
JobKinds == {"start", "request", "poll", "refresh", "deactivate", "discard"}
Answers  == {"none", "granted", "notCovered", "expired", "dead", "revoked", "invalid",
             "failed", "unverified", "pending", "unsupported"}
Messages == [kind : JobKinds, fresh : BOOLEAN, from : Copies \cup {NoLicense},
             force : BOOLEAN, answer : Answers, copy : Copies \cup {NoLicense}]

Members == [screen : Screens, license : Copies \cup {NoLicense},
            notCovered : Copies \cup {NoLicense},
            expiredTrial : Copies \cup {NoLicense}, lockReason : Reasons,
            pending : BOOLEAN, polling : BOOLEAN, pollInFlight : BOOLEAN,
            busy : BOOLEAN, refreshes : Nat]

TypeOK ==
    /\ self \in Members
    /\ jobs \in Seq(Messages) /\ posted \in Seq(Messages)
    /\ disk \in Copies \cup {NoLicense}
    /\ changed \in BOOLEAN /\ existed \in BOOLEAN /\ watching \in BOOLEAN
    /\ elsewhere \in Copies \cup {NoLicense}
    /\ issued \in Nat /\ stale \in Nat /\ ended \in [Activations -> Nat]

Job(kind, from, force) ==
    [kind |-> kind, fresh |-> TRUE, from |-> from, force |-> force,
     answer |-> "none", copy |-> NoLicense]

Kind(copy)      == KindOf[copy.act]
PastGrace(copy) == Kind(copy) # "offline" /\ copy.at <= stale
Ended(copy)     == copy.at <= ended[copy.act]
New(a, covers)  == [act |-> a, at |-> issued + 1, covered |-> covers]

\* An earlier session may have left a license, which covers this version or not.
Init ==
    /\ self = [screen |-> "Loading", license |-> NoLicense, notCovered |-> NoLicense,
               expiredTrial |-> NoLicense, lockReason |-> "None", pending |-> FALSE,
               polling |-> FALSE, pollInFlight |-> FALSE, busy |-> FALSE, refreshes |-> 0]
    /\ jobs = << >> /\ posted = << >>
    /\ disk \in [act : Activations, at : {1}, covered : BOOLEAN] \cup {NoLicense}
    /\ changed = FALSE /\ existed = FALSE /\ watching = FALSE
    /\ elsewhere = NoLicense
    /\ issued = 1 /\ stale = 0 /\ ended = [a \in Activations |-> 0]

-----------------------------------------------------------------------------
(* What the handlers are made of: from the members to the members.         *)

Show(c, screen) == [c EXCEPT !.screen = screen]

\* Mutant: the reason of the last lock outlives it.
SetLicenseSilently(c, copy) ==
    IF copy = NoLicense THEN [c EXCEPT !.license = NoLicense]
    ELSE [c EXCEPT !.license = copy, !.notCovered = NoLicense]

SetLicense(c, copy) ==
    IF copy = NoLicense
      THEN [c EXCEPT !.license = NoLicense]
      ELSE [c EXCEPT !.license = copy, !.lockReason = "None", !.notCovered = NoLicense]

ScreenFor(c) ==
    CASE c.license # NoLicense /\ Kind(c.license) = "trial" -> "Trial"
      [] c.license # NoLicense /\ Kind(c.license) # "trial" -> "Details"
      [] c.license = NoLicense /\ c.notCovered # NoLicense  -> "NotCovered"
      [] OTHER -> "Welcome"

\* An open list of add-ons stays open (UpdateFlow has the routing to an update).
ApplyLicense(c, copy) ==
    LET d == [SetLicense(c, copy) EXCEPT !.expiredTrial = NoLicense,
                                         !.notCovered = NoLicense]
    IN  IF c.screen = "AddOns" /\ ScreenFor(d) = "Details" THEN d
        ELSE Show(d, ScreenFor(d))

Lock(c, reason) == ApplyLicense([c EXCEPT !.lockReason = reason], NoLicense)

ShowTrialExpired(c, copy) ==
    [c EXCEPT !.expiredTrial = copy, !.notCovered = NoLicense,
              !.lockReason = "Expired", !.license = NoLicense, !.screen = "Expired"]

ShowNotCovered(c, copy) ==
    [c EXCEPT !.expiredTrial = NoLicense, !.notCovered = copy,
              !.lockReason = "NotCovered", !.license = NoLicense,
              !.screen = "NotCovered"]

\* The license held, whether it unlocks this version or not.
Held(c) == IF c.license # NoLicense THEN c.license ELSE c.notCovered

IsOlderThanHeld(c, copy) ==
    /\ Held(c) # NoLicense
    /\ Held(c).act = copy.act
    /\ copy.at < Held(c).at

ActivationInFlight(c) == c.pending \/ c.screen = "BrowserWait"

\* Its ++generation_ is Superseded below.
EndActivationFlows(c) ==
    [c EXCEPT !.polling = FALSE, !.pending = FALSE, !.pollInFlight = FALSE,
              !.busy = FALSE, !.screen = IF @ = "AddOns" THEN "Details" ELSE @]

Outdated(m) == [m EXCEPT !.fresh = FALSE, !.answer = "none", !.copy = NoLicense]

\* Mutant: the generation stands still.
NothingSuperseded(seq) == seq

\* ++generation_: what is under way is out of date, and nobody reads its answer.
Superseded(seq) == [i \in DOMAIN seq |-> Outdated(seq[i])]

\* A handler that keeps the generation, or moves it, and gives the pool `new`.
Keeping(new, rest) == jobs' = jobs \o new /\ posted' = rest
Moving(new, rest)  == jobs' = Superseded(jobs) \o new /\ posted' = Superseded(rest)

\* A store or a deletion, here or in a sibling: a stat sees it.
Stored(copy) ==
    /\ disk' = copy
    /\ changed' = (changed \/ disk # NoLicense \/ copy # NoLicense)

Room == Len(jobs) + Len(posted) < MaxJobs

-----------------------------------------------------------------------------
(* Handlers of the message thread: calls of the host and of the screens.    *)

\* The host starts it before anything else.
HostMay(call) == call \in HostCalls /\ watching

\* The first look at the file is taken before the load.
Start ==
    /\ (~watching \/ "start" \in HostCalls) /\ Room
    /\ self' = [self EXCEPT !.lockReason = "None", !.screen = "Loading"]
    /\ Moving(<<Job("start", NoLicense, FALSE)>>, posted)
    /\ changed' = FALSE /\ existed' = (disk # NoLicense) /\ watching' = TRUE
    /\ UNCHANGED <<disk, elsewhere, issued, time>>

\* The buttons of the built-in screens that start a browser activation.
Activate ==
    /\ \/ self.screen \in {"Welcome", "Error", "Trial", "Expired"}
       \/ self.screen = "NotCovered" /\ self.notCovered # NoLicense
    /\ Room
    /\ self' = Show(self, "BrowserWait")
    /\ Moving(<<Job("request", NoLicense, FALSE)>>, posted)
    /\ UNCHANGED <<file, watch, elsewhere, issued, time>>

Cancel ==
    /\ self.screen = "BrowserWait"
    /\ LET c == [self EXCEPT !.polling = FALSE, !.pending = FALSE, !.pollInFlight = FALSE]
       IN  self' = Show(c, IF c.notCovered # NoLicense /\ c.license = NoLicense
                             THEN "NotCovered" ELSE "Welcome")
    /\ Moving(<< >>, posted)
    /\ UNCHANGED <<file, watch, elsewhere, issued, time>>

\* Mutant: a check is started under an activation.
MayAlwaysRefresh(c) ==
    ~c.busy /\ Held(c) # NoLicense /\ Kind(Held(c)) # "offline"

\* refreshLicense: skipped for what supersedes it, or has nothing to check.
MayRefresh(c) ==
    /\ ~ActivationInFlight(c) /\ ~c.busy
    /\ Held(c) # NoLicense
    /\ Kind(Held(c)) # "offline"

Refreshing(c) == [c EXCEPT !.refreshes = @ + 1]

Refresh(force) ==
    /\ \/ HostMay("refresh")
       \/ force /\ self.screen = "NotCovered" /\ self.refreshes = 0
    /\ MayRefresh(self) /\ Room
    /\ self' = Refreshing(self)
    /\ Moving(<<Job("refresh", Held(self), force)>>, posted)
    /\ UNCHANGED <<file, watch, elsewhere, issued, time>>

\* clearLicense, and deactivate with a license the server can't revoke.
ClearLicense ==
    /\ \/ HostMay("clear")
       \/ /\ HostMay("deactivate")
          /\ Held(self) # NoLicense
          /\ Kind(Held(self)) \in {"offline", "trial"}
    /\ self' = Lock(self, "Deactivated")
    /\ Moving(<< >>, posted)
    /\ Stored(NoLicense)
    /\ UNCHANGED <<watch, elsewhere, issued, time>>

\* The button of the details view is disabled while busy.
Deactivate ==
    /\ \/ HostMay("deactivate")
       \/ self.screen = "Details" /\ ~self.busy
    /\ Held(self) # NoLicense
    /\ Kind(Held(self)) = "full" /\ Room
    /\ self' = [self EXCEPT !.busy = TRUE]
    /\ Moving(<<Job("deactivate", Held(self), FALSE)>>, posted)
    /\ UNCHANGED <<file, watch, elsewhere, issued, time>>

DeactivateNothing ==
    /\ HostMay("deactivate")
    /\ Held(self) = NoLicense
    /\ self' = Show(self, "Welcome")
    /\ UNCHANGED <<messages, file, watch, elsewhere, issued, time>>

\* A response file: none chosen, not one for this device, or one that does.
ActivateOffline ==
    /\ self.screen = "Offline"
    /\ \/ /\ self' = Show(self, "Offline")
          /\ \/ UNCHANGED messages
             \/ Moving(<< >>, posted)
          /\ UNCHANGED <<file, issued>>
       \/ \E a \in {b \in Activations : KindOf[b] = "offline"}, covers \in BOOLEAN :
            /\ issued < MaxIssued /\ issued' = issued + 1
            /\ Stored(New(a, covers))
            /\ self' = IF covers
                         THEN Show(SetLicense(self, New(a, covers)), "Success")
                         ELSE ShowNotCovered(self, New(a, covers))
            /\ Moving(<< >>, posted)
    /\ UNCHANGED <<watch, elsewhere, time>>

\* Navigation: each button is on the screens named.
Navigate ==
    /\ \/ /\ \/ self.screen \in {"Welcome", "Error", "Expired"}
             \/ /\ self.screen = "NotCovered" /\ self.notCovered # NoLicense
                /\ Kind(self.notCovered) = "offline"
          /\ self' = Show(self, "Offline")
       \/ /\ self.screen = "Offline"
          /\ self' = Show(self, "Welcome")
       \/ /\ self.screen \in {"Success", "AddOns"}
          /\ self' = Show(self, ScreenFor(self))
       \/ /\ self.screen = "Details"
          /\ self.license # NoLicense /\ Kind(self.license) # "trial"
          /\ self' = Show(self, "AddOns")
    /\ UNCHANGED <<messages, file, watch, elsewhere, issued, time>>

PollTick ==
    /\ self.polling /\ self.pending /\ ~self.pollInFlight /\ Room
    /\ self' = [self EXCEPT !.pollInFlight = TRUE]
    /\ Keeping(<<Job("poll", NoLicense, FALSE)>>, posted)
    /\ UNCHANGED <<file, watch, elsewhere, issued, time>>

-----------------------------------------------------------------------------
(* Jobs.  The pool starts them in the order they came; any of the ones that *)
(* run may be the first to end.                                             *)

Ends(i, answer, copy) ==
    /\ jobs' = RemoveAt(jobs, i)
    /\ posted' = Append(posted, IF jobs[i].fresh
                                  THEN [jobs[i] EXCEPT !.answer = answer, !.copy = copy]
                                  ELSE Outdated(jobs[i]))

\* The server issues a fresh copy; it lands in the file if it may be stored.
Issue(a, covers, store) ==
    /\ issued < MaxIssued /\ issued' = issued + 1
    /\ IF store THEN Stored(New(a, covers)) ELSE UNCHANGED file

Verdict(covers) == IF covers THEN "granted" ELSE "notCovered"

Freshest(copy) ==
    IF disk # NoLicense /\ disk.act = copy.act /\ disk.at > copy.at THEN disk ELSE copy

\* validate_token_online, under the store's lock; `store` is should_persist, and
\* `force` goes to the server without looking at the file or the copy itself.
CheckOnline(i, copy, store, force) ==
    \/ /\ ~force /\ Ended(copy)
       /\ Ends(i, "expired", copy)
       /\ UNCHANGED <<file, issued>>
    \/ /\ ~force /\ ~Ended(copy) /\ ~PastGrace(Freshest(copy))
       /\ Ends(i, Verdict(Freshest(copy).covered), Freshest(copy))
       /\ UNCHANGED <<file, issued>>
    \/ /\ force \/ ~Ended(copy)
       /\ \E covers \in BOOLEAN :
            /\ Issue(copy.act, covers, store)
            /\ Ends(i, Verdict(covers), New(copy.act, covers))
    \/ /\ force \/ ~Ended(copy)
       /\ \E answer \in {"expired", "revoked", "invalid"} : Ends(i, answer, copy)
       /\ UNCHANGED <<file, issued>>
    \/ /\ force \/ (~Ended(copy) /\ PastGrace(Freshest(copy)))
       /\ Ends(i, IF PastGrace(copy) THEN "unverified" ELSE "failed", copy)
       /\ UNCHANGED <<file, issued>>

\* The load at launch: nothing there or nothing to read, a license that isn't
\* for this device, an offline one, which is judged here, or one to check.
LoadAtLaunch(i) ==
    \/ /\ Ends(i, "none", NoLicense)
       /\ UNCHANGED <<file, issued>>
    \/ /\ disk # NoLicense
       /\ Ends(i, "invalid", disk)
       /\ UNCHANGED <<file, issued>>
    \/ /\ disk # NoLicense /\ Kind(disk) = "offline"
       /\ Ends(i, IF Ended(disk) THEN "dead" ELSE Verdict(disk.covered), disk)
       /\ UNCHANGED <<file, issued>>
    \/ /\ disk # NoLicense /\ Kind(disk) # "offline"
       /\ CheckOnline(i, disk, TRUE, FALSE)
    \/ /\ disk # NoLicense /\ Kind(disk) # "offline" /\ ~Ended(disk)
       /\ Ends(i, "revoked", disk)
       /\ Stored(NoLicense)
       /\ UNCHANGED issued

\* The stored license goes, if it is of that activation.
Forgotten(copy) ==
    /\ disk # NoLicense /\ disk.act = copy.act
    /\ Stored(NoLicense)

\* Nothing is stored once the check was superseded, nor over another activation.
StillCurrent(job) ==
    /\ job.fresh
    /\ disk = NoLicense \/ disk.act = job.from.act

RunJob(i) ==
    /\ i \in 1 .. Workers /\ i <= Len(jobs)
    /\ LET job == jobs[i] IN
       \/ job.kind = "start" /\ LoadAtLaunch(i)
       \/ /\ job.kind = "refresh"
          /\ CheckOnline(i, job.from, StillCurrent(job), job.force)
       \/ /\ job.kind = "request"
          /\ \E answer \in {"granted", "failed"} : Ends(i, answer, NoLicense)
          /\ UNCHANGED <<file, issued>>
       \/ /\ job.kind = "poll"
          /\ \/ /\ \E answer \in {"pending", "invalid"} : Ends(i, answer, NoLicense)
                /\ UNCHANGED <<file, issued>>
             \/ \E a \in {b \in Activations : KindOf[b] # "offline"}, covers \in BOOLEAN :
                  /\ Issue(a, covers, FALSE)
                  /\ Ends(i, "granted", New(a, covers))
       \/ /\ job.kind = "deactivate"
          /\ \E answer \in {"revoked", "unsupported", "failed"} :
               /\ Ends(i, answer, NoLicense)
               /\ \/ UNCHANGED file
                  \/ answer = "revoked" /\ Forgotten(job.from)
          /\ UNCHANGED issued
       \/ /\ job.kind = "discard"
          /\ Ends(i, "none", NoLicense)
          /\ IF disk # NoLicense /\ disk.act = job.from.act /\ disk.at <= job.from.at
               THEN Stored(NoLicense) ELSE UNCHANGED file
          /\ UNCHANGED issued
    /\ UNCHANGED <<self, watch, elsewhere, time>>

-----------------------------------------------------------------------------
(* Continuations, in the order they were posted.                           *)

First(kind) == posted # << >> /\ posted[1].kind = kind

\* Mutant: a superseded check returns before it is counted off.
DroppedFirst ==
    /\ posted # << >> /\ ~posted[1].fresh
    /\ self' = IF posted[1].kind = "poll" THEN [self EXCEPT !.pollInFlight = FALSE] ELSE self
    /\ Keeping(<< >>, Tail(posted))
    /\ UNCHANGED <<file, watch, elsewhere, issued, time>>

\* Superseded: dropped.
Dropped ==
    /\ posted # << >> /\ ~posted[1].fresh
    /\ self' = CASE posted[1].kind = "refresh" -> [self EXCEPT !.refreshes = @ - 1]
                 [] posted[1].kind = "poll"    -> [self EXCEPT !.pollInFlight = FALSE]
                 [] OTHER -> self
    /\ Keeping(<< >>, Tail(posted))
    /\ UNCHANGED <<file, watch, elsewhere, issued, time>>

\* Mutant: a launch that found no license leaves it at that.
LaunchedWith ==
    /\ First("start") /\ posted[1].fresh
    /\ self' = IF posted[1].answer = "granted" THEN ApplyLicense(self, posted[1].copy) ELSE self
    /\ Keeping(<< >>, Tail(posted))
    /\ UNCHANGED <<file, watch, elsewhere, issued, time>>

\* Whatever is stored by now is deleted for an offline license found dead.
Launched ==
    /\ First("start") /\ posted[1].fresh
    /\ LET m == posted[1] IN
       /\ self' =
            CASE m.answer = "granted"    -> ApplyLicense(self, m.copy)
              [] m.answer = "notCovered" -> ShowNotCovered(self, m.copy)
              [] m.answer = "expired" /\ Kind(m.copy) = "trial" -> ShowTrialExpired(self, m.copy)
              [] m.answer = "expired" /\ Kind(m.copy) # "trial" -> Lock(self, "Expired")
              [] m.answer = "dead"       -> Lock(self, "Expired")
              [] m.answer \in {"revoked", "invalid"} -> Lock(self, "Invalid")
              [] m.answer = "unverified" -> Lock(self, "Unverified")
              [] OTHER -> Lock(self, "None")
       /\ IF m.answer = "dead" THEN Stored(NoLicense) ELSE UNCHANGED file
    /\ Keeping(<< >>, Tail(posted))
    /\ UNCHANGED <<watch, elsewhere, issued, time>>

Requested ==
    /\ First("request") /\ posted[1].fresh
    /\ self' = IF posted[1].answer = "granted"
                 THEN [self EXCEPT !.pending = TRUE, !.polling = TRUE]
                 ELSE Show(self, "Error")
    /\ Keeping(<< >>, Tail(posted))
    /\ UNCHANGED <<file, watch, elsewhere, issued, time>>

\* onActivationFulfilled stores the license and unlocks, whether it could or not.
Polled ==
    /\ First("poll") /\ posted[1].fresh
    /\ LET m == posted[1]
           c == [self EXCEPT !.pollInFlight = FALSE]
           over == [c EXCEPT !.polling = FALSE, !.pending = FALSE]
       IN  \/ /\ m.answer = "pending"
              /\ self' = c
              /\ Keeping(<< >>, Tail(posted))
              /\ UNCHANGED file
           \/ /\ m.answer = "invalid"
              /\ self' = Show(over, "Error")
              /\ Keeping(<< >>, Tail(posted))
              /\ UNCHANGED file
           \/ /\ m.answer = "granted"
              /\ self' = Show(SetLicense(over, m.copy), "Success")
              /\ Moving(<< >>, Tail(posted))
              /\ Stored(m.copy) \/ UNCHANGED file
    /\ UNCHANGED <<watch, elsewhere, issued, time>>

\* A throttled check answered with the copy it was asked about, and the
\* controller holds another of that activation by now.
AnsweredOlder(m, c) ==
    /\ ~m.force /\ m.answer = "granted" /\ m.copy = m.from
    /\ c.license # NoLicense
    /\ c.license.act = m.copy.act /\ c.license # m.from

\* What the answer of a check makes of the members.
Checked(m, c) ==
    CASE AnsweredOlder(m, c)      -> c
      [] m.answer = "granted" /\ ~AnsweredOlder(m, c) -> ApplyLicense(c, m.copy)
      [] m.answer = "notCovered" -> IF IsOlderThanHeld(c, m.copy) THEN c
                                    ELSE ShowNotCovered(c, m.copy)
      [] m.answer = "expired" -> IF Kind(m.from) = "trial" THEN ShowTrialExpired(c, m.from)
                                 ELSE Lock(c, "Expired")
      [] m.answer \in {"revoked", "invalid"} -> Lock(c, "Invalid")
      [] m.answer \in {"failed", "unverified"} ->
            IF c.notCovered # NoLicense /\ c.license = NoLicense THEN Show(c, "NotCovered")
            ELSE IF m.answer = "unverified" THEN Lock(c, "Unverified") ELSE c

Refreshed ==
    /\ First("refresh") /\ posted[1].fresh
    /\ LET m == posted[1] IN
       /\ self' = Checked(m, [self EXCEPT !.refreshes = @ - 1])
       /\ Keeping(IF m.answer = "revoked" THEN <<Job("discard", m.from, FALSE)>> ELSE << >>,
                  Tail(posted))
    /\ UNCHANGED <<file, watch, elsewhere, issued, time>>

\* The activation that was revoked is named by the job; another stays stored.
Deactivated ==
    /\ First("deactivate") /\ posted[1].fresh
    /\ LET m == posted[1]
           c == [self EXCEPT !.busy = FALSE]
       IN  \/ /\ m.answer = "revoked"
              /\ self' = Lock(c, "Deactivated")
              /\ Keeping(<< >>, Tail(posted))
              /\ IF disk # NoLicense /\ disk.act = m.from.act
                   THEN Forgotten(m.from) ELSE UNCHANGED file
           \/ /\ m.answer = "unsupported"
              /\ self' = Lock(c, "Deactivated")
              /\ Moving(<< >>, Tail(posted))
              /\ Stored(NoLicense)
           \/ /\ m.answer = "failed"
              /\ self' = Show(c, ScreenFor(c))
              /\ Keeping(<< >>, Tail(posted))
              /\ UNCHANGED file
    /\ UNCHANGED <<watch, elsewhere, issued, time>>

Discarded ==
    /\ First("discard") /\ posted[1].fresh
    /\ Keeping(<< >>, Tail(posted))
    /\ UNCHANGED <<self, file, watch, elsewhere, issued, time>>

-----------------------------------------------------------------------------
(* The license watch: a tick looks at the file, then at the deadlines.      *)

Stays(c) == [self |-> c, moved |-> FALSE]
Moves(c) == [self |-> c, moved |-> TRUE]

\* Mutant: only a license that unlocks is missed.
FileRemovedUnlocked(c) ==
    IF c.license = NoLicense \/ ActivationInFlight(c) THEN Stays(c)
    ELSE Moves(Lock(EndActivationFlows(c), "Deactivated"))

\* An activation under way carries on and brings a license of its own.
FileRemoved(c) ==
    IF Held(c) = NoLicense THEN Stays(c)
    ELSE IF ActivationInFlight(c)
      THEN Stays([c EXCEPT !.license = NoLicense, !.lockReason = "Deactivated",
                           !.notCovered = IF c.license = NoLicense THEN NoLicense ELSE @])
    ELSE Moves(Lock(EndActivationFlows(c), "Deactivated"))

AdoptStored(c, copy) ==
    IF IsOlderThanHeld(c, copy) THEN Stays(c)
    ELSE IF c.license # NoLicense /\ c.license.act = copy.act THEN Stays(SetLicense(c, copy))
    ELSE Moves(ApplyLicense(EndActivationFlows(c), copy))

AdoptNotCovered(c, copy) ==
    IF IsOlderThanHeld(c, copy) \/ ActivationInFlight(c) THEN Stays(c)
    ELSE IF Held(c) # NoLicense /\ Held(c).act = copy.act THEN Stays(ShowNotCovered(c, copy))
    ELSE Moves(ShowNotCovered(EndActivationFlows(c), copy))

\* Its own write, and a copy that would not unlock at launch either, are left.
CheckFile(c) ==
    IF ~changed \/ (disk = NoLicense /\ ~existed) THEN Stays(c)
    ELSE IF disk = NoLicense THEN FileRemoved(c)
    ELSE IF disk \in {c.license, c.notCovered} \/ Ended(disk) \/ PastGrace(disk) THEN Stays(c)
    ELSE IF disk.covered THEN AdoptStored(c, disk) ELSE AdoptNotCovered(c, disk)

\* Mutant: the grace period is the launch's concern.
RanOutByExp(c) ==
    /\ c.license # NoLicense /\ ~c.busy /\ c.refreshes = 0
    /\ Ended(c.license)

RanOut(c) ==
    /\ c.license # NoLicense /\ ~c.busy /\ c.refreshes = 0
    /\ Ended(c.license) \/ PastGrace(c.license)

\* What a license that ran out does: lock under an activation, remove a dead
\* offline license, or ask once more.  An add-on that ran out asks too.
CheckDeadlines(f) ==
    LET c == f.self
        carry(new) == IF f.moved THEN Moving(new, posted) ELSE Keeping(new, posted)
        why == IF Ended(c.license) THEN "Expired" ELSE "Unverified"
        lapse(force) == /\ self' = Refreshing(c)
                        /\ Moving(<<Job("refresh", Held(c), force)>>, posted)
    IN  \/ /\ ~RanOut(c)
           /\ self' = c /\ carry(<< >>) /\ UNCHANGED disk
        \/ /\ RanOut(c) /\ ActivationInFlight(c)
           /\ self' = [c EXCEPT !.license = NoLicense, !.lockReason = why,
                                !.expiredTrial = IF Kind(c.license) = "trial"
                                                   THEN c.license ELSE @]
           /\ carry(<< >>) /\ UNCHANGED disk
        \/ /\ RanOut(c) /\ ~ActivationInFlight(c) /\ Kind(c.license) = "offline"
           /\ self' = Lock(c, "Expired") /\ Moving(<< >>, posted) /\ disk' = NoLicense
        \/ /\ RanOut(c) /\ ~ActivationInFlight(c) /\ Kind(c.license) # "offline"
           /\ lapse(FALSE) /\ UNCHANGED disk
        \/ /\ "lapse" \in Times
           /\ c.license # NoLicense /\ Kind(c.license) # "offline"
           /\ ~c.busy /\ c.refreshes = 0 /\ ~ActivationInFlight(c)
           /\ lapse(TRUE) /\ UNCHANGED disk

\* changed is about the stamp it compares with from now on.
WatchLicense ==
    /\ watching /\ self.screen # "Loading"
    /\ existed' = (disk # NoLicense)
    /\ CheckDeadlines(CheckFile(self))
    /\ changed' = (disk' # disk)
    /\ UNCHANGED <<watching, elsewhere, issued, time>>

-----------------------------------------------------------------------------
(* Around it: siblings on the same file, and time.                          *)

SiblingChecks ==
    /\ "check" \in Siblings
    /\ disk # NoLicense /\ Kind(disk) # "offline"
    /\ \E covers \in BOOLEAN : Issue(disk.act, covers, TRUE)
    /\ UNCHANGED <<self, messages, watch, elsewhere, time>>

\* Between the answer a sibling gets and its store, another store may land.
SiblingActivates ==
    /\ "activate" \in Siblings
    /\ \/ /\ elsewhere = NoLicense
          /\ \E a \in Activations, covers \in BOOLEAN :
               /\ Issue(a, covers, FALSE)
               /\ elsewhere' = New(a, covers)
       \/ /\ elsewhere # NoLicense
          /\ Stored(elsewhere)
          /\ elsewhere' = NoLicense
          /\ UNCHANGED issued
    /\ UNCHANGED <<self, messages, watch, time>>

SiblingRemoves ==
    /\ "remove" \in Siblings
    /\ disk # NoLicense /\ Stored(NoLicense)
    /\ UNCHANGED <<self, messages, watch, elsewhere, issued, time>>

\* Bound: in a behaviour either the grace period passes or one activation's license ends.
GracePasses ==
    /\ "grace" \in Times /\ stale < issued
    /\ \A a \in Activations : ended[a] = 0
    /\ stale' = issued
    /\ UNCHANGED <<self, messages, file, watch, elsewhere, issued, ended>>

LicenseEnds(a) ==
    /\ "end" \in Times /\ ended[a] < issued /\ stale = 0
    /\ \A b \in Activations \ {a} : ended[b] = 0
    /\ ended' = [ended EXCEPT ![a] = issued]
    /\ UNCHANGED <<self, messages, file, watch, elsewhere, issued, stale>>

-----------------------------------------------------------------------------
Continue ==
    \/ Dropped \/ Launched \/ Requested \/ Polled \/ Refreshed \/ Deactivated \/ Discarded

Next ==
    \/ Start \/ Activate \/ Cancel \/ (\E force \in BOOLEAN : Refresh(force))
    \/ ClearLicense \/ Deactivate \/ DeactivateNothing \/ ActivateOffline \/ Navigate
    \/ PollTick \/ WatchLicense
    \/ (\E i \in DOMAIN jobs : RunJob(i)) \/ Continue
    \/ SiblingChecks \/ SiblingActivates \/ SiblingRemoves
    \/ GracePasses \/ (\E a \in Activations : LicenseEnds(a))

Spec == Init /\ [][Next]_vars

\* The pool's workers and the message loop never stop; requests time out.
Fairness == WF_vars(WatchLicense) /\ WF_vars(RunJob(1)) /\ WF_vars(Continue)

FairSpec == Spec /\ Fairness

-----------------------------------------------------------------------------
(* Properties.                                                             *)

UnderWay   == Range(jobs) \cup Range(posted)
Fresh(kind) == \E m \in UnderWay : m.fresh /\ m.kind = kind

\* The screens that are about a license have one: a host that draws what the
\* controller says never draws "Upgrade needed" or "Expired" of nothing, never
\* explains a lock next to a license, and polls only for a request (setLicense,
\* applyLicense, showTrialExpired, showNotCovered and their callers).  Behind an
\* activation the "Upgrade needed" screen may lose its license to a sibling.
ScreenMatchesLicense ==
    /\ self.license # NoLicense => self.notCovered = NoLicense /\ self.lockReason = "None"
    /\ self.screen = "NotCovered" => self.notCovered # NoLicense \/ self.pending
    /\ self.screen = "Expired" => self.expiredTrial # NoLicense /\ self.license = NoLicense
    /\ self.polling = self.pending

\* refreshesInFlight_ counts the checks whose answer is still to come, dropped
\* ones included: one too many and the license watch never checks again.
RefreshesCounted ==
    LET refreshes(seq) == Cardinality({i \in DOMAIN seq : seq[i].kind = "refresh"})
    IN  self.refreshes = refreshes(jobs) + refreshes(posted)

\* What every handler leaves behind it.
Inv == TypeOK /\ ScreenMatchesLicense /\ RefreshesCounted

\* A screen that waits has something to wait for: no supersession of the load or
\* of the activation request strands the user on "Loading" or "Waiting".
WaitsForSomething ==
    /\ watching /\ self.screen = "Loading" => Fresh("start")
    /\ self.screen = "BrowserWait" =>
         self.pending \/ Fresh("request") \/ Fresh("deactivate")

\* What the server says about one activation changes nothing about another that
\* the controller holds by the time the answer is applied: generation_ moves
\* wherever the activation held changes.
AnswersStayWithTheirLicense ==
    [][ /\ posted # << >> /\ posted' = Tail(posted)
        /\ posted[1].kind \in {"refresh", "deactivate"}
        /\ Held(self) # NoLicense /\ Held(self).act # posted[1].from.act
        => Held(self') = Held(self) ]_vars

\* The user and the host leave it alone from some time on.
Unattended ==
    \/ PollTick \/ WatchLicense \/ (\E i \in DOMAIN jobs : RunJob(i)) \/ Continue
    \/ SiblingChecks \/ SiblingActivates \/ SiblingRemoves

LeftAlone == <>[][Unattended]_vars

\* The load always settles on a screen.
LoadingEnds == watching /\ self.screen = "Loading" ~> self.screen # "Loading"

\* A license file that another instance removes is noticed, and what was held is
\* dropped, unless a license is stored again first (the header's "picked up
\* within a couple of seconds").
RemovalLocks ==
    LeftAlone => (watching /\ existed /\ disk = NoLicense
                    ~> disk # NoLicense \/ Held(self) = NoLicense)

RunsOut(copy) == Ended(copy) \/ PastGrace(copy)

\* A license that runs out while the app is open, by its exp or its grace period, is
\* locked, or a fresh copy takes its place, unless a deactivation is believed to be
\* under way (checkLicenseDeadlines).
RunOutIsSettled ==
    LeftAlone => (self.license # NoLicense /\ RunsOut(self.license)
                    ~> self.busy \/ self.license = NoLicense \/ ~RunsOut(self.license))

\* As the header has it, without the exception: "a license whose `exp` passes
\* [...] is re-checked (and locked if it has ended) without a restart".
EndedIsRechecked ==
    LeftAlone => (self.license # NoLicense /\ Ended(self.license)
                    ~> self.license = NoLicense \/ ~Ended(self.license))

=============================================================================

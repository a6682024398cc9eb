------------------------------ MODULE UnlockBridge ------------------------------
(***************************************************************************)
(* MoonbaseUnlockStatus, the bridge from Moonbase to JUCE's                *)
(* OnlineUnlockStatus (examples/juce/MoonbaseJuceBridge.h), and the sample *)
(* screen that drives it (examples/juce/PluginActivationComponent.h): a    *)
(* license in memory and in a file, calls that change both on the message  *)
(* thread, and checks and revocations on threads of their own.             *)
(*                                                                         *)
(* What is done under the store's lock is a step; a call on the message    *)
(* thread that waits for that lock is two, with `doing` in between.        *)
(***************************************************************************)
EXTENDS Integers, Sequences, SequencesExt

CONSTANTS
    Seats,          \* activation ids on this device
    OfflineSeats,   \* those of offline licenses
    NoCopy,         \* no license
    BridgeCalls,    \* what the host calls besides the sample's buttons
    MaxUnderWay,    \* bound: checks, revocations and continuations at once
    MaxCopies       \* bound: copies of licenses the server issues

ASSUME UnlockBridgeAssumption ==
    /\ OfflineSeats \subseteq Seats
    /\ BridgeCalls \subseteq {"load", "loadNow", "revokeNow", "clear", "destroy"}
    /\ MaxUnderWay \in Nat /\ MaxCopies \in Nat

LicenseCopies == [act : Seats, nth : Nat]

ASSUME NoCopyAssumption == NoCopy \notin LicenseCopies

VARIABLES
    unlocked,   \* current_, and JUCE's flag with it
    stored,     \* the license in the file
    request,    \* pendingRequest_ is there
    underWay,   \* juce::Thread::launch: checks and revocations
    posts,      \* MessageManager::callAsync
    doing,      \* the call the message thread is in, and the license it is about
    alive,      \* the bridge is
    copies,     \* how many the server has issued
    label,      \* the sample's, as far as it says that a revocation is under way
    standing    \* history: what the last clearing or activation left, until the next call

async  == <<underWay, posts>>
bridgeVars == <<unlocked, stored, request, async, doing, alive, copies, label, standing>>

MaybeCopy == LicenseCopies \cup {NoCopy}

\* validationGeneration_ is not a number here: `fresh` is what comparing it would say.
BackgroundCalls ==
    [kind : {"check", "revoke"}, fresh : BOOLEAN, copy : LicenseCopies,
     stage : {"ask", "delete"}]
Outcomes == {"granted", "locked", "revoked", "noLicense", "notRevokable", "unreachable"}
Continuations ==
    [kind : {"check", "revoke"}, fresh : BOOLEAN, copy : MaybeCopy,
     outcome : Outcomes, calls : BOOLEAN]
InCall == [what : {"idle", "clear", "fulfilled", "store", "load", "discard", "revoke", "delete"},
           copy : MaybeCopy]

BridgeTypeOK ==
    /\ unlocked \in MaybeCopy /\ stored \in MaybeCopy
    /\ request \in BOOLEAN /\ alive \in BOOLEAN
    /\ underWay \in Seq(BackgroundCalls) /\ posts \in Seq(Continuations)
    /\ doing \in InCall
    /\ copies \in Nat
    /\ label \in {"revoking", "other"}
    /\ standing \in SUBSET MaybeCopy

Idle == [what |-> "idle", copy |-> NoCopy]
Doing(what, copy) == doing' = [what |-> what, copy |-> copy]

IsOffline(copy) == copy.act \in OfflineSeats
NewCopy(a) == [act |-> a, nth |-> copies + 1]
Issues == copies < MaxCopies /\ copies' = copies + 1

\* A store and a deletion may fail, and nobody is told.
Writes(copy)  == stored' = copy \/ UNCHANGED stored
Deletes(copy) ==
    IF stored # NoCopy /\ stored.act = copy.act
      THEN stored' = NoCopy \/ UNCHANGED stored
      ELSE UNCHANGED stored

\* Mutant: whatever copy of the activation is there.
DiscardsAny(copy) == Deletes(copy)

\* deleteRevoked: the copy that was refused, or an older one.
Discards(copy) ==
    IF stored # NoCopy /\ stored.act = copy.act /\ stored.nth <= copy.nth
      THEN stored' = NoCopy \/ UNCHANGED stored
      ELSE UNCHANGED stored

\* ++validationGeneration_: what is under way is out of date.
Outdate(seq) == [i \in DOMAIN seq |-> [seq[i] EXCEPT !.fresh = FALSE]]
Launch(new)  == underWay' = Outdate(underWay) \o new

\* What moves the generation, and starts nothing.
Supersede(q) == Launch(<< >>) /\ posts' = Outdate(q)

Message(kind, outcome, copy, calls) ==
    [kind |-> kind, fresh |-> TRUE, copy |-> copy, outcome |-> outcome, calls |-> calls]
Background(kind, copy) == [kind |-> kind, fresh |-> TRUE, copy |-> copy, stage |-> "ask"]

Ready == alive /\ doing = Idle
UnderWayFits == Len(underWay) + Len(posts) + 2 <= MaxUnderWay

BridgeInit ==
    /\ stored \in [act : Seats, nth : {1}] \cup {NoCopy}
    /\ unlocked = NoCopy /\ request = FALSE
    /\ underWay = << >> /\ posts = << >> /\ doing = Idle /\ alive = TRUE
    /\ copies = 1 /\ label = "other" /\ standing = {}

-----------------------------------------------------------------------------
(* Calls on the message thread.                                             *)

\* tryLoadStoredLicenseAsync.  The device judges its own copy: that it may be
\* used, and whether it covers the running version: an offline license that doesn't
\* locks, an online one waits for Moonbase's answer.
HostLoads ==
    /\ "load" \in BridgeCalls /\ Ready /\ UnderWayFits
    /\ LET tells(outcome, copy, calls) ==
               posts' = Append(Outdate(posts), Message("check", outcome, copy, calls))
       IN  \/ Launch(<< >>) /\ tells("locked", NoCopy, TRUE)
           \/ /\ stored # NoCopy /\ IsOffline(stored)
              /\ Launch(<< >>) /\ tells("granted", stored, TRUE)
           \/ /\ stored # NoCopy /\ ~IsOffline(stored)
              /\ Launch(<<Background("check", stored)>>)
              /\ tells("granted", stored, FALSE) \/ posts' = Outdate(posts)
    /\ standing' = {}
    /\ UNCHANGED <<unlocked, stored, request, doing, alive, copies, label>>

\* tryLoadStoredLicense
LoadNow ==
    /\ "loadNow" \in BridgeCalls /\ Ready
    /\ Supersede(posts)
    /\ IF stored = NoCopy
         THEN unlocked' = NoCopy /\ label' = "other" /\ UNCHANGED doing
         ELSE Doing("load", stored) /\ UNCHANGED <<unlocked, label>>
    /\ standing' = {}
    /\ UNCHANGED <<stored, request, alive, copies>>

\* revokeActivation
RevokeNow ==
    /\ "revokeNow" \in BridgeCalls /\ Ready /\ unlocked # NoCopy
    /\ Supersede(posts)
    /\ Doing("revoke", unlocked)
    /\ standing' = {}
    /\ UNCHANGED <<unlocked, stored, request, alive, copies, label>>

\* clearLicense
Clear ==
    /\ "clear" \in BridgeCalls /\ Ready
    /\ Supersede(posts)
    /\ Doing("clear", NoCopy)
    /\ UNCHANGED <<unlocked, stored, request, alive, copies, label, standing>>

\* "Activate..."
StartActivation ==
    /\ Ready
    /\ request' = TRUE \/ UNCHANGED request
    /\ label' = "other"
    /\ UNCHANGED <<unlocked, stored, async, doing, alive, copies, standing>>

\* timerCallback, which runs as long as there is a request, and
\* pollPendingActivation: it is fulfilled, or over.
PollRequest ==
    /\ Ready /\ request
    /\ \/ /\ \E a \in Seats : Issues /\ Doing("fulfilled", NewCopy(a))
          /\ UNCHANGED <<request, label>>
       \/ /\ request' = FALSE /\ label' = "other"
          /\ UNCHANGED <<copies, doing>>
    /\ UNCHANGED <<unlocked, stored, async, alive, standing>>

\* Mutant: a revocation of nothing calls nobody back.
SaysNothing(q) == Outdate(q)

\* revokeActivationAsync with nothing loaded still goes through the message loop.
SaysNoLicense(q) == Append(Outdate(q), Message("revoke", "noLicense", NoCopy, TRUE))

\* "Deactivate"
StartRevoke ==
    /\ Ready /\ UnderWayFits
    /\ label' = "revoking"
    /\ IF unlocked = NoCopy
         THEN Launch(<< >>) /\ posts' = SaysNoLicense(posts)
         ELSE Launch(<<Background("revoke", unlocked)>>) /\ posts' = Outdate(posts)
    /\ standing' = {}
    /\ UNCHANGED <<unlocked, stored, request, doing, alive, copies>>

\* "Load license token...": activateOffline.  What fails, and a machine file that is
\* saved, change the label only.
LoadToken ==
    /\ Ready
    /\ \/ /\ \E a \in OfflineSeats : Issues /\ Doing("store", NewCopy(a))
          /\ Supersede(posts)
          /\ UNCHANGED label
       \/ label' = "other" /\ UNCHANGED <<copies, doing, async>>
    /\ UNCHANGED <<unlocked, stored, request, alive, standing>>

Destroy ==
    /\ "destroy" \in BridgeCalls /\ Ready
    /\ alive' = FALSE
    /\ Supersede(posts)
    /\ UNCHANGED <<unlocked, stored, request, doing, copies, label, standing>>

\* The plugin is loaded again while what the destroyed bridge began still goes on.
Reload ==
    /\ ~alive /\ alive' = TRUE
    /\ unlocked' = NoCopy /\ request' = FALSE /\ label' = "other"
    /\ standing' = {}
    /\ UNCHANGED <<stored, async, doing, copies>>

-----------------------------------------------------------------------------
(* What Moonbase and the store make of a copy.                              *)

FreshestCopy(copy) ==
    IF stored # NoCopy /\ stored.act = copy.act /\ stored.nth > copy.nth THEN stored ELSE copy

\* Mutant: nobody asks whether the answer is still wanted.
AlwaysPersists(call) == TRUE

\* should_persist
Persists(call) == call.fresh

\* validate_token_online, under its locks: the license it ends with (what covers
\* another version, or is refused, is NoCopy), the file, and what was issued.
Validates(copy, persists) ==
    LET local == IF IsOffline(copy) THEN copy ELSE FreshestCopy(copy)
        new   == NewCopy(copy.act)
    IN  [license : {local, NoCopy}, file : {stored}, issued : {copies}]
        \cup IF IsOffline(copy) \/ copies >= MaxCopies
               THEN {}
               ELSE [license : {new, NoCopy}, issued : {copies + 1},
                     file : IF persists THEN {new, stored} ELSE {stored}]

Leaves(answer) == stored' = answer.file /\ copies' = answer.issued

\* license_revoked_error: what was revoked still has to be deleted.
SaysRevoked(copy) == ~IsOffline(copy) /\ UNCHANGED <<stored, copies>>

-----------------------------------------------------------------------------
(* The rest of a call on the message thread, once it has the lock.          *)

\* Its caller refreshes the label.
Returns(copy) == unlocked' = copy /\ doing' = Idle /\ label' = "other"

Stands == standing' = IF stored' = unlocked' THEN {unlocked'} ELSE {}

Clearing ==
    /\ doing.what = "clear"
    /\ Returns(NoCopy) /\ request' = FALSE
    /\ stored' = NoCopy \/ UNCHANGED stored
    /\ Stands
    /\ UNCHANGED <<async, copies, alive>>

\* The poll brought a license.
Fulfilled ==
    /\ doing.what = "fulfilled"
    /\ Supersede(posts) /\ Doing("store", doing.copy)
    /\ UNCHANGED <<unlocked, stored, request, copies, alive, label, standing>>

Storing ==
    /\ doing.what = "store"
    /\ Returns(doing.copy) /\ request' = FALSE
    /\ Writes(doing.copy)
    /\ Stands
    /\ UNCHANGED <<async, copies, alive>>

Judging ==
    /\ doing.what = "load"
    /\ \/ \E answer \in Validates(doing.copy, TRUE) : Leaves(answer) /\ Returns(answer.license)
       \/ /\ SaysRevoked(doing.copy)
          /\ Doing("discard", doing.copy) /\ UNCHANGED <<unlocked, label>>
    /\ UNCHANGED <<request, async, alive, standing>>

Discarding ==
    /\ doing.what = "discard"
    /\ Returns(NoCopy) /\ Discards(doing.copy)
    /\ UNCHANGED <<request, async, copies, alive, standing>>

\* revokeActivation's answer: what is over is deleted, anything else left alone.
Revoking ==
    /\ doing.what = "revoke"
    /\ \/ Doing("delete", doing.copy) /\ UNCHANGED <<unlocked, label>>
       \/ Returns(unlocked)
    /\ UNCHANGED <<stored, request, async, copies, alive, standing>>

Forgetting ==
    /\ doing.what = "delete"
    /\ Returns(NoCopy) /\ Deletes(doing.copy)
    /\ UNCHANGED <<request, async, copies, alive, standing>>

CallProceeds ==
    Clearing \/ Fulfilled \/ Storing \/ Judging \/ Discarding \/ Revoking \/ Forgetting

-----------------------------------------------------------------------------
(* Threads of their own, and what they post.                                *)

Ends(i, m) ==
    /\ underWay' = RemoveAt(underWay, i)
    /\ posts' = Append(posts, [m EXCEPT !.fresh = underWay[i].fresh])

Deleting(i) == underWay' = [underWay EXCEPT ![i].stage = "delete"] /\ UNCHANGED posts

CheckThread(i) ==
    LET call == underWay[i]
        answers(copy) == Ends(i, Message("check", IF copy = NoCopy THEN "locked" ELSE "granted",
                                         copy, TRUE))
    IN  /\ call.kind = "check"
        /\ \/ /\ call.stage = "ask"
              /\ \E answer \in Validates(call.copy, Persists(call)) :
                   Leaves(answer) /\ answers(answer.license)
           \/ call.stage = "ask" /\ SaysRevoked(call.copy) /\ Deleting(i)
           \/ call.stage = "delete" /\ Discards(call.copy) /\ answers(NoCopy) /\ UNCHANGED copies
        /\ UNCHANGED <<unlocked, request, doing, alive, label, standing>>

\* licensing::revoke_activation deletes what is stored once the server has agreed; a
\* license it finds invalid is as good as revoked, and stays in the file for now.
RevokeThread(i) ==
    LET call == underWay[i]
        ends(outcome) == Ends(i, Message("revoke", outcome, call.copy, TRUE))
    IN  /\ call.kind = "revoke"
        /\ \/ /\ call.stage = "ask" /\ UNCHANGED stored
              /\ \/ ends("revoked") \/ ends("notRevokable") \/ ends("unreachable")
                 \/ ~IsOffline(call.copy) /\ Deleting(i)
           \/ call.stage = "delete" /\ Deletes(call.copy) /\ ends("revoked")
        /\ UNCHANGED <<unlocked, request, doing, alive, copies, label, standing>>

ThreadProceeds(i) == CheckThread(i) \/ RevokeThread(i)

\* The comparison each continuation starts with.
StillWanted(m) == m.fresh

MessageRuns(kind) == doing = Idle /\ posts # << >> /\ posts[1].kind = kind

OutOfDate ==
    /\ doing = Idle /\ posts # << >> /\ ~(alive /\ StillWanted(posts[1]))
    /\ posts' = Tail(posts)
    /\ UNCHANGED <<unlocked, stored, request, underWay, doing, alive, copies, label, standing>>

CheckAnswered ==
    /\ MessageRuns("check") /\ alive /\ StillWanted(posts[1])
    /\ posts' = Tail(posts)
    /\ unlocked' = IF posts[1].outcome = "granted" THEN posts[1].copy ELSE NoCopy
    /\ label' = IF posts[1].calls THEN "other" ELSE label
    /\ UNCHANGED <<stored, request, underWay, doing, alive, copies, standing>>

\* With the sample's callback, which clears what can't be revoked.
RevokeAnswered ==
    /\ MessageRuns("revoke") /\ alive /\ StillWanted(posts[1])
    /\ LET outcome == posts[1].outcome IN
       \/ /\ outcome = "revoked"
          /\ Doing("delete", posts[1].copy)
          /\ posts' = Tail(posts) /\ UNCHANGED <<underWay, label>>
       \/ /\ outcome = "notRevokable"
          /\ Doing("clear", NoCopy)
          /\ Supersede(Tail(posts)) /\ UNCHANGED label
       \/ /\ outcome \in {"noLicense", "unreachable"}
          /\ label' = "other"
          /\ posts' = Tail(posts) /\ UNCHANGED <<underWay, doing>>
    /\ UNCHANGED <<unlocked, stored, request, alive, copies, standing>>

ContinuationRuns == OutOfDate \/ CheckAnswered \/ RevokeAnswered

-----------------------------------------------------------------------------
BridgeWorks ==
    CallProceeds \/ ContinuationRuns \/ \E i \in DOMAIN underWay : ThreadProceeds(i)

BridgeNext ==
    \/ HostLoads \/ LoadNow \/ RevokeNow \/ Clear \/ Destroy \/ Reload
    \/ StartActivation \/ PollRequest \/ StartRevoke \/ LoadToken
    \/ BridgeWorks

\* Threads run, requests time out, and the message loop goes on.
BridgeFairness ==
    /\ WF_bridgeVars(CallProceeds) /\ WF_bridgeVars(ContinuationRuns)
    /\ WF_bridgeVars(underWay # << >> /\ ThreadProceeds(1))

BridgeSpec == BridgeInit /\ [][BridgeNext]_bridgeVars /\ BridgeFairness

-----------------------------------------------------------------------------
\* A license that was cleared or activated stands until the next call: no check and no
\* revocation that was under way changes what is unlocked, or brings another license
\* into the file (clearLicense, pollPendingActivation, activateOffline; "the older
\* continuation is dropped silently", docs/juce.md:135).
LastCallStands ==
    \A copy \in standing : unlocked = copy /\ stored \in {copy, NoCopy}

\* Only a revocation that the server agreed to takes an activated license out of the
\* file again: a check that was refused spares the activation made meanwhile
\* (deleteRevoked).
OnlyRevocationsForget ==
    [][ standing = standing' /\ standing # {} /\ stored # stored'
        => \E i \in DOMAIN underWay :
             underWay[i].kind = "revoke" /\ underWay[i].stage = "delete" ]_bridgeVars

\* As docs/juce.md:247 has it: "a slow revoke can't clobber a freshly activated license".
SlowRevokeNeverClobbers == \A copy \in standing : stored = copy

\* Left alone, "Revoking activation..." ends, whatever superseded the revocation.
RevokingEnds ==
    <>[][BridgeWorks]_bridgeVars => (label = "revoking" ~> label # "revoking" \/ ~alive)
=============================================================================

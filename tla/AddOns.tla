--------------------------------- MODULE AddOns ---------------------------------
(***************************************************************************)
(* The add-ons of a license (juce/ActivationController.cpp): listing them, *)
(* taking a seat or a trial of one, and what follows a purchase.  The list *)
(* and the license are re-read over and over, by handlers that start one   *)
(* another; the rest of the controller changes the license underneath.     *)
(*                                                                         *)
(* Of that rest there is what reaches the add-ons: the license comes, goes *)
(* and is replaced, an activation or a deactivation is under way, and any  *)
(* handler may re-check the license (ActivationController has the whole).  *)
(***************************************************************************)
EXTENDS Integers, Sequences, SequencesExt

CONSTANTS
    Activations,
    Offline,        \* those of them that were activated offline
    NoLicense,
    AutoActivate,   \* config_.autoActivateSubProducts
    MaxJobs,        \* bound: user, host and watch wait while so much is under way
    MaxIssued       \* bound: copies the server issues

ASSUME AddOnsAssumption ==
    /\ Offline \subseteq Activations /\ NoLicense \notin Activations
    /\ AutoActivate \in BOOLEAN
    /\ MaxJobs \in Nat /\ MaxIssued \in Nat

VARIABLES
    license,    \* the activation of the license held, or NoLicense
    at,         \* the place of its copy among those the server issued
    phase,      \* addOns_.phase
    setUp,      \* addOns_.busyId, and addOnCall_: an add-on is being set up
    busy,       \* a deactivation is under way
    activating, \* activationInFlight()
    purchase,   \* purchaseOpenedAt_ and leftForPurchase_, with the app behind or in front
    jobs,       \* given to the pool, oldest first
    posted,     \* continuations
    issued      \* copies the server has issued

held     == <<license, at>>
addOns   == <<phase, setUp>>
messages == <<jobs, posted>>
addOnVars == <<held, addOns, busy, activating, purchase, messages, issued>>

\* The browser opened over the app (gone), a tick noticed (left), the app is in
\* front again (back), an hour passed (old).
Purchases == {"none", "open", "gone", "left", "back", "old"}

\* `fresh` is what the comparison with generation_, addOnsGeneration_ or addOnCall_
\* would say; `then` is a re-check's callback; `asked` is a job that has its answer
\* and has not queued it.
Message == [kind : {"list", "call", "check", "deactivate"}, fresh : BOOLEAN,
            from : Activations, of : Nat,
            pick : BOOLEAN, then : BOOLEAN, force : BOOLEAN, asked : BOOLEAN,
            answer : {"none", "granted", "same", "offers", "listed", "refused", "failed"},
            copy : Nat]

AddOnsOK ==
    /\ license \in Activations \cup {NoLicense} /\ at \in Nat
    /\ phase \in {"Idle", "Loading", "Ready"} /\ setUp \in BOOLEAN
    /\ busy \in BOOLEAN /\ activating \in BOOLEAN
    /\ purchase \in Purchases
    /\ jobs \in Seq(Message) /\ posted \in Seq(Message)
    /\ issued \in Nat

AddOnsInit ==
    /\ license \in Activations /\ at = 1
    /\ phase = "Idle" /\ setUp = FALSE
    /\ busy = FALSE /\ activating = FALSE
    /\ purchase = "none"
    /\ jobs = << >> /\ posted = << >>
    /\ issued = 1

Job(kind) ==
    [kind |-> kind, fresh |-> TRUE, from |-> license, of |-> 0, pick |-> FALSE,
     then |-> FALSE, force |-> TRUE, asked |-> FALSE, answer |-> "none", copy |-> 0]

\* Nobody reads what is out of date, but for the outcome of a call.
Outdated(m) ==
    IF m.kind = "call" THEN [m EXCEPT !.fresh = FALSE]
    ELSE [m EXCEPT !.fresh = FALSE, !.pick = FALSE, !.of = 0, !.copy = 0,
                   !.answer = IF @ = "none" THEN @ ELSE "failed"]

Outdate(kinds, seq) ==
    [i \in DOMAIN seq |-> IF seq[i].kind \in kinds THEN Outdated(seq[i]) ELSE seq[i]]

\* A handler that outdates messages of some kinds and gives the pool `new`, when
\* `rest` are the continuations left.
Queue(kinds, new, rest) ==
    /\ jobs' = Outdate(kinds, jobs) \o new
    /\ posted' = Outdate(kinds, rest)

Room == Len(jobs) + Len(posted) < MaxJobs

-----------------------------------------------------------------------------
(* Steps that several handlers end with; `rest` is the queue they leave.    *)

\* Mutant: the list of the license that went still counts.
ListKept == {"call"}

\* What resetAddOns outdates.
ResetKinds == {"list", "call"}

\* setLicense to another activation, or none, which resets the add-ons; `kinds`
\* are outdated too, and `new` is given to the pool.
Replace(lic, copy, kinds, new, rest) ==
    /\ license' = lic /\ at' = copy
    /\ phase' = "Idle" /\ setUp' = FALSE
    /\ purchase' = "none"
    /\ Queue(ResetKinds \cup kinds, new, rest)

\* listAddOns, of a license that is there.
ListAddOns(pick, rest) ==
    /\ phase' = "Loading"
    /\ Queue({"list"}, <<[Job("list") EXCEPT !.pick = pick]>>, rest)

Generation == {"check", "deactivate"}

CanCheck == license # NoLicense /\ ~activating /\ ~busy /\ license \notin Offline

\* refreshLicense(true) without a callback.
Recheck(rest) ==
    IF CanCheck THEN Queue(Generation, <<Job("check")>>, rest)
    ELSE Queue({}, << >>, rest)

\* refreshAndListAddOns: a check that is refused calls back at once.
RefreshAndList(rest) ==
    IF license = NoLicense \/ busy
      THEN UNCHANGED phase /\ Queue({}, << >>, rest)
    ELSE IF ~CanCheck
      THEN ListAddOns(FALSE, rest)
    ELSE /\ phase' = "Loading"
         /\ Queue(Generation, <<[Job("check") EXCEPT !.then = TRUE]>>, rest)

-----------------------------------------------------------------------------
(* The user and the host.                                                   *)

\* showAddOns, loadAddOns, "Try again".
LoadAddOns ==
    /\ license # NoLicense /\ Room
    /\ ListAddOns(TRUE, posted)
    /\ UNCHANGED <<held, setUp, busy, activating, purchase, issued>>

\* "Bought an add-on? Refresh"
RefreshAddOns ==
    /\ license # NoLicense /\ Room
    /\ RefreshAndList(posted)
    /\ UNCHANGED <<held, setUp, busy, activating, purchase, issued>>

\* runSubProductAction: one at a time.
SetUpAddOn ==
    /\ license # NoLicense /\ ~setUp /\ Room
    /\ setUp' = TRUE
    /\ Queue({}, <<Job("call")>>, posted)
    /\ UNCHANGED <<held, phase, busy, activating, purchase, issued>>

\* buySubProduct, of an add-on that is listed, once the browser opened.
Buy ==
    /\ phase = "Ready" /\ purchase = "none"
    /\ purchase' = "open"
    /\ UNCHANGED <<held, addOns, busy, activating, messages, issued>>

\* Mutant: back is back, whatever is under way.
BackAtOnce == purchase = "back" /\ license # NoLicense

\* A deactivation on its way is waited for.
Back == purchase = "back" /\ license # NoLicense /\ ~busy

\* checkPurchaseReturn, on every tick of the license watch.
CheckPurchaseReturn ==
    /\ \/ purchase = "old" /\ purchase' = "none" /\ UNCHANGED <<phase, messages>>
       \/ purchase = "gone" /\ purchase' = "left" /\ UNCHANGED <<phase, messages>>
       \/ Back /\ purchase' = "none" /\ RefreshAndList(posted)
    /\ UNCHANGED <<held, setUp, busy, activating, issued>>

-----------------------------------------------------------------------------
(* Jobs.                                                                    *)

\* Mutant: a turn ends with the answer, before it is queued.
NoTurns(i) == TRUE

\* onlineCalls_: a check or a call holds it until its answer is queued.
TurnFree(i) ==
    \/ jobs[i].kind \notin {"check", "call"}
    \/ \A j \in DOMAIN jobs : ~(jobs[j].asked /\ jobs[j].kind \in {"check", "call"})

Answered(i, answer, copy) ==
    LET job == [jobs[i] EXCEPT !.answer = answer, !.copy = copy]
    IN  jobs' = [jobs EXCEPT ![i] = [(IF job.fresh THEN job ELSE Outdated(job)) EXCEPT !.asked = TRUE]]

\* The request; what it brings is stored before it returns.  A check that isn't
\* forced may find nothing to ask.
Ask(i) ==
    /\ i \in DOMAIN jobs /\ i <= 2 /\ ~jobs[i].asked /\ TurnFree(i)
    /\ LET job == jobs[i] IN
       \/ /\ job.kind \in {"call", "check"}
          /\ issued < MaxIssued /\ issued' = issued + 1
          /\ Answered(i, "granted", issued + 1)
       \/ /\ job.kind = "check" /\ ~job.force
          /\ Answered(i, "same", job.of)
          /\ UNCHANGED issued
       \/ /\ \E answer \in {"refused", "failed"} : Answered(i, answer, 0)
          /\ UNCHANGED issued
       \/ /\ job.kind = "deactivate"
          /\ Answered(i, "granted", 0)
          /\ UNCHANGED issued
       \/ /\ job.kind = "list"
          /\ \E answer \in {"listed", "offers"} : Answered(i, answer, 0)
          /\ UNCHANGED issued
    /\ UNCHANGED <<held, addOns, busy, activating, purchase, posted>>

Post(i) ==
    /\ i \in DOMAIN jobs /\ jobs[i].asked
    /\ jobs' = RemoveAt(jobs, i)
    /\ posted' = Append(posted, [jobs[i] EXCEPT !.asked = FALSE])
    /\ UNCHANGED <<held, addOns, busy, activating, purchase, issued>>

-----------------------------------------------------------------------------
(* Continuations.                                                           *)

First(kind) == posted # << >> /\ posted[1].kind = kind

\* An add-on call: onto the license it was asked from, whose list is then shown
\* again; one that was refused is checked.
CallLanded ==
    /\ First("call")
    /\ LET m == posted[1]
           same == license = m.from
       IN  /\ setUp' = (setUp /\ ~m.fresh)
           /\ at' = IF m.answer = "granted" /\ same THEN m.copy ELSE at
           /\ \/ /\ m.answer = "granted" /\ same /\ phase # "Idle"
                 /\ phase' = "Loading"
                 /\ Queue({"list"}, <<Job("list")>>, Tail(posted))
              \/ /\ m.answer = "refused" /\ same
                 /\ UNCHANGED phase /\ Recheck(Tail(posted))
              \/ /\ ~(same /\ (m.answer = "refused" \/ (m.answer = "granted" /\ phase # "Idle")))
                 /\ UNCHANGED phase /\ Queue({}, << >>, Tail(posted))
    /\ UNCHANGED <<license, busy, activating, purchase, issued>>

\* Mutant: a list that follows a check may ask for another.
TakesSeatAgain(m) ==
    m.answer = "offers" /\ AutoActivate /\ license \notin Offline

\* An add-on the customer owns has a seat free: once for each list asked for.
TakesSeat(m) ==
    m.answer = "offers" /\ m.pick /\ AutoActivate /\ license \notin Offline

\* A list, dropped when another one was asked for or the license went.
Listed ==
    /\ First("list")
    /\ LET m == posted[1] IN
       \/ /\ ~m.fresh
          /\ UNCHANGED phase /\ Queue({}, << >>, Tail(posted))
       \/ /\ m.fresh /\ m.answer = "refused"
          /\ phase' = "Ready" /\ Recheck(Tail(posted))
       \/ /\ m.fresh /\ TakesSeat(m) /\ CanCheck
          /\ RefreshAndList(Tail(posted))
       \/ /\ m.fresh /\ TakesSeat(m) /\ busy
          /\ phase' = "Ready" /\ Queue({}, << >>, Tail(posted))
       \/ /\ m.fresh /\ TakesSeat(m) /\ ~busy /\ ~CanCheck
          /\ ListAddOns(FALSE, Tail(posted))
       \/ /\ m.fresh /\ m.answer # "refused" /\ ~TakesSeat(m)
          /\ phase' = "Ready" /\ Queue({}, << >>, Tail(posted))
    /\ UNCHANGED <<held, setUp, busy, activating, purchase, issued>>

\* A throttled check that answers with the copy it was asked about, when a newer
\* one is held by now.
Older(m) == ~m.force /\ m.answer = "same" /\ at # m.of

\* Mutant: a superseded check calls nobody back.
CallsBackIfFresh(m) == m.fresh /\ m.then /\ license # NoLicense

\* The callback of refreshAndListAddOns: whatever the answer, list what is held.
CallsBack(m) == m.then /\ license # NoLicense

\* A re-check, dropped when superseded; its callback runs either way.
RecheckLanded ==
    /\ First("check")
    /\ LET m == posted[1]
           applies == m.fresh /\ m.answer \in {"granted", "same"} /\ ~Older(m)
       IN  IF m.fresh /\ m.answer = "refused"
             THEN Replace(NoLicense, 0, {}, << >>, Tail(posted))
             ELSE /\ at' = IF applies THEN m.copy ELSE at
                  /\ IF CallsBack(m)
                       THEN /\ phase' = "Loading"
                            /\ Queue({"list"}, <<Job("list")>>, Tail(posted))
                       ELSE UNCHANGED phase /\ Queue({}, << >>, Tail(posted))
                  /\ UNCHANGED <<license, setUp, purchase>>
    /\ UNCHANGED <<busy, activating, issued>>

DeactivateLanded ==
    /\ First("deactivate")
    /\ IF ~posted[1].fresh
         THEN UNCHANGED <<held, addOns, busy, purchase>> /\ Queue({}, << >>, Tail(posted))
       ELSE /\ busy' = FALSE
            /\ IF posted[1].answer = "granted"
                 THEN Replace(NoLicense, 0, {}, << >>, Tail(posted))
                 ELSE UNCHANGED <<held, addOns, purchase>> /\ Queue({}, << >>, Tail(posted))
    /\ UNCHANGED <<activating, issued>>

-----------------------------------------------------------------------------
(* The rest of the controller, and the user's desktop.                      *)

\* refreshLicense, called by the host or the license watch.
Check(force) ==
    /\ CanCheck /\ Room
    /\ Queue(Generation, <<[Job("check") EXCEPT !.force = force, !.of = IF force THEN 0 ELSE at]>>, posted)
    /\ UNCHANGED <<held, addOns, busy, activating, purchase, issued>>

Deactivate ==
    /\ license # NoLicense /\ license \notin Offline /\ ~busy /\ Room
    /\ busy' = TRUE
    /\ Queue(Generation, <<Job("deactivate")>>, posted)
    /\ UNCHANGED <<held, addOns, activating, purchase, issued>>

\* An activation begins, or is cancelled.
Activation ==
    /\ Room
    /\ activating' = ~activating
    /\ Queue(Generation, << >>, posted)
    /\ UNCHANGED <<held, addOns, busy, purchase, issued>>

InFlight == Range(jobs) \cup Range(posted)

\* The license is cleared or ends, or gives way to another activation.  (One that
\* comes back while answers for it are out is a sibling's copy, which may be newer
\* than they are.)
LicenseChanges ==
    /\ \/ /\ license # NoLicense /\ UNCHANGED issued
          /\ Replace(NoLicense, 0, Generation, << >>, posted)
       \/ /\ issued < MaxIssued /\ issued' = issued + 1
          /\ \E a \in Activations \ ({license} \cup {m.from : m \in InFlight}) :
               Replace(a, issued + 1, Generation, << >>, posted)
    /\ activating' \in {activating, FALSE} /\ busy' \in {busy, FALSE}

SwitchApps ==
    /\ \E there \in {<<"open", "gone">>, <<"gone", "open">>, <<"left", "back">>, <<"back", "left">>} :
         purchase = there[1] /\ purchase' = there[2]
    /\ UNCHANGED <<held, addOns, busy, activating, messages, issued>>

HourPasses ==
    /\ purchase \notin {"none", "old"} /\ purchase' = "old"
    /\ UNCHANGED <<held, addOns, busy, activating, messages, issued>>

-----------------------------------------------------------------------------
AddOnsJob      == \E i \in 1 .. 2 : Ask(i) \/ Post(i)
AddOnsContinue == CallLanded \/ Listed \/ RecheckLanded \/ DeactivateLanded

AddOnsNext ==
    \/ LoadAddOns \/ RefreshAddOns \/ SetUpAddOn \/ Buy \/ CheckPurchaseReturn
    \/ AddOnsJob \/ AddOnsContinue
    \/ (\E force \in BOOLEAN : Check(force)) \/ Deactivate \/ Activation
    \/ LicenseChanges \/ SwitchApps \/ HourPasses

\* The workers, the message loop and the license watch never stop.
Unprompted == AddOnsJob \/ AddOnsContinue \/ CheckPurchaseReturn

AddOnsSpec == AddOnsInit /\ [][AddOnsNext]_addOnVars /\ WF_addOnVars(Unprompted)

-----------------------------------------------------------------------------
\* What is still listened to was asked for the license that is held: no list and
\* no outcome of one license's add-ons ever shows for another (resetAddOns).
AnswersAreForTheLicense ==
    \A m \in InFlight : m.fresh => m.from = license

\* A spinner has something to wait for.  While an add-on is being set up, no
\* other can be, and while the list loads its button is disabled; the call, or
\* the check that lists next, is on its way, superseded or not.
SpinnersEnd ==
    /\ AddOnsOK
    /\ setUp => \E m \in InFlight : m.kind = "call" /\ m.fresh
    /\ phase = "Loading" =>
         \E m \in InFlight : (m.kind = "list" /\ m.fresh) \/ (m.kind = "check" /\ m.then)

\* The license held never goes back to a copy the server issued earlier: checks
\* and add-on calls on two workers are applied in the order they were answered
\* (onlineCalls_), while no other instance brings copies of its own.
AnswersInOrder == [][license' = license => at' >= at]_addOnVars

\* A purchase is forgotten only after an hour or with its license; a customer who
\* comes back earlier sees a list that was asked for since (checkPurchaseReturn).
PurchaseFollowedUp ==
    [][purchase # "none" /\ purchase' = "none" =>
         \/ purchase = "old" \/ license' # license
         \/ phase' = "Loading" /\ Len(jobs') > Len(jobs)]_addOnVars

\* Left alone, the add-ons come to rest: no list and check that keep asking for
\* one another ("so an add-on the server still won't seat can't start a loop").
AddOnsAtRest ==
    /\ jobs = << >> /\ posted = << >>
    /\ phase # "Loading" /\ ~setUp
    /\ purchase = "back" => busy

AddOnsSettle == <>[][Unprompted]_addOnVars => <>[]AddOnsAtRest
=============================================================================

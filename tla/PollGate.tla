------------------------------- MODULE PollGate -------------------------------
(***************************************************************************)
(* activation_poll_gate and the polls that go through it                   *)
(* (include/moonbase/client.hpp, get_requested_activation): threads that   *)
(* share a client, or copies of one, poll activation requests.  A thread   *)
(* reads the clock before it waits for the gate's mutex, so the time it    *)
(* brings may be old by then, and older than another thread's.             *)
(***************************************************************************)
EXTENDS Integers

CONSTANTS
    Threads,
    Requests,       \* request URLs
    Interval,       \* activation_poll_min_interval
    MaxBackoff,     \* activation_poll_max_backoff
    Waits,          \* what a Retry-After may say
    Never,          \* an empty slot
    MaxTime         \* bound: the clock

ASSUME PollGateAssumption ==
    /\ Interval \in Nat /\ MaxBackoff \in Nat /\ MaxTime \in Nat
    /\ Waits \subseteq Nat
    /\ Never \notin Nat

VARIABLES
    now,        \* steady_clock
    slots,      \* last_poll_: when each request was polled, or Never
    holdUntil,  \* hold_until_
    stage,         \* where each thread stands
    url,        \* the request it polls
    at,         \* the time it read
    wait,       \* the Retry-After it was told
    claimed,    \* history: when each request's last poll was claimed, or Never
    waited,     \* history: how long that poll stood between its clock and the gate
    told        \* history: the end of the longest wait the gate was told

gateVars == <<now, slots, holdUntil, stage, url, at, wait, claimed, waited, told>>

ClockTimes == Nat \cup {Never}
GatePlaces == {"idle", "claim", "asking", "told"}

GateTypeOK ==
    /\ now \in Nat
    /\ slots \in [Requests -> ClockTimes]
    /\ holdUntil \in Nat
    /\ stage \in [Threads -> GatePlaces]
    /\ url \in [Threads -> Requests]
    /\ at \in [Threads -> Nat]
    /\ wait \in [Threads -> Nat]
    /\ claimed \in [Requests -> ClockTimes]
    /\ waited \in [Requests -> Nat]
    /\ told \in Nat

GateInit ==
    /\ now = 0
    /\ slots = [u \in Requests |-> Never]
    /\ holdUntil = 0
    /\ stage = [t \in Threads |-> "idle"]
    /\ url \in [Threads -> Requests]
    /\ at = [t \in Threads |-> 0]
    /\ wait = [t \in Threads |-> 0]
    /\ claimed = [u \in Requests |-> Never]
    /\ waited = [u \in Requests |-> 0]
    /\ told = 0

-----------------------------------------------------------------------------
\* The call returns, and its locals are gone.
PollEnds(t) ==
    /\ stage' = [stage EXCEPT ![t] = "idle"]
    /\ at' = [at EXCEPT ![t] = 0]
    /\ wait' = [wait EXCEPT ![t] = 0]

\* get_requested_activation: the clock is read as try_claim's argument.
Poll(t, u) ==
    /\ stage[t] = "idle"
    /\ stage' = [stage EXCEPT ![t] = "claim"]
    /\ url' = [url EXCEPT ![t] = u]
    /\ at' = [at EXCEPT ![t] = now]
    /\ UNCHANGED <<now, slots, holdUntil, wait, claimed, waited, told>>

\* try_claim.  Polls older than the interval no longer hold anything back.
SweptEarly(when) ==
    [u \in Requests |-> IF slots[u] # Never /\ when - slots[u] + 1 >= Interval THEN Never ELSE slots[u]]
Swept(when) ==
    [u \in Requests |-> IF slots[u] # Never /\ when - slots[u] >= Interval THEN Never ELSE slots[u]]

OneForAll(u, kept) == \A v \in Requests : kept[v] = Never
OwnSlot(u, kept) == kept[u] = Never

HeldBack(t) == at[t] < holdUntil

Claim(t) ==
    LET u == url[t]
        kept == Swept(at[t])
    IN  /\ stage[t] = "claim" /\ ~HeldBack(t) /\ OwnSlot(u, kept)
        /\ slots' = [kept EXCEPT ![u] = at[t]]
        /\ claimed' = [claimed EXCEPT ![u] = now]
        /\ waited' = [waited EXCEPT ![u] = now - at[t]]
        /\ stage' = [stage EXCEPT ![t] = "asking"]
        /\ UNCHANGED <<now, holdUntil, url, at, wait, told>>

Refuse(t) ==
    /\ stage[t] = "claim"
    /\ \/ HeldBack(t) /\ UNCHANGED slots
       \/ ~HeldBack(t) /\ ~OwnSlot(url[t], Swept(at[t])) /\ slots' = Swept(at[t])
    /\ PollEnds(t)
    /\ UNCHANGED <<now, holdUntil, url, claimed, waited, told>>

\* Any answer ends the poll, but for a 429 or 503 with a Retry-After.
Answered(t) ==
    /\ stage[t] = "asking"
    /\ PollEnds(t)
    /\ UNCHANGED <<now, slots, holdUntil, url, claimed, waited, told>>

RateLimited(t) ==
    /\ stage[t] = "asking"
    /\ \E w \in Waits : wait' = [wait EXCEPT ![t] = w]
    /\ at' = [at EXCEPT ![t] = now]
    /\ stage' = [stage EXCEPT ![t] = "told"]
    /\ UNCHANGED <<now, slots, holdUntil, url, claimed, waited, told>>

\* back_off
Later(a, b) == IF a < b THEN b ELSE a
Capped(w) == IF w < MaxBackoff THEN w ELSE MaxBackoff
Overwritten(end) == end
Lengthened(end) == Later(holdUntil, end)

BackOff(t) ==
    /\ stage[t] = "told"
    /\ holdUntil' = Lengthened(at[t] + Capped(wait[t]))
    /\ told' = Later(told, at[t] + (IF wait[t] < MaxBackoff THEN wait[t] ELSE MaxBackoff))
    /\ PollEnds(t)
    /\ UNCHANGED <<now, slots, url, claimed, waited>>

Tick ==
    /\ now < MaxTime
    /\ now' = now + 1
    /\ UNCHANGED <<slots, holdUntil, stage, url, at, wait, claimed, waited, told>>

GateNext ==
    \/ \E t \in Threads :
         \/ \E u \in Requests : Poll(t, u)
         \/ Claim(t) \/ Refuse(t) \/ Answered(t) \/ RateLimited(t) \/ BackOff(t)
    \/ Tick

GateSpec == GateInit /\ [][GateNext]_gateVars

-----------------------------------------------------------------------------
\* The clock that a request's last poll brought to the gate.
Brought(u) == claimed[u] - waited[u]

\* A slot holds what its request's last poll brought until that is an interval ago,
\* whichever thread swept it away.
Slots ==
    \A u \in Requests :
        /\ slots[u] # Never => claimed[u] # Never /\ slots[u] = Brought(u)
        /\ slots[u] = Never /\ claimed[u] # Never => Brought(u) + Interval <= now
        /\ claimed[u] # Never => waited[u] <= claimed[u] /\ claimed[u] <= now

Clocks ==
    /\ \A t \in Threads : at[t] <= now
    /\ holdUntil = told

GateInv == GateTypeOK /\ Slots /\ Clocks

Claims(t) == stage[t] = "claim" /\ stage'[t] = "asking"
Refuses(t) == stage[t] = "claim" /\ stage'[t] = "idle"

\* Two polls of one request are claimed an interval apart, less the time the first
\* stood between reading the clock (client.hpp, try_claim's default argument) and
\* having the mutex, whichever threads make them and in whichever order they get it.
PollsSpaced ==
    [][\A t \in Threads : Claims(t) /\ claimed[url[t]] # Never =>
         now >= claimed[url[t]] + Interval - waited[url[t]]]_gateVars

\* "Spaces polls of the same activation request at least activation_poll_min_interval
\* apart" (client.hpp), "at most one poll per second" (docs/juce.md): no time is taken
\* off the interval.  A poll that stood at the mutex breaks it.
PollsApart ==
    [][\A t \in Threads : Claims(t) /\ claimed[url[t]] # Never =>
         now >= claimed[url[t]] + Interval]_gateVars

\* No poll of any request goes out before the last Retry-After has passed.
HoldKept == [][\A t \in Threads : Claims(t) => now >= told]_gateVars

\* However long a Retry-After, polls are held back for MaxBackoff at most.
HoldBounded == holdUntil <= now + MaxBackoff

\* "Polling several requests in turn never starves the later ones" (client.hpp): a
\* poll is held back by the server or by an earlier one of the same request only.
HeldBackForCause ==
    [][\A t \in Threads : Refuses(t) =>
         \/ at[t] < told
         \/ claimed[url[t]] # Never /\ at[t] < Brought(url[t]) + Interval]_gateVars

\* A Retry-After holds back every poll until it has passed, and nothing but it and an
\* earlier poll of the same request holds back any.
PollsHeldBackRightly == HoldKept /\ HeldBackForCause
=============================================================================

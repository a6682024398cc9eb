------------------------------- MODULE Countdowns -------------------------------
(***************************************************************************)
(* "5 days left" (juce/ActivationController.cpp, checkCountdowns): nothing *)
(* reports a day going by, so the watch looks at every tick what the       *)
(* license and the add-ons count down to, and broadcasts a change when a   *)
(* count moved.  The screen shows the count of when it was last painted.   *)
(***************************************************************************)
EXTENDS Integers

CONSTANTS
    LastDay,    \* bound: days that pass
    Endless     \* what has no end

ASSUME CountdownAssumption == LastDay \in Nat /\ Endless \notin 0..(LastDay + 1)

VARIABLES
    ends,       \* when what is counted ends
    now,        \* the day
    counted,    \* countdownEnds_ and countdownDays_
    message,    \* a change message is on its way
    painted,    \* the count on the screen
    slipped     \* history: a tick saw a count move with its end, and left it at that

countdownVars == <<ends, now, counted, message, painted, slipped>>

EndDays == 0..(LastDay + 1) \cup {Endless}

\* daysUntil, in whole days, rounded up.
DaysLeft(end) == IF end = Endless THEN Endless ELSE IF end > now THEN end - now ELSE 0

CountdownsOK ==
    /\ ends \in EndDays /\ now \in 0..LastDay
    /\ counted \in [ends : EndDays, days : EndDays]
    /\ message \in BOOLEAN /\ painted \in EndDays
    /\ slipped \in BOOLEAN

CountdownsInit ==
    /\ ends \in EndDays /\ now = 0
    /\ counted = [ends |-> Endless, days |-> Endless]
    /\ painted = DaysLeft(ends)
    /\ message = FALSE /\ slipped = FALSE

-----------------------------------------------------------------------------
\* A refresh, a new list, a renewal: whatever changed it broadcasts.
EndsMove ==
    /\ \E e \in EndDays \ {ends} : ends' = e
    /\ message' = TRUE
    /\ UNCHANGED <<now, counted, painted, slipped>>

DayGoesBy ==
    /\ now < LastDay /\ now' = now + 1
    /\ UNCHANGED <<ends, counted, message, painted, slipped>>

\* Mutant: only an end that is over is news.
EndWentBy == ends = counted.ends /\ DaysLeft(ends) = 0 /\ counted.days # 0

DayWentBy == ends = counted.ends /\ DaysLeft(ends) # counted.days

\* checkCountdowns
CountdownTick ==
    /\ message' = (message \/ DayWentBy)
    /\ counted' = [ends |-> ends, days |-> DaysLeft(ends)]
    /\ slipped' = (slipped \/ (~message /\ ends # counted.ends /\ painted # DaysLeft(ends)))
    /\ UNCHANGED <<ends, now, painted>>

ScreenPaints ==
    /\ message /\ message' = FALSE
    /\ painted' = DaysLeft(ends)
    /\ slipped' = FALSE
    /\ UNCHANGED <<ends, now, counted>>

CountdownsNext == EndsMove \/ DayGoesBy \/ CountdownTick \/ ScreenPaints

-----------------------------------------------------------------------------
\* After a tick a screen left open shows the count of today, whatever ended, was renewed
\* or went by, save for one case: the end moved, the screen was painted, and a day went by
\* before the next tick, which takes the new end for the news (checkCountdowns).
CountsKeepUp ==
    ~message /\ counted = [ends |-> ends, days |-> DaysLeft(ends)] /\ ~slipped
        => painted = DaysLeft(ends)
=============================================================================

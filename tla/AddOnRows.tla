------------------------------- MODULE AddOnRows -------------------------------
(***************************************************************************)
(* One add-on as its row shows it (juce/ui/ActivationComponent.cpp,        *)
(* describe): where it stands on this computer and what may be done about  *)
(* it.  The row is made of two answers of the server, the list and the     *)
(* license, either of which may be the older one, and of a clock that      *)
(* moves on by itself.                                                     *)
(*                                                                         *)
(* What is true is the server's: whether the customer owns the add-on,     *)
(* where its seat is and what became of its trial.  It sells one seat.     *)
(***************************************************************************)
EXTENDS Integers

CONSTANTS
    NotListed,
    MaxDay          \* bound: days that pass

VARIABLES
    truth,      \* at Moonbase
    list,       \* the entry of the list that was read last, or NotListed
    heldEntry,  \* the entry of the license held, or NotListed
    today,
    forSale,
    included    \* in the product's license; for any other add-on owning it is all

rowVars == <<truth, list, heldEntry, today, forSale, included>>

Days == 0..MaxDay
Never == MaxDay + 1
EndDates == Days \cup {Never}
Unknown == -1           \* seats that an answer says nothing of

TrialStates == {"none", "available", "newsletter", "running", "ended"}

\* Nobody else has a seat that is here; one that was revoked here may be taken anywhere.
Truths ==
    [owned : BOOLEAN, seat : {"free", "here", "elsewhere"}, revoked : BOOLEAN,
     trial : TrialStates, ends : EndDates]

LicenseEntries ==
    [active : BOOLEAN, trial : BOOLEAN, revoked : BOOLEAN, ends : EndDates,
     seats : {Unknown, 0, 1}]

ListEntries ==
    [owns : BOOLEAN, active : BOOLEAN, revoked : BOOLEAN, ends : EndDates,
     seats : {Unknown, 0, 1}, trial : TrialStates]

ASSUME AddOnRowsAssumption ==
    MaxDay \in Nat \ {0} /\ NotListed \notin LicenseEntries \cup ListEntries

AddOnRowsTypeOK ==
    /\ truth \in Truths /\ today \in Days
    /\ forSale \in BOOLEAN /\ included \in BOOLEAN
    /\ list \in ListEntries \cup {NotListed}
    /\ heldEntry \in LicenseEntries \cup {NotListed}

-----------------------------------------------------------------------------
(* What the server says of it (types.hpp, sub_product and                  *)
(* sub_product_catalog_entry).                                             *)

SeatHere(t) == t.owned /\ t.seat = "here"
UnlockedHere(t) == SeatHere(t) \/ t.trial = "running"
OnTrial(t)  == ~SeatHere(t) /\ (t.trial = "running" \/ (t.trial = "ended" /\ ~t.owned))
Free(t)     == IF t.seat = "free" THEN 1 ELSE 0

\* A license lists what the customer owns or tries of what it includes.
LicenseSays(t) ==
    IF included /\ (t.owned \/ OnTrial(t))
      THEN [active |-> UnlockedHere(t), trial |-> OnTrial(t), revoked |-> t.owned /\ t.revoked,
            ends |-> t.ends, seats |-> IF OnTrial(t) THEN Unknown ELSE Free(t)]
      ELSE NotListed

\* The list has what is owned, for sale, or can be tried or is being tried.
ListSays(t) ==
    IF t.owned \/ forSale \/ (included /\ t.trial \in {"available", "running"})
      THEN [owns |-> t.owned, active |-> IF included THEN UnlockedHere(t) ELSE t.owned,
            revoked |-> included /\ t.owned /\ t.revoked,
            ends |-> IF included THEN t.ends ELSE Never,
            seats |-> IF included /\ t.owned THEN Free(t) ELSE Unknown,
            trial |-> IF ~included \/ (t.owned /\ t.trial # "running") THEN "none"
                      ELSE t.trial]
      ELSE NotListed

AddOnRowsInit ==
    /\ truth \in {t \in Truths :
         /\ t.ends = Never /\ ~t.revoked /\ t.trial \in {"none", "available", "newsletter"}
         /\ ~t.owned => t.seat = "free"}
    /\ today = 0
    /\ forSale \in BOOLEAN /\ included \in BOOLEAN
    /\ list = ListSays(truth) /\ heldEntry = LicenseSays(truth)

-----------------------------------------------------------------------------
(* describe                                                                *)

DaysUntil(end) == IF end > today THEN end - today ELSE 0

\* has_sub_product
HasSubProduct ==
    /\ heldEntry # NotListed /\ heldEntry.active
    /\ heldEntry.ends = Never \/ heldEntry.ends > today

ActiveHere == IF included THEN HasSubProduct ELSE list.active

WasActive == IF heldEntry # NotListed THEN heldEntry.active ELSE list.active
EndsOn    == IF heldEntry # NotListed THEN heldEntry.ends ELSE list.ends
Lapsed    == WasActive /\ ~ActiveHere /\ EndsOn # Never /\ DaysUntil(EndsOn) = 0

ByTrial == IF heldEntry # NotListed THEN heldEntry.trial ELSE list.trial = "running"

\* Used up by a trial the license has, or by one that ran out since.
TrialNow ==
    IF heldEntry # NotListed /\ heldEntry.trial THEN IF ActiveHere THEN "running" ELSE "ended"
    ELSE IF list.trial = "running" /\ Lapsed THEN "ended" ELSE list.trial

WasRevoked == IF heldEntry # NotListed THEN heldEntry.revoked ELSE list.revoked

HeldSeats == IF heldEntry # NotListed THEN heldEntry.seats ELSE Unknown

\* Mutant: the list alone says whether a seat is free.
SeatsInUseByList == list.seats = 0

SeatsInUse == {list.seats, HeldSeats} \subseteq {Unknown, 0} /\ 0 \in {list.seats, HeldSeats}

Row(status, primary) == [status |-> status, primary |-> primary, secondary |-> "none"]

IfSold == IF forSale THEN "buy" ELSE "none"

\* The first that applies.
Described ==
    IF ActiveHere /\ list.owns /\ ~ByTrial THEN Row("active", "none")
    ELSE IF ActiveHere
      THEN Row("trial", IF list.owns /\ included THEN "activate" ELSE IfSold)
    ELSE IF Lapsed /\ list.owns /\ ~ByTrial THEN Row("expired", IfSold)
    ELSE IF included /\ list.owns
      THEN IF WasRevoked THEN Row("deactivated", "activate")
           ELSE IF SeatsInUse THEN Row("seats in use", "none")
           ELSE Row("not activated", "activate")
    ELSE IF TrialNow = "available" THEN [Row("free trial", "try") EXCEPT !.secondary = IfSold]
    ELSE IF TrialNow = "ended" THEN Row("trial ended", IfSold)
    ELSE IF TrialNow = "newsletter" THEN Row("join the newsletter", IfSold)
    ELSE Row("price", IfSold)

-----------------------------------------------------------------------------
\* The customer, the merchant and the other computers.
Changes(t) ==
    {u \in Truths :
      \/ \E e \in EndDates : e > today /\ u = [t EXCEPT !.owned = TRUE,          \* bought
                              !.ends = IF OnTrial(t) /\ t.trial = "running" THEN t.ends ELSE e]
         /\ ~t.owned
      \/ t.owned /\ t.seat = "free" /\ u = [t EXCEPT !.seat = "elsewhere"]
      \/ t.owned /\ t.seat = "elsewhere" /\ u = [t EXCEPT !.seat = "free"]
      \/ t.owned /\ t.seat = "free" /\ u = [t EXCEPT !.seat = "here", !.revoked = FALSE, !.ends = Never]
      \/ SeatHere(t) /\ u = [t EXCEPT !.seat = "free", !.revoked = TRUE]
      \/ \E e \in EndDates : e > today /\ ~t.owned /\ included /\ t.trial = "available"
           /\ u = [t EXCEPT !.trial = "running", !.ends = e]
      \/ ~t.owned /\ t.trial = "newsletter" /\ u = [t EXCEPT !.trial = "available"]}

\* Nothing that has ended is still running.
AsOf(t, day) ==
    IF t.ends > day THEN t
    ELSE IF t.trial = "running"
      THEN [t EXCEPT !.trial = "ended", !.ends = IF t.owned THEN Never ELSE @]
    ELSE IF t.owned
      THEN [t EXCEPT !.owned = FALSE, !.seat = "free", !.revoked = FALSE]
    ELSE t

WorldMoves ==
    /\ truth' \in Changes(truth)
    /\ UNCHANGED <<list, heldEntry, today, forSale, included>>

DayPasses ==
    /\ today < MaxDay
    /\ today' = today + 1
    /\ truth' = AsOf(truth, today')
    /\ UNCHANGED <<list, heldEntry, forSale, included>>

ListIsRead ==
    /\ list' = ListSays(truth)
    /\ UNCHANGED <<truth, heldEntry, today, forSale, included>>

LicenseIsRead ==
    /\ heldEntry' = LicenseSays(truth)
    /\ UNCHANGED <<truth, list, today, forSale, included>>

AddOnRowsNext == WorldMoves \/ DayPasses \/ ListIsRead \/ LicenseIsRead

-----------------------------------------------------------------------------
\* Of whatever age the two answers are, an owned add-on whose seat either of them knows
\* to be free can be activated from its row; a trial is only offered while the list has
\* it and the license has none; and the row shows it unlocked exactly while the host
\* unlocks it (describe, has_sub_product).
RowsStrandNothing ==
    list # NotListed =>
        /\ /\ included /\ list.owns /\ ~ActiveHere
           /\ 1 \in {list.seats, HeldSeats}
           /\ ~(Lapsed /\ ~ByTrial)
           => Described.primary = "activate"
        /\ Described.primary = "try" =>
             list.trial = "available" /\ (heldEntry = NotListed \/ ~heldEntry.trial)
        /\ (Described.status \in {"active", "trial"}) = ActiveHere
        /\ Described.status = "trial" /\ EndsOn # Never => DaysUntil(EndsOn) > 0

\* Once both are as the server has it, so is the row: it says that seats are in use,
\* or that a trial is over, only when they are, and offers what the server would grant.
FreshRowsTellTheTruth ==
    list # NotListed /\ list = ListSays(truth) /\ heldEntry = LicenseSays(truth) =>
        /\ Described.status = "active" => truth.owned
        /\ Described.status = "trial" => truth.trial = "running"
        /\ Described.status = "seats in use" => truth.seat = "elsewhere" /\ ~truth.revoked
        /\ Described.status = "trial ended" => truth.trial = "ended"
        /\ Described.primary = "activate" => truth.owned /\ truth.seat # "here"
        /\ Described.primary = "try" => truth.trial = "available" /\ ~truth.owned
        /\ Described.primary = "buy" => ~truth.owned
=============================================================================

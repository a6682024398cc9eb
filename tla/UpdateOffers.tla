------------------------------ MODULE UpdateOffers ------------------------------
(***************************************************************************)
(* What the update screen offers for a release (inventory.hpp,             *)
(* can_download and download_needs_full_license; juce/ui/                  *)
(* ActivationComponent.cpp, UpdateAvailableView): the installer, the full  *)
(* license or the upgrade that leads to it, or none of them.  Moonbase     *)
(* decides by its own rules; an older one leaves it to the app to tell.    *)
(***************************************************************************)
EXTENDS Naturals, FiniteSets

\* The customer a license belongs to and what they are, as Moonbase sees it.  Who owns
\* the product is signed in; a trial may be anybody's, an owner's on this computer too.
Customers ==
    {c \in [trial : BOOLEAN, signedIn : BOOLEAN, owns : BOOLEAN, inGroup : BOOLEAN] :
        /\ ~c.trial => c.owns
        /\ c.owns \/ c.inGroup => c.signedIn}

\* The rules of a release, and whether the customer's licenses cover it.
Rules == [needUser : BOOLEAN, needOwnership : BOOLEAN, needGroup : BOOLEAN, covered : BOOLEAN]

Allows(r, c) ==
    /\ r.needUser => c.signedIn
    /\ r.needOwnership => c.owns
    /\ r.needGroup => c.inGroup
    /\ r.covered

\* get_release: what an older Moonbase does not send is left at its default.
Answer(r, c, says) ==
    [needUser |-> r.needUser, needOwnership |-> r.needOwnership,
     needGroup |-> says /\ r.needGroup, covered |-> r.covered,
     allowed |-> IF says THEN IF Allows(r, c) THEN "yes" ELSE "no" ELSE "unsaid"]

\* Mutant: a trial of a signed-in customer may download what is for owners.
AnySignedIn(c, info) ==
    /\ info.covered
    /\ info.allowed # "no"
    /\ info.allowed = "yes" \/ ~info.needUser \/ c.signedIn

CanDownload(c, info) ==
    /\ info.covered
    /\ info.allowed # "no"
    /\ \/ info.allowed = "yes"
       \/ /\ ~(info.needOwnership /\ c.trial)
          /\ ~(info.needUser /\ ~c.signedIn)

NeedsFullLicense(c, info) ==
    /\ info.covered /\ ~info.needGroup /\ ~CanDownload(c, info)
    /\ \/ info.needOwnership /\ c.trial
       \/ info.needUser /\ ~c.signedIn

\* UpdateAvailableView::refresh, once the notes have loaded.
Buttons(c, info, sold) ==
    {b \in {"download", "unlock", "upgrade"} :
        CASE b = "download" -> CanDownload(c, info)
          [] b = "unlock"   -> ~CanDownload(c, info) /\ info.covered /\ NeedsFullLicense(c, info)
          [] b = "upgrade"  -> ~CanDownload(c, info) /\ ~info.covered /\ sold}

\* computeLayout: whether the button's room goes to the notes.
NoButton(c, info, sold) ==
    /\ ~CanDownload(c, info)
    /\ IF info.covered THEN ~NeedsFullLicense(c, info) ELSE ~sold

\* drawStatusRow, where nothing failed.
Note(c, info) ==
    IF ~info.covered THEN "needs an upgrade"
    ELSE IF CanDownload(c, info) THEN "nothing"
    ELSE IF ~NeedsFullLicense(c, info) THEN "can't download"
    ELSE IF c.trial THEN "with a full license" ELSE "sign in"

\* The customer once a full license is activated here.
WithFullLicense(c) == [c EXCEPT !.trial = FALSE, !.owns = TRUE, !.signedIn = TRUE]

\* The screen offers at most one way forward, in the room the layout keeps for it, and
\* it leads on: a download is one Moonbase allows, an unlock ends in a download it
\* allows, and what it does allow is offered, whether Moonbase says so itself or the
\* app tells from the rules it was sent (can_download, download_needs_full_license).
OffersLeadOn ==
    \A c \in Customers, r \in Rules, says, sold \in BOOLEAN :
      LET info  == Answer(r, c, says)
          known == says \/ ~r.needGroup
          shown == Buttons(c, info, sold)
      IN  /\ Cardinality(shown) <= 1 /\ NoButton(c, info, sold) = (shown = {})
          /\ known /\ "download" \in shown => Allows(r, c)
          /\ known /\ "unlock" \in shown => Allows(r, WithFullLicense(c))
          /\ says /\ Allows(r, c) => "download" \in shown
          /\ ~says /\ Allows(r, c) /\ (c.owns => ~c.trial) => "download" \in shown
          /\ (Note(c, info) \in {"with a full license", "sign in"}) = ("unlock" \in shown)
=============================================================================

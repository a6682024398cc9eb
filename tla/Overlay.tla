-------------------------------- MODULE Overlay --------------------------------
(***************************************************************************)
(* ActivationComponent as a modal over the plugin (juce/ui/                *)
(* ActivationComponent.cpp, Impl): when it presents itself, when it closes *)
(* itself, and the fade in between, which only advances while the window   *)
(* is on screen.                                                           *)
(*                                                                         *)
(* The controller is here what the component reads of it, its screen and   *)
(* whether it holds a license; its changes arrive as one message however   *)
(* many they were.  "Details" stands for the trial's view too, "Welcome"   *)
(* for every screen on the way to an activation.                           *)
(***************************************************************************)
EXTENDS Integers

CONSTANT AutoPresentOnLock      \* config.autoPresentOnLock

ASSUME OverlayAssumption == AutoPresentOnLock \in BOOLEAN

VARIABLES
    overlay,    \* the component's members
    shown,      \* the controller: its screen, its license, where an update came from
    changeSent, \* a change message is on its way
    onScreen,   \* the window, and everything around the overlay in it, is showing
    asked,      \* history: the overlay was opened by the user or the host
    letGo       \* history: closed by them since the lock was seen

overlayVars == <<overlay, shown, changeSent, onScreen, asked, letGo>>

ShownScreens == {"Loading", "Welcome", "Success", "Details", "Update", "AddOns"}

\* A license is held on the screens of one; a launch may hold one already.
Shown ==
    {c \in [screen : ShownScreens, held : BOOLEAN, fromLicenseView : BOOLEAN] :
        /\ c.screen \in {"Success", "Details", "Update", "AddOns"} => c.held
        /\ c.fromLicenseView => c.screen = "Update"}

\* `still` is config.reduceMotion; target is appearTarget_, fading appearAnim.
Components ==
    [visible : BOOLEAN, target : {0, 1}, fading : BOOLEAN, still : BOOLEAN,
     view : ShownScreens, presentPending : BOOLEAN,
     seen : {"nothing", "locked", "licensed"}, forLock : BOOLEAN]

OverlayTypeOK ==
    /\ overlay \in Components /\ shown \in Shown
    /\ changeSent \in BOOLEAN /\ onScreen \in BOOLEAN
    /\ asked \in BOOLEAN /\ letGo \in BOOLEAN

CameByItself(c) == c.screen = "Update" /\ ~c.fromLicenseView

\* The constructor shows the controller's state, and reports it in a message.
OverlayInit ==
    /\ shown \in Shown
    /\ \E v, s \in BOOLEAN :
         /\ overlay = [visible |-> v, target |-> 1, fading |-> FALSE, still |-> s,
                       view |-> shown.screen, presentPending |-> CameByItself(shown),
                       seen |-> "nothing", forLock |-> FALSE]
         /\ asked = v
    /\ changeSent = TRUE /\ onScreen = FALSE /\ letGo = FALSE

-----------------------------------------------------------------------------
(* What the handlers are made of.                                          *)

Up(o) == o.visible /\ o.target = 1

\* appear: restarts the fade, or is there at once.
Appear(o) == [o EXCEPT !.visible = TRUE, !.target = IF o.still THEN @ ELSE 1,
                       !.fading = ~o.still]

\* Mutant: a fade-out under way counts as up.
PresentIfHidden(o) == IF o.visible THEN o ELSE Appear(o)

Present(o) == IF Up(o) THEN o ELSE Appear(o)

\* dismiss: hidden at once, or at the end of the fade.
TakenAway(o) == [o EXCEPT !.forLock = FALSE,
                          !.visible = @ /\ ~o.still,
                          !.target = IF o.still THEN @ ELSE 0,
                          !.fading = ~o.still]

\* restOnLicenseView, once it is closed: showDetails.
Rests(c) == c.screen \in {"Success", "Update", "AddOns"}
Rested(c) == [c EXCEPT !.screen = "Details", !.fromLicenseView = FALSE]

OnceHidden(hidden) ==
    /\ shown' = IF hidden /\ Rests(shown) THEN Rested(shown) ELSE shown
    /\ changeSent' = (changeSent \/ (hidden /\ Rests(shown)))

\* syncViews
Synced(o, c) ==
    [o EXCEPT !.view = c.screen,
              !.presentPending = @ \/ (c.screen # o.view /\ CameByItself(c))]

\* notifyHost: an update presents itself, and then a lock does.
PresentedUpdate(o) ==
    [(IF o.presentPending THEN Present(o) ELSE o) EXCEPT !.presentPending = FALSE]

PresentedLock(o, c) ==
    IF AutoPresentOnLock /\ ~c.held /\ o.seen # "locked"
      THEN [Present(o) EXCEPT !.forLock = @ \/ ~Up(o)]
      ELSE o

\* A license came back that was not activated here.
ClosesItself(o, c) == c.held /\ o.forLock /\ c.screen = "Details"

GotOutOfTheWay(o, c) ==
    IF ClosesItself(o, c) THEN TakenAway(o)
    ELSE [o EXCEPT !.forLock = @ /\ ~c.held]

Notified(o, c) ==
    [GotOutOfTheWay(PresentedLock(o, c), c) EXCEPT
        !.seen = IF c.held THEN "licensed" ELSE "locked"]

-----------------------------------------------------------------------------
\* Whatever the controller does, it sends a change message.
ControllerMoves ==
    /\ \E c \in Shown :
         /\ c # shown
         /\ c.fromLicenseView => shown.screen = "Details" /\ Up(overlay)
         /\ c.screen = "AddOns" => shown.screen = "Details"
         /\ c.screen = "Success" => shown.screen = "Welcome"
         /\ shown' = c
    /\ changeSent' = TRUE
    /\ UNCHANGED <<overlay, onScreen, asked, letGo>>

\* changeListenerCallback
ChangeArrives ==
    /\ changeSent
    /\ LET o == PresentedUpdate(Synced(overlay, shown))
           n == IF shown.screen = "Loading" THEN o ELSE Notified(o, shown)
           closes == shown.screen # "Loading" /\ ClosesItself(PresentedLock(o, shown), shown)
       IN  /\ overlay' = n
           /\ asked' = (asked /\ ~closes)
           /\ letGo' = (letGo /\ n.seen # "licensed")
    /\ changeSent' = FALSE
    /\ UNCHANGED <<shown, onScreen>>

\* Mutant: asking for it changes nothing about why it opened.
AppearAsked(o) == Appear(o)

AppearOnRequest(o) == Appear([o EXCEPT !.forLock = FALSE])

\* The host's License button, and the buttons that close it.
AskFor ==
    /\ overlay' = AppearOnRequest(overlay)
    /\ asked' = TRUE /\ letGo' = FALSE
    /\ UNCHANGED <<shown, changeSent, onScreen>>

Close ==
    /\ overlay' = TakenAway(overlay)
    /\ OnceHidden(overlay.still)
    /\ asked' = FALSE
    /\ letGo' = (letGo \/ overlay.seen = "locked")
    /\ UNCHANGED onScreen

\* presentUpdateIfAvailable
PresentUpdate ==
    /\ shown.held
    /\ shown' = [shown EXCEPT !.screen = "Update", !.fromLicenseView = FALSE]
    /\ changeSent' = TRUE
    /\ UNCHANGED <<overlay, onScreen, asked, letGo>>

\* The timer ticks while the overlay is on screen.
FadeEnds ==
    /\ overlay.fading /\ overlay.visible /\ onScreen
    /\ overlay' = [overlay EXCEPT !.fading = FALSE, !.visible = overlay.target = 1]
    /\ OnceHidden(overlay.target = 0)
    /\ UNCHANGED <<onScreen, asked, letGo>>

WindowMoves ==
    /\ onScreen' = ~onScreen
    /\ UNCHANGED <<overlay, shown, changeSent, asked, letGo>>

OverlayNext ==
    \/ ControllerMoves \/ ChangeArrives \/ AskFor \/ Close \/ PresentUpdate
    \/ FadeEnds \/ WindowMoves

OverlaySpec == OverlayInit /\ [][OverlayNext]_overlayVars

-----------------------------------------------------------------------------
\* A locked plugin is behind the overlay, from the moment the lock is seen and
\* until the user or the host closes it: also when the license goes while the
\* overlay fades out, or goes, comes and goes within one message (notifyHost,
\* present).
LockIsCovered ==
    AutoPresentOnLock /\ ~changeSent /\ shown.screen # "Loading" /\ ~shown.held /\ ~letGo
        => Up(overlay)

\* The overlay never takes itself away from someone who opened it, nor from the
\* success screen of an activation or an update (notifyHost, appearOnRequest).
AskedForStays ==
    [][Up(overlay) /\ ~Up(overlay') /\ ChangeArrives
         => ~asked /\ shown.held /\ shown.screen = "Details"]_overlayVars
=============================================================================

---------------------------------- MODULE Views ----------------------------------
(***************************************************************************)
(* The panel's views (juce/ui/ActivationComponent.cpp, Impl and the views  *)
(* in it): one is shown for the controller's screen and slides in over the *)
(* one before it.  Screens may change faster than a slide takes, and the     *)
(* window may be minimised or hidden half way through one: the slides run  *)
(* on a timer that follows whether the panel is on screen.                 *)
(*                                                                         *)
(* "Details" stands for the views with a button that spins while the       *)
(* controller works; the other views without one are "Welcome".            *)
(***************************************************************************)
EXTENDS Integers

VARIABLES
    panel,     \* the component's members, its timer and its animations
    view,      \* the views: visible, in place, fully drawn, their button spinning
    wanted,    \* the controller's screen
    working,   \* the controller is busy
    tell,      \* a change message is on its way
    where      \* the panel: hidden, visible and off screen, or on screen

viewVars == <<panel, view, wanted, working, tell, where>>

ScreenSet == {"Loading", "Welcome", "Error", "BrowserWait", "Details"}
ViewSet  == {"Welcome", "BrowserWait", "Details"}
NoView   == "none"
Places   == {"hidden", "offScreen", "onScreen"}

\* viewFor: the error is shown by the welcome view.
ViewFor(s) == IF s = "Loading" THEN NoView ELSE IF s = "Error" THEN "Welcome" ELSE s

\* `ticking` is tickingWhileShowing, `known` the wait view's ownerVisible.
Panels ==
    [active : ViewSet \cup {NoView}, outgoing : ViewSet \cup {NoView},
     hz : {0, 4, 60}, ticking : BOOLEAN, known : BOOLEAN, spinning : BOOLEAN,
     sliding : BOOLEAN, still : BOOLEAN]

ViewStates == [visible : BOOLEAN, here : BOOLEAN, solid : BOOLEAN, spins : BOOLEAN]

ViewsTypeOK ==
    /\ panel \in Panels /\ view \in [ViewSet -> ViewStates]
    /\ wanted \in ScreenSet /\ where \in Places
    /\ working \in BOOLEAN /\ tell \in BOOLEAN

\* A panel of its own controller hears of its screen in a message; beside a controller
\* that was started before, the constructor shows the screen.
ViewsInit ==
    /\ \E still \in BOOLEAN :
         panel = [active |-> NoView, outgoing |-> NoView, hz |-> 0, ticking |-> FALSE,
                  known |-> FALSE, spinning |-> FALSE, sliding |-> FALSE,
                  still |-> still]
    /\ view = [v \in ViewSet |->
                 [visible |-> FALSE, here |-> TRUE, solid |-> TRUE, spins |-> FALSE]]
    /\ wanted = "Loading" /\ working = FALSE /\ tell \in BOOLEAN /\ where = "hidden"

-----------------------------------------------------------------------------
(* What the handlers are made of.                                          *)

OnScreen == where = "onScreen"

Animating == ~panel.still /\ OnScreen

\* A hidden view with a button stops its spinner as it goes (visibilityChanged).
Hidden(s)   == [s EXCEPT !.visible = FALSE, !.spins = FALSE]
AtRest(s)   == [s EXCEPT !.here = TRUE, !.solid = TRUE]
Away(s)     == [s EXCEPT !.here = FALSE, !.solid = FALSE]
WithButton(s, v, busy) == [s EXCEPT !.spins = v = "Details" /\ busy]

\* finishTransition
Landed(vs, active, outgoing) ==
    [v \in ViewSet |-> IF v = outgoing THEN AtRest(Hidden(vs[v]))
                       ELSE IF v = active THEN AtRest(vs[v])
                       ELSE vs[v]]

\* startTransition, for the view that comes and the one that goes.
Started(vs, active, outgoing) ==
    CASE active = NoView -> [v \in ViewSet |-> IF v = outgoing THEN Hidden(vs[v]) ELSE vs[v]]
      [] active # NoView /\ ~Animating -> Landed(vs, active, outgoing)
      [] OTHER -> [v \in ViewSet |-> IF v = active THEN Away(vs[v])
                                     ELSE IF v = outgoing THEN AtRest(vs[v])
                                     ELSE vs[v]]

\* Mutant: a slide that is cut short leaves its view where it was.
LeftOver(vs, next) == vs

\* The slide before this one is finished first.
PreviousLanded(vs, next) ==
    IF panel.outgoing \in {NoView, panel.active, next} THEN vs
    ELSE [vs EXCEPT ![panel.outgoing] = AtRest(Hidden(@))]

\* The next view is refreshed and shown, and every view laid out in place.
Presented(vs, next) ==
    [v \in ViewSet |->
        LET laid == [vs[v] EXCEPT !.here = TRUE]
        IN  IF v = next THEN [WithButton(laid, v, working) EXCEPT !.visible = TRUE] ELSE laid]

\* updateSpinner: the wait's spinner turns while its view is up on a panel on screen.
Spinner(vs, known) == vs["BrowserWait"].visible /\ known

\* syncViews
SyncViews ==
    LET next  == ViewFor(wanted)
        moves == next # panel.active
        shows == IF moves THEN Started(Presented(PreviousLanded(view, next), next), next, panel.active)
                 ELSE IF next # NoView THEN [view EXCEPT ![next] = WithButton(@, next, working)]
                 ELSE view
        lands == next = NoView \/ ~Animating
    IN  /\ view' = shows
        /\ panel' = [panel EXCEPT
             !.active   = next,
             !.outgoing = IF moves THEN IF lands THEN NoView ELSE panel.active ELSE @,
             !.sliding  = @ \/ (moves /\ ~lands),
             !.spinning = Spinner(shows, panel.known)]

\* updateTicking, for a panel that is at `place`.
Ticking(p, place) ==
    [p EXCEPT !.hz = IF place = "hidden" THEN 0
                     ELSE IF place = "onScreen" /\ ~p.still THEN 60 ELSE 4,
              !.ticking = place = "onScreen", !.known = place = "onScreen",
              !.spinning = Spinner(view, place = "onScreen")]

-----------------------------------------------------------------------------
\* The controller's screens in any order, and what it is busy with where a button tells.
ScreenMoves ==
    /\ \E s \in ScreenSet, w \in BOOLEAN :
         /\ <<s, w>> # <<wanted, working>>
         /\ w => s = "Details"
         /\ wanted' = s /\ working' = w
    /\ tell' = TRUE
    /\ UNCHANGED <<panel, view, where>>

ViewsHear ==
    /\ tell
    /\ SyncViews
    /\ tell' = FALSE
    /\ UNCHANGED <<wanted, working, where>>

\* The panel, a parent or the window changes, and the ShowingWatcher says so.
ShowingChanges ==
    /\ \E place \in Places \ {where} :
         /\ where' = place
         /\ panel' = Ticking(panel, place)
    /\ UNCHANGED <<view, wanted, working, tell>>

\* Minimising, and coming back from it, is the one change it does not see.
Minimise ==
    /\ where # "hidden"
    /\ where' = IF OnScreen THEN "offScreen" ELSE "onScreen"
    /\ UNCHANGED <<panel, view, wanted, working, tell>>

\* A new size lays out every view, also during a slide.
Resize ==
    /\ view' = [v \in ViewSet |-> [view[v] EXCEPT !.here = TRUE]]
    /\ UNCHANGED <<panel, wanted, working, tell, where>>

\* timerCallback: it may find that the window was minimised or restored,
Notices ==
    /\ panel.hz > 0 /\ panel.ticking # OnScreen
    /\ panel' = Ticking(panel, where)
    /\ UNCHANGED <<view, wanted, working, tell, where>>

\* or moves the animations that run: applyTransition,
SlideMoves ==
    /\ panel.hz > 0 /\ panel.ticking /\ OnScreen /\ panel.sliding
    /\ view' = [v \in ViewSet |-> IF v \in {panel.active, panel.outgoing}
                                    THEN Away(view[v]) ELSE view[v]]
    /\ UNCHANGED <<panel, wanted, working, tell, where>>

\* and once its time is over, finishTransition.
SlideEnds ==
    /\ panel.hz > 0 /\ panel.ticking /\ OnScreen /\ panel.sliding
    /\ view' = Landed(view, panel.active, panel.outgoing)
    /\ panel' = [panel EXCEPT !.sliding = FALSE, !.outgoing = NoView,
                              !.spinning = Spinner(view', panel.known)]
    /\ UNCHANGED <<wanted, working, tell, where>>

PanelStep == ViewsHear \/ Notices \/ SlideMoves \/ SlideEnds

ViewsNext == ScreenMoves \/ ShowingChanges \/ Minimise \/ Resize \/ PanelStep

\* Messages arrive and the timer fires; an animation runs on the clock, so it ends.
PanelRunsOn == ViewsHear \/ Notices \/ SlideEnds

ViewsSpec == ViewsInit /\ [][ViewsNext]_viewVars /\ WF_viewVars(PanelRunsOn)

-----------------------------------------------------------------------------
\* With no slide under way just the view of the controller's screen is up, in place,
\* fully drawn and with its button as the controller is, however fast the screens
\* changed and whatever the window did (syncViews, startTransition, finishTransition).
OnlyTheScreensView ==
    ~tell /\ ~panel.sliding =>
        /\ panel.active = ViewFor(wanted) /\ panel.outgoing = NoView
        /\ \A v \in ViewSet :
             /\ view[v].visible = (v = panel.active)
             /\ view[v].visible => /\ view[v].here /\ view[v].solid
                                   /\ view[v].spins = (v = "Details" /\ working)

\* Nothing turns on a panel that is hidden, and no view that was left keeps a spinner
\* (updateTicking, updateSpinner, visibilityChanged).
HiddenCostsNothing ==
    /\ where = "hidden" => panel.hz = 0 /\ ~panel.spinning
    /\ \A v \in ViewSet : ~view[v].visible => ~view[v].spins
    /\ panel.spinning => view["BrowserWait"].visible

\* On screen, once the screens stop changing, the slide lands and the wait's spinner
\* turns, also when the window was minimised half way (timerCallback).
PanelAtRest ==
    OnScreen => /\ ~tell /\ ~panel.sliding /\ panel.ticking
                /\ panel.spinning = (panel.active = "BrowserWait")

PanelSettles == <>[][PanelStep]_viewVars => <>[]PanelAtRest
=============================================================================

---------------------------- MODULE Screens_proofs ----------------------------
(***************************************************************************)
(* Proofs about what the user and the plugin are shown: the overlay over a *)
(* locked plugin (Overlay), the news of the license (LicenseNews), the     *)
(* panel's views (Views), the note on a copied link (LinkCopy) and the     *)
(* count of the days left (Countdowns).                                    *)
(***************************************************************************)
EXTENDS Overlay, LicenseNews, Views, LinkCopy, Countdowns, TLAPS

-----------------------------------------------------------------------------
(* The overlay.                                                            *)

\* What the component knows once no change message is on its way: the screen
\* and the license it last heard of are the controller's.
SeesTheLicense ==
    ~changeSent /\ shown.screen # "Loading"
        => overlay.seen = (IF shown.held THEN "licensed" ELSE "locked")

\* Once it has seen the lock it is up, unless it was told to close.
UpForTheLock == AutoPresentOnLock /\ overlay.seen = "locked" /\ ~letGo => Up(overlay)

\* A component without motion has no fade to be half way through.
StillIsPlain == overlay.still => overlay.target = 1

\* Whoever asked for the overlay has it, and has it for no lock's sake.
AskedForIsUp == asked => Up(overlay) /\ ~overlay.forLock

OverlayInv ==
    OverlayTypeOK /\ SeesTheLicense /\ UpForTheLock /\ StillIsPlain /\ AskedForIsUp

LEMMA OverlayInitially == OverlayInit => OverlayInv
<1> SUFFICES ASSUME OverlayInit PROVE OverlayInv
  OBVIOUS
<1>1. shown \in Shown /\ shown.screen \in ShownScreens
  BY DEF OverlayInit, Shown
<1>2. PICK v \in BOOLEAN, s \in BOOLEAN :
         /\ overlay = [visible |-> v, target |-> 1, fading |-> FALSE, still |-> s,
                       view |-> shown.screen, presentPending |-> CameByItself(shown),
                       seen |-> "nothing", forLock |-> FALSE]
         /\ asked = v
  BY DEF OverlayInit
<1>3. CameByItself(shown) \in BOOLEAN
  BY DEF CameByItself
<1>4. OverlayTypeOK
  BY <1>1, <1>2, <1>3 DEF OverlayInit, OverlayTypeOK, Components
<1> QED
  BY <1>2, <1>4 DEF OverlayInit, OverlayInv, SeesTheLicense, UpForTheLock, StillIsPlain,
                    AskedForIsUp, Up

\* The handlers' parts keep a component a component, and what is not theirs alone.
LEMMA AppearsWhole ==
    ASSUME NEW o \in Components, o.still => o.target = 1
    PROVE  /\ Appear(o) \in Components /\ Up(Appear(o))
           /\ Appear(o).still = o.still /\ Appear(o).seen = o.seen
           /\ Appear(o).forLock = o.forLock /\ Appear(o).presentPending = o.presentPending
           /\ Appear(o).view = o.view
           /\ Appear(o).still => Appear(o).target = 1
BY DEF Appear, Components, Up

LEMMA PresentIsUp ==
    ASSUME NEW o \in Components, o.still => o.target = 1
    PROVE  /\ Present(o) \in Components /\ Up(Present(o))
           /\ Present(o).still = o.still /\ Present(o).seen = o.seen
           /\ Present(o).forLock = o.forLock
           /\ Present(o).still => Present(o).target = 1
BY AppearsWhole DEF Present

LEMMA TakenAwayIsDown ==
    ASSUME NEW o \in Components, o.still => o.target = 1
    PROVE  /\ TakenAway(o) \in Components /\ ~Up(TakenAway(o))
           /\ TakenAway(o).seen = o.seen /\ ~TakenAway(o).forLock
           /\ TakenAway(o).still => TakenAway(o).target = 1
<1> DEFINE p == TakenAway(o)
<1>1. p.forLock = FALSE /\ p.visible = (o.visible /\ ~o.still) /\ p.fading = ~o.still
      /\ p.target = (IF o.still THEN o.target ELSE 0) /\ p.seen = o.seen /\ p.still = o.still
  BY DEF TakenAway, Components
<1>2. p \in Components
  BY DEF TakenAway, Components
<1>3. ~Up(p)
  <2>1. CASE o.still
    BY <1>1, <2>1, ~p.visible DEF Up
  <2>2. CASE ~o.still
    BY <1>1, <2>2, p.target = 0 DEF Up
  <2> QED
    BY <2>1, <2>2
<1> QED
  BY <1>1, <1>2, <1>3

LEMMA UpdateIsPresented ==
    ASSUME NEW o \in Components, NEW c \in Shown, o.still => o.target = 1
    PROVE  LET p == PresentedUpdate(Synced(o, c)) IN
           /\ p \in Components
           /\ Up(o) => Up(p)
           /\ p.seen = o.seen /\ p.forLock = o.forLock
           /\ p.still => p.target = 1
<1> DEFINE s == Synced(o, c)
           q == IF s.presentPending THEN Present(s) ELSE s
<1>1. /\ s \in Components /\ (Up(o) <=> Up(s))
      /\ s.seen = o.seen /\ s.forLock = o.forLock
      /\ s.still => s.target = 1
  BY DEF Synced, Components, Shown, Up, CameByItself
<1>2. /\ q \in Components /\ (Up(s) => Up(q))
      /\ q.seen = s.seen /\ q.forLock = s.forLock
      /\ q.still => q.target = 1
  BY <1>1, PresentIsUp
<1>3. PresentedUpdate(s) = [q EXCEPT !.presentPending = FALSE]
  BY DEF PresentedUpdate
<1> QED
  BY <1>1, <1>2, <1>3 DEF Components, Up

\* A lock seen for the first time finds the overlay up.
LEMMA LockIsPresented ==
    ASSUME NEW o \in Components, NEW c \in Shown, o.still => o.target = 1
    PROVE  LET p == PresentedLock(o, c) IN
           /\ p \in Components
           /\ Up(o) => Up(p) /\ p.forLock = o.forLock
           /\ AutoPresentOnLock /\ ~c.held /\ o.seen # "locked" => Up(p)
           /\ c.held => p = o
           /\ p.seen = o.seen
           /\ p.still => p.target = 1
<1> DEFINE q == Present(o)
<1>1. /\ q \in Components /\ Up(q) /\ q.seen = o.seen /\ q.forLock = o.forLock
      /\ q.still => q.target = 1
  BY PresentIsUp
<1>2. CASE AutoPresentOnLock /\ ~c.held /\ o.seen # "locked"
  <2>1. PresentedLock(o, c) = [q EXCEPT !.forLock = @ \/ ~Up(o)]
    BY <1>2 DEF PresentedLock
  <2> QED
    BY <1>1, <1>2, <2>1 DEF Components, Up
<1>3. CASE ~(AutoPresentOnLock /\ ~c.held /\ o.seen # "locked")
  BY <1>3 DEF PresentedLock
<1> QED
  BY <1>2, <1>3

\* It gets out of the way of a license, and of no lock.
LEMMA GetsOutOfTheWay ==
    ASSUME NEW o \in Components, NEW c \in Shown, o.still => o.target = 1
    PROVE  LET p == GotOutOfTheWay(o, c) IN
           /\ p \in Components
           /\ p.seen = o.seen
           /\ ~ClosesItself(o, c) => (Up(p) <=> Up(o)) /\ (p.forLock => o.forLock)
           /\ ClosesItself(o, c) => ~Up(p) /\ ~p.forLock
           /\ p.still => p.target = 1
BY TakenAwayIsDown DEF GotOutOfTheWay, Components, Shown, Up


\* What one change message does to the overlay, taken together.
LEMMA ChangeMessage ==
    ASSUME NEW o \in Components, NEW c \in Shown, o.still => o.target = 1
    PROVE  LET p == PresentedUpdate(Synced(o, c))
               n == Notified(p, c)
               closes == ClosesItself(PresentedLock(p, c), c)
           IN  /\ n \in Components
               /\ n.seen = (IF c.held THEN "licensed" ELSE "locked")
               /\ n.still => n.target = 1
               /\ closes => c.held /\ o.forLock /\ c.screen = "Details" /\ ~n.forLock
               /\ ~closes => (Up(o) => Up(n)) /\ (Up(o) /\ n.forLock => o.forLock)
               /\ ~closes /\ AutoPresentOnLock /\ ~c.held /\ o.seen # "locked" => Up(n)
               /\ ~c.held => ~closes
<1> DEFINE p == PresentedUpdate(Synced(o, c))
           l == PresentedLock(p, c)
           g == GotOutOfTheWay(l, c)
<1>1. /\ p \in Components /\ (Up(o) => Up(p))
      /\ p.seen = o.seen /\ p.forLock = o.forLock
      /\ p.still => p.target = 1
  BY UpdateIsPresented
<1>2. /\ l \in Components /\ l.seen = p.seen
      /\ Up(p) => Up(l) /\ l.forLock = p.forLock
      /\ AutoPresentOnLock /\ ~c.held /\ p.seen # "locked" => Up(l)
      /\ c.held => l = p
      /\ l.still => l.target = 1
  BY <1>1, LockIsPresented
<1>3. /\ g \in Components
      /\ ~ClosesItself(l, c) => (Up(g) <=> Up(l)) /\ (g.forLock => l.forLock)
      /\ ClosesItself(l, c) => ~Up(g) /\ ~g.forLock
      /\ g.still => g.target = 1
  BY <1>2, GetsOutOfTheWay
<1>4. Notified(p, c) = [g EXCEPT !.seen = IF c.held THEN "licensed" ELSE "locked"]
  BY DEF Notified
<1>5. /\ Notified(p, c) \in Components
      /\ Notified(p, c).seen = (IF c.held THEN "licensed" ELSE "locked")
      /\ Notified(p, c).still = g.still /\ Notified(p, c).target = g.target
      /\ Notified(p, c).forLock = g.forLock
      /\ Up(Notified(p, c)) <=> Up(g)
  BY <1>3, <1>4 DEF Components, Up
<1>6. ClosesItself(l, c) => c.held /\ o.forLock /\ c.screen = "Details"
  BY <1>1, <1>2 DEF ClosesItself
<1> QED
  BY <1>1, <1>2, <1>3, <1>5, <1>6 DEF ClosesItself


LEMMA OverlayStep == OverlayInv /\ [OverlayNext]_overlayVars => OverlayInv'
<1> SUFFICES ASSUME OverlayInv, [OverlayNext]_overlayVars PROVE OverlayInv'
  OBVIOUS
<1> USE DEF OverlayInv
<1>0. /\ overlay \in Components /\ shown \in Shown
      /\ overlay.still => overlay.target = 1
  BY DEF OverlayTypeOK, StillIsPlain
<1>1. CASE ControllerMoves
  BY <1>1 DEF ControllerMoves, OverlayTypeOK, SeesTheLicense, UpForTheLock, StillIsPlain,
              AskedForIsUp, Up
<1>2. CASE ChangeArrives
  <2> DEFINE o == PresentedUpdate(Synced(overlay, shown))
             closes == ClosesItself(PresentedLock(o, shown), shown)
  <2>1. CASE shown.screen = "Loading"
    <3>1. overlay' = o /\ asked' = asked /\ changeSent' = FALSE /\ shown' = shown
          /\ onScreen' = onScreen /\ letGo' = (letGo /\ o.seen # "licensed")
      BY <1>2, <2>1 DEF ChangeArrives, OverlayTypeOK
    <3>2. /\ o \in Components /\ (Up(overlay) => Up(o))
          /\ o.seen = overlay.seen /\ o.forLock = overlay.forLock
          /\ o.still => o.target = 1
      BY <1>0, UpdateIsPresented
    <3>3. /\ OverlayTypeOK' /\ StillIsPlain' /\ SeesTheLicense'
      BY <2>1, <3>1, <3>2 DEF OverlayTypeOK, StillIsPlain, SeesTheLicense
    <3>4. UpForTheLock' /\ AskedForIsUp'
      BY <3>1, <3>2 DEF UpForTheLock, AskedForIsUp, Up
    <3> QED
      BY <3>3, <3>4
  <2>2. CASE shown.screen # "Loading"
    <3> DEFINE n == Notified(o, shown)
    <3>1. overlay' = n /\ asked' = (asked /\ ~closes) /\ changeSent' = FALSE
          /\ shown' = shown /\ onScreen' = onScreen
          /\ letGo' = (letGo /\ n.seen # "licensed")
      BY <1>2, <2>2 DEF ChangeArrives
    <3>2. /\ n \in Components
          /\ n.seen = (IF shown.held THEN "licensed" ELSE "locked")
          /\ n.still => n.target = 1
          /\ closes => shown.held /\ overlay.forLock /\ shown.screen = "Details" /\ ~n.forLock
          /\ ~closes => (Up(overlay) => Up(n)) /\ (Up(overlay) /\ n.forLock => overlay.forLock)
          /\ ~closes /\ AutoPresentOnLock /\ ~shown.held /\ overlay.seen # "locked" => Up(n)
          /\ ~shown.held => ~closes
      BY <1>0, ChangeMessage
    <3>3. OverlayTypeOK' /\ StillIsPlain' /\ SeesTheLicense'
      BY <3>1, <3>2 DEF OverlayTypeOK, StillIsPlain, SeesTheLicense
    <3>4. UpForTheLock'
      BY <3>1, <3>2 DEF UpForTheLock, Up
    <3>5. AskedForIsUp'
      BY <3>1, <3>2 DEF AskedForIsUp, Up
    <3> QED
      BY <3>3, <3>4, <3>5
  <2> QED
    BY <2>1, <2>2
<1>3. CASE AskFor
  <2> DEFINE o == [overlay EXCEPT !.forLock = FALSE]
  <2>1. o \in Components /\ (o.still => o.target = 1) /\ o.seen = overlay.seen /\ ~o.forLock
    BY <1>0 DEF Components
  <2>2. /\ overlay' \in Components /\ Up(overlay') /\ overlay'.seen = overlay.seen
        /\ ~overlay'.forLock /\ (overlay'.still => overlay'.target = 1)
    BY <1>3, <2>1, AppearsWhole DEF AskFor, AppearOnRequest
  <2> QED
    BY <1>3, <2>2 DEF AskFor, OverlayTypeOK, SeesTheLicense, UpForTheLock, StillIsPlain,
                      AskedForIsUp, Up
<1>4. CASE Close
  <2>1. /\ overlay' \in Components /\ overlay'.seen = overlay.seen /\ ~overlay'.forLock
        /\ (overlay'.still => overlay'.target = 1)
    BY <1>0, <1>4, TakenAwayIsDown DEF Close
  <2>2. shown' \in Shown /\ changeSent' \in BOOLEAN
        /\ (~changeSent' => ~changeSent /\ shown' = shown)
    BY <1>0, <1>4 DEF Close, OnceHidden, OverlayTypeOK, Rests, Rested, Shown, ShownScreens
  <2> QED
    BY <1>4, <2>1, <2>2 DEF Close, OverlayTypeOK, SeesTheLicense, UpForTheLock, StillIsPlain,
                            AskedForIsUp, Up
<1>5. CASE PresentUpdate
  BY <1>0, <1>5 DEF PresentUpdate, OverlayTypeOK, SeesTheLicense, UpForTheLock, StillIsPlain,
                    AskedForIsUp, Up, Shown, ShownScreens
<1>6. CASE FadeEnds
  <2>1. /\ overlay' \in Components /\ overlay'.seen = overlay.seen
        /\ overlay'.forLock = overlay.forLock /\ overlay'.still = overlay.still
        /\ overlay'.target = overlay.target /\ (Up(overlay) => Up(overlay'))
    BY <1>0, <1>6 DEF FadeEnds, Components, Up
  <2>2. shown' \in Shown /\ changeSent' \in BOOLEAN
        /\ (~changeSent' => ~changeSent /\ shown' = shown)
    BY <1>0, <1>6 DEF FadeEnds, OnceHidden, OverlayTypeOK, Rests, Rested, Shown, ShownScreens
  <2> QED
    BY <1>6, <2>1, <2>2 DEF FadeEnds, OverlayTypeOK, SeesTheLicense, UpForTheLock,
                            StillIsPlain, AskedForIsUp, Up
<1>7. CASE WindowMoves
  BY <1>7 DEF WindowMoves, OverlayTypeOK, SeesTheLicense, UpForTheLock, StillIsPlain,
              AskedForIsUp, Up
<1>8. CASE UNCHANGED overlayVars
  BY <1>8 DEF overlayVars, OverlayTypeOK, SeesTheLicense, UpForTheLock, StillIsPlain,
              AskedForIsUp, Up
<1> QED
  BY <1>1, <1>2, <1>3, <1>4, <1>5, <1>6, <1>7, <1>8 DEF OverlayNext

\* The overlay's inductive invariant, whichever way the config is set.
THEOREM OverlayInvariant == OverlaySpec => []OverlayInv
BY OverlayInitially, OverlayStep, PTL DEF OverlaySpec

\* A locked plugin is behind the overlay, from the moment the lock is seen and
\* until the user or the host closes it (notifyHost, present, dismiss).
THEOREM LockCovered == OverlaySpec => []LockIsCovered
<1>1. OverlayInv => LockIsCovered
  BY DEF OverlayInv, SeesTheLicense, UpForTheLock, LockIsCovered
<1> QED
  BY <1>1, OverlayInvariant, PTL

\* What takes a screen that is up away, as a change arrives.
LEMMA AskedForStep ==
    ASSUME OverlayInv, ChangeArrives, Up(overlay), ~Up(overlay')
    PROVE  ~asked /\ shown.held /\ shown.screen = "Details"
<1>0. /\ overlay \in Components /\ shown \in Shown
      /\ overlay.still => overlay.target = 1
  BY DEF OverlayInv, OverlayTypeOK, StillIsPlain
<1>1. CASE shown.screen = "Loading"
  BY <1>0, <1>1, UpdateIsPresented DEF ChangeArrives
<1>2. CASE shown.screen # "Loading"
  <2>1. overlay.forLock /\ shown.held /\ shown.screen = "Details"
    BY <1>0, <1>2, ChangeMessage DEF ChangeArrives
  <2> QED
    BY <2>1 DEF OverlayInv, AskedForIsUp
<1> QED
  BY <1>1, <1>2

\* The overlay never takes itself away from someone who opened it, nor from the
\* success screen: only from a details screen, of a license that came by itself
\* (notifyHost, appearOnRequest).
THEOREM AskedForNeverTakenAway == OverlaySpec => AskedForStays
<1>1. OverlayInv /\ [OverlayNext]_overlayVars =>
        [Up(overlay) /\ ~Up(overlay') /\ ChangeArrives
           => ~asked /\ shown.held /\ shown.screen = "Details"]_overlayVars
  BY AskedForStep
<1> QED
  BY <1>1, OverlayInvariant, PTL DEF OverlaySpec, AskedForStays

-----------------------------------------------------------------------------
(* The news of the license.                                                *)

\* onLicenseChanged and what is remembered of it go together, an add-on is only
\* reported of a license that has one, and who was never wired heard nothing.
ReportsAgree ==
    /\ reported.told => heard = reported
    /\ heard.addOn => heard.token \in WithAddOn
    /\ ~wired => ~uiReported.told

NewsInv == NewsTypeOK /\ ReportsAgree /\ HostsKnow

LEMMA NewsInitially == NewsInit => NewsInv
<1> SUFFICES ASSUME NewsInit PROVE NewsInv
  OBVIOUS
<1>1. Untold \in Reports /\ ~Untold.told /\ ~Untold.addOn
  BY DEF Untold, Reports
<1>2. NewsTypeOK
  BY <1>1 DEF NewsInit, NewsTypeOK
<1> QED
  BY <1>1, <1>2 DEF NewsInit, NewsInv, ReportsAgree, HostsKnow

LEMMA NewsTypeStep == NewsTypeOK /\ [NewsNext]_newsVars => NewsTypeOK'
<1> SUFFICES ASSUME NewsTypeOK, [NewsNext]_newsVars PROVE NewsTypeOK'
  OBVIOUS
<1> USE DEF NewsTypeOK
<1>1. \A t \in Tokens \cup {NoToken} : Report(t) \in Reports /\ Active(t) \in BOOLEAN
  BY DEF Report, Reports, Active
<1>2. ASSUME NEW t \in Tokens \cup {NoToken}, HandlerSetsLicense(t) PROVE NewsTypeOK'
  BY <1>1, <1>2 DEF HandlerSetsLicense, License
<1>3. ASSUME NEW s \in BOOLEAN, MoveScreen(s) PROVE NewsTypeOK'
  BY <1>3 DEF MoveScreen
<1>4. CASE AddOnRunsOut
  BY <1>4 DEF AddOnRunsOut
<1>5. CASE LooksAtAddOns
  BY <1>1, <1>5 DEF LooksAtAddOns
<1>6. CASE DeliverLicenseChange
  BY <1>1, <1>6 DEF DeliverLicenseChange, CalledBack, License
<1>7. CASE NotifyHost
  BY <1>1, <1>7 DEF NotifyHost, CalledBack, License
<1>8. CASE Wire
  BY <1>8 DEF Wire
<1>9. CASE UNCHANGED newsVars
  BY <1>9 DEF newsVars
<1> QED
  BY <1>2, <1>3, <1>4, <1>5, <1>6, <1>7, <1>8, <1>9 DEF NewsNext

LEMMA NewsStep == NewsInv /\ [NewsNext]_newsVars => NewsInv'
<1> SUFFICES ASSUME NewsInv, [NewsNext]_newsVars PROVE NewsInv'
  OBVIOUS
<1>1. NewsTypeOK'
  BY NewsTypeStep DEF NewsInv
<1> USE DEF NewsInv, ReportsAgree, HostsKnow
<1>2. ASSUME NEW t \in Tokens \cup {NoToken}, HandlerSetsLicense(t) PROVE NewsInv'
  BY <1>1, <1>2 DEF HandlerSetsLicense, License
<1>3. ASSUME NEW s \in BOOLEAN, MoveScreen(s) PROVE NewsInv'
  BY <1>1, <1>3 DEF MoveScreen, Active
<1>4. CASE AddOnRunsOut
  BY <1>1, <1>4 DEF AddOnRunsOut
\* An add-on that ran out is news, unless the host was told of it already.
<1>5. CASE LooksAtAddOns
  <2>1. Active(NoToken) = FALSE
    BY LicenseNewsAssumption DEF Active
  <2> QED
    BY <1>1, <1>5, <2>1, LicenseNewsAssumption DEF LooksAtAddOns, NewsTypeOK, Active, Reports
\* Whatever the callback does to the license is news again.
<1>6. CASE DeliverLicenseChange
  <2>1. CASE Report(token) = reported
    BY <1>1, <1>6, <2>1 DEF DeliverLicenseChange, Report, NewsTypeOK, Active
  <2>2. CASE Report(token) # reported
    <3>1. /\ heard' = Report(token) /\ reported' = Report(token)
          /\ wired' = wired /\ uiReported' = uiReported /\ unseen' = unseen /\ ranOut' = ranOut
          /\ change' = (change \/ news') /\ CalledBack(FALSE)
      BY <1>6, <2>2 DEF DeliverLicenseChange
    <3>2. ReportsAgree'
      BY <3>1 DEF Report, Active
    <3>3. CASE news' = FALSE /\ UNCHANGED <<token, flag, settled>>
      BY <1>1, <3>1, <3>2, <3>3 DEF Report, Active
    <3>4. CASE news'
      BY <1>1, <3>1, <3>2, <3>4
    <3> QED
      BY <3>1, <3>3, <3>4 DEF CalledBack
  <2> QED
    BY <2>1, <2>2
<1>7. CASE NotifyHost
  <2>1. CASE ~settled \/ ~wired \/ Report(token) = uiReported
    BY <1>1, <1>7, <2>1 DEF NotifyHost, Report, NewsTypeOK, Active
  <2>2. CASE settled /\ wired /\ Report(token) # uiReported
    <3>1. /\ heard' = heard /\ reported' = reported
          /\ wired' = wired /\ uiReported' = Report(token) /\ unseen' = unseen
          /\ ranOut' = ranOut /\ change' = (token' # token) /\ CalledBack(news)
      BY <1>7, <2>2 DEF NotifyHost
    <3>2. ReportsAgree'
      BY <2>2, <3>1
    <3>3. CASE news' = news /\ UNCHANGED <<token, flag, settled>>
      BY <1>1, <3>1, <3>2, <3>3 DEF Report, Active
    <3>4. CASE news'
      BY <1>1, <3>1, <3>2, <3>4 DEF Report
    <3> QED
      BY <3>1, <3>3, <3>4 DEF CalledBack
  <2> QED
    BY <2>1, <2>2
<1>8. CASE Wire
  BY <1>1, <1>8 DEF Wire, Active
<1>9. CASE UNCHANGED newsVars
  BY <1>1, <1>9 DEF newsVars, Active
<1> QED
  BY <1>2, <1>3, <1>4, <1>5, <1>6, <1>7, <1>8, <1>9 DEF NewsNext

\* With nothing on its way the plugin knows the license that is held, and an add-on of
\* it is unlocked no longer than until the watch sees its time has run out
\* (notifyLicenseChange, deliverLicenseChange, notifyHost).
THEOREM HostsAlwaysKnow == NewsSpec => []HostsKnow
<1>1. NewsSpec => []NewsInv
  BY NewsInitially, NewsStep, PTL DEF NewsSpec
<1> QED
  BY <1>1, PTL DEF NewsInv

-----------------------------------------------------------------------------
(* The note on a copied link.                                              *)

\* The clipboard has the link the note is about, whose timer runs, and the note is
\* that of the last refresh.
NoteInv ==
    /\ LinkCopyTypeOK
    /\ copiedLink # NoLink => clipboard = copiedLink /\ copyToken \in due
    /\ ~fresh => note = Shows(pending, failed, copiedLink)
    /\ note.copied => copiedLink # NoLink

LEMMA NoteShows ==
    \A l, f, c : /\ Shows(l, f, c) \in [shows : {"nothing", "link", "button"}, copied : BOOLEAN]
                 /\ Shows(l, f, c).copied <=> l # NoLink /\ l = c
BY DEF Shows

LEMMA NoteInitially == LinkCopyInit => NoteInv
<1> SUFFICES ASSUME LinkCopyInit PROVE NoteInv
  OBVIOUS
<1>1. /\ note \in [shows : {"nothing", "link", "button"}, copied : BOOLEAN] /\ ~note.copied
      /\ note = Shows(pending, failed, copiedLink)
  BY NoteShows DEF LinkCopyInit
<1>2. LinkCopyTypeOK
  <2>1. pending \in Links \cup {NoLink} /\ failed \in BOOLEAN /\ fresh \in BOOLEAN
        /\ clipboard \in Links \cup {NoLink} /\ copiedLink \in Links \cup {NoLink}
    BY DEF LinkCopyInit
  <2>2. copyToken \in 0 .. MaxCopies /\ due \subseteq 1 .. MaxCopies
    BY LinkCopyAssumption DEF LinkCopyInit
  <2> QED
    BY <1>1, <2>1, <2>2 DEF LinkCopyTypeOK
<1> QED
  BY <1>1, <1>2 DEF LinkCopyInit, NoteInv

LEMMA NoteInvStep == NoteInv /\ [LinkCopyNext]_linkVars => NoteInv'
<1> SUFFICES ASSUME NoteInv, [LinkCopyNext]_linkVars PROVE NoteInv'
  OBVIOUS
<1> USE LinkCopyAssumption, NoteShows DEF NoteInv, LinkCopyTypeOK
<1>1. CASE LinkMoves
  BY <1>1 DEF LinkMoves
<1>2. CASE LinkRefreshes
  BY <1>2 DEF LinkRefreshes
<1>3. CASE CopyLink
  BY <1>3 DEF CopyLink
<1>4. CASE NoteFades
  <2>1. PICK copied \in due :
          /\ due' = due \ {copied}
          /\ IF IsLatest(copied)
               THEN copiedLink' = NoLink /\ note' = Shows(pending, failed, NoLink)
               ELSE UNCHANGED <<copiedLink, note>>
          /\ UNCHANGED <<pending, failed, fresh, clipboard, copyToken>>
    BY <1>4 DEF NoteFades
  <2>2. CASE IsLatest(copied)
    <3>1. /\ note' \in [shows : {"nothing", "link", "button"}, copied : BOOLEAN]
          /\ ~note'.copied /\ note' = Shows(pending', failed', copiedLink')
      BY <2>1, <2>2
    <3> QED
      BY <2>1, <2>2, <3>1
  <2>3. CASE ~IsLatest(copied)
    BY <2>1, <2>3 DEF IsLatest
  <2> QED
    BY <2>2, <2>3
<1>5. CASE UNCHANGED linkVars
  BY <1>5 DEF linkVars
<1> QED
  BY <1>1, <1>2, <1>3, <1>4, <1>5 DEF LinkCopyNext, NoteStep

\* "Link copied" is said of the link that is shown only while the clipboard has that
\* very link, until the last copy's timer (refresh, copyBrowserLink).
THEOREM NoteAlwaysTrue == LinkCopySpec => []NoteIsTrue
<1>1. NoteInv => NoteIsTrue
  BY NoteShows DEF NoteInv, NoteIsTrue
<1> QED
  BY <1>1, NoteInitially, NoteInvStep, PTL DEF LinkCopySpec

LEMMA NoteStandsStep ==
    ASSUME NoteInv, [LinkCopyNext]_linkVars, note.copied, ~note'.copied
    PROVE  copyToken \notin due' \/ pending # copiedLink
<1>1. CASE LinkMoves
  BY <1>1 DEF LinkMoves
<1>2. CASE LinkRefreshes
  BY <1>2, NoteShows DEF LinkRefreshes, NoteInv
<1>3. CASE CopyLink
  BY <1>3, NoteShows DEF CopyLink
<1>4. CASE NoteFades
  BY <1>4 DEF NoteFades, IsLatest
<1>5. CASE UNCHANGED linkVars
  BY <1>5 DEF linkVars
<1> QED
  BY <1>1, <1>2, <1>3, <1>4, <1>5 DEF LinkCopyNext, NoteStep

\* A copy's note is ended by its own timer or by another link, and by no timer of an
\* earlier copy (copyBrowserLink's token).
THEOREM NoteAlwaysStands == LinkCopySpec => NoteStands
<1>1. NoteInv /\ [LinkCopyNext]_linkVars
        => [note.copied /\ ~note'.copied => copyToken \notin due' \/ pending # copiedLink]_linkVars
  BY NoteStandsStep DEF linkVars
<1> QED
  BY <1>1, NoteInitially, NoteInvStep, PTL DEF LinkCopySpec, NoteStands

-----------------------------------------------------------------------------
(* The count of the days left.                                             *)

\* What was counted for an end can only have shrunk since.
CountInv ==
    /\ CountdownsOK
    /\ counted.ends = Endless => counted.days = Endless
    /\ counted.ends # Endless => counted.days # Endless /\ counted.days >= DaysLeft(counted.ends)
    /\ CountsKeepUp

CountdownsSpec == CountdownsInit /\ [][CountdownsNext]_countdownVars

LEMMA DaysLeftRange ==
    ASSUME now \in 0 .. LastDay
    PROVE  /\ \A e \in EndDays : DaysLeft(e) \in EndDays
           /\ DaysLeft(Endless) = Endless
           /\ \A e \in EndDays \ {Endless} :
                /\ e \in 0 .. LastDay + 1 /\ DaysLeft(e) \in 0 .. LastDay + 1
                /\ DaysLeft(e) = (IF e > now THEN e - now ELSE 0)
BY CountdownAssumption DEF DaysLeft, EndDays

LEMMA CountInitially == CountdownsInit => CountInv
<1> SUFFICES ASSUME CountdownsInit PROVE CountInv
  OBVIOUS
<1>1. now \in 0 .. LastDay /\ Endless \in EndDays /\ ends \in EndDays
  BY CountdownAssumption DEF CountdownsInit, EndDays
<1>2. painted = DaysLeft(ends) /\ painted \in EndDays
  BY <1>1, DaysLeftRange DEF CountdownsInit
<1> QED
  BY <1>1, <1>2 DEF CountdownsInit, CountInv, CountdownsOK, CountsKeepUp

LEMMA CountStep == CountInv /\ [CountdownsNext]_countdownVars => CountInv'
<1> SUFFICES ASSUME CountInv, [CountdownsNext]_countdownVars PROVE CountInv'
  OBVIOUS
<1> USE DEF CountInv, CountdownsOK
<1>0. /\ \A e \in EndDays : DaysLeft(e) \in EndDays
      /\ DaysLeft(Endless) = Endless
      /\ \A e \in EndDays \ {Endless} :
           /\ e \in 0 .. LastDay + 1 /\ DaysLeft(e) \in 0 .. LastDay + 1
           /\ DaysLeft(e) = (IF e > now THEN e - now ELSE 0)
  BY DaysLeftRange
<1>1. CASE EndsMove
  BY <1>1 DEF EndsMove, DaysLeft, CountsKeepUp
\* A count that is today's after midnight was today's before, and did not move.
<1>2. CASE DayGoesBy
  <2>1. /\ now' = now + 1 /\ now' \in 0 .. LastDay /\ now \in Nat
        /\ UNCHANGED <<ends, counted, message, painted, slipped>>
    BY <1>2, CountdownAssumption DEF DayGoesBy
  <2>2. \A e \in EndDays \ {Endless} :
          /\ DaysLeft(e)' = (IF e > now + 1 THEN e - (now + 1) ELSE 0)
          /\ DaysLeft(e)' <= DaysLeft(e)
    BY <1>0, <2>1, CountdownAssumption DEF DaysLeft
  <2>3. DaysLeft(Endless)' = Endless
    BY DEF DaysLeft
  <2>4. counted.ends # Endless => counted.days >= DaysLeft(counted.ends)'
    BY <1>0, <2>1, <2>2, CountdownAssumption DEF EndDays
  <2>5. CASE ends = Endless
    BY <1>0, <2>1, <2>3, <2>4, <2>5 DEF CountsKeepUp, DaysLeft
  <2>6. CASE ends # Endless
    <3>1. CASE counted = [ends |-> ends, days |-> DaysLeft(ends)']
      <4>1. DaysLeft(ends)' >= DaysLeft(ends)
        BY <2>6, <3>1
      <4>2. DaysLeft(ends)' = DaysLeft(ends)
        BY <1>0, <2>1, <2>2, <2>6, <4>1, CountdownAssumption
      <4> QED
        BY <2>1, <2>4, <3>1, <4>2 DEF CountsKeepUp, DaysLeft
    <3>2. CASE counted # [ends |-> ends, days |-> DaysLeft(ends)']
      BY <2>1, <2>4, <3>2 DEF CountsKeepUp, DaysLeft
    <3> QED
      BY <3>1, <3>2
  <2> QED
    BY <2>5, <2>6
<1>3. CASE CountdownTick
  <2>1. /\ UNCHANGED <<ends, now, painted>>
        /\ message' = (message \/ DayWentBy)
        /\ counted' = [ends |-> ends, days |-> DaysLeft(ends)]
        /\ slipped' = (slipped \/ (~message /\ ends # counted.ends /\ painted # DaysLeft(ends)))
    BY <1>3 DEF CountdownTick
  <2>2. DaysLeft(ends)' = DaysLeft(ends) /\ DaysLeft(counted.ends)' = DaysLeft(ends)
    BY <2>1 DEF DaysLeft
  <2>3. /\ CountdownsOK'
        /\ (counted.ends = Endless => counted.days = Endless)'
        /\ (counted.ends # Endless => counted.days # Endless /\ counted.days >= DaysLeft(counted.ends))'
    BY <1>0, <2>1, <2>2, CountdownAssumption DEF DayWentBy
  <2>4. ASSUME ~message', ~slipped' PROVE painted = DaysLeft(ends)
    <3>1. CASE ends = counted.ends
      <4>1. counted = [ends |-> ends, days |-> DaysLeft(ends)]
        BY <2>1, <2>4, <3>1 DEF DayWentBy
      <4> QED
        BY <2>1, <2>4, <4>1 DEF CountsKeepUp
    <3>2. CASE ends # counted.ends
      BY <2>1, <2>4, <3>2
    <3> QED
      BY <3>1, <3>2
  <2> QED
    BY <2>1, <2>2, <2>3, <2>4 DEF CountsKeepUp
<1>4. CASE ScreenPaints
  BY <1>0, <1>4 DEF ScreenPaints, CountsKeepUp, DaysLeft
<1>5. CASE UNCHANGED countdownVars
  BY <1>5 DEF countdownVars, CountsKeepUp, DaysLeft
<1> QED
  BY <1>1, <1>2, <1>3, <1>4, <1>5 DEF CountdownsNext

\* After a tick a screen left open shows the count of today, save where the end moved
\* and a day went by before the next tick (checkCountdowns).
THEOREM CountsAlwaysKeepUp == CountdownsSpec => []CountsKeepUp
<1>1. CountdownsSpec => []CountInv
  BY CountInitially, CountStep, PTL DEF CountdownsSpec
<1> QED
  BY <1>1, PTL DEF CountInv

-----------------------------------------------------------------------------
(* The panel's views.                                                      *)

\* The views that are up are the one shown and the one it slides over; a view without
\* either part keeps no spinner.
UpAreTheTwo ==
    /\ panel.outgoing # NoView => panel.outgoing # panel.active
    /\ \A v \in ViewSet :
         /\ view[v].visible <=> v = panel.active \/ v = panel.outgoing
         /\ ~view[v].visible => ~view[v].spins

\* The view shown is as the controller is, once its message has arrived, and in place
\* once nothing slides.
ShownAsItIs ==
    /\ ~tell => panel.active = ViewFor(wanted)
    /\ ~panel.sliding => panel.outgoing = NoView
    /\ ~tell /\ panel.active # NoView =>
         (view[panel.active].spins <=> panel.active = "Details" /\ working)
    /\ ~panel.sliding /\ panel.active # NoView =>
         view[panel.active].here /\ view[panel.active].solid

\* The wait's spinner follows its view and what the panel knows of itself.
SpinnerFollows ==
    /\ panel.spinning <=> Spinner(view, panel.known)
    /\ where = "hidden" => panel.hz = 0 /\ ~panel.known

ViewsInv == ViewsTypeOK /\ UpAreTheTwo /\ ShownAsItIs /\ SpinnerFollows

LEMMA ViewsInitially == ViewsInit => ViewsInv
<1> SUFFICES ASSUME ViewsInit PROVE ViewsInv
  OBVIOUS
<1>1. PICK still \in BOOLEAN :
        panel = [active |-> NoView, outgoing |-> NoView, hz |-> 0, ticking |-> FALSE,
                 known |-> FALSE, spinning |-> FALSE, sliding |-> FALSE, still |-> still]
  BY DEF ViewsInit
<1>2. /\ panel \in Panels /\ panel.active = NoView /\ panel.outgoing = NoView
      /\ panel.hz = 0 /\ ~panel.known /\ ~panel.spinning
  BY <1>1 DEF Panels
<1>3. /\ view \in [ViewSet -> ViewStates]
      /\ \A v \in ViewSet : ~view[v].visible /\ ~view[v].spins
  BY DEF ViewsInit, ViewStates
<1>4. NoView \notin ViewSet /\ "BrowserWait" \in ViewSet
  BY DEF NoView, ViewSet
<1>5. ViewsTypeOK
  BY <1>2, <1>3 DEF ViewsInit, ViewsTypeOK, ScreenSet, Places
<1>6. UpAreTheTwo
  BY <1>2, <1>3, <1>4 DEF UpAreTheTwo
<1>7. ShownAsItIs
  BY <1>2 DEF ShownAsItIs, ViewsInit, ViewFor
<1>8. SpinnerFollows
  BY <1>2 DEF SpinnerFollows, Spinner
<1> QED
  BY <1>5, <1>6, <1>7, <1>8 DEF ViewsInv

\* What the parts of a change do to one view.
LEMMA ViewParts ==
    ASSUME NEW x \in ViewStates
    PROVE  /\ Hidden(x) \in ViewStates /\ ~Hidden(x).visible /\ ~Hidden(x).spins
           /\ AtRest(x) \in ViewStates /\ AtRest(x).here /\ AtRest(x).solid
           /\ AtRest(x).visible = x.visible /\ AtRest(x).spins = x.spins
           /\ Away(x) \in ViewStates
           /\ Away(x).visible = x.visible /\ Away(x).spins = x.spins
BY DEF ViewStates, Hidden, AtRest, Away

LEMMA ButtonSpins ==
    ASSUME NEW x \in ViewStates, NEW v
    PROVE  LET w == WithButton(x, v, working) IN
           /\ w \in ViewStates
           /\ w.visible = x.visible /\ w.here = x.here /\ w.solid = x.solid
           /\ w.spins <=> v = "Details" /\ working
BY DEF ViewStates, WithButton

LEMMA LandedViews ==
    ASSUME NEW vs \in [ViewSet -> ViewStates],
           NEW active \in ViewSet \cup {NoView}, NEW outgoing \in ViewSet \cup {NoView}
    PROVE  LET l == Landed(vs, active, outgoing) IN
           /\ l \in [ViewSet -> ViewStates]
           /\ \A v \in ViewSet :
                /\ v = outgoing => ~l[v].visible /\ ~l[v].spins
                /\ v # outgoing => l[v].visible = vs[v].visible /\ l[v].spins = vs[v].spins
                /\ v # outgoing /\ v = active => l[v].here /\ l[v].solid
<1>1. \A v \in ViewSet :
        Landed(vs, active, outgoing)[v] =
          (IF v = outgoing THEN AtRest(Hidden(vs[v])) ELSE IF v = active THEN AtRest(vs[v]) ELSE vs[v])
  BY DEF Landed
<1>2. \A v \in ViewSet :
        /\ AtRest(Hidden(vs[v])) \in ViewStates
        /\ ~AtRest(Hidden(vs[v])).visible /\ ~AtRest(Hidden(vs[v])).spins
        /\ AtRest(vs[v]) \in ViewStates
        /\ AtRest(vs[v]).here /\ AtRest(vs[v]).solid
        /\ AtRest(vs[v]).visible = vs[v].visible /\ AtRest(vs[v]).spins = vs[v].spins
  BY ViewParts
<1>3. Landed(vs, active, outgoing) \in [ViewSet -> ViewStates]
  BY <1>1, <1>2 DEF Landed
<1> QED
  BY <1>1, <1>2, <1>3

\* A change of view leaves up the view it brings and, while it slides, the one it left.
LEMMA ViewChanges ==
    ASSUME ViewsTypeOK, UpAreTheTwo,
           NEW next \in ViewSet \cup {NoView}, next # panel.active,
           NEW a, NEW b, NEW s,
           a = PreviousLanded(view, next), b = Presented(a, next),
           s = Started(b, next, panel.active)
    PROVE  LET lands == next = NoView \/ ~Animating
           IN  /\ s \in [ViewSet -> ViewStates]
               /\ \A v \in ViewSet :
                    /\ s[v].visible <=> v = next \/ (v = panel.active /\ ~lands)
                    /\ ~s[v].visible => ~s[v].spins
               /\ next # NoView =>
                    /\ s[next].spins <=> next = "Details" /\ working
                    /\ lands => s[next].here /\ s[next].solid
<1> DEFINE lands == next = NoView \/ ~Animating
<1>0. /\ view \in [ViewSet -> ViewStates] /\ working \in BOOLEAN
      /\ panel.active \in ViewSet \cup {NoView} /\ panel.outgoing \in ViewSet \cup {NoView}
      /\ NoView \notin ViewSet
  BY DEF ViewsTypeOK, Panels, NoView, ViewSet
<1>1. /\ a \in [ViewSet -> ViewStates]
      /\ \A v \in ViewSet :
           /\ v \notin {next, panel.active} => ~a[v].visible /\ ~a[v].spins
           /\ v = panel.active => a[v].visible
  <2>1. CASE panel.outgoing \in {NoView, panel.active, next}
    <3>1. a = view
      BY <2>1 DEF PreviousLanded
    <3> QED
      BY <1>0, <2>1, <3>1 DEF UpAreTheTwo
  <2>2. CASE panel.outgoing \notin {NoView, panel.active, next}
    <3>1. a = [view EXCEPT ![panel.outgoing] = AtRest(Hidden(@))]
      BY <2>2 DEF PreviousLanded
    <3>2. /\ panel.outgoing \in ViewSet /\ AtRest(Hidden(view[panel.outgoing])) \in ViewStates
          /\ ~AtRest(Hidden(view[panel.outgoing])).visible
          /\ ~AtRest(Hidden(view[panel.outgoing])).spins
      <4>1. panel.outgoing \in ViewSet /\ view[panel.outgoing] \in ViewStates
        BY <1>0, <2>2
      <4>2. /\ Hidden(view[panel.outgoing]) \in ViewStates
            /\ ~Hidden(view[panel.outgoing]).visible /\ ~Hidden(view[panel.outgoing]).spins
        BY <4>1, ViewParts
      <4> QED
        BY <4>1, <4>2, ViewParts
    <3> QED
      BY <1>0, <2>2, <3>1, <3>2 DEF UpAreTheTwo
  <2> QED
    BY <2>1, <2>2
<1>2. /\ b \in [ViewSet -> ViewStates]
      /\ \A v \in ViewSet :
           /\ v = next => /\ b[v].visible /\ b[v].here
                          /\ b[v].spins <=> v = "Details" /\ working
           /\ v # next => b[v].visible = a[v].visible /\ b[v].spins = a[v].spins
  <2> DEFINE laid(v) == [a[v] EXCEPT !.here = TRUE]
             shownAs(v) == [WithButton(laid(v), v, working) EXCEPT !.visible = TRUE]
  <2>1. \A v \in ViewSet : b[v] = IF v = next THEN shownAs(v) ELSE laid(v)
    BY DEF Presented
  <2>2. \A v \in ViewSet :
          /\ laid(v) \in ViewStates /\ laid(v).visible = a[v].visible
          /\ laid(v).spins = a[v].spins /\ laid(v).here
    BY <1>1 DEF ViewStates
  <2>3. \A v \in ViewSet :
          /\ WithButton(laid(v), v, working) \in ViewStates
          /\ WithButton(laid(v), v, working).here
          /\ WithButton(laid(v), v, working).spins <=> v = "Details" /\ working
    <3> SUFFICES ASSUME NEW v \in ViewSet
                 PROVE  /\ WithButton(laid(v), v, working) \in ViewStates
                        /\ WithButton(laid(v), v, working).here
                        /\ WithButton(laid(v), v, working).spins <=> v = "Details" /\ working
      OBVIOUS
    <3> HIDE DEF laid
    <3>1. laid(v) \in ViewStates /\ laid(v).here
      BY <2>2
    <3> QED
      BY <3>1, ButtonSpins
  <2>4. \A v \in ViewSet :
          /\ shownAs(v) \in ViewStates /\ shownAs(v).visible /\ shownAs(v).here
          /\ shownAs(v).spins <=> v = "Details" /\ working
    BY <2>3 DEF ViewStates
  <2>5. b \in [ViewSet -> ViewStates]
    BY <2>1, <2>2, <2>4 DEF Presented
  <2> QED
    BY <2>1, <2>2, <2>4, <2>5
<1>3. CASE next = NoView
  <2>1. s = [v \in ViewSet |-> IF v = panel.active THEN Hidden(b[v]) ELSE b[v]]
    BY <1>3 DEF Started
  <2>2. \A v \in ViewSet : /\ Hidden(b[v]) \in ViewStates
                            /\ ~Hidden(b[v]).visible /\ ~Hidden(b[v]).spins
    BY <1>2, ViewParts
  <2> QED
    BY <1>0, <1>1, <1>2, <1>3, <2>1, <2>2
<1>4. CASE next # NoView /\ ~Animating
  <2>1. s = Landed(b, next, panel.active)
    BY <1>4 DEF Started
  <2>2. /\ s \in [ViewSet -> ViewStates]
        /\ \A v \in ViewSet :
             /\ v = panel.active => ~s[v].visible /\ ~s[v].spins
             /\ v # panel.active => s[v].visible = b[v].visible /\ s[v].spins = b[v].spins
             /\ v # panel.active /\ v = next => s[v].here /\ s[v].solid
    BY <1>0, <1>2, <2>1, LandedViews
  <2> QED
    BY <1>0, <1>1, <1>2, <1>4, <2>2
<1>5. CASE next # NoView /\ Animating
  <2>1. s = [v \in ViewSet |-> IF v = next THEN Away(b[v])
                              ELSE IF v = panel.active THEN AtRest(b[v]) ELSE b[v]]
    BY <1>5 DEF Started
  <2>2. /\ s \in [ViewSet -> ViewStates]
        /\ \A v \in ViewSet : s[v].visible = b[v].visible /\ s[v].spins = b[v].spins
    <3>1. \A v \in ViewSet :
            /\ Away(b[v]) \in ViewStates
            /\ Away(b[v]).visible = b[v].visible /\ Away(b[v]).spins = b[v].spins
            /\ AtRest(b[v]) \in ViewStates
            /\ AtRest(b[v]).visible = b[v].visible /\ AtRest(b[v]).spins = b[v].spins
      BY <1>2, ViewParts
    <3> QED
      BY <1>2, <2>1, <3>1
  <2> QED
    BY <1>0, <1>1, <1>2, <1>5, <2>2
<1> QED
  BY <1>3, <1>4, <1>5

\* A panel that looks where it is becomes a panel that knows.
LEMMA TickingPanel ==
    ASSUME ViewsTypeOK, NEW place \in Places
    PROVE  LET p == Ticking(panel, place) IN
           /\ p \in Panels
           /\ p.active = panel.active /\ p.outgoing = panel.outgoing /\ p.sliding = panel.sliding
           /\ p.spinning <=> Spinner(view, p.known)
           /\ place = "hidden" => p.hz = 0 /\ ~p.known
<1>1. Spinner(view, place = "onScreen") \in BOOLEAN
  BY DEF Spinner, ViewsTypeOK, ViewSet, ViewStates
<1> DEFINE on == place = "onScreen"
           hz == IF place = "hidden" THEN 0 ELSE IF place = "onScreen" /\ ~panel.still THEN 60 ELSE 4
           spins == Spinner(view, on)
<1>2. on \in BOOLEAN /\ hz \in {0, 4, 60} /\ panel \in Panels
  BY DEF ViewsTypeOK
<1>3. Ticking(panel, place) = [panel EXCEPT !.hz = hz, !.ticking = on, !.known = on, !.spinning = spins]
  BY DEF Ticking
<1>4. place = "hidden" => hz = 0 /\ ~on
  OBVIOUS
<1> HIDE DEF on, hz, spins
<1>5. LET p == Ticking(panel, place) IN
      /\ p \in Panels
      /\ p.active = panel.active /\ p.outgoing = panel.outgoing /\ p.sliding = panel.sliding
      /\ p.spinning = spins /\ p.known = on /\ p.hz = hz
  BY <1>1, <1>2, <1>3 DEF Panels, spins, on
<1> QED
  BY <1>4, <1>5 DEF spins

LEMMA ScreenIsHeard ==
    ASSUME ViewsInv, ViewsHear PROVE ViewsInv'
<1> DEFINE next == ViewFor(wanted)
           lands == next = NoView \/ ~Animating
           moves == next # panel.active
<1>0. /\ view \in [ViewSet -> ViewStates] /\ panel \in Panels /\ working \in BOOLEAN
      /\ panel.active \in ViewSet \cup {NoView} /\ panel.outgoing \in ViewSet \cup {NoView}
      /\ NoView \notin ViewSet /\ "BrowserWait" \in ViewSet
      /\ next \in ViewSet \cup {NoView}
      /\ lands \in BOOLEAN
  BY DEF ViewsInv, ViewsTypeOK, Panels, NoView, ViewSet, ViewFor, ScreenSet
<1>1. /\ panel' = [panel EXCEPT
             !.active   = next,
             !.outgoing = IF moves THEN IF lands THEN NoView ELSE panel.active ELSE @,
             !.sliding  = @ \/ (moves /\ ~lands),
             !.spinning = Spinner(view', panel.known)]
      /\ tell' = FALSE /\ UNCHANGED <<wanted, working, where>>
  BY DEF ViewsHear, SyncViews
<1>2. /\ view' \in [ViewSet -> ViewStates]
      /\ \A v \in ViewSet :
           /\ view'[v].visible <=> v = next \/ (v = panel.active /\ moves /\ ~lands)
                                            \/ (v = panel.outgoing /\ ~moves)
           /\ ~view'[v].visible => ~view'[v].spins
      /\ next # NoView =>
           /\ view'[next].spins <=> next = "Details" /\ working
           /\ (moves /\ lands) \/ (~moves /\ ~panel.sliding)
                => view'[next].here /\ view'[next].solid
  <2>1. CASE moves
    <3>1. view' = Started(Presented(PreviousLanded(view, next), next), next, panel.active)
      BY <2>1 DEF ViewsHear, SyncViews
    <3> HIDE DEF next
    <3>2. /\ view' \in [ViewSet -> ViewStates]
          /\ \A v \in ViewSet :
               /\ view'[v].visible <=> v = next \/ (v = panel.active /\ ~lands)
               /\ ~view'[v].visible => ~view'[v].spins
          /\ next # NoView =>
               /\ view'[next].spins <=> next = "Details" /\ working
               /\ lands => view'[next].here /\ view'[next].solid
      BY <1>0, <2>1, <3>1, ViewChanges DEF ViewsInv
    <3> QED
      BY <2>1, <3>2
  <2>2. CASE ~moves /\ next # NoView
    <3>1. view' = [view EXCEPT ![next] = WithButton(@, next, working)]
      BY <2>2 DEF ViewsHear, SyncViews
    <3> HIDE DEF next
    <3>2. /\ WithButton(view[next], next, working) \in ViewStates
          /\ WithButton(view[next], next, working).visible = view[next].visible
          /\ WithButton(view[next], next, working).here = view[next].here
          /\ WithButton(view[next], next, working).solid = view[next].solid
          /\ WithButton(view[next], next, working).spins <=> next = "Details" /\ working
      BY <1>0, <2>2, ButtonSpins
    <3>3. next = panel.active /\ next \in ViewSet
      BY <1>0, <2>2
    <3>4. view' \in [ViewSet -> ViewStates]
      BY <1>0, <3>1, <3>2
    <3>5. \A v \in ViewSet : v # next => view'[v] = view[v]
      BY <1>0, <3>1
    <3>6. view'[next] = WithButton(view[next], next, working)
      BY <1>0, <3>1, <3>3
    <3> QED
      BY <2>2, <3>2, <3>3, <3>4, <3>5, <3>6 DEF ViewsInv, UpAreTheTwo, ShownAsItIs
  <2>3. CASE ~moves /\ next = NoView
    <3>1. view' = view
      BY <2>3 DEF ViewsHear, SyncViews
    <3> HIDE DEF next
    <3> QED
      BY <1>0, <2>3, <3>1 DEF ViewsInv, UpAreTheTwo
  <2> QED
    BY <2>1, <2>2, <2>3
<1>3. Spinner(view', panel.known) \in BOOLEAN
  BY <1>0, <1>2 DEF Spinner, ViewStates, Panels
<1> DEFINE slides == panel.sliding \/ (moves /\ ~lands)
           left == IF moves THEN IF lands THEN NoView ELSE panel.active ELSE panel.outgoing
           turns == Spinner(view', panel.known)
<1>3a. slides \in BOOLEAN /\ left \in ViewSet \cup {NoView}
  BY <1>0 DEF Panels
<1>4. /\ panel' \in Panels /\ panel'.active = next
      /\ panel'.outgoing = (IF moves THEN IF lands THEN NoView ELSE panel.active ELSE panel.outgoing)
      /\ panel'.sliding = (panel.sliding \/ (moves /\ ~lands))
      /\ panel'.spinning = Spinner(view', panel.known)
      /\ panel'.known = panel.known /\ panel'.hz = panel.hz
  <2>1. panel' = [panel EXCEPT !.active = next, !.outgoing = left, !.sliding = slides,
                               !.spinning = turns]
    BY <1>0, <1>1 DEF Panels
  <2> HIDE DEF next, left, slides, turns
  <2>2. /\ panel' \in Panels /\ panel'.active = next /\ panel'.outgoing = left
        /\ panel'.sliding = slides /\ panel'.spinning = turns
        /\ panel'.known = panel.known /\ panel'.hz = panel.hz
    BY <1>0, <1>3, <1>3a, <2>1 DEF Panels, turns
  <2> QED
    BY <2>2 DEF left, slides, turns
<1>5. ViewsTypeOK'
  BY <1>1, <1>2, <1>4 DEF ViewsInv, ViewsTypeOK
<1>6. UpAreTheTwo'
  BY <1>0, <1>2, <1>4 DEF ViewsInv, UpAreTheTwo
<1>7. ShownAsItIs'
  <2>1. (~tell => panel.active = ViewFor(wanted))'
    BY <1>1, <1>4 DEF ViewFor
  <2>2. (~panel.sliding => panel.outgoing = NoView)'
    BY <1>0, <1>4 DEF ViewsInv, ShownAsItIs, Panels
  <2>3. (panel.active # NoView => (view[panel.active].spins <=> panel.active = "Details" /\ working))'
    BY <1>1, <1>2, <1>4
  <2>4. (~panel.sliding /\ panel.active # NoView => view[panel.active].here /\ view[panel.active].solid)'
    BY <1>0, <1>2, <1>4 DEF Panels
  <2> QED
    BY <2>1, <2>2, <2>3, <2>4 DEF ShownAsItIs
<1>8. SpinnerFollows'
  BY <1>1, <1>3, <1>4 DEF ViewsInv, SpinnerFollows, Spinner
<1> QED
  BY <1>5, <1>6, <1>7, <1>8 DEF ViewsInv

LEMMA ViewsStep == ViewsInv /\ [ViewsNext]_viewVars => ViewsInv'
<1> SUFFICES ASSUME ViewsInv, [ViewsNext]_viewVars PROVE ViewsInv'
  OBVIOUS
<1>0. /\ view \in [ViewSet -> ViewStates] /\ panel \in Panels
      /\ panel.active \in ViewSet \cup {NoView} /\ panel.outgoing \in ViewSet \cup {NoView}
      /\ NoView \notin ViewSet /\ "BrowserWait" \in ViewSet
  BY DEF ViewsInv, ViewsTypeOK, Panels, NoView, ViewSet
<1>1. CASE ScreenMoves
  BY <1>1 DEF ScreenMoves, ViewsInv, ViewsTypeOK, UpAreTheTwo, ShownAsItIs, SpinnerFollows, Spinner
<1>2. CASE ViewsHear
  BY <1>2, ScreenIsHeard
<1>3. ASSUME NEW place \in Places, panel' = Ticking(panel, place), where' = place,
             UNCHANGED <<view, wanted, working, tell>>
      PROVE  ViewsInv'
  <2>1. /\ panel' \in Panels
        /\ panel'.active = panel.active /\ panel'.outgoing = panel.outgoing
        /\ panel'.sliding = panel.sliding
        /\ panel'.spinning <=> Spinner(view, panel'.known)
        /\ place = "hidden" => panel'.hz = 0 /\ ~panel'.known
    BY <1>3, TickingPanel DEF ViewsInv
  <2> QED
    BY <1>3, <2>1 DEF ViewsInv, ViewsTypeOK, UpAreTheTwo, ShownAsItIs, SpinnerFollows, Spinner
<1>4. CASE ShowingChanges
  BY <1>3, <1>4 DEF ShowingChanges
<1>5. CASE Minimise
  BY <1>5 DEF Minimise, OnScreen, ViewsInv, ViewsTypeOK, Places, UpAreTheTwo, ShownAsItIs,
              SpinnerFollows, Spinner
<1>6. CASE Resize
  <2>1. /\ view' \in [ViewSet -> ViewStates]
        /\ \A v \in ViewSet :
             /\ view'[v].visible = view[v].visible /\ view'[v].spins = view[v].spins
             /\ view'[v].here /\ view'[v].solid = view[v].solid
    BY <1>0, <1>6 DEF Resize, ViewStates
  <2> QED
    BY <1>0, <1>6, <2>1 DEF Resize, ViewsInv, ViewsTypeOK, UpAreTheTwo, ShownAsItIs,
                            SpinnerFollows, Spinner
<1>7. CASE Notices
  BY <1>3, <1>7 DEF Notices, ViewsInv, ViewsTypeOK
<1>8. CASE SlideMoves
  <2>1. \A v \in ViewSet :
          /\ Away(view[v]) \in ViewStates
          /\ Away(view[v]).visible = view[v].visible /\ Away(view[v]).spins = view[v].spins
    BY <1>0, ViewParts
  <2>2. /\ view' \in [ViewSet -> ViewStates]
        /\ \A v \in ViewSet :
             view'[v].visible = view[v].visible /\ view'[v].spins = view[v].spins
    BY <1>0, <1>8, <2>1 DEF SlideMoves
  <2> QED
    BY <1>0, <1>8, <2>2 DEF SlideMoves, ViewsInv, ViewsTypeOK, UpAreTheTwo, ShownAsItIs,
                            SpinnerFollows, Spinner
<1>9. CASE SlideEnds
  <2>1. /\ view' = Landed(view, panel.active, panel.outgoing)
        /\ panel' = [panel EXCEPT !.sliding = FALSE, !.outgoing = NoView,
                                  !.spinning = Spinner(view', panel.known)]
        /\ UNCHANGED <<wanted, working, tell, where>>
    BY <1>9 DEF SlideEnds
  <2>2. /\ view' \in [ViewSet -> ViewStates]
        /\ \A v \in ViewSet :
             /\ v = panel.outgoing => ~view'[v].visible /\ ~view'[v].spins
             /\ v # panel.outgoing => view'[v].visible = view[v].visible /\ view'[v].spins = view[v].spins
             /\ v # panel.outgoing /\ v = panel.active => view'[v].here /\ view'[v].solid
    BY <1>0, <2>1, LandedViews
  <2>3. Spinner(view', panel.known) \in BOOLEAN
    BY <1>0, <2>2 DEF Spinner, ViewStates, Panels
  <2>4. /\ panel' \in Panels /\ panel'.active = panel.active /\ panel'.outgoing = NoView
        /\ ~panel'.sliding /\ panel'.spinning = Spinner(view', panel.known)
        /\ panel'.known = panel.known /\ panel'.hz = panel.hz
    BY <1>0, <2>1, <2>3 DEF Panels
  <2>5. ViewsTypeOK'
    BY <2>1, <2>2, <2>4 DEF ViewsInv, ViewsTypeOK
  <2>6. UpAreTheTwo'
    BY <1>0, <2>2, <2>4 DEF ViewsInv, UpAreTheTwo
  <2>7. ShownAsItIs'
    BY <1>0, <2>1, <2>2, <2>4 DEF ViewsInv, UpAreTheTwo, ShownAsItIs, ViewFor
  <2>8. SpinnerFollows'
    BY <2>1, <2>3, <2>4 DEF ViewsInv, SpinnerFollows, Spinner
  <2> QED
    BY <2>5, <2>6, <2>7, <2>8 DEF ViewsInv
<1>10. CASE UNCHANGED viewVars
  BY <1>10 DEF viewVars, ViewsInv, ViewsTypeOK, UpAreTheTwo, ShownAsItIs, SpinnerFollows, Spinner
<1> QED
  BY <1>1, <1>2, <1>4, <1>5, <1>6, <1>7, <1>8, <1>9, <1>10 DEF ViewsNext, PanelStep

\* With no slide under way just the view of the controller's screen is up, in place,
\* fully drawn and with its button as the controller is (syncViews, startTransition,
\* finishTransition).
LEMMA ScreensViewOnly == ViewsInv => OnlyTheScreensView
<1> SUFFICES ASSUME ViewsInv, ~tell, ~panel.sliding
             PROVE  /\ panel.active = ViewFor(wanted) /\ panel.outgoing = NoView
                    /\ \A v \in ViewSet :
                         /\ view[v].visible = (v = panel.active)
                         /\ view[v].visible => /\ view[v].here /\ view[v].solid
                                               /\ view[v].spins = (v = "Details" /\ working)
  BY DEF OnlyTheScreensView
<1>1. /\ NoView \notin ViewSet /\ working \in BOOLEAN
      /\ \A v \in ViewSet : view[v].visible \in BOOLEAN /\ view[v].spins \in BOOLEAN
  BY DEF ViewsInv, ViewsTypeOK, ViewStates, NoView, ViewSet
<1>2. panel.active = ViewFor(wanted) /\ panel.outgoing = NoView
  BY DEF ViewsInv, ShownAsItIs
<1>3. \A v \in ViewSet : view[v].visible <=> v = panel.active
  BY <1>1, <1>2 DEF ViewsInv, UpAreTheTwo
<1>4. ASSUME NEW v \in ViewSet, view[v].visible
      PROVE  /\ view[v].here /\ view[v].solid
             /\ view[v].spins <=> v = "Details" /\ working
  BY <1>1, <1>3, <1>4 DEF ViewsInv, ShownAsItIs
<1>5. ASSUME NEW v \in ViewSet
      PROVE  /\ view[v].visible = (v = panel.active)
             /\ view[v].visible => /\ view[v].here /\ view[v].solid
                                   /\ view[v].spins = (v = "Details" /\ working)
  <2>1. view[v].visible \in BOOLEAN /\ view[v].spins \in BOOLEAN
    BY <1>1
  <2>2. view[v].visible = (v = panel.active)
    BY <1>3, <2>1
  <2>3. ASSUME view[v].visible PROVE view[v].spins = (v = "Details" /\ working)
    BY <1>4, <2>1, <2>3
  <2> QED
    BY <1>4, <2>2, <2>3
<1> QED
  BY <1>2, <1>5

LEMMA HiddenIsIdle == ViewsInv => HiddenCostsNothing
BY DEF ViewsInv, SpinnerFollows, UpAreTheTwo, HiddenCostsNothing, Spinner

LEMMA ViewsInvariant == ViewsSpec => []ViewsInv
BY ViewsInitially, ViewsStep, PTL DEF ViewsSpec

\* Whenever the panel is still, it shows the controller's screen and no other, and
\* hidden or off-screen its spinners are stopped (syncViews, startTransition,
\* finishTransition, visibilityChanged).
THEOREM ViewsAlwaysTrue == ViewsSpec => [](OnlyTheScreensView /\ HiddenCostsNothing)
BY ViewsInvariant, ScreensViewOnly, HiddenIsIdle, PTL

=============================================================================

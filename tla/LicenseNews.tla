------------------------------ MODULE LicenseNews ------------------------------
(***************************************************************************)
(* How a change of the license reaches the plugin (juce/                   *)
(* ActivationController.cpp, setLicense to deliverLicenseChange; juce/ui/  *)
(* ActivationComponent.cpp, notifyHost): by the controller's               *)
(* onLicenseChanged and by the component's onActivationChanged, each in a  *)
(* message of its own, each called only when there is something new, and   *)
(* either of them free to change the license again.                        *)
(***************************************************************************)
EXTENDS Integers

CONSTANTS
    Tokens,         \* of licenses
    WithAddOn,      \* the tokens with an add-on whose time may run out
    NoToken         \* no license

ASSUME LicenseNewsAssumption == WithAddOn \subseteq Tokens /\ NoToken \notin Tokens

VARIABLES
    token,      \* of license_
    settled,    \* the screen isn't Loading
    ranOut,     \* the add-on's time has run out
    unseen,     \* history: it did so after the license watch last looked
    flag,       \* the add-on's flag for the audio thread
    news,       \* licenseChangePending_
    change,     \* a change message is on its way
    reported,   \* licenseReported_, reportedToken_, reportedSubProducts_
    heard,      \* what onLicenseChanged was last called with
    wired,      \* onActivationChanged is set
    uiReported  \* the component's own activationReported, reportedToken, ...

newsVars == <<token, settled, ranOut, unseen, flag, news, change, reported, heard, wired,
              uiReported>>

\* A report: none yet, or a token and whether the add-on was active.
Reports == [told : BOOLEAN, token : Tokens \cup {NoToken}, addOn : BOOLEAN]
Untold  == [told |-> FALSE, token |-> NoToken, addOn |-> FALSE]

NewsTypeOK ==
    /\ token \in Tokens \cup {NoToken}
    /\ settled \in BOOLEAN /\ ranOut \in BOOLEAN /\ unseen \in BOOLEAN /\ flag \in BOOLEAN
    /\ news \in BOOLEAN /\ change \in BOOLEAN /\ wired \in BOOLEAN
    /\ reported \in Reports /\ heard \in Reports /\ uiReported \in Reports

NewsInit ==
    /\ token = NoToken /\ settled = FALSE /\ ranOut = FALSE /\ unseen = FALSE
    /\ flag = FALSE /\ news = FALSE /\ change = TRUE
    /\ reported = Untold /\ heard = Untold /\ wired = FALSE /\ uiReported = Untold

\* hasSubProduct
Active(t) == t \in WithAddOn /\ ~ranOut
Report(t) == [told |-> TRUE, token |-> t, addOn |-> Active(t)]

\* A handler of the message thread sets the license, or leaves it.
License(t) == token' = t /\ flag' = Active(t) /\ settled' = TRUE

HandlerSetsLicense(t) ==
    /\ License(t)
    /\ news' = TRUE /\ change' = TRUE
    /\ UNCHANGED <<ranOut, unseen, reported, heard, wired, uiReported>>

\* start, and every other screen.
MoveScreen(s) ==
    /\ settled' = s /\ change' = TRUE
    /\ UNCHANGED <<token, ranOut, unseen, flag, news, reported, heard, wired, uiReported>>

AddOnRunsOut ==
    /\ ~ranOut
    /\ ranOut' = TRUE /\ unseen' = TRUE
    /\ UNCHANGED <<token, settled, flag, news, change, reported, heard, wired, uiReported>>

\* checkLicenseDeadlines
LooksAtAddOns ==
    /\ flag' = Active(token) /\ unseen' = FALSE
    /\ IF token # NoToken /\ reported.told /\ Active(token) # reported.addOn
         THEN news' = TRUE /\ change' = TRUE
         ELSE UNCHANGED <<news, change>>
    /\ UNCHANGED <<token, settled, ranOut, reported, heard, wired, uiReported>>

\* A callback that leaves the license alone, or sets another one.
CalledBack(pendingNews) ==
    \/ /\ news' = pendingNews
       /\ UNCHANGED <<token, flag, settled>>
    \/ \E t \in Tokens \cup {NoToken} : License(t) /\ news' = TRUE

\* Mutant: pending until the host has been told.
DeliveredLate ==
    /\ news
    /\ LET r == Report(token) IN
       IF r = reported
         THEN news' = FALSE /\ UNCHANGED <<token, flag, settled, reported, heard, change>>
         ELSE /\ reported' = r /\ heard' = r
              /\ \/ UNCHANGED <<token, flag, settled, change>>
                 \/ \E t \in Tokens \cup {NoToken} : License(t) /\ change' = TRUE
              /\ news' = FALSE
    /\ UNCHANGED <<ranOut, unseen, wired, uiReported>>

\* deliverLicenseChange
DeliverLicenseChange ==
    /\ news
    /\ LET r == Report(token) IN
       IF r = reported
         THEN news' = FALSE /\ UNCHANGED <<token, flag, settled, reported, heard, change>>
         ELSE /\ reported' = r /\ heard' = r
              /\ CalledBack(FALSE)
              /\ change' = (change \/ news')
    /\ UNCHANGED <<ranOut, unseen, wired, uiReported>>

\* notifyHost
NotifyHost ==
    /\ change
    /\ IF ~settled \/ ~wired \/ Report(token) = uiReported
         THEN /\ change' = FALSE
              /\ UNCHANGED <<token, flag, settled, news, uiReported>>
         ELSE /\ uiReported' = Report(token)
              /\ CalledBack(news)
              /\ change' = (token' # token)
    /\ UNCHANGED <<ranOut, unseen, reported, heard, wired>>

Wire ==
    /\ ~wired /\ wired' = TRUE
    /\ UNCHANGED <<token, settled, ranOut, unseen, flag, news, change, reported, heard, uiReported>>

NewsNext ==
    \/ \E t \in Tokens \cup {NoToken} : HandlerSetsLicense(t)
    \/ \E s \in BOOLEAN : MoveScreen(s)
    \/ AddOnRunsOut \/ LooksAtAddOns \/ DeliverLicenseChange \/ NotifyHost \/ Wire

NewsSpec == NewsInit /\ [][NewsNext]_newsVars

-----------------------------------------------------------------------------
\* With nothing on its way, the plugin knows the license that is held, though its
\* callbacks change it, and unlocks an add-on no longer than until the watch sees
\* its time has run out: nothing collapsed into one message is lost
\* (notifyLicenseChange, deliverLicenseChange, notifyHost).
HostsKnow ==
    /\ ~news /\ reported.told =>
         /\ heard.token = token
         /\ heard.addOn # Active(token) => unseen
    /\ ~change /\ settled /\ uiReported.told /\ wired => uiReported.token = token
=============================================================================

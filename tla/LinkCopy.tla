-------------------------------- MODULE LinkCopy --------------------------------
(***************************************************************************)
(* The link on the waiting screen (juce/ui/ActivationComponent.cpp,        *)
(* BrowserWaitView): a customer whose browser did not open copies it.  The *)
(* note that it was copied goes again after a moment, by a timer nothing   *)
(* stops, while another activation may have brought another link and the   *)
(* link may have been copied again.                                        *)
(***************************************************************************)
EXTENDS Integers

CONSTANTS Links, NoLink, MaxCopies

ASSUME LinkCopyAssumption == NoLink \notin Links /\ MaxCopies \in Nat \ {0}

VARIABLES
    pending,    \* the controller's pendingBrowserUrl
    failed,     \* its browserOpenFailed
    fresh,      \* a change message is on its way
    clipboard,  \* the link copied last
    copiedLink,
    copyToken,
    due,        \* the timers that were started and have not fired, by their token
    note        \* what refresh made of it: which action shows, for which link

linkVars == <<pending, failed, fresh, clipboard, copiedLink, copyToken, due, note>>

LinkCopyTypeOK ==
    /\ pending \in Links \cup {NoLink} /\ failed \in BOOLEAN /\ fresh \in BOOLEAN
    /\ clipboard \in Links \cup {NoLink} /\ copiedLink \in Links \cup {NoLink}
    /\ copyToken \in 0..MaxCopies /\ due \subseteq 1..MaxCopies
    /\ note \in [shows : {"nothing", "link", "button"}, copied : BOOLEAN]

\* refresh: a quiet link, or a button when the browser did not open.
Shows(link, didNotOpen, copied) ==
    [shows |-> IF didNotOpen THEN "button" ELSE IF link # NoLink THEN "link" ELSE "nothing",
     copied |-> link # NoLink /\ link = copied]

LinkCopyInit ==
    /\ pending = NoLink /\ failed = FALSE /\ fresh = FALSE
    /\ clipboard = NoLink /\ copiedLink = NoLink /\ copyToken = 0 /\ due = {}
    /\ note = Shows(NoLink, FALSE, NoLink)

-----------------------------------------------------------------------------
\* An activation's request comes with a link, and ends; only one that is waited
\* for can have failed to open.
LinkMoves ==
    /\ \E l \in Links \cup {NoLink}, f \in BOOLEAN :
         /\ <<l, f>> # <<pending, failed>>
         /\ f => l # NoLink
         /\ pending' = l /\ failed' = f
    /\ fresh' = TRUE
    /\ UNCHANGED <<clipboard, copiedLink, copyToken, due, note>>

LinkRefreshes ==
    /\ fresh /\ fresh' = FALSE
    /\ note' = Shows(pending, failed, copiedLink)
    /\ UNCHANGED <<pending, failed, clipboard, copiedLink, copyToken, due>>

\* copyBrowserLink
CopyLink ==
    /\ note.shows # "nothing" /\ pending # NoLink
    /\ copyToken < MaxCopies
    /\ clipboard' = pending /\ copiedLink' = pending
    /\ copyToken' = copyToken + 1
    /\ due' = due \cup {copyToken'}
    /\ note' = Shows(pending, failed, pending)
    /\ UNCHANGED <<pending, failed, fresh>>

\* Mutant: a copy's timer ends the note of a later one.
EndsNote(token) == TRUE

\* The timer of an earlier copy changes nothing.
IsLatest(token) == token = copyToken

\* Each waits as long, so they fire in order.
NoteFades ==
    \E token \in due :
      /\ \A t \in due : token <= t
      /\ due' = due \ {token}
      /\ IF IsLatest(token)
           THEN copiedLink' = NoLink /\ note' = Shows(pending, failed, NoLink)
           ELSE UNCHANGED <<copiedLink, note>>
      /\ UNCHANGED <<pending, failed, fresh, clipboard, copyToken>>

NoteStep == LinkRefreshes \/ NoteFades

LinkCopyNext == LinkMoves \/ CopyLink \/ NoteStep

LinkCopySpec == LinkCopyInit /\ [][LinkCopyNext]_linkVars /\ WF_linkVars(NoteFades)

-----------------------------------------------------------------------------
\* "Link copied" is said of the link that is shown only while the clipboard has that
\* very link, and it never outlives the last copy's timer (refresh, copyBrowserLink).
NoteIsTrue ==
    ~fresh /\ note.copied => pending # NoLink /\ clipboard = pending /\ copyToken \in due

\* The note stands for its whole moment: before the last copy's timer fires only another
\* link takes it away.
NoteStands ==
    [][note.copied /\ ~note'.copied => copyToken \notin due' \/ pending # copiedLink]_linkVars

\* It goes, also when the link was copied over and over.
NoteGone == ~note.copied

NoteGoes == <>[][NoteStep]_linkVars => <>[]NoteGone
=============================================================================

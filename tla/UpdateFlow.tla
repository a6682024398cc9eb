------------------------------- MODULE UpdateFlow -------------------------------
(***************************************************************************)
(* The update screen (juce/ActivationController.cpp, from applyLicense to  *)
(* dismissUpdate): presented when the license names a newer release than   *)
(* the one that runs, it fetches the notes, then downloads the installer   *)
(* on a thread of its own.                                                 *)
(*                                                                         *)
(* updateGeneration_ is not a number here: what it outdates is dropped at  *)
(* once, as a continuation that finds it moved does nothing.               *)
(***************************************************************************)
EXTENDS Integers

CONSTANTS
    Releases,       \* what a license may name as released, newer ones higher
    Running,        \* the version that runs; Versions says which is newer
    NoRelease,      \* no license is held
    AutoPresent,    \* config_.autoPresentUpdate
    HostPresents    \* the host calls presentUpdateIfAvailable

ASSUME UpdateFlowAssumption ==
    /\ Releases \subseteq Nat /\ Running \in Nat /\ NoRelease \notin Releases
    /\ AutoPresent \in BOOLEAN /\ HostPresents \in BOOLEAN

VARIABLES
    release,    \* current_release_version of the license held, or NoRelease
    screen,     \* the update screen, the license's own, its add-ons, or another
    update,     \* updateInfo_
    ignored,    \* releases the user skipped (state_)
    asking,     \* the request whose answer is still waited for
    task,       \* the thread of updateDownload_
    tuned,      \* downloadGeneration_ = updateGeneration_
    file,       \* updateFile_
    told,       \* the outcome a download has posted and that still counts
    opening     \* the message thread is in beginFileDownload

under     == <<asking, task, tuned, file, told, opening>>
updateVars == <<release, screen, update, ignored, under>>

UpdateOK ==
    /\ release \in Releases \cup {NoRelease}
    /\ screen \in {"Update", "License", "AddOns", "Other"}
    /\ update \in [phase : {"Loading", "Ready", "Downloading", "Done"},
                   version : Releases \cup {NoRelease}, canDownload : BOOLEAN]
    /\ ignored \subseteq Releases
    /\ asking \in {"nothing", "notes", "url"}
    /\ task \in {"none", "running", "ended"}
    /\ tuned \in BOOLEAN
    /\ file \in {"none", "partial", "whole", "gone"}
    /\ told \in {"nothing", "success", "failure"}
    /\ opening \in BOOLEAN

UpdateInit ==
    /\ release \in Releases \cup {NoRelease}
    /\ screen = IF release = NoRelease THEN "Other" ELSE "License"
    /\ update = [phase |-> "Loading", version |-> NoRelease, canDownload |-> TRUE]
    /\ ignored \in SUBSET Releases
    /\ asking = "nothing" /\ task = "none" /\ tuned = TRUE
    /\ file = "none" /\ told = "nothing" /\ opening = FALSE

\* updateAvailable()
Newer(r) == r # NoRelease /\ r > Running

\* ++updateGeneration_, for a request or to silence what is under way.
MoveOn(request) ==
    /\ asking' = request /\ told' = "nothing" /\ tuned' = FALSE

LicenseScreen == IF release = NoRelease THEN "Other" ELSE "License"

-----------------------------------------------------------------------------
(* The license, and the screens around it.                                  *)

\* beginUpdateFlow and fetchUpdateInfo
Begin(r) ==
    /\ update' = [phase |-> "Loading", version |-> r, canDownload |-> TRUE]
    /\ screen' = "Update"
    /\ MoveOn("notes")
    /\ UNCHANGED <<ignored, task, file, opening>>

\* applyLicense of a launch, a check or an adoption.
ApplyLicense(r) ==
    /\ ~opening /\ release' = r
    /\ \/ screen = "AddOns" /\ UNCHANGED <<screen, update, ignored, under>>
       \/ /\ screen # "AddOns" /\ AutoPresent /\ Newer(r) /\ r \notin ignored
          /\ Begin(r)
       \/ /\ screen # "AddOns" /\ ~(AutoPresent /\ Newer(r) /\ r \notin ignored)
          /\ screen' = "License"
          /\ UNCHANGED <<update, ignored, under>>

\* The badge of the license's screen, and the host's presentUpdateIfAvailable.
ShowUpdate ==
    /\ ~opening /\ Newer(release)
    /\ screen = "License" \/ HostPresents
    /\ Begin(release)
    /\ UNCHANGED release

LoseLicense ==
    /\ ~opening /\ release # NoRelease
    /\ release' = NoRelease /\ screen' = "Other"
    /\ UNCHANGED <<update, ignored, under>>

\* "Unlock full version" leads away from the update, an activation's end back.
Navigate ==
    /\ ~opening
    /\ \/ screen = "Update" /\ screen' = "Other"
       \/ screen \in {"Other", "AddOns"} /\ release # NoRelease /\ screen' = "License"
       \/ screen = "License" /\ screen' = "AddOns"
    /\ UNCHANGED <<release, update, ignored, under>>

\* "Skip this update"
Dismiss ==
    /\ ~opening /\ screen = "Update"
    /\ ignored' = ignored \cup ({update.version} \ {NoRelease})
    /\ MoveOn("nothing")
    /\ task' = "none"
    /\ screen' = LicenseScreen
    /\ UNCHANGED <<release, update, file, opening>>

-----------------------------------------------------------------------------
(* The notes and the download.                                              *)

InPhase(phase) == update' = [update EXCEPT !.phase = phase]

NotesLanded ==
    /\ ~opening /\ asking = "notes"
    /\ asking' = "nothing"
    /\ \E can \in BOOLEAN : update' = [update EXCEPT !.phase = "Ready", !.canDownload = can]
    /\ UNCHANGED <<release, screen, ignored, task, tuned, file, told, opening>>

\* The button is there when the installer may be had, and not busy.
StartDownload ==
    /\ ~opening /\ screen = "Update" /\ release # NoRelease
    /\ update.phase = "Ready" /\ update.canDownload
    /\ InPhase("Downloading")
    /\ MoveOn("url")
    /\ UNCHANGED <<release, screen, ignored, task, file, opening>>

UrlLanded ==
    /\ ~opening /\ asking = "url"
    /\ asking' = "nothing"
    /\ \/ /\ opening' = TRUE
          /\ tuned' = TRUE /\ file' = "partial"
          /\ UNCHANGED update
       \/ /\ \E can \in BOOLEAN : update' = [update EXCEPT !.phase = "Ready", !.canDownload = can]
          /\ UNCHANGED <<opening, tuned, file>>
    /\ UNCHANGED <<release, screen, ignored, task, told>>

\* The connection stands, or not; the task of an earlier download ends here.
DownloadOpened ==
    /\ opening /\ opening' = FALSE
    /\ \/ task' = "running" /\ UNCHANGED update
       \/ task' = "none" /\ InPhase("Ready")
    /\ UNCHANGED <<release, screen, ignored, asking, tuned, file, told>>

\* finished(), on the task's thread.  Until beginFileDownload is through, it is
\* the task of an earlier download, with a file of its own.
TaskFinishes ==
    /\ task = "running" /\ task' = "ended"
    /\ \E outcome \in {"success", "failure"} :
         /\ told' = IF tuned THEN outcome ELSE told
         /\ file' = IF ~opening /\ tuned /\ outcome = "success" THEN "whole" ELSE file
    /\ UNCHANGED <<release, screen, update, ignored, asking, tuned, opening>>

FinishedLanded ==
    /\ ~opening /\ told # "nothing" /\ told' = "nothing"
    /\ InPhase(IF told = "success" THEN "Done" ELSE "Ready")
    /\ UNCHANGED <<release, screen, ignored, asking, task, tuned, file, opening>>

\* "Reveal installer": one that is gone can be downloaded again.
Reveal ==
    /\ ~opening /\ screen = "Update" /\ update.phase = "Done"
    /\ file \in {"none", "gone"}
    /\ file' = "none" /\ InPhase("Ready")
    /\ UNCHANGED <<release, screen, ignored, asking, task, tuned, told, opening>>

InstallerGoes ==
    /\ file = "whole" /\ file' = "gone"
    /\ UNCHANGED <<release, screen, update, ignored, asking, task, tuned, told, opening>>

-----------------------------------------------------------------------------
UpdateStep == NotesLanded \/ UrlLanded \/ DownloadOpened \/ TaskFinishes \/ FinishedLanded

UpdateNext ==
    \/ (\E r \in Releases : ApplyLicense(r)) \/ LoseLicense \/ ShowUpdate \/ Navigate
    \/ Dismiss \/ StartDownload \/ Reveal \/ InstallerGoes \/ UpdateStep

\* Requests time out, the message loop runs on, and a download ends: when the
\* server closes the connection, or it breaks.
UpdateSpec == UpdateInit /\ [][UpdateNext]_updateVars /\ WF_updateVars(UpdateStep)

-----------------------------------------------------------------------------
\* A screen that says "Checking" or "Downloading" has an answer, or a download it
\* will hear of, on its way: whatever re-entered, skipped or failed meanwhile.
ProgressHasSource ==
    /\ UpdateOK
    /\ screen = "Update" /\ update.phase = "Loading" => asking = "notes"
    /\ screen = "Update" /\ update.phase = "Downloading" =>
         asking = "url" \/ opening \/ (task = "running" /\ tuned) \/ told # "nothing"

\* Left alone, the screen comes to rest.
UpdatesAtRest == screen = "Update" => update.phase \in {"Ready", "Done"}

UpdatesSettle == <>[][UpdateStep]_updateVars => <>[]UpdatesAtRest

\* As the header has it: "Separate generation for the update flow's async work
\* [...] so a license re-validation can't cancel an in-flight download".  The
\* download that runs is the one the screen hears of.
DownloadIsHeard == task = "running" => tuned
=============================================================================

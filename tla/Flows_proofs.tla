----------------------------- MODULE Flows_proofs ------------------------------
(***************************************************************************)
(* Proofs about what stands around the controller's license: the device's  *)
(* identity, the update screen, the updates that were skipped, an add-on's *)
(* row, and the rules they rest on, for every value of the constants.  At  *)
(* the end, that MCFlows' behaviours are behaviours of its parts, so that  *)
(* what is proved of those holds of it.                                    *)
(***************************************************************************)
EXTENDS MCFlows, AddOns_proofs, Screens_proofs, FiniteSetTheorems, WellFoundedInduction

-----------------------------------------------------------------------------
(* The device's identity.                                                  *)

\* What was told follows from what is remembered: the name and the id of the one
\* read, and for a license the id or the former ids.
ToldByMemo(q, a) ==
    /\ q = "name" => /\ identity # "unread"
                     /\ a = IF identity = "nothing" THEN "" ELSE "host"
    /\ q = "id" /\ a # "unidentified" => a = deviceId /\ deviceId # "none"
    /\ q \in DeviceIdSet => a \in {"accepted", "mismatch", "unidentified"}
    /\ q \in DeviceIdSet /\ a = "accepted" =>
         deviceId = q \/ (deviceId \notin {"none", q} /\ former = q)
    /\ q \in DeviceIdSet /\ a = "mismatch" =>
         deviceId \notin {"none", q} /\ former \notin {"unread", q}

DevicesInv ==
    /\ DeviceTypeOK
    /\ deviceId # "none" => identity \in {"whole", "nameOnly"}
    /\ \A t \in Askers : judging[t] # "nothing" => deviceId \notin {"none", judging[t]}
    /\ \A r \in toldIds : ToldByMemo(r[1], r[2])

\* The memos are written once.
MemosStay ==
    /\ identity # "unread" => identity' = identity
    /\ deviceId # "none" => deviceId' = deviceId
    /\ former # "unread" => former' = former

\* What was told stays true of the memos, and one answer more is.
LEMMA ToldStays ==
    ASSUME DevicesInv, MemosStay, NEW q \in Questions, NEW a \in Answers,
           toldIds' = toldIds \/ (Tell(q, a) /\ ToldByMemo(q, a)')
    PROVE  /\ toldIds' \subseteq Questions \X Answers
           /\ \A r \in toldIds' : ToldByMemo(r[1], r[2])'
<1>1. \A r \in toldIds : r[1] \in Questions /\ r[2] \in Answers /\ ToldByMemo(r[1], r[2])
  BY DEF DevicesInv, DeviceTypeOK
<1>2. ASSUME NEW x \in Questions, NEW y \in Answers, ToldByMemo(x, y) PROVE ToldByMemo(x, y)'
  BY <1>2 DEF ToldByMemo, MemosStay, DeviceIdSet
<1>3. \A r \in toldIds' : r \in toldIds \/ (r = <<q, a>> /\ ToldByMemo(q, a)')
  BY DEF Tell
<1>4. toldIds' \subseteq Questions \X Answers
  BY DEF Tell, DevicesInv, DeviceTypeOK
<1>5. ASSUME NEW r \in toldIds' PROVE ToldByMemo(r[1], r[2])'
  <2>1. CASE r \in toldIds
    BY <1>1, <1>2, <2>1
  <2>2. CASE r \notin toldIds
    <3>1. r = <<q, a>> /\ ToldByMemo(q, a)'
      BY <1>3, <2>2
    <3>2. r[1] = q /\ r[2] = a
      BY <3>1
    <3> QED
      BY <3>1, <3>2
  <2> QED
    BY <2>1, <2>2
<1> QED
  BY <1>4, <1>5

\* Both memos are of one read, and an id is of a read that found something.
LEMMA DescribeGives ==
    ASSUME DevicesInv, Describe
    PROVE  /\ identity' \in Reads \cup {"unread"} /\ deviceId' \in {"none", "strong", "weak"}
           /\ identity # "unread" => identity' = identity
           /\ deviceId # "none" => deviceId' = deviceId
           /\ deviceId' # "none" => identity' \in {"whole", "nameOnly"}
<1>1. machine \in Reads /\ identity \in Reads \cup {"unread"} /\ deviceId \in {"none", "strong", "weak"}
  BY DEF DevicesInv, DeviceTypeOK
<1>2. Identity \in Reads
  BY <1>1 DEF Identity, Reads
<1>3. CASE deviceId # "none"
  BY <1>1, <1>3 DEF Describe, Description, DevicesInv
<1>4. CASE deviceId = "none"
  <2>1. identity' = Identity /\ deviceId' = Description(Identity)
    BY <1>4 DEF Describe
  <2>2. identity # "unread" => Identity = identity
    BY DEF Identity
  <2> QED
    BY <1>2, <1>4, <2>1, <2>2 DEF Description, Reads
<1> QED
  BY <1>3, <1>4

LEMMA DevicesStep ==
    ASSUME DevicesInv, [DevicesNext]_deviceVars
    PROVE  DevicesInv'
<1>T. /\ DeviceTypeOK /\ judging \in [Askers -> DeviceIdSet \cup {"nothing"}]
      /\ machine \in Reads /\ identity \in Reads \cup {"unread"} /\ deviceId \in {"none", "strong", "weak"}
      /\ legacy \in {"id", "empty", "throws"} /\ former \in {"unread", "former", "nobody"}
  BY DEF DevicesInv, DeviceTypeOK
<1>S. "nothing" \notin DeviceIdSet /\ DeviceIdSet \subseteq Questions
      /\ {"name", "id"} \cap DeviceIdSet = {} /\ {"name", "id"} \subseteq Questions
  BY DEF DeviceIdSet, Questions
<1>1. ASSUME NEW t \in Askers, AskName(t) PROVE DevicesInv'
  <2> DEFINE a == IF Identity = "nothing" THEN "" ELSE "host"
  <2>1. /\ identity' = Identity /\ Tell("name", a)
        /\ UNCHANGED <<machine, legacy, deviceId, former, judging>>
    BY <1>1 DEF AskName
  <2>2. Identity \in Reads /\ (identity # "unread" => Identity = identity)
    BY <1>T DEF Identity, Reads
  <2>3. a \in Answers /\ a = IF identity' = "nothing" THEN "" ELSE "host"
    BY <2>1 DEF Answers
  <2> HIDE DEF a
  <2>4. MemosStay
    BY <2>1, <2>2 DEF MemosStay
  <2>5. ASSUME NEW b, b = a PROVE ToldByMemo("name", b)'
    BY <1>S, <2>1, <2>2, <2>3, <2>5 DEF ToldByMemo, Reads
  <2>6. /\ toldIds' \subseteq Questions \X Answers
        /\ \A r \in toldIds' : ToldByMemo(r[1], r[2])'
    <3>1. PICK b : b = a
      OBVIOUS
    <3>2. b \in Answers /\ Tell("name", b) /\ ToldByMemo("name", b)'
      BY <2>1, <2>3, <2>5, <3>1
    <3> QED
      BY <1>S, <2>4, <3>2, ToldStays
  <2>7. deviceId' # "none" => identity' \in {"whole", "nameOnly"}
    BY <2>1, <2>2 DEF DevicesInv
  <2> QED
    BY <1>T, <2>1, <2>2, <2>6, <2>7 DEF DevicesInv, DeviceTypeOK
<1>2. ASSUME NEW t \in Askers, AskId(t) PROVE DevicesInv'
  <2> DEFINE a == IF deviceId' = "none" THEN "unidentified" ELSE deviceId'
  <2>1. Describe /\ Tell("id", a) /\ UNCHANGED <<machine, legacy, former, judging>>
    BY <1>2 DEF AskId
  <2>2. /\ identity' \in Reads \cup {"unread"} /\ deviceId' \in {"none", "strong", "weak"}
        /\ identity # "unread" => identity' = identity
        /\ deviceId # "none" => deviceId' = deviceId
        /\ deviceId' # "none" => identity' \in {"whole", "nameOnly"}
    BY <2>1, DescribeGives
  <2>3. a \in Answers /\ (a # "unidentified" => a = deviceId' /\ deviceId' # "none")
    BY <2>2 DEF Answers
  <2> HIDE DEF a
  <2>4. MemosStay
    BY <2>1, <2>2 DEF MemosStay
  <2>5. ASSUME NEW b, b = a PROVE ToldByMemo("id", b)'
    BY <1>S, <2>3, <2>5 DEF ToldByMemo
  <2>6. /\ toldIds' \subseteq Questions \X Answers
        /\ \A r \in toldIds' : ToldByMemo(r[1], r[2])'
    <3>1. PICK b : b = a
      OBVIOUS
    <3>2. b \in Answers /\ Tell("id", b) /\ ToldByMemo("id", b)'
      BY <2>1, <2>3, <2>5, <3>1
    <3> QED
      BY <1>S, <2>4, <3>2, ToldStays
  <2>7. \A u \in Askers : judging'[u] # "nothing" => deviceId' \notin {"none", judging'[u]}
    BY <2>1, <2>2 DEF DevicesInv
  <2> QED
    BY <1>T, <2>1, <2>2, <2>6, <2>7 DEF DevicesInv, DeviceTypeOK
<1>3. ASSUME NEW t \in Askers, NEW bound \in DeviceIdSet, CheckBound(t, bound) PROVE DevicesInv'
  <2>1. /\ Describe /\ UNCHANGED <<machine, legacy, former>>
        /\ \/ deviceId' = "none" /\ Tell(bound, "unidentified") /\ UNCHANGED judging
           \/ deviceId' = bound /\ Tell(bound, "accepted") /\ UNCHANGED judging
           \/ /\ deviceId' \notin {"none", bound}
              /\ judging' = [judging EXCEPT ![t] = bound] /\ UNCHANGED toldIds
    BY <1>3 DEF CheckBound
  <2>2. /\ identity' \in Reads \cup {"unread"} /\ deviceId' \in {"none", "strong", "weak"}
        /\ identity # "unread" => identity' = identity
        /\ deviceId # "none" => deviceId' = deviceId
        /\ deviceId' # "none" => identity' \in {"whole", "nameOnly"}
    BY <2>1, DescribeGives
  <2>3. MemosStay
    BY <2>1, <2>2 DEF MemosStay
  <2>4. "unidentified" \in Answers /\ "accepted" \in Answers /\ bound \in Questions
    BY <1>S DEF Answers
  <2>5. ToldByMemo(bound, "unidentified")' /\ (deviceId' = bound => ToldByMemo(bound, "accepted")')
    BY <1>S DEF ToldByMemo
  <2>6. /\ toldIds' \subseteq Questions \X Answers
        /\ \A r \in toldIds' : ToldByMemo(r[1], r[2])'
    BY <2>1, <2>3, <2>4, <2>5, ToldStays
  <2>7. /\ judging' \in [Askers -> DeviceIdSet \cup {"nothing"}]
        /\ \A u \in Askers : judging'[u] # "nothing" => deviceId' \notin {"none", judging'[u]}
    BY <1>T, <2>1, <2>2 DEF DevicesInv
  <2> QED
    BY <1>T, <2>1, <2>2, <2>6, <2>7 DEF DevicesInv, DeviceTypeOK
<1>4. ASSUME NEW t \in Askers, Vouch(t) PROVE DevicesInv'
  <2> DEFINE bound == judging[t]
             a == IF Former = bound THEN "accepted" ELSE "mismatch"
  <2>1. /\ bound # "nothing" /\ former' = Former /\ Tell(bound, a)
        /\ judging' = [judging EXCEPT ![t] = "nothing"]
        /\ UNCHANGED <<machine, legacy, identity, deviceId>>
    BY <1>4 DEF Vouch, Idle
  <2>2. /\ bound \in DeviceIdSet /\ deviceId \notin {"none", bound} /\ a \in Answers
        /\ a = IF Former = bound THEN "accepted" ELSE "mismatch"
    BY <1>T, <2>1 DEF DevicesInv, Answers
  <2> HIDE DEF bound, a
  <2>3. Former \in {"former", "nobody"} /\ (former # "unread" => Former = former)
    BY <1>T DEF Former
  <2>4. MemosStay
    BY <2>1, <2>3 DEF MemosStay
  <2>5. ASSUME NEW b, b = bound, NEW c, c = a PROVE ToldByMemo(b, c)'
    BY <1>S, <2>1, <2>2, <2>3, <2>5 DEF ToldByMemo
  <2>6. /\ toldIds' \subseteq Questions \X Answers
        /\ \A r \in toldIds' : ToldByMemo(r[1], r[2])'
    <3>1. PICK b, c : b = bound /\ c = a
      OBVIOUS
    <3>2. b \in Questions /\ c \in Answers /\ Tell(b, c) /\ ToldByMemo(b, c)'
      BY <1>S, <2>1, <2>2, <2>5, <3>1
    <3> QED
      BY <2>4, <3>2, ToldStays
  <2>7. /\ judging' \in [Askers -> DeviceIdSet \cup {"nothing"}]
        /\ \A u \in Askers : judging'[u] # "nothing" => deviceId' \notin {"none", judging'[u]}
    BY <1>T, <2>1 DEF DevicesInv
  <2>8. deviceId' # "none" => identity' \in {"whole", "nameOnly"}
    BY <2>1 DEF DevicesInv
  <2> QED
    BY <1>T, <2>1, <2>3, <2>6, <2>7, <2>8 DEF DevicesInv, DeviceTypeOK
<1>5. ASSUME MachineChanges \/ UNCHANGED deviceVars PROVE DevicesInv'
  <2>1. /\ machine' \in Reads /\ legacy' \in {"id", "empty", "throws"}
        /\ UNCHANGED <<identity, deviceId, former, judging, toldIds>>
    BY <1>5, <1>T DEF MachineChanges, deviceVars
  <2> QED
    BY <2>1 DEF DevicesInv, DeviceTypeOK, ToldByMemo
<1> QED
  BY <1>1, <1>2, <1>3, <1>4, <1>5 DEF DevicesNext

LEMMA DevicesInitially == DevicesInit => DevicesInv
BY DEF DevicesInit, DevicesInv, DeviceTypeOK, DeviceIdSet

LEMMA OneVerdict == DevicesInv => VerdictsStay
<1> SUFFICES ASSUME DevicesInv PROVE VerdictsStay
  OBVIOUS
<1>1. \A r \in toldIds : /\ r[1] \in Questions /\ r[2] \in Answers /\ r = <<r[1], r[2]>>
                         /\ ToldByMemo(r[1], r[2])
  BY DEF DevicesInv, DeviceTypeOK
<1>2. ASSUME NEW q \in toldIds, NEW r \in toldIds, q[1] = r[1], "unidentified" \notin {q[2], r[2]}
      PROVE  q[2] = r[2]
  <2>1. q[1] = "name" \/ q[1] = "id" \/ q[1] \in DeviceIdSet
    BY <1>1 DEF Questions
  <2>2. CASE q[1] = "name" \/ q[1] = "id"
    BY <1>1, <1>2, <2>2 DEF ToldByMemo
  <2>3. CASE q[1] \in DeviceIdSet
    BY <1>1, <1>2, <2>3 DEF ToldByMemo
  <2> QED
    BY <2>1, <2>2, <2>3
<1>3. \A q \in toldIds, r \in toldIds :
        q[1] = r[1] /\ "unidentified" \notin {q[2], r[2]} => q = r
  BY <1>1, <1>2
<1>4. <<"name", "">> \in toldIds => deviceId = "none"
  BY DEF DevicesInv, ToldByMemo
<1> QED
  BY <1>3, <1>4 DEF VerdictsStay

\* A process has one name, one id and one verdict on each license, of one read of the
\* machine, whichever of its threads ask and however often the machine can't be read.
THEOREM VerdictTheorem == DevicesSpec => []VerdictsStay
BY DevicesInitially, DevicesStep, OneVerdict, PTL DEF DevicesSpec

-----------------------------------------------------------------------------
(* The update screen.  ProgressHasSource is inductive once it is known that *)
(* a download being opened is the one the screen is tuned to.               *)

OpeningIsTuned == opening => tuned

UpdateInv == ProgressHasSource /\ OpeningIsTuned

LEMMA UpdateInitially == UpdateInit => UpdateInv
<1> SUFFICES ASSUME UpdateInit PROVE UpdateInv
  OBVIOUS
<1>1. screen \in {"Other", "License"} /\ update.phase = "Loading"
  BY DEF UpdateInit
<1>2. update \in [phase : {"Loading", "Ready", "Downloading", "Done"},
                  version : Releases \cup {NoRelease}, canDownload : BOOLEAN]
  BY DEF UpdateInit
<1> QED
  BY <1>1, <1>2 DEF UpdateInit, UpdateInv, ProgressHasSource, OpeningIsTuned, UpdateOK

\* The notes, or a download that failed to start, leave the screen ready.
UpdateReady ==
    /\ update'.phase = "Ready"
    /\ update' \in [phase : {"Loading", "Ready", "Downloading", "Done"},
                    version : Releases \cup {NoRelease}, canDownload : BOOLEAN]

\* Presenting the update asks for its notes.
LEMMA BeginKeeps ==
    ASSUME UpdateInv, NEW r \in Releases, Begin(r), release' \in Releases \cup {NoRelease}
    PROVE  UpdateInv' \/ opening
BY DEF UpdateInv, ProgressHasSource, OpeningIsTuned, UpdateOK, Begin, MoveOn

\* Whatever becomes of the license, the answers and the download, the screen that waits
\* has what it waits for under way.
LEMMA UpdateNextKeeps == UpdateInv /\ [UpdateNext]_updateVars => UpdateInv'
<1> SUFFICES ASSUME UpdateInv, [UpdateNext]_updateVars PROVE UpdateInv'
  OBVIOUS
<1> USE DEF UpdateInv, ProgressHasSource, OpeningIsTuned, UpdateOK, under
<1>1. ASSUME NEW r \in Releases, ApplyLicense(r) PROVE UpdateInv'
  <2>1. CASE AutoPresent /\ Newer(r) /\ r \notin ignored /\ Begin(r)
    BY <1>1, <2>1, BeginKeeps DEF ApplyLicense
  <2>2. CASE ~(AutoPresent /\ Newer(r) /\ r \notin ignored /\ Begin(r))
    BY <1>1, <2>2 DEF ApplyLicense
  <2> QED
    BY <2>1, <2>2
<1>2. CASE LoseLicense
  BY <1>2 DEF LoseLicense
<1>3. CASE ShowUpdate
  <2>1. release \in Releases
    BY <1>3 DEF ShowUpdate, Newer
  <2> QED
    BY <1>3, <2>1, BeginKeeps DEF ShowUpdate
<1>4. CASE Navigate
  BY <1>4 DEF Navigate
<1>5. CASE Dismiss
  BY <1>5 DEF Dismiss, MoveOn, LicenseScreen
<1>6. CASE StartDownload
  BY <1>6 DEF StartDownload, MoveOn, InPhase
<1>7. CASE Reveal
  BY <1>7 DEF Reveal, InPhase
<1>8. CASE InstallerGoes
  BY <1>8 DEF InstallerGoes
<1>9. CASE NotesLanded
  <2>1. PICK can \in BOOLEAN : update' = [update EXCEPT !.phase = "Ready", !.canDownload = can]
    BY <1>9 DEF NotesLanded
  <2>2. UpdateReady
    BY <2>1 DEF UpdateReady
  <2> QED
    BY <1>9, <2>2 DEF NotesLanded, UpdateReady
<1>10. CASE UrlLanded
  <2>1. CASE opening' = TRUE /\ tuned' = TRUE /\ file' = "partial" /\ UNCHANGED update
    BY <1>10, <2>1 DEF UrlLanded
  <2>2. CASE /\ \E can \in BOOLEAN :
                   update' = [update EXCEPT !.phase = "Ready", !.canDownload = can]
             /\ UNCHANGED <<opening, tuned, file>>
    <3>1. UpdateReady
      BY <2>2 DEF UpdateReady
    <3> QED
      BY <1>10, <2>2, <3>1 DEF UrlLanded, UpdateReady
  <2> QED
    BY <1>10, <2>1, <2>2 DEF UrlLanded
<1>11. CASE DownloadOpened
  BY <1>11 DEF DownloadOpened, InPhase
<1>12. CASE TaskFinishes
  BY <1>12 DEF TaskFinishes
<1>13. CASE FinishedLanded
  BY <1>13 DEF FinishedLanded, InPhase
<1>14. CASE UNCHANGED updateVars
  BY <1>14 DEF updateVars
<1> QED
  BY <1>1, <1>2, <1>3, <1>4, <1>5, <1>6, <1>7, <1>8, <1>9, <1>10, <1>11, <1>12, <1>13, <1>14
     DEF UpdateNext, UpdateStep

\* A screen that says "Checking" or "Downloading" hears of the end of it, for any releases
\* and whichever of them the license names next (beginUpdateFlow, startUpdateDownload).
THEOREM ProgressIsHeard == UpdateSpec => []ProgressHasSource
<1>1. UpdateInv => ProgressHasSource
  BY DEF UpdateInv
<1> QED
  BY <1>1, UpdateInitially, UpdateNextKeeps, PTL DEF UpdateSpec

-----------------------------------------------------------------------------
(* The updates that were skipped.  What the file has and an instance about  *)
(* to save does not is what it missed.                                      *)

WhatIsMissed == \A i \in Plugins : skipping[i] # 0 => saved \ root[i] \subseteq missed[i]

DismissalInv == DismissalTypeOK /\ WhatIsMissed

LEMMA DismissalsInitially == DismissalsInit => DismissalInv
BY DEF DismissalsInit, DismissalInv, DismissalTypeOK, WhatIsMissed, Contents

LEMMA DismissalsStep == DismissalInv /\ [DismissalsNext]_dismissalVars => DismissalInv'
<1> SUFFICES ASSUME DismissalInv, [DismissalsNext]_dismissalVars PROVE DismissalInv'
  OBVIOUS
<1> USE DEF DismissalInv, DismissalTypeOK, WhatIsMissed
<1>1. ASSUME NEW i \in Plugins, NEW v \in Skippable, IgnoreUpdate(i, v) PROVE DismissalInv'
  BY <1>1 DEF IgnoreUpdate, Loaded, Contents
<1>2. ASSUME NEW i \in Plugins, Save(i) PROVE DismissalInv'
  BY <1>2 DEF Save
<1>3. ASSUME NEW i \in Plugins, SaveFails(i) PROVE DismissalInv'
  BY <1>3 DEF SaveFails
<1>4. ASSUME NEW i \in Plugins, Restart(i) PROVE DismissalInv'
  BY <1>4 DEF Restart, Contents
<1>5. CASE ReadsChange
  BY <1>5 DEF ReadsChange
<1>6. CASE UNCHANGED dismissalVars
  BY <1>6 DEF dismissalVars
<1> QED
  BY <1>1, <1>2, <1>3, <1>4, <1>5, <1>6 DEF DismissalsNext

\* Only Save takes a version from the file, and only one it missed.
LEMMA OnlyMissedAreLost ==
    DismissalInv /\ [DismissalsNext]_dismissalVars =>
        \A v \in saved \ saved' :
            \E i \in Plugins : skipping[i] # 0 /\ skipping'[i] = 0 /\ v \in missed[i]
<1> SUFFICES ASSUME DismissalInv, [DismissalsNext]_dismissalVars, NEW v \in saved \ saved'
             PROVE  \E i \in Plugins : skipping[i] # 0 /\ skipping'[i] = 0 /\ v \in missed[i]
  OBVIOUS
<1>1. PICK i \in Plugins : Save(i)
  BY DEF DismissalsNext, dismissalVars, IgnoreUpdate, SaveFails, Restart, ReadsChange
<1>2. skipping[i] # 0 /\ skipping'[i] = 0 /\ v \in missed[i]
  BY <1>1 DEF Save, DismissalInv, DismissalTypeOK, WhatIsMissed
<1> QED
  BY <1>2

\* For any number of processes: a skipped update goes from the file only when an
\* instance saves that had loaded before it was written, or could not read the file
\* (ActivationState.h, ignoreUpdate).
THEOREM OnlyOverlapForgets == DismissalsSpec => OnlyOverlapLosesDismissals
<1>1. DismissalsSpec => []DismissalInv
  BY DismissalsInitially, DismissalsStep, PTL DEF DismissalsSpec
<1>2. DismissalInv /\ [DismissalsNext]_dismissalVars =>
        [\A v \in saved \ saved' :
            \E i \in Plugins : skipping[i] # 0 /\ skipping'[i] = 0 /\ v \in missed[i]]_dismissalVars
  BY OnlyMissedAreLost
<1> QED
  BY <1>1, <1>2, PTL DEF DismissalsSpec, OnlyOverlapLosesDismissals

-----------------------------------------------------------------------------
(* A row of the add-ons.  What is owned or tried has not ended yet, and of  *)
(* an add-on the license does not include only the list can speak.          *)

StillRuns == truth.owned \/ truth.trial = "running" => truth.ends > today

OnlyTheListKnows ==
    ~included => heldEntry = NotListed /\ (list # NotListed => list.ends = Never)

RowsInv == AddOnRowsTypeOK /\ StillRuns /\ OnlyTheListKnows

LEMMA DatesAreNumbers ==
    /\ Never \in Nat /\ \A d \in Days : d \in Nat /\ d < Never
    /\ \A e \in EndDates : e \in Nat /\ e <= Never
BY AddOnRowsAssumption DEF Never, Days, EndDates

\* What the server says has the types that the readers expect.
LEMMA AnswersAreTyped ==
    ASSUME NEW t \in Truths, included \in BOOLEAN
    PROVE  /\ LicenseSays(t) \in LicenseEntries \cup {NotListed}
           /\ ListSays(t) \in ListEntries \cup {NotListed}
           /\ LicenseSays(t) # NotListed <=> included /\ (t.owned \/ OnTrial(t))
<1>1. /\ t.owned \in BOOLEAN /\ t.seat \in {"free", "here", "elsewhere"} /\ t.revoked \in BOOLEAN
      /\ t.trial \in TrialStates /\ t.ends \in EndDates
  BY DEF Truths
<1>2. /\ UnlockedHere(t) \in BOOLEAN /\ OnTrial(t) \in BOOLEAN /\ Free(t) \in {Unknown, 0, 1}
  BY <1>1 DEF UnlockedHere, OnTrial, Free, SeatHere
<1>3. Never \in EndDates /\ "none" \in TrialStates
  BY DEF EndDates, TrialStates
<1>4. LicenseSays(t) \in LicenseEntries \cup {NotListed}
  BY <1>1, <1>2 DEF LicenseSays, LicenseEntries
<1>5. ListSays(t) \in ListEntries \cup {NotListed}
  BY <1>1, <1>2, <1>3 DEF ListSays, ListEntries
<1>6. LicenseSays(t) # NotListed <=> included /\ (t.owned \/ OnTrial(t))
  <2>1. CASE included /\ (t.owned \/ OnTrial(t))
    <3>1. LicenseSays(t) \in LicenseEntries
      BY <1>1, <1>2, <2>1 DEF LicenseSays, LicenseEntries
    <3> QED
      BY <2>1, <3>1, AddOnRowsAssumption
  <2>2. CASE ~(included /\ (t.owned \/ OnTrial(t)))
    BY <2>2 DEF LicenseSays
  <2> QED
    BY <2>1, <2>2
<1> QED
  BY <1>4, <1>5, <1>6

LEMMA RowsInitially == AddOnRowsInit => RowsInv
<1> SUFFICES ASSUME AddOnRowsInit PROVE RowsInv
  OBVIOUS
<1>1. truth \in Truths /\ truth.ends = Never /\ today = 0
  BY DEF AddOnRowsInit
<1>2. AddOnRowsTypeOK
  BY <1>1, AnswersAreTyped, AddOnRowsAssumption DEF AddOnRowsInit, AddOnRowsTypeOK, Days
<1>3. StillRuns
  BY <1>1, AddOnRowsAssumption DEF StillRuns, Never
<1>4. OnlyTheListKnows
  BY <1>1, <1>2 DEF AddOnRowsInit, OnlyTheListKnows, LicenseSays, ListSays
<1> QED
  BY <1>2, <1>3, <1>4 DEF RowsInv

\* Time and the customer leave nothing running that has ended.
LEMMA WorldStillRuns ==
    ASSUME RowsInv, WorldMoves
    PROVE  truth' \in Truths /\ StillRuns'
<1>1. truth' \in Truths /\ today' = today /\ truth' \in Changes(truth)
  BY DEF WorldMoves, Changes
<1>2. truth \in Truths /\ today \in Days
  BY DEF RowsInv, AddOnRowsTypeOK
<1>3. StillRuns'
  BY <1>1, <1>2, DatesAreNumbers DEF Changes, RowsInv, StillRuns, Truths, SeatHere, OnTrial
<1> QED
  BY <1>1, <1>3

LEMMA DaysStillRun ==
    ASSUME RowsInv, DayPasses
    PROVE  truth' \in Truths /\ StillRuns'
<1>1. truth \in Truths /\ today' \in Days /\ truth' = AsOf(truth, today')
  BY AddOnRowsAssumption DEF RowsInv, AddOnRowsTypeOK, DayPasses, Days
<1>2. Never \in EndDates
  BY DEF EndDates
<1>3. truth' \in Truths
  BY <1>1, <1>2 DEF AsOf, Truths, TrialStates
<1>4. StillRuns'
  BY <1>1, <1>3, DatesAreNumbers DEF AsOf, Truths, TrialStates, StillRuns
<1> QED
  BY <1>3, <1>4

LEMMA RowsStep == RowsInv /\ [AddOnRowsNext]_rowVars => RowsInv'
<1> SUFFICES ASSUME RowsInv, [AddOnRowsNext]_rowVars PROVE RowsInv'
  OBVIOUS
<1>1. CASE WorldMoves
  BY <1>1, WorldStillRuns DEF WorldMoves, RowsInv, AddOnRowsTypeOK, OnlyTheListKnows
<1>2. CASE DayPasses
  BY <1>2, DaysStillRun, AddOnRowsAssumption
     DEF DayPasses, RowsInv, AddOnRowsTypeOK, OnlyTheListKnows, Days
<1>3. CASE ListIsRead
  <2>1. list' \in ListEntries \cup {NotListed}
    BY <1>3, AnswersAreTyped DEF ListIsRead, RowsInv, AddOnRowsTypeOK
  <2>2. ~included => list' = NotListed \/ list'.ends = Never
    BY <1>3 DEF ListIsRead, ListSays
  <2> QED
    BY <1>3, <2>1, <2>2 DEF ListIsRead, RowsInv, AddOnRowsTypeOK, StillRuns, OnlyTheListKnows
<1>4. CASE LicenseIsRead
  <2>1. heldEntry' \in LicenseEntries \cup {NotListed}
    BY <1>4, AnswersAreTyped DEF LicenseIsRead, RowsInv, AddOnRowsTypeOK
  <2>2. ~included => heldEntry' = NotListed
    BY <1>4 DEF LicenseIsRead, LicenseSays
  <2> QED
    BY <1>4, <2>1, <2>2 DEF LicenseIsRead, RowsInv, AddOnRowsTypeOK, StillRuns, OnlyTheListKnows
<1>5. CASE UNCHANGED rowVars
  BY <1>5 DEF rowVars, RowsInv, AddOnRowsTypeOK, StillRuns, OnlyTheListKnows
<1> QED
  BY <1>1, <1>2, <1>3, <1>4, <1>5 DEF AddOnRowsNext

\* What a row says and offers, by the first case of describe that applies.
LEMMA RowsSay ==
    /\ Described.status \in {"active", "trial", "expired", "deactivated", "seats in use",
         "not activated", "free trial", "trial ended", "join the newsletter", "price"}
    /\ Described.status = "active" => ActiveHere /\ list.owns /\ ~ByTrial
    /\ Described.status = "trial" => ActiveHere /\ ~(list.owns /\ ~ByTrial)
    /\ Described.status \in {"active", "trial"} <=> ActiveHere
    /\ Described.status = "expired" => Lapsed /\ list.owns /\ ~ByTrial
    /\ Described.status \in {"deactivated", "seats in use", "not activated"}
         <=> ~ActiveHere /\ ~(Lapsed /\ list.owns /\ ~ByTrial) /\ included /\ list.owns
    /\ Described.status = "seats in use" => ~WasRevoked /\ SeatsInUse
    /\ Described.status = "deactivated" => WasRevoked
    /\ Described.status = "free trial" => TrialNow = "available"
    /\ Described.status = "trial ended" => TrialNow = "ended"
    /\ Described.status \in {"free trial", "trial ended", "join the newsletter", "price"}
         => ~ActiveHere /\ ~(included /\ list.owns)
    /\ Described.primary = "try" => Described.status = "free trial"
    /\ Described.primary = "activate" <=>
         \/ Described.status = "trial" /\ list.owns /\ included
         \/ Described.status \in {"deactivated", "not activated"}
    /\ Described.primary = "buy" =>
         \/ Described.status = "trial" /\ ~(list.owns /\ included)
         \/ Described.status \in {"expired", "trial ended", "join the newsletter", "price"}
BY DEF Described, Row, IfSold

LEMMA NothingStranded == RowsInv => RowsStrandNothing
<1> SUFFICES ASSUME RowsInv, list # NotListed PROVE RowsStrandNothing
  BY DEF RowsStrandNothing
<1> USE DEF RowsInv, AddOnRowsTypeOK
<1>1. ASSUME included, list.owns, ~ActiveHere, 1 \in {list.seats, HeldSeats}, ~(Lapsed /\ ~ByTrial)
      PROVE  Described.primary = "activate"
  <2>1. ~SeatsInUse
    BY <1>1 DEF SeatsInUse, Unknown
  <2> QED
    BY <1>1, <2>1, RowsSay
<1>2. ASSUME Described.primary = "try"
      PROVE  list.trial = "available" /\ (heldEntry = NotListed \/ ~heldEntry.trial)
  BY <1>2, RowsSay DEF TrialNow
<1>3. (Described.status \in {"active", "trial"}) = ActiveHere
  <2>1. ActiveHere \in BOOLEAN
    BY DEF ActiveHere, HasSubProduct, ListEntries
  <2>2. Described.status \in {"active", "trial"} <=> ActiveHere
    BY RowsSay
  <2> QED
    BY <2>1, <2>2
<1>4. ASSUME Described.status = "trial", EndsOn # Never PROVE DaysUntil(EndsOn) > 0
  <2>1. ActiveHere
    BY <1>4, RowsSay
  <2>2. included
    BY <1>4 DEF EndsOn, OnlyTheListKnows
  <2>3. HasSubProduct /\ EndsOn = heldEntry.ends /\ heldEntry \in LicenseEntries
    BY <2>1, <2>2 DEF ActiveHere, HasSubProduct, EndsOn
  <2>4. EndsOn \in Nat /\ today \in Nat /\ EndsOn > today
    BY <1>4, <2>3, DatesAreNumbers DEF HasSubProduct, LicenseEntries
  <2> QED
    BY <2>4 DEF DaysUntil
<1> QED
  BY <1>1, <1>2, <1>3, <1>4 DEF RowsStrandNothing

\* What a fresh list and license say, in the customer's terms: both stand for one truth.
LEMMA FreshAnswers ==
    ASSUME RowsInv, list # NotListed, list = ListSays(truth), heldEntry = LicenseSays(truth)
    PROVE  /\ list.owns = truth.owned
           /\ list.trial = "available" => truth.trial = "available" /\ ~truth.owned
           /\ ActiveHere => truth.owned \/ truth.trial = "running"
           /\ SeatHere(truth) => ActiveHere /\ ~ByTrial
           /\ truth.owned /\ ~included => ActiveHere /\ ~ByTrial
           /\ truth.owned => ~Lapsed
           /\ ActiveHere /\ ~(truth.owned /\ ~ByTrial) => truth.trial = "running"
           /\ WasRevoked = (included /\ truth.owned /\ truth.revoked)
           /\ SeatsInUse => truth.seat # "free"
           /\ TrialNow = "available" => truth.trial = "available" /\ ~truth.owned
           /\ TrialNow = "ended" /\ ~truth.owned => truth.trial = "ended"
<1> USE DEF RowsInv, AddOnRowsTypeOK
<1>1. /\ truth.owned \in BOOLEAN /\ truth.seat \in {"free", "here", "elsewhere"}
      /\ truth.revoked \in BOOLEAN /\ truth.trial \in TrialStates /\ truth.ends \in Nat
      /\ Never \in Nat /\ today \in Nat /\ included \in BOOLEAN /\ today < Never
  BY DatesAreNumbers DEF Truths
<1>2. /\ list.owns = truth.owned
      /\ list.active = IF included THEN UnlockedHere(truth) ELSE truth.owned
      /\ list.revoked = (included /\ truth.owned /\ truth.revoked)
      /\ list.ends = IF included THEN truth.ends ELSE Never
      /\ list.seats = IF included /\ truth.owned THEN Free(truth) ELSE Unknown
      /\ list.trial = IF ~included \/ (truth.owned /\ truth.trial # "running") THEN "none"
                      ELSE truth.trial
  BY DEF ListSays
<1>3. heldEntry # NotListed <=> included /\ (truth.owned \/ OnTrial(truth))
  BY AnswersAreTyped
<1>4. heldEntry # NotListed =>
        /\ heldEntry.active = UnlockedHere(truth)
        /\ heldEntry.trial = OnTrial(truth)
        /\ heldEntry.revoked = (truth.owned /\ truth.revoked)
        /\ heldEntry.ends = truth.ends
        /\ heldEntry.seats = IF OnTrial(truth) THEN Unknown ELSE Free(truth)
  BY DEF LicenseSays
<1> HIDE DEF RowsInv, AddOnRowsTypeOK
<1>5. SeatHere(truth) \/ truth.trial = "running" => truth.ends > today
  BY DEF RowsInv, StillRuns, SeatHere
<1>6. ActiveHere <=> IF included THEN UnlockedHere(truth) ELSE truth.owned
  <2>1. CASE included
    <3>1. UnlockedHere(truth) => truth.owned \/ OnTrial(truth)
      BY DEF UnlockedHere, SeatHere, OnTrial
    <3>2. UnlockedHere(truth) => truth.ends > today
      BY <1>5 DEF UnlockedHere
    <3> QED
      BY <1>1, <1>3, <1>4, <2>1, <3>1, <3>2 DEF ActiveHere, HasSubProduct
  <2>2. CASE ~included
    BY <1>2, <2>2 DEF ActiveHere
  <2> QED
    BY <2>1, <2>2
<1>7. ByTrial <=> included /\ ~SeatHere(truth) /\ truth.trial \in {"running", "ended"}
                  /\ (truth.owned => truth.trial = "running")
  BY <1>1, <1>2, <1>3, <1>4 DEF ByTrial, OnTrial, SeatHere
<1>8. EndsOn = IF included THEN truth.ends ELSE Never
  BY <1>2, <1>3, <1>4 DEF EndsOn
<1>9. truth.owned => ~Lapsed
  BY <1>1, <1>8, AddOnRowsAssumption DEF Lapsed, DaysUntil, RowsInv, StillRuns
<1>10. truth.trial = "running" => ~Lapsed
  BY <1>1, <1>5, <1>8 DEF Lapsed, DaysUntil
<1>11. WasRevoked = (included /\ truth.owned /\ truth.revoked)
  <2>1. (heldEntry # NotListed) = (included /\ (truth.owned \/ OnTrial(truth)))
    BY <1>1, <1>3
  <2> QED
    BY <1>1, <1>2, <1>3, <1>4, <2>1 DEF WasRevoked
<1>12. SeatsInUse => truth.seat # "free"
  BY <1>2, <1>3, <1>4 DEF SeatsInUse, HeldSeats, Free, Unknown
<1>13. TrialNow = "available" => truth.trial = "available" /\ ~truth.owned
  BY <1>1, <1>2, <1>3, <1>4 DEF TrialNow, TrialStates
<1>14. TrialNow = "ended" /\ ~truth.owned => truth.trial = "ended"
  BY <1>1, <1>2, <1>3, <1>4, <1>6, <1>10
     DEF TrialNow, TrialStates, OnTrial, UnlockedHere, SeatHere
<1> QED
  BY <1>1, <1>2, <1>6, <1>7, <1>9, <1>11, <1>12, <1>13, <1>14
     DEF UnlockedHere, SeatHere, TrialStates

LEMMA FreshIsTrue == RowsInv => FreshRowsTellTheTruth
<1> SUFFICES ASSUME RowsInv, list # NotListed, list = ListSays(truth),
                    heldEntry = LicenseSays(truth)
             PROVE  FreshRowsTellTheTruth
  BY DEF FreshRowsTellTheTruth
<1>1. truth.owned \in BOOLEAN /\ truth.revoked \in BOOLEAN
      /\ truth.seat \in {"free", "here", "elsewhere"} /\ included \in BOOLEAN
  BY DEF RowsInv, AddOnRowsTypeOK, Truths
<1> QED
  BY <1>1, RowsSay, FreshAnswers DEF FreshRowsTellTheTruth, SeatHere

\* For any number of days and whatever the customer, the merchant and other computers do:
\* an owned add-on with a free seat can be activated from its row, and a row made of fresh
\* answers is true (ActivationComponent.cpp, describe; types.hpp, has_sub_product).
THEOREM RowsHold ==
    AddOnRowsInit /\ [][AddOnRowsNext]_rowVars => [](RowsStrandNothing /\ FreshRowsTellTheTruth)
BY RowsInitially, RowsStep, NothingStranded, FreshIsTrue, PTL

-----------------------------------------------------------------------------
(* What a response means.                                                   *)

\* A response from anything but Moonbase is no verdict on the license (throw_for_problem,
\* ensure_token_response).
LEMMA ForeignIsNoVerdict == ForeignLaw
BY DEF ForeignLaw, Foreign, Responses, Statuses, Validate, AskAddOn, Revoke, Poll, Succeeded,
       TokenOf, ThrowForLicenseProblem, ThrowForProblem, ThrowForSubProductProblem,
       ThrowForPollProblem, Closed, Revoked

\* An add-on that can't be had is no verdict on the license (throw_for_sub_product_problem).
LEMMA AddOnsAreNoVerdict == AddOnLaw
BY DEF AddOnLaw, Responses, Statuses, ErrorTypes, ThrowForSubProductProblem, Closed, Revoked, Verdicts

\* Only Moonbase ends an activation request (throw_for_activation_poll_problem).
LEMMA PollsEndLawfully == PollLaw
BY DEF PollLaw, Poll, Responses, Statuses, Succeeded, TokenOf, ThrowForPollProblem,
       ThrowForProblem, Closed, Revoked, Verdicts

-----------------------------------------------------------------------------
(* A launch.                                                                *)

LEMMA OnlyGoodUnlock == UnlocksOnlyGood
<1> SUFFICES ASSUME NEW tok \in LaunchTokens, NEW setup \in Setups, NEW answer \in ServerSays,
                    NEW stored \in CopiesOf(tok),
                    Launch(tok, stored, answer, setup).unlocked
             PROVE  /\ Own(tok, setup) /\ ~tok.ended
                    /\ answer = "license" \/ \E c \in {tok, stored} :
                         /\ c.online => c.age <= setup.grace
                         /\ setup.enforced => c.covers
  BY DEF UnlocksOnlyGood
<1>1. /\ stored \in LaunchTokens /\ stored.online = tok.online
  BY DEF CopiesOf
<1>2. TokenCheck(tok, setup, TRUE) = "license"
  BY DEF Launch, LockedOnly
<1>3. Own(tok, setup)
  BY <1>2 DEF TokenCheck, Own, LaunchTokens
<1>4. CASE ~tok.online
  BY <1>2, <1>3, <1>4 DEF Launch, LockedOnly, Verdict, IfCovered
<1>5. CASE tok.online
  <2>1. Validated(tok, stored, answer, setup) = "license"
    BY <1>2, <1>5 DEF Launch, Verdict
  <2>2. ~tok.ended
    BY <2>1 DEF Validated, TokenCheck
  <2>3. PICK c \in {tok, stored} : c = FreshestOf(tok, stored, setup)
    BY DEF FreshestOf
  <2>4. answer = "license" \/ (c.age <= setup.grace /\ (setup.enforced => c.covers))
    BY <1>5, <2>1, <2>3 DEF Validated, Throttled, IfCovered, Verdicts
  <2> QED
    BY <1>3, <2>2, <2>4
<1> QED
  BY <1>4, <1>5

LEMMA OnlyDeadDeleted == DeletesOnlyDead
<1> SUFFICES ASSUME NEW tok \in LaunchTokens, NEW setup \in Setups, NEW answer \in ServerSays,
                    NEW stored \in CopiesOf(tok),
                    Launch(tok, stored, answer, setup).deletes
             PROVE  /\ Own(tok, setup)
                    /\ (tok.ended /\ ~tok.online) \/ (tok.online /\ answer = "revoked")
  BY DEF DeletesOnlyDead
<1>1. TokenCheck(tok, setup, TRUE) = "license"
  BY DEF Launch, LockedOnly
<1>2. Own(tok, setup)
  BY <1>1 DEF TokenCheck, Own, LaunchTokens
<1>3. CASE ~tok.online
  BY <1>1, <1>2, <1>3 DEF Launch, Verdict, IfCovered
<1>4. CASE tok.online
  <2>1. Validated(tok, stored, answer, setup) = "revoked"
    BY <1>1, <1>4 DEF Launch, Verdict
  <2> QED
    BY <1>2, <1>4, <2>1 DEF Validated, TokenCheck, IfCovered
<1> QED
  BY <1>3, <1>4

LEMMA GoodStaysUnlocked == KeepsGoodUnlocked
<1> SUFFICES ASSUME NEW tok \in LaunchTokens, NEW setup \in Setups, NEW answer \in ForeignSays,
                    Own(tok, setup), ~tok.ended, tok.age <= setup.grace, tok.covers
             PROVE  Launch(tok, tok, answer, setup).unlocked
  BY DEF KeepsGoodUnlocked
<1>1. answer = "api"
  BY ForeignIsNoVerdict DEF ForeignSays, ForeignLaw
<1>2. TokenCheck(tok, setup, TRUE) = "license" /\ TokenCheck(tok, setup, FALSE) = "license"
  BY DEF TokenCheck, Own, LaunchTokens
<1>3. FreshestOf(tok, tok, setup) = tok /\ IfCovered(tok, setup) = "license"
  BY DEF FreshestOf, IfCovered
<1>4. Validated(tok, tok, answer, setup) = "license" \/ ~tok.online
  BY <1>1, <1>2, <1>3 DEF Validated, Verdicts
<1> QED
  BY <1>2, <1>3, <1>4 DEF Launch, Verdict

\* A launch unlocks nothing but a good license, deletes nothing but a dead one, and lets
\* nobody but Moonbase lock a good one (validate_token_internal, validate_token_online, start).
THEOREM LaunchesAreLawful == LaunchLaw
BY OnlyGoodUnlock, OnlyDeadDeleted, GoodStaysUnlocked DEF LaunchLaw

-----------------------------------------------------------------------------
(* What the update screen offers.                                           *)

LEMMA ButtonsOffered ==
    ASSUME NEW c, NEW info, NEW sold \in BOOLEAN
    PROVE  LET offered == Buttons(c, info, sold)
           IN  /\ "download" \in offered <=> CanDownload(c, info)
               /\ "unlock" \in offered <=>
                    ~CanDownload(c, info) /\ info.covered /\ NeedsFullLicense(c, info)
               /\ "upgrade" \in offered <=> ~CanDownload(c, info) /\ ~info.covered /\ sold
               /\ offered \subseteq {"download", "unlock", "upgrade"}
               /\ Cardinality(offered) <= 1
<1> DEFINE offered == Buttons(c, info, sold)
<1>1. /\ "download" \in offered <=> CanDownload(c, info)
      /\ "unlock" \in offered <=>
           ~CanDownload(c, info) /\ info.covered /\ NeedsFullLicense(c, info)
      /\ "upgrade" \in offered <=> ~CanDownload(c, info) /\ ~info.covered /\ sold
      /\ offered \subseteq {"download", "unlock", "upgrade"}
  BY DEF Buttons
<1>2. offered \in {{}, {"download"}, {"unlock"}, {"upgrade"}}
  BY <1>1
<1> HIDE DEF offered
<1>3. Cardinality(offered) <= 1
  <2>1. CASE offered = {}
    BY <2>1, FS_EmptySet
  <2>2. ASSUME NEW b, offered = {b} PROVE Cardinality(offered) <= 1
    <3>1. Cardinality({b}) = 1
      BY FS_Singleton
    <3> QED
      BY <2>2, <3>1
  <2> QED
    BY <1>2, <2>1, <2>2
<1> QED
  BY <1>1, <1>3 DEF offered

\* The update screen's button leads to a download that Moonbase allows (can_download,
\* download_needs_full_license).
LEMMA OffersLead == OffersLeadOn
<1> SUFFICES ASSUME NEW c \in Customers, NEW r \in Rules, NEW says \in BOOLEAN, NEW sold \in BOOLEAN
             PROVE  LET info  == Answer(r, c, says)
                        known == says \/ ~r.needGroup
                        offered == Buttons(c, info, sold)
                    IN  /\ Cardinality(offered) <= 1 /\ NoButton(c, info, sold) = (offered = {})
                        /\ known /\ "download" \in offered => Allows(r, c)
                        /\ known /\ "unlock" \in offered => Allows(r, WithFullLicense(c))
                        /\ says /\ Allows(r, c) => "download" \in offered
                        /\ ~says /\ Allows(r, c) /\ (c.owns => ~c.trial) => "download" \in offered
                        /\ (Note(c, info) \in {"with a full license", "sign in"}) = ("unlock" \in offered)
  BY DEF OffersLeadOn
<1> DEFINE info  == Answer(r, c, says)
           known == says \/ ~r.needGroup
           offered == Buttons(c, info, sold)
<1>1. /\ c.trial \in BOOLEAN /\ c.signedIn \in BOOLEAN /\ c.owns \in BOOLEAN /\ c.inGroup \in BOOLEAN
      /\ ~c.trial => c.owns
      /\ c.owns \/ c.inGroup => c.signedIn
      /\ r.needUser \in BOOLEAN /\ r.needOwnership \in BOOLEAN /\ r.needGroup \in BOOLEAN
      /\ r.covered \in BOOLEAN
  BY DEF Customers, Rules
<1>2. /\ info.needUser = r.needUser /\ info.needOwnership = r.needOwnership
      /\ info.needGroup = (says /\ r.needGroup) /\ info.covered = r.covered
      /\ info.allowed = IF says THEN IF Allows(r, c) THEN "yes" ELSE "no" ELSE "unsaid"
  BY DEF Answer
<1>3. /\ "download" \in offered <=> CanDownload(c, info)
      /\ "unlock" \in offered <=>
           ~CanDownload(c, info) /\ info.covered /\ NeedsFullLicense(c, info)
      /\ "upgrade" \in offered <=> ~CanDownload(c, info) /\ ~info.covered /\ sold
      /\ offered \subseteq {"download", "unlock", "upgrade"}
      /\ Cardinality(offered) <= 1
  BY ButtonsOffered
<1> HIDE DEF info, offered
<1>4. offered = {} <=> "download" \notin offered /\ "unlock" \notin offered /\ "upgrade" \notin offered
  BY <1>3
<1>5. NoButton(c, info, sold) <=> offered = {}
  BY <1>1, <1>2, <1>3, <1>4 DEF NoButton, NeedsFullLicense
<1>6. NoButton(c, info, sold) = (offered = {})
  <2>1. NoButton(c, info, sold) \in BOOLEAN /\ (offered = {}) \in BOOLEAN
    BY <1>1, <1>2 DEF NoButton
  <2> QED
    BY <1>5, <2>1
<1>7. known /\ "download" \in offered => Allows(r, c)
  BY <1>1, <1>2, <1>3 DEF CanDownload, Allows
<1>8. known /\ "unlock" \in offered => Allows(r, WithFullLicense(c))
  <2>1. /\ WithFullLicense(c).signedIn /\ WithFullLicense(c).owns
        /\ WithFullLicense(c).inGroup = c.inGroup
    BY DEF WithFullLicense, Customers
  <2> QED
    BY <1>1, <1>2, <1>3, <2>1 DEF NeedsFullLicense, Allows
<1>9. says /\ Allows(r, c) => "download" \in offered
  BY <1>1, <1>2, <1>3 DEF CanDownload, Allows
<1>10. ~says /\ Allows(r, c) /\ (c.owns => ~c.trial) => "download" \in offered
  BY <1>1, <1>2, <1>3 DEF CanDownload, Allows
<1>11. Note(c, info) \in {"with a full license", "sign in"} <=> "unlock" \in offered
  BY <1>1, <1>2, <1>3 DEF Note, NeedsFullLicense
<1>12. (Note(c, info) \in {"with a full license", "sign in"}) = ("unlock" \in offered)
  <2>1. /\ (Note(c, info) \in {"with a full license", "sign in"}) \in BOOLEAN
        /\ ("unlock" \in offered) \in BOOLEAN
    OBVIOUS
  <2> QED
    BY <1>11, <2>1
<1> QED
  BY <1>3, <1>6, <1>7, <1>8, <1>9, <1>10, <1>12 DEF info, offered

-----------------------------------------------------------------------------
(* Which version is newer.                                                  *)

\* A set of naturals has a least member.
LEMMA LeastExists ==
    ASSUME NEW S, S \subseteq Nat, S # {}
    PROVE  \E i \in S : \A j \in S : i <= j
<1> DEFINE R == OpToRel(<, Nat)
<1>1. IsWellFoundedOn(R, Nat)
  BY NatLessThanWellFounded
<1>2. \A x, y \in Nat : y < x => <<y, x>> \in R
  BY DEF OpToRel
<1> HIDE DEF R
<1>3. PICK x \in S : \A y \in S : <<y, x>> \notin R
  BY <1>1, WFMin
<1>4. ASSUME NEW j \in S PROVE x <= j
  <2>1. x \in Nat /\ j \in Nat
    BY <1>3, <1>4
  <2>2. ~(j < x)
    BY <1>2, <1>3, <2>1
  <2> QED
    BY <2>1, <2>2
<1> QED
  BY <1>4

LEMMA SignOrders ==
    \A a, b, c \in Nat :
        /\ Sign(a, b) \in {-1, 0, 1} /\ Sign(a, b) = -Sign(b, a)
        /\ Sign(a, b) = 0 <=> a = b
        /\ Sign(a, b) < 0 <=> a < b
BY DEF Sign

LEMMA IdentifiersOrdered ==
    \A x, y, z \in Identifiers :
        /\ CompareIdentifier(x, y) \in {-1, 0, 1}
        /\ CompareIdentifier(x, y) = -CompareIdentifier(y, x)
        /\ CompareIdentifier(x, y) = 0 <=> x = y
        /\ CompareIdentifier(x, y) < 0 /\ CompareIdentifier(y, z) < 0
             => CompareIdentifier(x, z) < 0
BY DEF CompareIdentifier, Sign, Identifiers

\* The three numbers decide as an order, and if they don't they are the same.
LEMMA CoresOrdered ==
    \A a, b, c \in [1 .. 3 -> Nat] :
        /\ CompareCore(a, b) \in {-1, 0, 1}
        /\ CompareCore(a, b) = -CompareCore(b, a)
        /\ CompareCore(a, b) = 0 <=> a = b
        /\ CompareCore(a, b) < 0 /\ CompareCore(b, c) < 0 => CompareCore(a, c) < 0
<1> SUFFICES ASSUME NEW a \in [1 .. 3 -> Nat], NEW b \in [1 .. 3 -> Nat],
                    NEW c \in [1 .. 3 -> Nat]
             PROVE  /\ CompareCore(a, b) \in {-1, 0, 1}
                    /\ CompareCore(a, b) = -CompareCore(b, a)
                    /\ CompareCore(a, b) = 0 <=> a = b
                    /\ CompareCore(a, b) < 0 /\ CompareCore(b, c) < 0 => CompareCore(a, c) < 0
  OBVIOUS
<1>1. /\ a[1] \in Nat /\ a[2] \in Nat /\ a[3] \in Nat
      /\ b[1] \in Nat /\ b[2] \in Nat /\ b[3] \in Nat
      /\ c[1] \in Nat /\ c[2] \in Nat /\ c[3] \in Nat
  OBVIOUS
<1>2. a = b <=> a[1] = b[1] /\ a[2] = b[2] /\ a[3] = b[3]
  <2>1. ASSUME a[1] = b[1], a[2] = b[2], a[3] = b[3] PROVE a = b
    <3>1. \A i \in 1 .. 3 : i = 1 \/ i = 2 \/ i = 3
      OBVIOUS
    <3>2. \A i \in 1 .. 3 : a[i] = b[i]
      BY <2>1, <3>1
    <3> QED
      BY <3>2
  <2> QED
    BY <2>1
<1> QED
  BY <1>1, <1>2 DEF CompareCore, Sign

-----------------------------------------------------------------------------
(* Pre-releases: the first identifier that differs decides.                 *)

Decides(p, q, k) ==
    /\ k \in 1 .. Len(p) /\ k \in 1 .. Len(q)
    /\ \A i \in 1 .. (k - 1) : p[i] = q[i]
    /\ p[k] # q[k]

Pres == Seq(Identifiers) \ {<< >>}

LEMMA PresAreSequences ==
    ASSUME NEW p \in Pres
    PROVE  /\ p \in Seq(Identifiers) /\ Len(p) \in Nat /\ Len(p) > 0 /\ p # << >>
           /\ DOMAIN p = 1 .. Len(p) /\ \A i \in 1 .. Len(p) : p[i] \in Identifiers
BY DEF Pres

LEMMA DecidedThere ==
    ASSUME NEW p \in Pres, NEW q \in Pres, NEW k, Decides(p, q, k)
    PROVE  ComparePre(p, q) = CompareIdentifier(p[k], q[k])
<1> DEFINE shared == {i \in DOMAIN p : i \in DOMAIN q}
           differ == {i \in shared : CompareIdentifier(p[i], q[i]) # 0}
           first  == CHOOSE i \in differ : \A j \in differ : i <= j
<1>1. k \in differ
  BY PresAreSequences, IdentifiersOrdered DEF Decides
<1>2. \A i \in differ : i \in Nat /\ p[i] # q[i] /\ i >= 1
  BY PresAreSequences, IdentifiersOrdered
<1>3. \A i \in differ : k <= i
  BY <1>2, PresAreSequences DEF Decides
<1>4. k \in Nat
  BY PresAreSequences DEF Decides
<1> HIDE DEF differ
<1>5. first \in differ /\ \A j \in differ : first <= j
  BY <1>1, <1>3
<1>6. ComparePre(p, q) = CompareIdentifier(p[first], q[first])
  BY <1>1, PresAreSequences DEF ComparePre, differ
<1> HIDE DEF first
<1>7. first = k
  BY <1>1, <1>2, <1>3, <1>4, <1>5
<1> QED
  BY <1>6, <1>7

LEMMA DecidedByLength ==
    ASSUME NEW p \in Pres, NEW q \in Pres, \A k : ~Decides(p, q, k)
    PROVE  /\ \A i \in 1 .. Len(p) : i <= Len(q) => p[i] = q[i]
           /\ ComparePre(p, q) = Sign(Len(p), Len(q))
<1> DEFINE odd == {i \in 1 .. Len(p) : i <= Len(q) /\ p[i] # q[i]}
<1>1. odd = {}
  <2>1. SUFFICES ASSUME odd # {} PROVE FALSE
    OBVIOUS
  <2>2. odd \subseteq Nat
    BY PresAreSequences
  <2>3. PICK k \in odd : \A j \in odd : k <= j
    BY <2>1, <2>2, LeastExists
  <2>4. Decides(p, q, k)
    BY <2>3, PresAreSequences DEF Decides
  <2> QED
    BY <2>4
<1>2. \A i \in 1 .. Len(p) : i <= Len(q) => p[i] = q[i]
  BY <1>1
<1>3. {i \in {i \in DOMAIN p : i \in DOMAIN q} : CompareIdentifier(p[i], q[i]) # 0} = {}
  BY <1>2, PresAreSequences, IdentifiersOrdered
<1>4. ComparePre(p, q) = Sign(Len(p), Len(q))
  BY <1>3, PresAreSequences DEF ComparePre
<1> QED
  BY <1>2, <1>4

\* With an empty one, the release itself, the longer loses.
LEMMA ReleaseOutranks ==
    ASSUME NEW p \in Seq(Identifiers), NEW q \in Seq(Identifiers), p = << >> \/ q = << >>
    PROVE  ComparePre(p, q) = Sign(Len(q), Len(p))
BY DEF ComparePre

LEMMA PresAntisymmetric ==
    ASSUME NEW p \in Seq(Identifiers), NEW q \in Seq(Identifiers)
    PROVE  /\ ComparePre(p, q) = -ComparePre(q, p)
           /\ ComparePre(p, q) \in {-1, 0, 1}
           /\ ComparePre(p, q) = 0 <=> p = q
<1>1. Len(p) \in Nat /\ Len(q) \in Nat
  OBVIOUS
<1>2. CASE p = << >> \/ q = << >>
  <2>1. ComparePre(p, q) = Sign(Len(q), Len(p)) /\ ComparePre(q, p) = Sign(Len(p), Len(q))
    BY <1>2, ReleaseOutranks
  <2>2. p = q <=> Len(p) = Len(q)
    BY <1>2
  <2> QED
    BY <1>1, <2>1, <2>2, SignOrders
<1>3. CASE p \in Pres /\ q \in Pres
  <2>1. CASE \E k : Decides(p, q, k)
    <3>1. PICK k : Decides(p, q, k)
      BY <2>1
    <3>2. Decides(q, p, k)
      BY <3>1 DEF Decides
    <3>3. /\ ComparePre(p, q) = CompareIdentifier(p[k], q[k])
          /\ ComparePre(q, p) = CompareIdentifier(q[k], p[k])
      BY <1>3, <3>1, <3>2, DecidedThere
    <3>4. p[k] \in Identifiers /\ q[k] \in Identifiers /\ p[k] # q[k]
      BY <1>3, <3>1, PresAreSequences DEF Decides
    <3> QED
      BY <3>3, <3>4, IdentifiersOrdered
  <2>2. CASE \A k : ~Decides(p, q, k)
    <3>1. \A k : ~Decides(q, p, k)
      BY <2>2 DEF Decides
    <3>2. /\ ComparePre(p, q) = Sign(Len(p), Len(q)) /\ ComparePre(q, p) = Sign(Len(q), Len(p))
          /\ \A i \in 1 .. Len(p) : i <= Len(q) => p[i] = q[i]
      BY <1>3, <2>2, <3>1, DecidedByLength
    <3>3. Len(p) = Len(q) => p = q
      BY <3>2
    <3> QED
      BY <1>1, <3>2, <3>3, SignOrders
  <2> QED
    BY <2>1, <2>2
<1> QED
  BY <1>2, <1>3 DEF Pres

LEMMA PresTransitive ==
    ASSUME NEW a \in Seq(Identifiers), NEW b \in Seq(Identifiers), NEW c \in Seq(Identifiers),
           ComparePre(a, b) < 0, ComparePre(b, c) < 0
    PROVE  ComparePre(a, c) < 0
<1>1. Len(a) \in Nat /\ Len(b) \in Nat /\ Len(c) \in Nat
  OBVIOUS
<1>2. a # << >> /\ b # << >>
  BY <1>1, ReleaseOutranks, SignOrders
<1>3. CASE c = << >>
  <2>1. Len(c) = 0 /\ Len(a) > 0
    BY <1>1, <1>2, <1>3
  <2>2. ComparePre(a, c) = Sign(Len(c), Len(a))
    BY <1>3, ReleaseOutranks
  <2> QED
    BY <1>1, <2>1, <2>2 DEF Sign
<1>4. CASE c # << >>
  <2>1. a \in Pres /\ b \in Pres /\ c \in Pres
    BY <1>2, <1>4 DEF Pres
  <2>2. \A i : /\ i \in 1 .. Len(a) => a[i] \in Identifiers
               /\ i \in 1 .. Len(b) => b[i] \in Identifiers
               /\ i \in 1 .. Len(c) => c[i] \in Identifiers
    BY <2>1, PresAreSequences
  <2>3. ASSUME NEW k, Decides(a, b, k), NEW l, Decides(b, c, l) PROVE ComparePre(a, c) < 0
    <3>1. CompareIdentifier(a[k], b[k]) < 0 /\ CompareIdentifier(b[l], c[l]) < 0
      BY <2>1, <2>3, DecidedThere
    <3>2. k \in Nat /\ l \in Nat
      BY <1>1, <2>3 DEF Decides
    <3>3. CASE k < l
      <4>1. Decides(a, c, k) /\ c[k] = b[k]
        BY <1>1, <2>3, <3>2, <3>3 DEF Decides
      <4> QED
        BY <2>1, <3>1, <4>1, DecidedThere
    <3>4. CASE l < k
      <4>1. Decides(a, c, l) /\ a[l] = b[l]
        BY <1>1, <2>3, <3>2, <3>4 DEF Decides
      <4> QED
        BY <2>1, <3>1, <4>1, DecidedThere
    <3>5. CASE k = l
      <4>1. CompareIdentifier(a[k], c[k]) < 0
        BY <2>2, <2>3, <3>1, <3>5, IdentifiersOrdered DEF Decides
      <4>2. a[k] # c[k]
        BY <2>2, <2>3, <3>5, <4>1, IdentifiersOrdered DEF Decides
      <4>3. Decides(a, c, k)
        BY <1>1, <2>3, <3>2, <3>5, <4>2 DEF Decides
      <4> QED
        BY <2>1, <4>1, <4>3, DecidedThere
    <3> QED
      BY <3>2, <3>3, <3>4, <3>5
  <2>4. ASSUME NEW k, Decides(a, b, k), \A l : ~Decides(b, c, l) PROVE ComparePre(a, c) < 0
    <3>1. CompareIdentifier(a[k], b[k]) < 0 /\ k \in Nat
      BY <1>1, <2>1, <2>4, DecidedThere DEF Decides
    <3>2. /\ \A i \in 1 .. Len(b) : i <= Len(c) => b[i] = c[i]
          /\ Len(b) < Len(c)
      BY <1>1, <2>1, <2>4, DecidedByLength, SignOrders
    <3>3. Decides(a, c, k) /\ c[k] = b[k]
      BY <1>1, <2>4, <3>1, <3>2 DEF Decides
    <3> QED
      BY <2>1, <3>1, <3>3, DecidedThere
  <2>5. ASSUME \A k : ~Decides(a, b, k) PROVE ComparePre(a, c) < 0
    <3>1. /\ \A i \in 1 .. Len(a) : i <= Len(b) => a[i] = b[i]
          /\ Len(a) < Len(b)
      BY <1>1, <2>1, <2>5, DecidedByLength, SignOrders
    <3>2. ASSUME NEW l, Decides(b, c, l), l <= Len(a) PROVE ComparePre(a, c) < 0
      <4>1. Decides(a, c, l) /\ a[l] = b[l]
        BY <1>1, <3>1, <3>2 DEF Decides
      <4>2. CompareIdentifier(b[l], c[l]) < 0
        BY <2>1, <3>2, DecidedThere
      <4> QED
        BY <2>1, <4>1, <4>2, DecidedThere
    <3>3. ASSUME \A l : Decides(b, c, l) => l > Len(a) PROVE ComparePre(a, c) < 0
      <4>1. Len(a) < Len(c) /\ \A i \in 1 .. Len(a) : b[i] = c[i]
        <5>1. CASE \E l : Decides(b, c, l)
          BY <1>1, <3>3, <5>1 DEF Decides
        <5>2. CASE \A l : ~Decides(b, c, l)
          <6>1. /\ \A i \in 1 .. Len(b) : i <= Len(c) => b[i] = c[i]
                /\ Len(b) < Len(c)
            BY <1>1, <2>1, <5>2, DecidedByLength, SignOrders
          <6> QED
            BY <1>1, <3>1, <6>1
        <5> QED
          BY <5>1, <5>2
      <4>2. \A k : ~Decides(a, c, k)
        BY <1>1, <3>1, <4>1 DEF Decides
      <4> QED
        BY <1>1, <2>1, <4>1, <4>2, DecidedByLength, SignOrders
    <3>4. \A l : Decides(b, c, l) => l \in Nat
      BY <1>1 DEF Decides
    <3> QED
      BY <1>1, <3>2, <3>3, <3>4
  <2> QED
    BY <2>3, <2>4, <2>5
<1> QED
  BY <1>3, <1>4

-----------------------------------------------------------------------------
(* Versions.                                                                *)

\* Both readers give a version of three numbers, or none.
LEMMA ReadersGive ==
    ASSUME NEW text \in AllTexts
    PROVE  /\ ParseSemver(text) \in Semvers \cup {Unreadable}
           /\ ParseAppVersion(text) \in Semvers \cup {Unreadable}
           /\ ParseAppVersion(text) # Unreadable => ParseAppVersion(text).pre = << >>
<1>1. text.parts \in Seq(Nat \cup {NotANumber}) /\ text.pre \in Seq(Identifiers)
  BY DEF AllTexts
<1>2. ASSUME \A i \in DOMAIN text.parts : text.parts[i] # NotANumber
      PROVE  Core(text.parts) \in [1 .. 3 -> Nat]
  <2>1. \A i \in 1 .. 3 : i <= Len(text.parts) => text.parts[i] \in Nat
    BY <1>1, <1>2
  <2> QED
    BY <2>1 DEF Core
<1>3. ParseSemver(text) \in Semvers \cup {Unreadable}
  BY <1>1, <1>2 DEF ParseSemver, Numbers, Semvers
<1>4. << >> \in Seq(Identifiers)
  OBVIOUS
<1>5. ParseAppVersion(text) \in Semvers \cup {Unreadable}
  BY <1>1, <1>2, <1>4 DEF ParseAppVersion, Numbers, Semvers
<1>6. ParseAppVersion(text) # Unreadable => ParseAppVersion(text).pre = << >>
  BY DEF ParseAppVersion
<1> QED
  BY <1>3, <1>5, <1>6

LEMMA SemversOrdered ==
    ASSUME NEW a \in Semvers, NEW b \in Semvers, NEW c \in Semvers
    PROVE  /\ Compare(a, b) \in {-1, 0, 1}
           /\ Compare(a, b) = -Compare(b, a)
           /\ Compare(a, b) = 0 <=> a = b
           /\ Compare(a, b) < 0 /\ Compare(b, c) < 0 => Compare(a, c) < 0
<1>1. /\ a.core \in [1 .. 3 -> Nat] /\ a.pre \in Seq(Identifiers)
      /\ b.core \in [1 .. 3 -> Nat] /\ b.pre \in Seq(Identifiers)
      /\ c.core \in [1 .. 3 -> Nat] /\ c.pre \in Seq(Identifiers)
  BY DEF Semvers
<1>2. a = b <=> a.core = b.core /\ a.pre = b.pre
  <2>1. ASSUME a.core = b.core, a.pre = b.pre PROVE a = b
    BY <2>1 DEF Semvers
  <2> QED
    BY <2>1
<1>3. ASSUME NEW x \in Semvers, NEW y \in Semvers
       PROVE  Compare(x, y) = IF x.core # y.core THEN CompareCore(x.core, y.core)
                              ELSE ComparePre(x.pre, y.pre)
  <2>1. x.core \in [1 .. 3 -> Nat] /\ y.core \in [1 .. 3 -> Nat]
    BY DEF Semvers
  <2>2. CompareCore(x.core, y.core) = 0 <=> x.core = y.core
    BY <2>1, CoresOrdered
  <2> QED
    BY <2>2 DEF Compare
<1>4. /\ Compare(a, b) = IF a.core # b.core THEN CompareCore(a.core, b.core)
                         ELSE ComparePre(a.pre, b.pre)
      /\ Compare(b, a) = IF a.core # b.core THEN CompareCore(b.core, a.core)
                         ELSE ComparePre(b.pre, a.pre)
      /\ Compare(b, c) = IF b.core # c.core THEN CompareCore(b.core, c.core)
                         ELSE ComparePre(b.pre, c.pre)
      /\ Compare(a, c) = IF a.core # c.core THEN CompareCore(a.core, c.core)
                         ELSE ComparePre(a.pre, c.pre)
  BY <1>3
<1>5. /\ CompareCore(a.core, b.core) \in {-1, 0, 1}
      /\ CompareCore(a.core, b.core) = -CompareCore(b.core, a.core)
      /\ CompareCore(a.core, b.core) = 0 <=> a.core = b.core
  BY <1>1, CoresOrdered
<1>6. /\ ComparePre(a.pre, b.pre) \in {-1, 0, 1}
      /\ ComparePre(a.pre, b.pre) = -ComparePre(b.pre, a.pre)
      /\ ComparePre(a.pre, b.pre) = 0 <=> a.pre = b.pre
  BY <1>1, PresAntisymmetric
<1>7. ASSUME Compare(a, b) < 0, Compare(b, c) < 0 PROVE Compare(a, c) < 0
  <2>1. CASE a.core # b.core /\ b.core # c.core
    <3>1. CompareCore(a.core, c.core) < 0
      BY <1>1, <1>4, <1>7, <2>1, CoresOrdered
    <3>2. a.core # c.core
      BY <1>1, <3>1, CoresOrdered
    <3> QED
      BY <1>4, <3>1, <3>2
  <2>2. CASE a.core = b.core /\ b.core = c.core
    BY <1>1, <1>4, <1>7, <2>2, PresTransitive
  <2>3. CASE (a.core = b.core) # (b.core = c.core)
    BY <1>4, <1>7, <2>3
  <2> QED
    BY <2>1, <2>2, <2>3
<1> QED
  BY <1>2, <1>4, <1>5, <1>6, <1>7

\* Versions of any length are in one order, whichever are compared (version.hpp, compare).
LEMMA VersionsOrdered == Ordered
<1> DEFINE readings == {ParseSemver(t) : t \in Texts} \ {Unreadable}
<1>1. readings \subseteq Semvers
  BY ReadersGive, VersionsAssumption
<1> HIDE DEF readings
<1>2. \A a, b \in readings :
         /\ Compare(a, b) = -Compare(b, a)
         /\ Compare(a, b) = 0 => a = b
         /\ \A c \in readings : Compare(a, b) < 0 /\ Compare(b, c) < 0 => Compare(a, c) < 0
  BY <1>1, SemversOrdered
<1> QED
  BY <1>2 DEF Ordered, readings

\* What is at most another is at most what that one is at most.
LEMMA NotNewerTransitive ==
    ASSUME NEW a \in Semvers, NEW b \in Semvers, NEW c \in Semvers,
           Compare(a, b) <= 0, Compare(b, c) <= 0
    PROVE  Compare(a, c) <= 0
<1>1. /\ Compare(a, b) \in {-1, 0, 1} /\ Compare(b, c) \in {-1, 0, 1}
      /\ Compare(a, c) \in {-1, 0, 1}
      /\ Compare(a, b) = 0 => a = b
      /\ Compare(b, c) = 0 => b = c
      /\ Compare(a, b) < 0 /\ Compare(b, c) < 0 => Compare(a, c) < 0
  BY SemversOrdered
<1> QED
  BY <1>1

\* What a license covers, it covers with every earlier version and at every earlier time
\* (release_access.hpp, covers_version).
THEOREM CoveredBefore ==
    ASSUME NEW access \in Accesses, NEW v \in Texts, NEW w \in Texts,
           NEW then \in Nat, NEW before \in Nat,
           ParseAppVersion(v) # Unreadable, ParseAppVersion(w) # Unreadable,
           before <= then, Compare(ParseAppVersion(v), ParseAppVersion(w)) <= 0,
           Covers(access, w, then)
    PROVE  Covers(access, v, before)
<1> DEFINE older == ParseAppVersion(v)
           newer == ParseAppVersion(w)
           last  == UpTo(access)
<1>1. older \in Semvers /\ newer \in Semvers
  BY ReadersGive, VersionsAssumption
<1>2. /\ access.until \in Times /\ access.upToMajor \in Times
      /\ access.upToVersion \in AllTexts \cup {Unreadable}
  BY VersionsAssumption DEF AllAccesses
<1>3. last \in Semvers \cup {Unreadable}
  BY <1>2, ReadersGive DEF UpTo
<1>4. /\ older.core \in [1 .. 3 -> Nat] /\ newer.core \in [1 .. 3 -> Nat]
      /\ older.core[1] \in Nat /\ newer.core[1] \in Nat
  BY <1>1 DEF Semvers
<1>5. CompareCore(older.core, newer.core) \in {-1, 0, 1} /\ CompareCore(older.core, newer.core) <= 0
  BY <1>4, CoresOrdered DEF Compare
<1>6. older.core[1] <= newer.core[1]
  BY <1>4, <1>5 DEF CompareCore, Sign
<1>7. last # Unreadable /\ Compare(newer, last) <= 0 => Compare(older, last) <= 0
  BY <1>1, <1>3, NotNewerTransitive
<1> HIDE DEF older, newer, last
<1>8. CASE access.until = -1 /\ access.upToMajor = -1
  BY <1>8 DEF Covers
<1>9. CASE access.upToMajor # -1 /\ newer.core[1] <= access.upToMajor
  <2>1. older.core[1] <= access.upToMajor
    BY <1>2, <1>4, <1>6, <1>9 DEF Times
  <2> QED
    BY <1>9, <2>1 DEF Covers, older
<1>10. CASE /\ access.until # -1
            /\ then <= access.until \/ last = Unreadable \/ Compare(newer, last) <= 0
  <2>1. then <= access.until => before <= access.until
    BY <1>2 DEF Times
  <2>2. before <= access.until \/ last = Unreadable \/ Compare(older, last) <= 0
    BY <1>7, <1>10, <2>1
  <2> QED
    BY <1>10, <2>2 DEF Covers, older, last
<1>11. newer # Unreadable
  BY DEF newer
<1> QED
  BY <1>8, <1>9, <1>10, <1>11 DEF Covers, newer, last

LEMMA CoverageLastsAlways == CoverageLasts
<1>1. \A t \in 0 .. 2 : t \in Nat
  OBVIOUS
<1> QED
  BY <1>1, CoveredBefore DEF CoverageLasts

-----------------------------------------------------------------------------
(* Side by side: a behaviour of MCFlows moves one of the parts and leaves   *)
(* the others alone, so each of them sees a step of its own or none.        *)

LEMMA PartsBegin ==
    ASSUME Init
    PROVE  /\ AddOnsInit /\ UpdateInit /\ DevicesInit /\ DismissalsInit /\ OverlayInit
           /\ ViewsInit /\ LinkCopyInit /\ AddOnRowsInit /\ CountdownsInit /\ NewsInit
BY DEF Init

LEMMA PartsStep ==
    ASSUME [Next]_flowVars
    PROVE  /\ [AddOnsNext]_addOnVars /\ [UpdateNext]_updateVars /\ [DevicesNext]_deviceVars
           /\ [DismissalsNext]_dismissalVars /\ [NewsNext]_newsVars
           /\ [OverlayNext]_overlayVars /\ [ViewsNext]_viewVars /\ [LinkCopyNext]_linkVars
           /\ [AddOnRowsNext]_rowVars /\ [CountdownsNext]_countdownVars
BY DEF Next, ShownNext, flowVars, shownVars

FlowsInv ==
    /\ IInv /\ UpdateInv /\ DevicesInv /\ DismissalInv /\ OverlayInv /\ NewsInv
    /\ ViewsInv /\ NoteInv /\ RowsInv /\ CountInv

LEMMA FlowsInitially == Init => FlowsInv
BY PartsBegin, InitGives, UpdateInitially, DevicesInitially, DismissalsInitially,
   OverlayInitially, NewsInitially, ViewsInitially, NoteInitially, RowsInitially,
   CountInitially DEF FlowsInv

LEMMA FlowsStep == FlowsInv /\ [Next]_flowVars => FlowsInv'
<1> SUFFICES ASSUME FlowsInv, [Next]_flowVars PROVE FlowsInv'
  OBVIOUS
<1>1. IInv'
  BY PartsStep, NextKeeps DEF FlowsInv, StepKeepsWord
<1>2. UpdateInv' /\ DismissalInv'
  BY PartsStep, UpdateNextKeeps, DismissalsStep DEF FlowsInv
<1>3. ViewsInv' /\ NoteInv'
  BY PartsStep, ViewsStep, NoteInvStep DEF FlowsInv
<1>4. RowsInv' /\ CountInv'
  BY PartsStep, RowsStep, CountStep DEF FlowsInv
<1>5. DevicesInv' /\ OverlayInv' /\ NewsInv'
  BY PartsStep, DevicesStep, OverlayStep, NewsStep DEF FlowsInv
<1> QED
  BY <1>1, <1>2, <1>3, <1>4, <1>5 DEF FlowsInv

\* The invariants of the parts, at once.
THEOREM FlowsInvariant == Spec => []FlowsInv
BY FlowsInitially, FlowsStep, PTL DEF Spec

\* Whatever spins has an answer on its way that ends it, of the add-ons and of the update
\* screen alike (listAddOns, refreshAndListAddOns, fetchUpdateInfo, startUpdateDownload).
THEOREM EverySpinnerIsAnswered == Spec => []WaitingHasAnEnd
<1>1. FlowsInv => WaitingHasAnEnd
  BY DEF FlowsInv, WaitingHasAnEnd, UpdateInv, IInv, SpinnersEnd, AddOnsOK, StateOK, MessagesOK,
         SetUpEnds, ListEnds
<1> QED
  BY <1>1, FlowsInvariant, PTL

\* The panel is the screen's, nothing turns out of sight, and the note on a copied link is
\* true (ActivationComponent.cpp, syncViews, updateTicking, copyBrowserLink).
THEOREM PanelAlwaysTrue == Spec => []PanelIsTrue
<1>1. FlowsInv => PanelIsTrue
  BY ScreensViewOnly, HiddenIsIdle, NoteShows DEF FlowsInv, PanelIsTrue, NoteInv, NoteIsTrue
<1> QED
  BY <1>1, FlowsInvariant, PTL

\* A row and a count of days offer what can be done (describe, checkCountdowns).
THEOREM OffersAlwaysHold == Spec => []OffersHold
<1>1. FlowsInv => OffersHold
  BY NothingStranded, FreshIsTrue DEF FlowsInv, OffersHold, CountInv
<1> QED
  BY <1>1, FlowsInvariant, PTL

\* The rules hold for versions of any length, licenses with any limits, any response and
\* any offer, whatever the flows do (version.hpp, release_access.hpp, client.hpp,
\* inventory.hpp).
THEOREM RulesAlwaysHold == Spec => []RulesHold
<1>1. RulesHold
  BY VersionsOrdered, CoverageLastsAlways, ForeignIsNoVerdict, AddOnsAreNoVerdict,
     PollsEndLawfully, OffersLead DEF RulesHold
<1> QED
  BY <1>1, PTL

\* Launches are lawful, whatever the flows do (validate_token_internal, start).
THEOREM LaunchesStayLawful == Spec => []UnlockedLawfully
<1>1. UnlockedLawfully
  BY LaunchesAreLawful DEF UnlockedLawfully
<1> QED
  BY <1>1, PTL

\* What the user did is remembered: the skipped update, the purchase under way and the link
\* that was copied (ignoreUpdate, checkPurchaseReturn, copyBrowserLink).
THEOREM NothingIsEverForgotten == Spec => NothingIsForgotten
<1>1. FlowsInv /\ [Next]_flowVars =>
        [\A v \in saved \ saved' :
            \E i \in Plugins : skipping[i] # 0 /\ skipping'[i] = 0 /\ v \in missed[i]]_dismissalVars
  BY PartsStep, OnlyMissedAreLost DEF FlowsInv
<1>2. FlowsInv /\ [Next]_flowVars =>
        [purchase # "none" /\ purchase' = "none" =>
           \/ purchase = "old" \/ license' # license
           \/ phase' = "Loading" /\ Len(jobs') > Len(jobs)]_addOnVars
  BY PartsStep, NextKeeps DEF FlowsInv, StepKeepsWord
<1>3. FlowsInv /\ [Next]_flowVars
        => [note.copied /\ ~note'.copied => copyToken \notin due' \/ pending # copiedLink]_linkVars
  BY PartsStep, NoteStandsStep DEF FlowsInv
<1>4. Spec => OnlyOverlapLosesDismissals
  BY <1>1, FlowsInvariant, PTL DEF Spec, OnlyOverlapLosesDismissals
<1>5. Spec => PurchaseFollowedUp
  BY <1>2, FlowsInvariant, PTL DEF Spec, PurchaseFollowedUp
<1>6. Spec => NoteStands
  BY <1>3, FlowsInvariant, PTL DEF Spec, NoteStands
<1> QED
  BY <1>4, <1>5, <1>6 DEF NothingIsForgotten

\* What is proved of the other parts' own behaviours holds beside the others too: whom an
\* answer about add-ons is for and the order it comes in, one verdict of the device's id, a
\* lock that is covered, a host that knows, and a screen that was asked for.
THEOREM PartsKeepTheirWord ==
    Spec => /\ [](AnswersAreForTheLicense /\ VerdictsStay /\ LockIsCovered /\ HostsKnow)
            /\ AnswersInOrder /\ AskedForStays
<1>1. FlowsInv => AnswersAreForTheLicense /\ VerdictsStay /\ LockIsCovered /\ HostsKnow
  BY OneVerdict DEF FlowsInv, IInv, OverlayInv, SeesTheLicense, UpForTheLock, LockIsCovered, NewsInv
<1>2. FlowsInv /\ [Next]_flowVars => [license' = license => at' >= at]_addOnVars
  BY PartsStep, NextKeeps DEF FlowsInv, StepKeepsWord
<1>3. FlowsInv /\ [Next]_flowVars =>
        [Up(overlay) /\ ~Up(overlay') /\ ChangeArrives
           => ~asked /\ shown.held /\ shown.screen = "Details"]_overlayVars
  BY PartsStep, AskedForStep DEF FlowsInv
<1>4. Spec => AnswersInOrder
  BY <1>2, FlowsInvariant, PTL DEF Spec, AnswersInOrder
<1>5. Spec => AskedForStays
  BY <1>3, FlowsInvariant, PTL DEF Spec, AskedForStays
<1> QED
  BY <1>1, <1>4, <1>5, FlowsInvariant, PTL

=============================================================================

------------------------------- MODULE DeviceIds -------------------------------
(***************************************************************************)
(* Which device this is, and whether a license is bound to it: the memos   *)
(* of moonbase_device_id_resolver and migrating_device_id_resolver         *)
(* (include/moonbase/moonbase_device_id_resolver.hpp and                   *)
(* device_id_resolver.hpp), and the check that asks them (validator.hpp),  *)
(* by threads of one process on a machine that can't always be read.       *)
(*                                                                         *)
(* Each memo has a mutex, held from the look at its flag until it is set,  *)
(* so a call that fills one is a step.                                     *)
(***************************************************************************)
EXTENDS Integers

CONSTANTS
    Askers,         \* threads
    Fallback        \* options.fallback is device_name

ASSUME DeviceAssumption == Fallback \in BOOLEAN

VARIABLES
    machine,        \* what a read of it finds now
    legacy,         \* what the older resolver's algorithm finds now
    identity,       \* identity_, or "unread"
    deviceId,       \* description_, or "none"
    former,         \* previous_ids_, or "unread"
    judging,        \* the bound id a thread found to differ from device_id()
    toldIds         \* history: what each question was answered with

deviceVars == <<machine, legacy, identity, deviceId, former, judging, toldIds>>

\* Everything; its name only; nothing, as the reader threw.
Reads == {"whole", "nameOnly", "nothing"}

\* "strong" stands for the id of the hardware, "weak" for the host name's.
DeviceIdSet == {"strong", "weak", "former", "other"}
Questions == {"name", "id"} \cup DeviceIdSet
Answers == {"", "host", "strong", "weak", "accepted", "mismatch", "unidentified"}

DeviceTypeOK ==
    /\ machine \in Reads /\ legacy \in {"id", "empty", "throws"}
    /\ identity \in Reads \cup {"unread"}
    /\ deviceId \in {"none", "strong", "weak"}
    /\ former \in {"unread", "former", "nobody"}
    /\ judging \in [Askers -> DeviceIdSet \cup {"nothing"}]
    /\ toldIds \subseteq Questions \X Answers

DevicesInit ==
    /\ machine \in Reads /\ legacy \in {"id", "empty", "throws"}
    /\ identity = "unread" /\ deviceId = "none" /\ former = "unread"
    /\ judging = [t \in Askers |-> "nothing"]
    /\ toldIds = {}

\* identity()
Identity == IF identity = "unread" THEN machine ELSE identity

\* description(): the fallback hashes the name, and an empty one is no id.
Description(read) ==
    IF deviceId # "none" THEN deviceId
    ELSE IF read = "whole" THEN "strong"
    ELSE IF Fallback /\ read = "nameOnly" THEN "weak"
    ELSE "none"

Idle(t) == judging[t] = "nothing"
Tell(question, answer) == toldIds' = toldIds \cup {<<question, answer>>}

AskName(t) ==
    /\ Idle(t)
    /\ identity' = Identity
    /\ Tell("name", IF Identity = "nothing" THEN "" ELSE "host")
    /\ UNCHANGED <<machine, legacy, deviceId, former, judging>>

Describe ==
    /\ identity' = IF deviceId = "none" THEN Identity ELSE identity
    /\ deviceId' = Description(Identity)

AskId(t) ==
    /\ Idle(t)
    /\ Describe
    /\ Tell("id", IF deviceId' = "none" THEN "unidentified" ELSE deviceId')
    /\ UNCHANGED <<machine, legacy, former, judging>>

\* The check of a license: its id against device_id() first.
CheckBound(t, bound) ==
    /\ Idle(t)
    /\ Describe
    /\ \/ deviceId' = "none" /\ Tell(bound, "unidentified") /\ UNCHANGED judging
       \/ deviceId' = bound /\ Tell(bound, "accepted") /\ UNCHANGED judging
       \/ /\ deviceId' \notin {"none", bound}
          /\ judging' = [judging EXCEPT ![t] = bound]
          /\ UNCHANGED toldIds
    /\ UNCHANGED <<machine, legacy, former>>

\* Mutant: asked again each time.
FormerNow == IF legacy = "id" THEN "former" ELSE "nobody"

\* accepts_device_id: the former ids are computed once, those that throw skipped,
\* and an empty one matches nothing.
Former == IF former # "unread" THEN former ELSE IF legacy = "id" THEN "former" ELSE "nobody"

Vouch(t) ==
    /\ ~Idle(t)
    /\ former' = Former
    /\ Tell(judging[t], IF Former = judging[t] THEN "accepted" ELSE "mismatch")
    /\ judging' = [judging EXCEPT ![t] = "nothing"]
    /\ UNCHANGED <<machine, legacy, identity, deviceId>>

\* A container, a driver or a boot still under way.
MachineChanges ==
    /\ \/ machine' \in Reads \ {machine} /\ UNCHANGED legacy
       \/ legacy' \in {"id", "empty", "throws"} \ {legacy} /\ UNCHANGED machine
    /\ UNCHANGED <<identity, deviceId, former, judging, toldIds>>

DevicesNext ==
    \/ \E t \in Askers :
         \/ AskName(t) \/ AskId(t) \/ Vouch(t)
         \/ \E bound \in DeviceIdSet : CheckBound(t, bound)
    \/ MachineChanges

DevicesSpec == DevicesInit /\ [][DevicesNext]_deviceVars

-----------------------------------------------------------------------------
\* However the machine's reads come and go, a process has one name and one id, of
\* one read, and one verdict on each license: a device that was told accepted is
\* never told mismatch, by any thread (moonbase_device_id_resolver, identity and
\* description; migrating_device_id_resolver, accepts_device_id).
VerdictsStay ==
    /\ \A q \in toldIds, r \in toldIds :
         q[1] = r[1] /\ "unidentified" \notin {q[2], r[2]} => q = r
    /\ <<"name", "">> \in toldIds => deviceId = "none"

\* As the comments have it: "A machine that is momentarily unreadable retries on the
\* next call rather than caching the failure" (description).  An id asked for while
\* the machine can be read is given.
FailureIsRetried ==
    [][(\E t \in Askers : AskId(t)) /\ machine = "whole" => deviceId' # "none"]_deviceVars
=============================================================================

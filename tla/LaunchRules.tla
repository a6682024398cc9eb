------------------------------ MODULE LaunchRules ------------------------------
(***************************************************************************)
(* What a launch makes of the license in the file: the validator's checks  *)
(* (include/moonbase/validator.hpp), when the server is asked and what its *)
(* answer is worth (licensing.hpp, validate_token_online), and the         *)
(* controller's verdict (juce/ActivationController.cpp, start).            *)
(*                                                                         *)
(* A token is what these tell apart: signed for this product and account   *)
(* with every claim it needs (sound), and so on; its age is the time since *)
(* it was validated.                                                       *)
(***************************************************************************)
EXTENDS ErrorMapping

LaunchTokens ==
    [sound : BOOLEAN, online : BOOLEAN, device : {"this", "former", "other"},
     ended : BOOLEAN, age : 0 .. 2, covers : BOOLEAN]

\* online_validation_min_interval and grace_period, enforce_release_access, whether
\* the resolver takes former ids, and whether the machine has an id at all.
Setups == [interval : {0, 1, 3}, grace : {1}, enforced : BOOLEAN,
           migrates : BOOLEAN, identified : BOOLEAN]

\* What the server may answer: all that validate_token_online makes of a response.
ServerSays  == {Validate(r) : r \in Responses}
ForeignSays == {Validate(r) : r \in {s \in Responses : Foreign(s)}}

\* validate_token_internal: the errors in the order of its checks.
TokenCheck(token, setup, allowExpired) ==
    IF ~token.sound THEN "invalid"
    ELSE IF ~allowExpired /\ token.ended THEN "expired"
    ELSE IF ~setup.identified THEN "unidentified"
    ELSE IF token.device = "this" \/ (token.device = "former" /\ setup.migrates) THEN "license"
    ELSE "invalid"

\* ensure_covers_application_version
IfCovered(token, setup) ==
    IF setup.enforced /\ ~token.covers THEN "notCovered" ELSE "license"

\* The stored copy of the same activation, when it is good and newer.
StoredCounts(stored, setup) == TokenCheck(stored, setup, FALSE) = "license"
FreshestOf(token, stored, setup) ==
    IF StoredCounts(stored, setup) /\ stored.age < token.age THEN stored ELSE token
TieOf(token, stored, setup) ==
    StoredCounts(stored, setup) /\ stored.age = token.age /\ stored # token

\* Mutant: a long interval extends the grace period.
ThrottledLong(freshest, setup) == freshest.age < setup.interval

Throttled(freshest, setup) == freshest.age < setup.interval /\ freshest.age <= setup.grace

\* The caller's copy, the stored one, and the server's answer if it is asked.
Validated(token, stored, answer, setup) ==
    LET check    == TokenCheck(token, setup, FALSE)
        freshest == FreshestOf(token, stored, setup)
    IN  IF check # "license" THEN check
        ELSE IF ~token.online THEN IfCovered(token, setup)
        ELSE IF ~TieOf(token, stored, setup) /\ Throttled(freshest, setup)
          THEN IfCovered(freshest, setup)
        ELSE IF answer \in Verdicts \cup {"license"} THEN answer
        ELSE IF freshest.age <= setup.grace THEN IfCovered(freshest, setup)
        ELSE "unverified"

Verdict(result) ==
    [unlocked |-> result = "license", deletes |-> result = "revoked"]
LockedOnly == [unlocked |-> FALSE, deletes |-> FALSE]

\* start(): a look at the token that forgives its end, then what it is worth.
Launch(token, stored, answer, setup) ==
    IF TokenCheck(token, setup, TRUE) # "license" THEN LockedOnly
    ELSE IF ~token.online
      THEN IF token.ended THEN [LockedOnly EXCEPT !.deletes = TRUE]
           ELSE Verdict(IfCovered(token, setup))
    ELSE Verdict(Validated(token, stored, answer, setup))

-----------------------------------------------------------------------------
(* The laws of a launch.                                                   *)

Own(token, setup) ==
    /\ token.sound /\ setup.identified
    /\ token.device # "other" /\ (token.device = "former" => setup.migrates)

\* Other instances store copies of the same activation, so of its kind and device.
CopiesOf(token) ==
    {c \in LaunchTokens : c.sound /\ c.online = token.online /\ c.device = token.device}

UnlocksOnlyGood ==
    \A token \in LaunchTokens, setup \in Setups, answer \in ServerSays :
        \A stored \in CopiesOf(token) :
            Launch(token, stored, answer, setup).unlocked =>
                /\ Own(token, setup) /\ ~token.ended
                /\ answer = "license" \/ \E c \in {token, stored} :
                     /\ c.online => c.age <= setup.grace
                     /\ setup.enforced => c.covers

DeletesOnlyDead ==
    \A token \in LaunchTokens, setup \in Setups, answer \in ServerSays :
        \A stored \in CopiesOf(token) :
            Launch(token, stored, answer, setup).deletes =>
                /\ Own(token, setup)
                /\ (token.ended /\ ~token.online) \/ (token.online /\ answer = "revoked")

KeepsGoodUnlocked ==
    \A token \in LaunchTokens, setup \in Setups, answer \in ForeignSays :
        /\ Own(token, setup) /\ ~token.ended
        /\ token.age <= setup.grace /\ token.covers
        => Launch(token, token, answer, setup).unlocked

LaunchLaw == UnlocksOnlyGood /\ DeletesOnlyDead /\ KeepsGoodUnlocked
=============================================================================

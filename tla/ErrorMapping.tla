------------------------------ MODULE ErrorMapping ------------------------------
(***************************************************************************)
(* What the client makes of a response (include/moonbase/client.hpp): a    *)
(* verdict on the license, which an app may lock on, or an api_error,      *)
(* which the offline grace period forgives.  Proxies, portals and routing  *)
(* faults answer too, in anything but Moonbase's own words.                *)
(*                                                                         *)
(* A response is its status and what its readers look for in the body.     *)
(***************************************************************************)
EXTENDS Integers

\* The extensions of a problem that the client knows, and none of them.
ErrorTypes == {"none", "StoreClosed", "LicenseExpired", "LicenseRevoked",
               "LicenseActivationRevoked", "LicenseInvalid", "NoEligibleLicense",
               "ReleaseNotCovered"}

\* 0 is a transport that failed.
Statuses  == {0, 200, 204, 302, 400, 403, 404, 408, 410, 429, 500, 502, 503}
Responses == [status : Statuses, errorType : ErrorTypes,
              saysExpired : BOOLEAN,    \* "expired" in its title or detail
              token : BOOLEAN,          \* a JWT
              valid : BOOLEAN,          \* which the validator takes
              markup : BOOLEAN]

Succeeded(r) == r.status \in 200 .. 299

\* What is thrown.  `revoked` is a kind of `invalid`, as `notCovered` is.
Verdicts == {"expired", "revoked", "invalid", "notCovered"}

\* throw_if_store_closed, which every endpoint asks first.
Closed(r) == r.errorType = "StoreClosed"

Revoked(r) == r.errorType \in {"LicenseRevoked", "LicenseActivationRevoked"}

\* throw_for_problem
ThrowForProblem(r) ==
    IF Closed(r) THEN "closed"
    ELSE IF r.errorType = "LicenseExpired" THEN "expired"
    ELSE IF r.status # 400 THEN "api"
    ELSE IF Revoked(r) THEN "revoked"
    ELSE IF r.saysExpired THEN "expired"
    ELSE "invalid"

\* throw_for_license_problem
ThrowForLicenseProblem(r) ==
    IF r.errorType = "ReleaseNotCovered" THEN "notCovered" ELSE ThrowForProblem(r)

\* throw_for_inventory_problem: nothing about the license.
ThrowForInventoryProblem(r) ==
    IF Closed(r) THEN "closed"
    ELSE IF r.errorType = "ReleaseNotCovered" THEN "notCovered"
    ELSE "api"

\* throw_for_sub_product_problem
ThrowForSubProductProblem(r) ==
    IF Closed(r) THEN "closed"
    ELSE IF r.errorType = "LicenseExpired" THEN "expired"
    ELSE IF r.status # 400 THEN "api"
    ELSE IF Revoked(r) THEN "revoked"
    ELSE CASE r.errorType = "LicenseInvalid"    -> "invalid"
           [] r.errorType = "NoEligibleLicense" -> "noSeat"
           [] OTHER                             -> "unsupported"

\* throw_for_activation_poll_problem
ThrowForPollProblem(r) ==
    IF r.status # 400 THEN ThrowForProblem(r)
    ELSE IF Closed(r) THEN "closed"
    ELSE IF r.errorType = "LicenseExpired" THEN "expired"
    ELSE "requestOver"

\* Mutant: whatever is no token goes to the validator.
TokenTaken(r) == IF r.token /\ r.valid THEN "license" ELSE "invalid"

\* ensure_token_response, then the validator.
TokenOf(r) ==
    IF ~r.token THEN "api" ELSE IF r.valid THEN "license" ELSE "invalid"

-----------------------------------------------------------------------------
(* The requests.                                                           *)

Validate(r) == IF Succeeded(r) THEN TokenOf(r) ELSE ThrowForLicenseProblem(r)

Revoke(r) ==
    IF ~Succeeded(r) THEN ThrowForLicenseProblem(r)
    ELSE IF r.markup THEN "api" ELSE "done"

AskAddOn(r) == IF Succeeded(r) THEN TokenOf(r) ELSE ThrowForSubProductProblem(r)

Poll(r) ==
    IF r.status \in {204, 404} THEN "pending"
    ELSE IF Succeeded(r) THEN TokenOf(r)
    ELSE ThrowForPollProblem(r)

-----------------------------------------------------------------------------
\* What anything but Moonbase can send: no errorType, no token, and not the 400
\* that every endpoint reads as final.
Foreign(r) == r.errorType = "none" /\ ~r.token /\ r.status # 400

\* A captive portal, a gateway's page or a routing fault never locks a license,
\* never costs a seat and never ends an activation, on any status but 400
\* (the comments of throw_for_problem and ensure_token_response).  Only a revocation
\* takes an answer for done that is a success without markup, as it has no token.
ForeignLaw ==
    \A r \in Responses : Foreign(r) =>
        /\ Validate(r) = "api" /\ AskAddOn(r) = "api"
        /\ Revoke(r) = "api" \/ (Succeeded(r) /\ ~r.markup)
        /\ Poll(r) \in {"api", "pending"}

\* An add-on that can't be had says nothing about the license, on any status: an
\* app locks on what the server says of the license alone.
AddOnLaw ==
    \A r \in Responses :
        ThrowForSubProductProblem(r) \in Verdicts =>
            r.errorType \in {"LicenseExpired", "LicenseInvalid"} \/ Revoked(r)

\* Polling goes on until Moonbase itself ends it: a request is over on a 400 only,
\* and its refusal is never taken for the license's unless it says so.
PollLaw ==
    \A r \in Responses :
        /\ Poll(r) = "requestOver" => r.status = 400
        /\ Poll(r) \in Verdicts /\ ~Succeeded(r) => r.errorType = "LicenseExpired"
=============================================================================

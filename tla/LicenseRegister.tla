--------------------------- MODULE LicenseRegister ---------------------------
(***************************************************************************)
(* What the license file promises the instances that share it: a register  *)
(* that takes an answer of the server only when it was issued after the    *)
(* register last changed.  Only a license the customer has just activated  *)
(* is taken whatever is there.  LicenseUpdates implements it.              *)
(***************************************************************************)
EXTENDS Naturals

VARIABLES
    current,    \* the license held, 0 for none
    issued,     \* licenses the server has issued so far, numbered from 1
    seats,      \* those among them an activation brought
    floor       \* what had been issued when the register last changed

rvars == <<current, issued, seats, floor>>

RInit ==
    /\ issued \in {0, 1} /\ current = issued
    /\ seats = 1 .. issued
    /\ floor = issued

Issue ==
    /\ issued' = issued + 1
    /\ seats' \in {seats, seats \cup {issued + 1}}
    /\ UNCHANGED <<current, floor>>

\* The answer of a check or of an add-on call.
Answer ==
    /\ current' \in (floor + 1) .. issued
    /\ floor' = issued
    /\ UNCHANGED <<issued, seats>>

Activated ==
    /\ current' \in seats
    /\ floor' = issued
    /\ UNCHANGED <<issued, seats>>

Remove ==
    /\ current' = 0
    /\ floor' = issued
    /\ UNCHANGED <<issued, seats>>

RNext == Issue \/ Answer \/ Activated \/ Remove

RSpec == RInit /\ [][RNext]_rvars
=============================================================================

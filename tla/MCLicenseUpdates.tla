-------------------------- MODULE MCLicenseUpdates --------------------------
(***************************************************************************)
(* Small instances of LicenseUpdates: a plugin instance i1 with a worker    *)
(* and a message thread, and a sibling i2 with one thread.                  *)
(***************************************************************************)
EXTENDS LicenseUpdates, TLC

CONSTANTS i1, i2, worker, message, sibling, a1, a2

MCInstances  == {i1, i2}
MCThreads    == {worker, message, sibling}
MCInstanceOf == [t \in MCThreads |-> IF t = sibling THEN i2 ELSE i1]

\* The two threads of i1 make the same calls, and activations are alike.
MCSymmetry == Permutations({worker, message})
MCSymmetryBoth == MCSymmetry \cup Permutations({a1, a2})
=============================================================================

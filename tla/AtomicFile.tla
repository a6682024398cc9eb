----------------------------- MODULE AtomicFile -----------------------------
(***************************************************************************)
(* What a license file promises those who load it without the lock: each   *)
(* load finds the license, or the absence of one, that the file held at    *)
(* some moment of the load, and fails only where the file was missing at   *)
(* one.  FileStore implements it while it can replace the file by a rename.*)
(***************************************************************************)
EXTENDS Integers

CONSTANT Procs

VARIABLES
    value,      \* the license in the file, 0 for none
    found,      \* what each process's last load returned
    window      \* what the file has held since a load began, {} outside a load

avars == <<value, found, window>>

Failed == -2

AInit ==
    /\ value \in {0, 1}
    /\ found = [p \in Procs |-> 0]
    /\ window = [p \in Procs |-> {}]

Begins(p) ==
    /\ window[p] = {}
    /\ window' = [window EXCEPT ![p] = {value}]
    /\ UNCHANGED <<value, found>>

Ends(p) ==
    /\ window[p] # {}
    /\ window' = [window EXCEPT ![p] = {}]
    /\ \E v \in window[p] \cup {Failed} :
         /\ v = Failed => 0 \in window[p]
         /\ found' = [found EXCEPT ![p] = v]
    /\ UNCHANGED value

\* The process dies, in a load or outside one.
Dies(p) ==
    /\ window' = [window EXCEPT ![p] = {}]
    /\ UNCHANGED <<value, found>>

Change ==
    /\ value' \in Nat
    /\ window' = [p \in Procs |-> IF window[p] = {} THEN {} ELSE window[p] \cup {value'}]
    /\ UNCHANGED found

ANext == Change \/ \E p \in Procs : Begins(p) \/ Ends(p) \/ Dies(p)

ASpec == AInit /\ [][ANext]_avars
=============================================================================

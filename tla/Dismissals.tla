------------------------------- MODULE Dismissals -------------------------------
(***************************************************************************)
(* The updates the customer skipped (juce/ActivationState.h), in a file    *)
(* beside the license that instances in several processes read, change and *)
(* write without a lock.  A version stands for any entry of the file.      *)
(***************************************************************************)
EXTENDS Integers

CONSTANTS
    Plugins,        \* instances, each in a process of its own
    Skippable       \* versions that may be on offer

VARIABLES
    saved,          \* the versions in the file
    readable,       \* the file can be read
    root,           \* root_
    skipping,       \* the version ignoreUpdate saves next, or 0
    missed          \* history: in the file, and not in what the instance loaded

dismissalVars == <<saved, readable, root, skipping, missed>>

ASSUME DismissalAssumption == Skippable \subseteq Nat \ {0}

DismissalTypeOK ==
    /\ saved \subseteq Skippable /\ readable \in BOOLEAN
    /\ root \in [Plugins -> SUBSET Skippable]
    /\ skipping \in [Plugins -> Skippable \cup {0}]
    /\ missed \in [Plugins -> SUBSET Skippable]

\* load(): a file that can't be read or parsed leaves nothing.
Contents == IF readable THEN saved ELSE {}

\* The instances' constructors have loaded it.
DismissalsInit ==
    /\ saved \in SUBSET Skippable /\ readable \in BOOLEAN
    /\ root = [i \in Plugins |-> Contents]
    /\ skipping = [i \in Plugins |-> 0]
    /\ missed = [i \in Plugins |-> {}]

\* Mutant: what was loaded once is changed and written.
RootKept(i) == root[i]

Loaded(i) == Contents

\* ignoreUpdate: load, and add what isn't there yet.
IgnoreUpdate(i, v) ==
    /\ skipping[i] = 0
    /\ root' = [root EXCEPT ![i] = Loaded(i)]
    /\ IF v \in Loaded(i)
         THEN UNCHANGED <<skipping, missed>>
         ELSE /\ skipping' = [skipping EXCEPT ![i] = v]
              /\ missed' = [missed EXCEPT ![i] = saved \ Contents]
    /\ UNCHANGED <<saved, readable>>

\* setProperty and save, which writes beside the file and puts it in its place.
Save(i) ==
    /\ skipping[i] # 0
    /\ root' = [root EXCEPT ![i] = @ \cup {skipping[i]}]
    /\ saved' = root'[i]
    /\ missed' = [j \in Plugins |-> IF j # i /\ skipping[j] # 0
                                       THEN missed[j] \cup (saved' \ root[j]) ELSE missed[j]]
    /\ skipping' = [skipping EXCEPT ![i] = 0]
    /\ UNCHANGED readable

\* Nobody looks at what replaceWithText returns.
SaveFails(i) ==
    /\ skipping[i] # 0
    /\ root' = [root EXCEPT ![i] = @ \cup {skipping[i]}]
    /\ skipping' = [skipping EXCEPT ![i] = 0]
    /\ UNCHANGED <<saved, readable, missed>>

\* The process ends, and the next one loads.
Restart(i) ==
    /\ root' = [root EXCEPT ![i] = Contents]
    /\ skipping' = [skipping EXCEPT ![i] = 0]
    /\ UNCHANGED <<saved, readable, missed>>

ReadsChange ==
    /\ readable' = ~readable
    /\ UNCHANGED <<saved, root, skipping, missed>>

DismissalsNext ==
    \/ \E i \in Plugins :
         \/ \E v \in Skippable : IgnoreUpdate(i, v)
         \/ Save(i) \/ SaveFails(i) \/ Restart(i)
    \/ ReadsChange

DismissalsSpec == DismissalsInit /\ [][DismissalsNext]_dismissalVars

-----------------------------------------------------------------------------
\* "A concurrent instance's entries survive" (ignoreUpdate) as far as a load before
\* each save can see to it: a version goes from the file only under an instance that
\* loaded before it was written there, or that could not read it.
OnlyOverlapLosesDismissals ==
    [][\A v \in saved \ saved' :
         \E i \in Plugins : skipping[i] # 0 /\ skipping'[i] = 0 /\ v \in missed[i]]_dismissalVars
=============================================================================

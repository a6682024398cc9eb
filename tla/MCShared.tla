------------------------------- MODULE MCShared -------------------------------
(***************************************************************************)
(* What processes and threads share besides the update lock, in small      *)
(* instances: the file store, with two processes that load, store and      *)
(* delete under the lock and one that loads without it; the gate that      *)
(* threads poll through; and the JUCE bridge with its background calls.    *)
(*                                                                         *)
(* FileStore itself is the store where a rename replaces the license.  Two *)
(* more stores stand beside it, on a file system of their own: Windows,    *)
(* where an open file is in the way, and one where everything goes wrong.  *)
(* A behaviour moves one of the five, and the others stand where they      *)
(* began.                                                                  *)
(***************************************************************************)
EXTENDS FileStore, PollGate, UnlockBridge

CONSTANTS u1, u2, r1, t1, t2, q1, q2, s1, s2

MCProcs    == {u1, u2, r1}
MCUpdaters == {u1, u2}

VARIABLES setting, disk2, path2, temps2, lock2, pc2, tries2, handle2, made2, found2, window2

others == <<disk2, path2, temps2, lock2, pc2, tries2, handle2, made2, found2, window2>>
stores == <<vars, others>>

Windows == INSTANCE FileStore WITH
    OpenBlocks <- TRUE, Attempts <- 2, Faults <- {"scanner"}, MaxStores <- 2,
    disk <- disk2, path <- path2, temps <- temps2, lock <- lock2, pc <- pc2,
    tries <- tries2, handle <- handle2, made <- made2, found <- found2, window <- window2

Faulty == INSTANCE FileStore WITH
    Faults <- {"scanner", "temp", "fill", "crash", "corrupt"}, MaxStores <- 2,
    disk <- disk2, path <- path2, temps <- temps2, lock <- lock2, pc <- pc2,
    tries <- tries2, handle <- handle2, made <- made2, found <- found2, window <- window2

\* The stores that stand still are empty.
StoresRest == Init /\ Windows!Init /\ Len(disk) = 0 /\ Len(disk2) = 0
GateRests  == GateInit /\ url = [t \in Threads |-> q1]
BridgeRests == BridgeInit /\ stored = NoCopy

MCInit ==
    \/ /\ GateRests /\ BridgeRests
       /\ \/ setting = "posix" /\ Init /\ Windows!Init /\ Len(disk2) = 0
          \/ setting = "windows" /\ Windows!Init /\ Init /\ Len(disk) = 0
          \/ setting = "faulty" /\ Faulty!Init /\ Init /\ Len(disk) = 0
    \/ setting = "gate" /\ GateInit /\ StoresRest /\ BridgeRests
    \/ setting = "bridge" /\ BridgeInit /\ StoresRest /\ GateRests

MCNext ==
    \/ setting = "posix" /\ Next /\ UNCHANGED <<setting, others, gateVars, bridgeVars>>
    \/ setting = "windows" /\ Windows!Next /\ UNCHANGED <<setting, vars, gateVars, bridgeVars>>
    \/ setting = "faulty" /\ Faulty!Next /\ UNCHANGED <<setting, vars, gateVars, bridgeVars>>
    \/ setting = "gate" /\ GateNext /\ UNCHANGED <<setting, stores, bridgeVars>>
    \/ setting = "bridge" /\ BridgeNext /\ UNCHANGED <<setting, stores, gateVars>>

MCSpec == MCInit /\ [][MCNext]_<<setting, stores, gateVars, bridgeVars>>

\* A call of the store runs on: no step of it waits for anyone.
MCFairSpec ==
    /\ MCSpec
    /\ \A p \in Procs : WF_others(setting = "windows" /\ Windows!Step(p))
    /\ BridgeFairness

\* Under the lock a load finds a whole license even where it is written in place
\* (store.hpp, store_local_license's fallback), as the writer holds the lock; and what
\* a store wrote beside the license is gone when it gives the lock back, however often
\* the replacement failed (replace_with_temp_file).
WindowsReadsWhole ==
    setting = "windows" => Windows!LockedReadsWhole /\ Windows!TempsCleaned

\* A store ends although others keep opening the license (store.hpp,
\* retry_while_in_use).
WindowsStoresEnd == (setting = "windows") => Windows!EveryStoreEnds

\* Under every fault no late write brings an older license back (store.hpp,
\* store_local_license and load_local_license's removal).
FaultyNewestLands == Faulty!OnlyNewestLands

\* Both: whatever goes wrong, stores end, and none brings an older license back.
StoresLand == WindowsStoresEnd /\ FaultyNewestLands
=============================================================================

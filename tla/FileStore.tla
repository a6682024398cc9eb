------------------------------ MODULE FileStore ------------------------------
(***************************************************************************)
(* file_license_store (include/moonbase/store.hpp) on a file system: how a *)
(* license is put in place, loaded and deleted while others load it without*)
(* the lock.                                                               *)
(*                                                                         *)
(* A file is a number, its contents are disk[n], and `path` is the file    *)
(* the license path names.  Licenses are numbered in the order they were   *)
(* given to the store.                                                     *)
(***************************************************************************)
EXTENDS Integers, Sequences

CONSTANTS
    Procs,          \* threads, of any instance or process
    Updaters,       \* those that take the lock and store or delete; the others load
                    \* without it
    NoProc,         \* a free lock
    OpenBlocks,     \* a file open somewhere can be neither replaced nor removed
                    \* (Windows)
    Attempts,       \* of retry_while_in_use: 10 on Windows, 1 elsewhere
    Faults,         \* what can go wrong, see Next
    MaxStores       \* bound: licenses stored in a behaviour

ASSUME FileStoreAssumption ==
    /\ Updaters \subseteq Procs
    /\ NoProc \notin Procs
    /\ OpenBlocks \in BOOLEAN
    /\ Attempts \in Nat \ {0}
    /\ Faults \subseteq {"scanner", "temp", "fill", "crash", "corrupt"}
    /\ MaxStores \in Nat

VARIABLES
    disk,       \* contents of the files: a license, or Half of one
    path,       \* the file at the license path, 0 for none
    temps,      \* the files under temporary names
    lock,       \* the store's update lock: a process or NoProc
    pc,         \* where each process stands
    tries,      \* failed attempts of its retry_while_in_use
    handle,     \* the file it has open
    made,       \* licenses given to the store so far
    found,      \* what its last load returned
    window      \* history: what the file has held since its load began

vars == <<disk, path, temps, lock, pc, tries, handle, made, found, window>>

Half   == -1
Failed == -2

Loading  == {"exists", "open", "read", "corrupt"}
Updating == {"held", "temp", "rename", "inplace", "fill"}
Places   == {"idle"} \cup Loading \cup Updating
Contents == {Half} \cup 1 .. MaxStores + 1
Values   == Contents \cup {0}
Files    == 1 .. Len(disk)
Current  == IF path = 0 THEN 0 ELSE disk[path]

TypeOK ==
    /\ disk \in Seq(Contents)
    /\ path \in 0 .. Len(disk)
    /\ temps \subseteq Files
    /\ lock \in Updaters \cup {NoProc}
    /\ pc \in [Procs -> Places]
    /\ tries \in [Procs -> 0 .. Attempts - 1]
    /\ handle \in [Procs -> 0 .. Len(disk)]
    /\ made \in 0 .. MaxStores + 1
    /\ found \in [Procs -> Values \cup {Failed}]
    /\ window \in [Procs -> SUBSET Values]

\* No license, one of an earlier session, or one that session left half-written.
Init ==
    /\ \/ disk = << >> /\ path = 0 /\ made = 0
       \/ disk = <<1>> /\ path = 1 /\ made = 1
       \/ "corrupt" \in Faults /\ disk = <<Half>> /\ path = 1 /\ made = 1
    /\ temps = {}
    /\ lock = NoProc
    /\ pc = [p \in Procs |-> "idle"]
    /\ tries = [p \in Procs |-> 0]
    /\ handle = [p \in Procs |-> 0]
    /\ found = [p \in Procs |-> 0]
    /\ window = [p \in Procs |-> {}]

-----------------------------------------------------------------------------
Go(p, place) == pc' = [pc EXCEPT ![p] = place] /\ tries' = [tries EXCEPT ![p] = 0]

\* What every load under way has had a chance to see.
Witness(content) ==
    window' = [q \in Procs |-> IF window[q] = {} THEN {} ELSE window[q] \cup {content}]

\* A call of the store ends: its caller still holds the lock if it took it.
Home(p) == IF lock = p THEN "held" ELSE "idle"
LoadEnds(p, result) ==
    /\ found' = [found EXCEPT ![p] = result]
    /\ window' = [window EXCEPT ![p] = {}]
    /\ handle' = [handle EXCEPT ![p] = 0]
    /\ Go(p, Home(p))

LockIgnored(p) == TRUE
LockFree(p) == lock = NoProc

TakeLock(p) ==
    /\ p \in Updaters /\ pc[p] = "idle" /\ LockFree(p)
    /\ lock' = p
    /\ Go(p, "held")
    /\ UNCHANGED <<disk, path, temps, handle, made, found, window>>

Release(p) ==
    /\ pc[p] = "held"
    /\ lock' = NoProc
    /\ Go(p, "idle")
    /\ UNCHANGED <<disk, path, temps, handle, made, found, window>>

-----------------------------------------------------------------------------
\* load_local_license.
LoadBegins(p) ==
    /\ pc[p] = IF p \in Updaters THEN "held" ELSE "idle"
    /\ window' = [window EXCEPT ![p] = {Current}]
    /\ Go(p, "exists")
    /\ UNCHANGED <<disk, path, temps, lock, handle, made, found>>

Exists(p) ==
    /\ pc[p] = "exists"
    /\ IF path = 0
         THEN LoadEnds(p, 0)
         ELSE Go(p, "open") /\ UNCHANGED <<handle, found, window>>
    /\ UNCHANGED <<disk, path, temps, lock, made>>

Open(p) ==
    /\ pc[p] = "open" /\ path # 0
    /\ handle' = [handle EXCEPT ![p] = path]
    /\ Go(p, "read")
    /\ UNCHANGED <<disk, path, temps, lock, made, found, window>>

\* The contents are those of the file that was opened, wherever the path points
\* by now.  Half a license doesn't parse: the file is closed, then removed.
Read(p) ==
    /\ pc[p] = "read"
    /\ IF disk[handle[p]] # Half
         THEN LoadEnds(p, disk[handle[p]])
         ELSE /\ handle' = [handle EXCEPT ![p] = 0]
              /\ Go(p, "corrupt")
              /\ UNCHANGED <<found, window>>
    /\ UNCHANGED <<disk, path, temps, lock, made>>

Blocked == OpenBlocks /\ path # 0 /\ \E q \in Procs : handle[q] = path

\* By name: whatever is there by now.  An error is ignored.
RemoveCorrupt(p) ==
    /\ pc[p] = "corrupt"
    /\ path' = IF Blocked THEN path ELSE 0
    /\ found' = [found EXCEPT ![p] = 0]
    /\ window' = [q \in Procs |-> IF q = p \/ window[q] = {} THEN {}
                                   ELSE window[q] \cup {IF Blocked THEN Current ELSE 0}]
    /\ Go(p, Home(p))
    /\ UNCHANGED <<disk, temps, lock, handle, made>>

-----------------------------------------------------------------------------
\* store_local_license, under the lock: a file of its own, renamed into place.
StoreBegins(p) ==
    /\ pc[p] = "held" /\ made < MaxStores
    /\ made' = made + 1
    /\ Go(p, "temp")
    /\ UNCHANGED <<disk, path, temps, lock, handle, found, window>>

\* As if there were no replace_with_temp_file.
WrittenInPlace(p) ==
    /\ pc[p] = "temp"
    /\ Go(p, "inplace")
    /\ UNCHANGED <<disk, path, temps, lock, handle, made, found, window>>
WriteTemp(p) ==
    /\ pc[p] = "temp"
    /\ disk' = Append(disk, made)
    /\ temps' = temps \cup {Len(disk) + 1}
    /\ handle' = [handle EXCEPT ![p] = Len(disk) + 1]
    /\ Go(p, "rename")
    /\ UNCHANGED <<path, lock, made, found, window>>

Rename(p) ==
    /\ pc[p] = "rename" /\ ~Blocked
    /\ path' = handle[p]
    /\ temps' = temps \ {handle[p]}
    /\ handle' = [handle EXCEPT ![p] = 0]
    /\ Witness(disk[handle[p]])
    /\ Go(p, "held")
    /\ UNCHANGED <<disk, lock, made, found>>

\* The folder takes no new file, the disk is full, or the license has a second
\* name or is a dangling link: it is written in place.
TempFails(p) ==
    /\ pc[p] = "temp"
    /\ Go(p, "inplace")
    /\ UNCHANGED <<disk, path, temps, lock, handle, made, found, window>>

Uncounted(p) == tries[p]
Tried(p) == tries[p] + 1

InUse(p) == "scanner" \in Faults \/ (pc[p] = "rename" /\ Blocked)

\* retry_while_in_use: the license is open elsewhere, or a scanner has it.  After
\* the last attempt a load fails, and a store gives its temporary file up.
DropTemp(p) == temps' = temps \ {handle[p]}

AttemptFails(p) ==
    /\ \/ pc[p] = "open" /\ (path = 0 \/ InUse(p))
       \/ pc[p] = "rename" /\ InUse(p)
    /\ IF Tried(p) < Attempts
         THEN /\ tries' = [tries EXCEPT ![p] = Tried(p)]
              /\ UNCHANGED <<pc, temps, handle, found, window>>
         ELSE \/ pc[p] = "open" /\ LoadEnds(p, Failed) /\ UNCHANGED temps
              \/ /\ pc[p] = "rename"
                 /\ DropTemp(p)
                 /\ handle' = [handle EXCEPT ![p] = 0]
                 /\ Go(p, "inplace")
                 /\ UNCHANGED <<found, window>>
    /\ UNCHANGED <<disk, path, lock, made>>

\* The fallback truncates the license, or makes an empty file, and then fills it.
Truncate(p) ==
    /\ pc[p] = "inplace"
    /\ IF path = 0
         THEN disk' = Append(disk, Half) /\ path' = Len(disk) + 1
         ELSE disk' = [disk EXCEPT ![path] = Half] /\ UNCHANGED path
    /\ handle' = [handle EXCEPT ![p] = path']
    /\ Witness(Half)
    /\ Go(p, "fill")
    /\ UNCHANGED <<temps, lock, made, found>>

TruncateFails(p) ==
    /\ pc[p] = "inplace"
    /\ Go(p, "held")
    /\ UNCHANGED <<disk, path, temps, lock, handle, made, found, window>>

Fill(p) ==
    /\ pc[p] = "fill"
    /\ disk' = [disk EXCEPT ![handle[p]] = made]
    /\ handle' = [handle EXCEPT ![p] = 0]
    /\ Witness(IF path = handle[p] THEN made ELSE Current)
    /\ Go(p, "held")
    /\ UNCHANGED <<path, temps, lock, made, found>>

FillFails(p) ==
    /\ pc[p] = "fill"
    /\ handle' = [handle EXCEPT ![p] = 0]
    /\ Go(p, "held")
    /\ UNCHANGED <<disk, path, temps, lock, made, found, window>>

Delete(p) ==
    /\ pc[p] = "held" /\ ~Blocked
    /\ path' = 0
    /\ Witness(0)
    /\ UNCHANGED <<disk, temps, lock, pc, tries, handle, made, found>>

\* The process dies: the system closes its files and lets go of its lock.
Crash(p) ==
    /\ pc[p] # "idle"
    /\ lock' = IF lock = p THEN NoProc ELSE lock
    /\ handle' = [handle EXCEPT ![p] = 0]
    /\ window' = [window EXCEPT ![p] = {}]
    /\ Go(p, "idle")
    /\ UNCHANGED <<disk, path, temps, made, found>>

-----------------------------------------------------------------------------
\* What a call of the store does by itself once it has begun.
Step(p) ==
    \/ Exists(p) \/ Open(p) \/ Read(p) \/ RemoveCorrupt(p)
    \/ WriteTemp(p) \/ Rename(p) \/ AttemptFails(p) \/ Truncate(p) \/ Fill(p)

Fault(p) ==
    \/ "temp" \in Faults /\ (TempFails(p) \/ TruncateFails(p))
    \/ "fill" \in Faults /\ FillFails(p)
    \/ "crash" \in Faults /\ Crash(p)

Next ==
    \E p \in Procs :
        \/ TakeLock(p) \/ Release(p) \/ LoadBegins(p) \/ StoreBegins(p) \/ Delete(p)
        \/ Step(p) \/ Fault(p)

Spec == Init /\ [][Next]_vars

\* A call of the store runs on: no step of it waits for anyone.
FairSpec == Spec /\ \A p \in Procs : WF_vars(Step(p))

-----------------------------------------------------------------------------
\* A process stores and deletes under the lock, and has the file of its own open
\* that it is writing.
Owned ==
    /\ \A p \in Procs : pc[p] \in Updating => lock = p
    /\ \A p \in Procs : pc[p] \in Updating \ {"held"} => made > 0
    /\ \A p \in Procs : pc[p] \in {"read", "rename", "fill"} => handle[p] # 0
    /\ \A p \in Procs : pc[p] = "rename" => disk[handle[p]] = made

Inv == TypeOK /\ Owned

\* A load never finds half a license, which it would delete: docs/core-sdk.md,
\* "replacing the file in one step so a reader never finds half of one".
NeverHalfRead == \A p \in Procs : pc[p] = "read" => disk[handle[p]] # Half

\* Then no file ever holds half a license, and what a load under way opened was
\* the file at some moment of the load.
OnlyWhole ==
    /\ \A n \in Files : disk[n] # Half
    /\ \A p \in Procs : pc[p] \notin {"inplace", "fill", "corrupt"}
Witnessed ==
    \A p \in Procs :
        /\ pc[p] \in Loading <=> window[p] # {}
        /\ pc[p] \in Loading => Current \in window[p]
        /\ pc[p] = "read" => disk[handle[p]] \in window[p]

WholeInv == Inv /\ OnlyWhole /\ Witnessed

\* Under the lock a load finds a whole license even where it is written in place,
\* unless a write failed or was cut short.
LockedReadsWhole ==
    \A p \in Procs : pc[p] = "read" /\ lock = p => disk[handle[p]] # Half

\* What a store leaves beside the license is gone when it gives the lock back.
TempsCleaned == lock = NoProc => temps = {}

\* Whatever fails, what lands in the file is the license last given to the store:
\* no late write brings an older one back.
OnlyNewestLands == [][Current' > 0 /\ Current' # Current => Current' = made]_vars

\* A store, of which the lock lets through one at a time, ends although others keep
\* opening the license.
EveryStoreEnds == []<>(\A p \in Procs : pc[p] \notin Updating \ {"held"})

Abstract == INSTANCE AtomicFile WITH value <- Current
ImplementsAtomicFile == Abstract!ASpec
=============================================================================

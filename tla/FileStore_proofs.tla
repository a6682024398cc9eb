--------------------------- MODULE FileStore_proofs ---------------------------
(***************************************************************************)
(* Proofs about FileStore, for any number of processes and stores.         *)
(***************************************************************************)
EXTENDS FileStore, SequenceTheorems, TLAPS

\* Where the license can always be replaced by a rename: nothing fails but the
\* processes themselves, and an open file blocks nobody.
Replaceable == Faults \subseteq {"crash"} /\ ~OpenBlocks

-----------------------------------------------------------------------------
\* A step keeps the type of what it moves with it.
LEMMA GoType ==
    ASSUME TypeOK, NEW p \in Procs, NEW place \in Places, Go(p, place)
    PROVE  pc' \in [Procs -> Places] /\ tries' \in [Procs -> 0 .. Attempts - 1]
BY FileStoreAssumption DEF TypeOK, Go, Places

\* The end of a load keeps the types.
LEMMA LoadEndsType ==
    ASSUME TypeOK, NEW p \in Procs, NEW v \in Values \cup {Failed},
           LoadEnds(p, v), UNCHANGED disk
    PROVE  /\ pc' \in [Procs -> Places] /\ tries' \in [Procs -> 0 .. Attempts - 1]
           /\ handle' \in [Procs -> 0 .. Len(disk')]
           /\ found' \in [Procs -> Values \cup {Failed}]
           /\ window' \in [Procs -> SUBSET Values]
<1>1. Home(p) \in Places
  BY DEF Home, Places, Updating
<1>2. pc' \in [Procs -> Places] /\ tries' \in [Procs -> 0 .. Attempts - 1]
  BY <1>1, FileStoreAssumption DEF LoadEnds, Go, TypeOK
<1>3. handle' \in [Procs -> 0 .. Len(disk')]
  BY DEF LoadEnds, TypeOK
<1>4. found' \in [Procs -> Values \cup {Failed}]
  BY DEF LoadEnds, TypeOK
<1>5. window' \in [Procs -> SUBSET Values]
  BY DEF LoadEnds, TypeOK
<1> QED BY <1>2, <1>3, <1>4, <1>5

\* The file holds a license, half of one, or nothing.
LEMMA CurrentType ==
    ASSUME TypeOK
    PROVE  Current \in Values
BY DEF TypeOK, Current, Values

-----------------------------------------------------------------------------
\* Every step keeps the types.
LEMMA TypeStep ==
    ASSUME Inv, Next
    PROVE  TypeOK'
<1> USE FileStoreAssumption DEF Inv
<1>0. {"idle", "exists", "open", "read", "corrupt", "held", "temp", "rename", "inplace", "fill"} = Places
  BY DEF Places, Loading, Updating
<1>T. TypeOK /\ Owned /\ Current \in Values
  BY CurrentType
<1>1. ASSUME NEW p \in Procs, TakeLock(p) PROVE TypeOK'
  BY <1>1, <1>T, <1>0, GoType DEF TakeLock, TypeOK, Places, Files
<1>2. ASSUME NEW p \in Procs, Release(p) PROVE TypeOK'
  BY <1>2, <1>T, <1>0, GoType DEF Release, TypeOK, Places, Files
<1>3. ASSUME NEW p \in Procs, LoadBegins(p) PROVE TypeOK'
  BY <1>3, <1>T, <1>0, GoType DEF LoadBegins, TypeOK, Places, Files
<1>4. ASSUME NEW p \in Procs, Exists(p) PROVE TypeOK'
  <2>1. CASE path = 0
    <3>1. 0 \in Values \cup {Failed}
      BY DEF Values
    <3>2. LoadEnds(p, 0) /\ UNCHANGED <<disk, path, temps, lock, made>>
      BY <1>4, <2>1 DEF Exists
    <3> QED BY <3>1, <3>2, <1>T, LoadEndsType DEF TypeOK, Files
  <2>2. CASE path # 0
    BY <1>4, <2>2, <1>T, <1>0, GoType DEF Exists, TypeOK, Places, Files
  <2> QED BY <2>1, <2>2
<1>5. ASSUME NEW p \in Procs, Open(p) PROVE TypeOK'
  BY <1>5, <1>T, <1>0, GoType DEF Open, TypeOK, Places, Files
<1>6. ASSUME NEW p \in Procs, Read(p) PROVE TypeOK'
  <2>1. handle[p] \in Files
    BY <1>6, <1>T DEF Read, Owned, TypeOK, Files
  <2>2. disk[handle[p]] \in Values
    BY <2>1, <1>T DEF TypeOK, Files, Values
  <2>3. CASE disk[handle[p]] # Half
    BY <1>6, <2>2, <2>3, <1>T, LoadEndsType DEF Read, TypeOK, Places, Files
  <2>4. CASE disk[handle[p]] = Half
    <3>1. Go(p, "corrupt") /\ handle' = [handle EXCEPT ![p] = 0]
          /\ UNCHANGED <<disk, path, temps, lock, made, found, window>>
      BY <1>6, <2>4 DEF Read
    <3>2. handle' \in [Procs -> 0 .. Len(disk')]
      BY <3>1, <1>T DEF TypeOK
    <3> QED BY <3>1, <3>2, <1>T, <1>0, GoType DEF TypeOK, Files
  <2> QED BY <2>3, <2>4
<1>7. ASSUME NEW p \in Procs, RemoveCorrupt(p) PROVE TypeOK'
  <2>1. Home(p) \in Places
    BY DEF Home, Places, Updating
  <2>2. pc' \in [Procs -> Places] /\ tries' \in [Procs -> 0 .. Attempts - 1]
    BY <1>7, <2>1, <1>T, GoType DEF RemoveCorrupt
  <2>3. window' \in [Procs -> SUBSET Values]
    BY <1>7, <1>T DEF RemoveCorrupt, TypeOK, Values
  <2>4. found' \in [Procs -> Values \cup {Failed}]
    BY <1>7, <1>T DEF RemoveCorrupt, TypeOK, Values
  <2>5. path' \in 0 .. Len(disk') /\ UNCHANGED <<disk, temps, lock, handle, made>>
    BY <1>7, <1>T DEF RemoveCorrupt, TypeOK
  <2> QED BY <2>2, <2>3, <2>4, <2>5, <1>T DEF TypeOK, Files
<1>8. ASSUME NEW p \in Procs, StoreBegins(p) PROVE TypeOK'
  <2>1. pc' \in [Procs -> Places] /\ tries' \in [Procs -> 0 .. Attempts - 1]
    BY <1>8, <1>0, <1>T, GoType DEF StoreBegins
  <2> QED BY <1>8, <2>1, <1>T DEF StoreBegins, TypeOK, Places, Files
<1>9. ASSUME NEW p \in Procs, WriteTemp(p) PROVE TypeOK'
  <2>1. pc' \in [Procs -> Places] /\ tries' \in [Procs -> 0 .. Attempts - 1]
    BY <1>9, <1>0, <1>T, GoType DEF WriteTemp
  <2>2. made \in Contents
    BY <1>9, <1>T DEF WriteTemp, Owned, Updating, Contents, TypeOK
  <2>3. disk' \in Seq(Contents) /\ Len(disk') = Len(disk) + 1
    BY <1>9, <2>2, <1>T, AppendProperties DEF WriteTemp, TypeOK
  <2>4. temps' \subseteq 1 .. Len(disk') /\ path' \in 0 .. Len(disk')
    <3>1. temps' = temps \cup {Len(disk) + 1} /\ path' = path
      BY <1>9 DEF WriteTemp
    <3>2. Len(disk) \in Nat
      BY <1>T DEF TypeOK
    <3>3. Len(disk') = Len(disk) + 1 /\ temps \subseteq 1 .. Len(disk) /\ path \in 0 .. Len(disk)
      BY <2>3, <1>T DEF TypeOK, Files
    <3>4. path' \in 0 .. Len(disk')
      BY <3>1, <3>2, <3>3
    <3>5. \A n \in temps' : n \in 1 .. Len(disk) \/ n = Len(disk) + 1
      BY <3>1, <3>3
    <3> QED BY <3>2, <3>3, <3>4, <3>5
  <2>5. handle' \in [Procs -> 0 .. Len(disk')]
    BY <1>9, <2>3, <1>T DEF WriteTemp, TypeOK
  <2> QED BY <1>9, <2>1, <2>3, <2>4, <2>5, <1>T DEF WriteTemp, TypeOK, Files
<1>10. ASSUME NEW p \in Procs, Rename(p) PROVE TypeOK'
  <2>1. pc' \in [Procs -> Places] /\ tries' \in [Procs -> 0 .. Attempts - 1]
    BY <1>10, <1>0, <1>T, GoType DEF Rename
  <2>2. handle[p] \in Files
    BY <1>10, <1>T DEF Rename, Owned, TypeOK, Files
  <2>3. window' \in [Procs -> SUBSET Values]
    BY <1>10, <2>2, <1>T DEF Rename, Witness, TypeOK, Files, Values
  <2>4. temps' \subseteq 1 .. Len(disk') /\ path' \in 0 .. Len(disk')
    BY <1>10, <2>2, <1>T DEF Rename, TypeOK, Files
  <2>5. handle' \in [Procs -> 0 .. Len(disk')]
    BY <1>10, <1>T DEF Rename, TypeOK
  <2> QED BY <1>10, <2>1, <2>3, <2>4, <2>5, <1>T DEF Rename, TypeOK, Files
<1>11. ASSUME NEW p \in Procs, TempFails(p) \/ TruncateFails(p) PROVE TypeOK'
  BY <1>11, <1>T, <1>0, GoType DEF TempFails, TruncateFails, TypeOK, Places, Files
<1>12. ASSUME NEW p \in Procs, AttemptFails(p) PROVE TypeOK'
  <2>1. CASE Tried(p) < Attempts
    <3>1. UNCHANGED <<disk, path, temps, lock, pc, handle, made, found, window>>
      BY <1>12, <2>1 DEF AttemptFails
    <3>2. tries' \in [Procs -> 0 .. Attempts - 1]
      <4>1. tries' = [tries EXCEPT ![p] = tries[p] + 1]
        BY <1>12, <2>1 DEF AttemptFails, Tried
      <4>2. tries[p] + 1 \in 0 .. Attempts - 1
        BY <2>1, <1>T DEF Tried, TypeOK
      <4> QED BY <4>1, <4>2, <1>T DEF TypeOK
    <3> QED BY <3>1, <3>2, <1>T DEF TypeOK, Files
  <2>2. CASE ~(Tried(p) < Attempts) /\ pc[p] = "open"
    BY <1>12, <2>2, <1>T, LoadEndsType DEF AttemptFails, TypeOK, Places, Files
  <2>3. CASE ~(Tried(p) < Attempts) /\ pc[p] # "open"
    <3>1. pc' \in [Procs -> Places] /\ tries' \in [Procs -> 0 .. Attempts - 1]
      BY <1>12, <2>3, <1>0, <1>T, GoType DEF AttemptFails
    <3>2. temps' \subseteq Files /\ handle' \in [Procs -> 0 .. Len(disk)]
      <4>1. temps' = temps \ {handle[p]} /\ handle' = [handle EXCEPT ![p] = 0]
        BY <1>12, <2>3 DEF AttemptFails, DropTemp
      <4> QED BY <4>1, <1>T DEF TypeOK
    <3>3. UNCHANGED <<disk, path, lock, made, found, window>>
      BY <1>12, <2>3 DEF AttemptFails
    <3> QED BY <3>1, <3>2, <3>3, <1>T DEF TypeOK, Files
  <2> QED BY <2>1, <2>2, <2>3
<1>13. ASSUME NEW p \in Procs, Truncate(p) PROVE TypeOK'
  <2>1. pc' \in [Procs -> Places] /\ tries' \in [Procs -> 0 .. Attempts - 1]
    BY <1>13, <1>0, <1>T, GoType DEF Truncate
  <2>2. window' \in [Procs -> SUBSET Values]
    BY <1>13, <1>T DEF Truncate, Witness, TypeOK, Values, Contents
  <2>0. Half \in Contents
    BY DEF Contents
  <2>3. CASE path = 0
    <3>1. disk' \in Seq(Contents) /\ Len(disk') = Len(disk) + 1 /\ path' = Len(disk) + 1
      <4>1. disk' = Append(disk, Half) /\ path' = Len(disk) + 1
        BY <1>13, <2>3 DEF Truncate
      <4> QED BY <4>1, <2>0, <1>T, AppendProperties DEF TypeOK
    <3>2. handle' \in [Procs -> 0 .. Len(disk')]
      BY <1>13, <3>1, <1>T DEF Truncate, TypeOK
    <3> QED BY <1>13, <2>1, <2>2, <3>1, <3>2, <1>T DEF Truncate, TypeOK, Files
  <2>4. CASE path # 0
    <3>1. disk' \in Seq(Contents) /\ Len(disk') = Len(disk) /\ path' = path
      <4>1. disk' = [disk EXCEPT ![path] = Half] /\ path' = path
        BY <1>13, <2>4 DEF Truncate
      <4>2. path \in 1 .. Len(disk)
        BY <2>4, <1>T DEF TypeOK
      <4> QED BY <4>1, <4>2, <2>0, <1>T, ExceptSeq DEF TypeOK
    <3>2. handle' \in [Procs -> 0 .. Len(disk')]
      BY <1>13, <3>1, <1>T DEF Truncate, TypeOK
    <3> QED BY <1>13, <2>1, <2>2, <3>1, <3>2, <1>T DEF Truncate, TypeOK, Files
  <2> QED BY <2>3, <2>4
<1>14. ASSUME NEW p \in Procs, Fill(p) PROVE TypeOK'
  <2>1. pc' \in [Procs -> Places] /\ tries' \in [Procs -> 0 .. Attempts - 1]
    BY <1>14, <1>0, <1>T, GoType DEF Fill
  <2>2. made \in Contents
    BY <1>14, <1>T DEF Fill, Owned, Updating, Contents, TypeOK
  <2>3. window' \in [Procs -> SUBSET Values]
    BY <1>14, <2>2, <1>T DEF Fill, Witness, TypeOK, Values
  <2>4. disk' \in Seq(Contents) /\ Len(disk') = Len(disk)
    BY <1>14, <2>2, <1>T, ExceptSeq DEF Fill, TypeOK, Owned, Files
  <2> QED BY <1>14, <2>1, <2>3, <2>4, <1>T DEF Fill, TypeOK, Files
<1>15. ASSUME NEW p \in Procs, FillFails(p) PROVE TypeOK'
  BY <1>15, <1>T, <1>0, GoType DEF FillFails, TypeOK, Places, Files
<1>16. ASSUME NEW p \in Procs, Delete(p) PROVE TypeOK'
  <2>1. window' \in [Procs -> SUBSET Values]
    BY <1>16, <1>T DEF Delete, Witness, TypeOK, Values
  <2> QED BY <1>16, <2>1, <1>T DEF Delete, TypeOK, Files
<1>17. ASSUME NEW p \in Procs, Crash(p) PROVE TypeOK'
  BY <1>17, <1>T, <1>0, GoType DEF Crash, TypeOK, Places, Files
<1> QED
  BY <1>1, <1>2, <1>3, <1>4, <1>5, <1>6, <1>7, <1>8, <1>9, <1>10, <1>11, <1>12, <1>13, <1>14,
     <1>15, <1>16, <1>17 DEF Next, Step, Fault

\* A step that leaves the files, the lock and the places alone, or moves a
\* process that neither holds the lock nor is to.
LEMMA OwnedStep ==
    ASSUME Inv, Next
    PROVE  Owned'
<1> USE DEF Inv
<1>T. TypeOK /\ Owned /\ \A p \in Procs : pc[p] \in Places
  BY DEF TypeOK
<1>1. ASSUME NEW p \in Procs, TakeLock(p) PROVE Owned'
  <2>1. \A q \in Procs : pc[q] \notin Updating
    BY <1>1, <1>T, FileStoreAssumption DEF TakeLock, LockFree, Owned
  <2> QED BY <1>1, <2>1, <1>T DEF TakeLock, Go, Owned, Updating, TypeOK
<1>2. ASSUME NEW p \in Procs, Release(p) PROVE Owned'
  BY <1>2, <1>T DEF Release, Go, Owned, Updating, TypeOK
<1>3. ASSUME NEW p \in Procs, LoadBegins(p) PROVE Owned'
  BY <1>3, <1>T DEF LoadBegins, Go, Owned, Updating, TypeOK
<1>4. ASSUME NEW p \in Procs, NEW v \in Values \cup {Failed}, LoadEnds(p, v),
             UNCHANGED <<disk, lock, made>>
      PROVE  Owned'
  <2>1. pc' = [pc EXCEPT ![p] = Home(p)] /\ handle' = [handle EXCEPT ![p] = 0]
    BY <1>4 DEF LoadEnds, Go
  <2>2. Home(p) \in {"held", "idle"} /\ (Home(p) = "held" => lock = p)
    BY DEF Home
  <2> QED BY <1>4, <2>1, <2>2, <1>T DEF Owned, Updating, TypeOK
<1>5. ASSUME NEW p \in Procs, Exists(p) PROVE Owned'
  <2>1. CASE path = 0
    <3>1. 0 \in Values \cup {Failed}
      BY DEF Values
    <3> QED BY <1>5, <2>1, <3>1, <1>4 DEF Exists
  <2>2. CASE path # 0
    BY <1>5, <2>2, <1>T DEF Exists, Go, Owned, Updating, TypeOK
  <2> QED BY <2>1, <2>2
<1>6. ASSUME NEW p \in Procs, Open(p) PROVE Owned'
  BY <1>6, <1>T DEF Open, Go, Owned, Updating, TypeOK
<1>7. ASSUME NEW p \in Procs, Read(p) PROVE Owned'
  <2>1. CASE disk[handle[p]] # Half
    <3>1. disk[handle[p]] \in Values \cup {Failed}
      BY <1>7, <1>T DEF Read, Owned, TypeOK, Values
    <3> QED BY <1>7, <2>1, <3>1, <1>4 DEF Read
  <2>2. CASE disk[handle[p]] = Half
    BY <1>7, <2>2, <1>T DEF Read, Go, Owned, Updating, TypeOK
  <2> QED BY <2>1, <2>2
<1>8. ASSUME NEW p \in Procs, RemoveCorrupt(p) PROVE Owned'
  <2>1. pc' = [pc EXCEPT ![p] = Home(p)] /\ UNCHANGED <<disk, lock, handle, made>>
    BY <1>8 DEF RemoveCorrupt, Go
  <2>2. Home(p) \in {"held", "idle"} /\ (Home(p) = "held" => lock = p)
    BY DEF Home
  <2> QED BY <2>1, <2>2, <1>T DEF Owned, Updating, TypeOK
<1>9. ASSUME NEW p \in Procs, StoreBegins(p) PROVE Owned'
  <2>1. \A q \in Procs : pc[q] \in Updating => q = p
    BY <1>9, <1>T DEF StoreBegins, Owned, Updating
  <2> QED BY <1>9, <2>1, <1>T DEF StoreBegins, Go, Owned, Updating, TypeOK
<1>10. ASSUME NEW p \in Procs, WriteTemp(p) PROVE Owned'
  <2>1. \A q \in Procs : pc[q] \in Updating => q = p
    BY <1>10, <1>T DEF WriteTemp, Owned, Updating
  <2>2. disk'[Len(disk) + 1] = made /\ Len(disk) + 1 # 0 /\ made' = made /\ lock' = lock
    BY <1>10, <1>T DEF WriteTemp, TypeOK
  <2> QED BY <1>10, <2>1, <2>2, <1>T DEF WriteTemp, Go, Owned, Updating, TypeOK
<1>11. ASSUME NEW p \in Procs, Rename(p) PROVE Owned'
  BY <1>11, <1>T DEF Rename, Go, Owned, Updating, TypeOK
<1>12. ASSUME NEW p \in Procs, TempFails(p) \/ TruncateFails(p) PROVE Owned'
  BY <1>12, <1>T DEF TempFails, TruncateFails, Go, Owned, Updating, TypeOK
<1>13. ASSUME NEW p \in Procs, AttemptFails(p) PROVE Owned'
  <2>1. CASE Tried(p) < Attempts
    BY <1>13, <2>1, <1>T DEF AttemptFails, Owned
  <2>2. CASE ~(Tried(p) < Attempts) /\ pc[p] = "open"
    BY <1>13, <2>2, <1>4 DEF AttemptFails
  <2>3. CASE ~(Tried(p) < Attempts) /\ pc[p] # "open"
    BY <1>13, <2>3, <1>T DEF AttemptFails, Go, Owned, Updating, TypeOK
  <2> QED BY <2>1, <2>2, <2>3
<1>14. ASSUME NEW p \in Procs, Truncate(p) PROVE Owned'
  <2>1. \A q \in Procs : pc[q] \in Updating => q = p
    BY <1>14, <1>T DEF Truncate, Owned, Updating
  <2>2. path' # 0
    BY <1>14, <1>T DEF Truncate, TypeOK
  <2> QED BY <1>14, <2>1, <2>2, <1>T DEF Truncate, Go, Owned, Updating, TypeOK
<1>15. ASSUME NEW p \in Procs, Fill(p) PROVE Owned'
  <2>1. \A q \in Procs : pc[q] \in Updating => q = p
    BY <1>15, <1>T DEF Fill, Owned, Updating
  <2> QED BY <1>15, <2>1, <1>T DEF Fill, Go, Owned, Updating, TypeOK
<1>16. ASSUME NEW p \in Procs, FillFails(p) PROVE Owned'
  BY <1>16, <1>T DEF FillFails, Go, Owned, Updating, TypeOK
<1>17. ASSUME NEW p \in Procs, Delete(p) PROVE Owned'
  BY <1>17, <1>T DEF Delete, Owned
<1>18. ASSUME NEW p \in Procs, Crash(p) PROVE Owned'
  BY <1>18, <1>T DEF Crash, Go, Owned, Updating, TypeOK
<1> QED
  BY <1>1, <1>2, <1>3, <1>5, <1>6, <1>7, <1>8, <1>9, <1>10, <1>11, <1>12, <1>13, <1>14, <1>15,
     <1>16, <1>17, <1>18 DEF Next, Step, Fault

\* The store starts with the lock free and no file of its own.
LEMMA InitInv == Init => Inv
<1> SUFFICES ASSUME Init PROVE Inv
  OBVIOUS
<1> USE FileStoreAssumption DEF Init
<1>1. 1 \in Contents /\ Half \in Contents
  BY DEF Contents
<1>2. disk \in Seq(Contents) /\ path \in 0 .. Len(disk) /\ made \in 0 .. MaxStores + 1
  <2>1. << >> \in Seq(Contents) /\ <<1>> \in Seq(Contents) /\ <<Half>> \in Seq(Contents)
    BY <1>1
  <2>2. Len(<< >>) = 0 /\ Len(<<1>>) = 1 /\ Len(<<Half>>) = 1
    OBVIOUS
  <2>3. CASE disk = << >> /\ path = 0 /\ made = 0
    BY <2>1, <2>2, <2>3
  <2>4. CASE disk \in {<<1>>, <<Half>>} /\ path = 1 /\ made = 1
    <3>1. disk \in Seq(Contents) /\ Len(disk) = 1
      BY <2>1, <2>2, <2>4
    <3> QED BY <3>1, <2>4
  <2> QED BY <2>3, <2>4
<1>3. /\ pc \in [Procs -> Places] /\ tries \in [Procs -> 0 .. Attempts - 1]
      /\ handle \in [Procs -> 0 .. Len(disk)] /\ found \in [Procs -> Values \cup {Failed}]
      /\ window \in [Procs -> SUBSET Values]
  BY <1>2 DEF Places, Values
<1>4. TypeOK
  BY <1>2, <1>3 DEF TypeOK, Files
<1>5. Owned
  BY DEF Owned, Updating
<1> QED BY <1>4, <1>5 DEF Inv

LEMMA InvStep == Inv /\ [Next]_vars => Inv'
<1> SUFFICES ASSUME Inv, [Next]_vars PROVE Inv'
  OBVIOUS
<1>1. CASE Next
  BY <1>1, TypeStep, OwnedStep DEF Inv
<1>2. CASE UNCHANGED vars
  BY <1>2 DEF vars, Inv, TypeOK, Owned, Files
<1> QED
  BY <1>1, <1>2

\* Whatever fails, a process stores and deletes under the lock alone, and the
\* license it is about to put in place is the last one given to the store.
THEOREM LockingTheorem == Spec => []Inv
BY InitInv, InvStep, PTL DEF Spec

\* store_local_license never brings an older license back: what lands in the file
\* is the license last given to the store.
THEOREM NewestTheorem == Spec => OnlyNewestLands
<1>1. Inv /\ Inv' /\ [Next]_vars => [Current' > 0 /\ Current' # Current => Current' = made]_vars
  <2> SUFFICES ASSUME Inv, Next, Current' > 0, Current' # Current PROVE Current' = made
    OBVIOUS
  <2>1. ~UNCHANGED <<disk, path>>
    BY DEF Current
  <2>2. ASSUME NEW p \in Procs, RemoveCorrupt(p) \/ Delete(p) PROVE FALSE
    BY <2>2 DEF RemoveCorrupt, Delete, Current
  <2>3. ASSUME NEW p \in Procs, WriteTemp(p) PROVE FALSE
    BY <2>3 DEF WriteTemp, Current, Inv, TypeOK
  <2>4. ASSUME NEW p \in Procs, Rename(p) PROVE Current' = made
    BY <2>4 DEF Rename, Current, Inv, Owned
  <2>5. ASSUME NEW p \in Procs, Truncate(p) PROVE FALSE
    BY <2>5 DEF Truncate, Current, Half, Inv, TypeOK
  <2>6. ASSUME NEW p \in Procs, Fill(p) PROVE Current' = made
    BY <2>6 DEF Fill, Current, Inv, TypeOK
  <2>7. ASSUME NEW p \in Procs, AttemptFails(p) \/ Exists(p) \/ Read(p) PROVE FALSE
    BY <2>7, <2>1 DEF AttemptFails, Exists, Read
  <2> QED
    BY <2>1, <2>2, <2>3, <2>4, <2>5, <2>6, <2>7 DEF Next, Step, Fault, TakeLock, Release, LoadBegins,
       Open, StoreBegins, TempFails, TruncateFails, FillFails, Crash
<1> QED BY <1>1, LockingTheorem, PTL DEF Spec, OnlyNewestLands

-----------------------------------------------------------------------------
\* Where the license can always be replaced, the steps that write it in place or
\* that give up never come.
LEMMA ReplaceableSteps ==
    ASSUME Replaceable, WholeInv, NEW p \in Procs
    PROVE  /\ ~Truncate(p) /\ ~Fill(p) /\ ~RemoveCorrupt(p) /\ ~Blocked
           /\ Fault(p) => Crash(p)
           /\ AttemptFails(p) => pc[p] = "open" /\ path = 0
           /\ Read(p) => disk[handle[p]] # Half
<1>1. ~Truncate(p) /\ ~Fill(p) /\ ~RemoveCorrupt(p)
  BY DEF Truncate, Fill, RemoveCorrupt, WholeInv, OnlyWhole
<1>2. ~Blocked /\ ~InUse(p) /\ (Fault(p) => Crash(p))
  BY DEF Replaceable, Blocked, InUse, Fault
<1>3. AttemptFails(p) => pc[p] = "open" /\ path = 0
  BY <1>2 DEF AttemptFails
<1>4. Read(p) => disk[handle[p]] # Half
  BY DEF Read, WholeInv, OnlyWhole, Inv, Owned, TypeOK, Files
<1> QED BY <1>1, <1>2, <1>3, <1>4

\* A file is written whole before it gets the license's name.
LEMMA WholeStep ==
    ASSUME Replaceable, WholeInv, Next
    PROVE  OnlyWhole'
<1> USE DEF WholeInv, Inv
<1>T. TypeOK /\ OnlyWhole /\ \A p \in Procs : pc[p] \in Places
  BY DEF TypeOK
<1>1. ASSUME NEW p \in Procs, NEW place \in Places \ {"inplace", "fill", "corrupt"},
             Go(p, place), UNCHANGED disk
      PROVE  OnlyWhole'
  BY <1>1, <1>T DEF Go, OnlyWhole, Files, TypeOK
<1>2. ASSUME NEW p \in Procs, UNCHANGED <<disk, pc>> PROVE OnlyWhole'
  BY <1>2, <1>T DEF OnlyWhole, Files
<1>3. {"idle", "exists", "open", "read", "held", "temp", "rename"}
         \subseteq Places \ {"inplace", "fill", "corrupt"}
  BY DEF Places, Loading, Updating
<1>4. \A p \in Procs : Home(p) \in Places \ {"inplace", "fill", "corrupt"}
  BY <1>3 DEF Home
<1>5. ASSUME NEW p \in Procs,
             TakeLock(p) \/ Release(p) \/ LoadBegins(p) \/ Open(p) \/ StoreBegins(p) \/ Rename(p) \/ Crash(p)
      PROVE  OnlyWhole'
  BY <1>5, <1>1, <1>3 DEF TakeLock, Release, LoadBegins, Open, StoreBegins, Rename, Crash
<1>6. ASSUME NEW p \in Procs, Exists(p) PROVE OnlyWhole'
  BY <1>6, <1>1, <1>3, <1>4 DEF Exists, LoadEnds
<1>7. ASSUME NEW p \in Procs, Read(p) PROVE OnlyWhole'
  BY <1>7, <1>1, <1>4, ReplaceableSteps DEF Read, LoadEnds
<1>8. ASSUME NEW p \in Procs, WriteTemp(p) PROVE OnlyWhole'
  <2>1. made \in Contents \ {Half}
    <3>1. pc[p] = "temp"
      BY <1>8 DEF WriteTemp
    <3>2. made > 0
      BY <3>1 DEF Owned, Updating
    <3> QED
      BY <3>2, <1>T DEF Contents, Half, TypeOK
  <2>2. \A n \in Files' : disk'[n] # Half
    BY <1>8, <2>1, <1>T, AppendProperties DEF WriteTemp, OnlyWhole, Files, TypeOK
  <2>3. \A q \in Procs : pc'[q] \notin {"inplace", "fill", "corrupt"}
    BY <1>8, <1>T DEF WriteTemp, Go, OnlyWhole, TypeOK
  <2> QED BY <2>2, <2>3 DEF OnlyWhole
<1>9. ASSUME NEW p \in Procs, AttemptFails(p) PROVE OnlyWhole'
  <2>1. CASE Tried(p) < Attempts
    BY <1>9, <2>1, <1>2 DEF AttemptFails
  <2>2. CASE ~(Tried(p) < Attempts)
    BY <1>9, <2>2, <1>1, <1>4, ReplaceableSteps DEF AttemptFails, LoadEnds
  <2> QED BY <2>1, <2>2
<1>10. ASSUME NEW p \in Procs, Delete(p) PROVE OnlyWhole'
  BY <1>10, <1>2 DEF Delete
<1> QED
  BY <1>5, <1>6, <1>7, <1>8, <1>9, <1>10, ReplaceableSteps DEF Next, Step

\* A load under way sees every license that comes and goes in the file, and the
\* one it opened is among them.
LEMMA WitnessedStep ==
    ASSUME Replaceable, WholeInv, Next
    PROVE  Witnessed'
<1> USE DEF WholeInv, Inv
<1>T. TypeOK /\ Witnessed /\ \A p \in Procs : pc[p] \in Places
  BY DEF TypeOK
<1>1. ASSUME NEW p \in Procs, NEW place \in {"idle", "held", "temp", "rename"}, Go(p, place),
             pc[p] \notin Loading, UNCHANGED <<disk, path, window>>,
             \A q \in Procs \ {p} : handle'[q] = handle[q]
      PROVE  Witnessed'
  BY <1>1, <1>T DEF Go, Witnessed, Current, Loading, TypeOK
<1>2. ASSUME NEW p \in Procs, NEW v \in Values \cup {Failed}, LoadEnds(p, v),
             UNCHANGED <<disk, path>>
      PROVE  Witnessed'
  <2>1. Home(p) \notin Loading
    BY DEF Home, Loading
  <2>2. /\ pc' = [pc EXCEPT ![p] = Home(p)] /\ window' = [window EXCEPT ![p] = {}]
        /\ handle' = [handle EXCEPT ![p] = 0]
    BY <1>2 DEF LoadEnds, Go
  <2> QED BY <1>2, <2>1, <2>2, <1>T DEF Witnessed, Current, Loading, TypeOK
<1>3. ASSUME NEW p \in Procs, TakeLock(p) \/ Release(p) \/ StoreBegins(p) PROVE Witnessed'
  BY <1>3, <1>1 DEF TakeLock, Release, StoreBegins, Loading
<1>4. ASSUME NEW p \in Procs, LoadBegins(p) PROVE Witnessed'
  BY <1>4, <1>T DEF LoadBegins, Go, Witnessed, Current, Loading, TypeOK
<1>5. ASSUME NEW p \in Procs, Exists(p) PROVE Witnessed'
  <2>1. CASE path = 0
    <3>1. 0 \in Values \cup {Failed}
      BY DEF Values
    <3> QED BY <1>5, <2>1, <3>1, <1>2 DEF Exists
  <2>2. CASE path # 0
    BY <1>5, <2>2, <1>T DEF Exists, Go, Witnessed, Current, Loading, TypeOK
  <2> QED BY <2>1, <2>2
<1>6. ASSUME NEW p \in Procs, Open(p) PROVE Witnessed'
  BY <1>6, <1>T DEF Open, Go, Witnessed, Current, Loading, TypeOK
<1>7. ASSUME NEW p \in Procs, Read(p) PROVE Witnessed'
  <2>1. disk[handle[p]] # Half /\ disk[handle[p]] \in Values \cup {Failed}
    BY <1>7, <1>T, ReplaceableSteps DEF Read, Owned, TypeOK, Values
  <2> QED BY <1>7, <2>1, <1>2 DEF Read
<1>8. ASSUME NEW p \in Procs, WriteTemp(p) PROVE Witnessed'
  <2>1. \A n \in Files : disk'[n] = disk[n]
    BY <1>8, <1>T DEF WriteTemp, Files, TypeOK
  <2>2. Current' = Current
    BY <1>8, <2>1, <1>T DEF WriteTemp, Current, Files, TypeOK
  <2>3. \A q \in Procs : pc'[q] = "read" => q # p /\ pc[q] = "read" /\ disk'[handle'[q]] = disk[handle[q]]
    BY <1>8, <2>1, <1>T DEF WriteTemp, Go, Owned, Files, TypeOK
  <2>4. \A q \in Procs : pc'[q] \in Loading <=> pc[q] \in Loading
    BY <1>8, <1>T DEF WriteTemp, Go, Loading, TypeOK
  <2> QED BY <1>8, <2>2, <2>3, <2>4, <1>T DEF WriteTemp, Witnessed
<1>9. ASSUME NEW p \in Procs, Rename(p) PROVE Witnessed'
  <2>1. Current' = disk[handle[p]]
    BY <1>9, <1>T DEF Rename, Current, Owned
  <2>2. \A q \in Procs : window'[q] = IF window[q] = {} THEN {} ELSE window[q] \cup {Current'}
    BY <1>9, <2>1 DEF Rename, Witness
  <2>3. \A q \in Procs : pc'[q] \in Loading <=> pc[q] \in Loading
    BY <1>9, <1>T DEF Rename, Go, Loading, TypeOK
  <2>4. \A q \in Procs : pc'[q] = "read" => pc[q] = "read" /\ disk'[handle'[q]] = disk[handle[q]]
    BY <1>9, <1>T DEF Rename, Go, TypeOK
  <2> QED BY <2>2, <2>3, <2>4, <1>T DEF Witnessed
<1>10. ASSUME NEW p \in Procs, AttemptFails(p) PROVE Witnessed'
  <2>1. CASE Tried(p) < Attempts
    BY <1>10, <2>1, <1>T DEF AttemptFails, Witnessed, Current
  <2>2. CASE ~(Tried(p) < Attempts)
    BY <1>10, <2>2, <1>2, ReplaceableSteps DEF AttemptFails
  <2> QED BY <2>1, <2>2
<1>11. ASSUME NEW p \in Procs, Delete(p) PROVE Witnessed'
  <2>1. \A q \in Procs : window'[q] = IF window[q] = {} THEN {} ELSE window[q] \cup {Current'}
    BY <1>11 DEF Delete, Witness, Current
  <2> QED BY <1>11, <2>1, <1>T DEF Delete, Witnessed
<1>12. ASSUME NEW p \in Procs, Crash(p) PROVE Witnessed'
  BY <1>12, <1>T DEF Crash, Go, Witnessed, Current, Loading, TypeOK
<1> QED
  BY <1>3, <1>4, <1>5, <1>6, <1>7, <1>8, <1>9, <1>10, <1>11, <1>12, ReplaceableSteps DEF Next, Step

\* The start of a device whose license file is whole or missing.
LEMMA InitWhole ==
    ASSUME Replaceable, Init
    PROVE  WholeInv
<1>1. Inv
  BY InitInv
<1>2. /\ \A p \in Procs : pc[p] = "idle" /\ window[p] = {}
      /\ disk = << >> \/ disk = <<1>>
  BY DEF Init, Replaceable
<1>3. OnlyWhole
  BY <1>2 DEF OnlyWhole, Files, Half
<1>4. Witnessed
  BY <1>2 DEF Witnessed, Loading
<1> QED BY <1>1, <1>3, <1>4 DEF WholeInv

\* What the renames rest on: no file ever holds half a license, and what a load
\* opened was the license at some moment of it.
THEOREM WholeInvariance ==
    ASSUME Replaceable
    PROVE  Spec => []WholeInv
<1>1. Init => WholeInv
  BY InitWhole
<1>2. WholeInv /\ [Next]_vars => WholeInv'
  <2> SUFFICES ASSUME WholeInv, [Next]_vars PROVE WholeInv'
    OBVIOUS
  <2>1. CASE Next
    BY <2>1, TypeStep, OwnedStep, WholeStep, WitnessedStep DEF WholeInv, Inv
  <2>2. CASE UNCHANGED vars
    BY <2>2 DEF vars, WholeInv, Inv, TypeOK, Owned, OnlyWhole, Witnessed, Current, Files
  <2> QED BY <2>1, <2>2
<1> QED BY <1>1, <1>2, PTL DEF Spec

\* docs/core-sdk.md's claim, where the license can always be replaced by a rename:
\* a load without the lock never finds half a license, however many processes
\* store, delete and die at the same time.
THEOREM WholeTheorem ==
    ASSUME Replaceable
    PROVE  Spec => []NeverHalfRead
<1>1. WholeInv => NeverHalfRead
  BY DEF WholeInv, OnlyWhole, NeverHalfRead, Inv, Owned, TypeOK, Files
<1> QED BY <1>1, WholeInvariance, PTL

-----------------------------------------------------------------------------
\* Initial files map to initial values.
LEMMA AbstractInit ==
    ASSUME Replaceable, Init
    PROVE  Abstract!AInit
BY DEF Init, Replaceable, Current, Abstract!AInit

\* Every step of the store is one of the abstract file, or changes nothing of it:
\* a rename or a deletion is a change, what a load returns is in its window.
LEMMA AbstractStep ==
    ASSUME Replaceable, WholeInv, WholeInv', Next
    PROVE  [Abstract!ANext]_(Abstract!avars)
<1> USE DEF Abstract!avars, WholeInv
<1>1. ASSUME UNCHANGED <<disk, path, found, window>> PROVE UNCHANGED Abstract!avars
  BY <1>1 DEF Current
<1>2. ASSUME NEW p \in Procs, NEW v, LoadEnds(p, v), UNCHANGED <<disk, path>>, pc[p] \in Loading,
             v \in window[p] \/ (v = Failed /\ 0 \in window[p])
      PROVE  Abstract!ANext
  <2>1. window[p] # {} /\ Current' = Current
    BY <1>2 DEF Witnessed, Current
  <2>2. v = Failed => 0 \in window[p]
    <3>1. window[p] \subseteq Values
      BY DEF Inv, TypeOK
    <3>2. Failed \notin Values
      BY FileStoreAssumption DEF Values, Contents, Half, Failed
    <3> QED BY <1>2, <3>1, <3>2
  <2>3. v \in window[p] \cup {Abstract!Failed}
    BY <1>2 DEF Abstract!Failed, Failed
  <2>4. Abstract!Ends(p)
    BY <1>2, <2>1, <2>2, <2>3 DEF LoadEnds, Abstract!Ends, Abstract!Failed, Failed
  <2> QED BY <2>4 DEF Abstract!ANext
<1>3. ASSUME NEW p \in Procs, LoadBegins(p) PROVE Abstract!ANext
  <2>1. window[p] = {} /\ Current' = Current
    BY <1>3 DEF LoadBegins, Witnessed, Loading, Current
  <2>2. Abstract!Begins(p)
    BY <1>3, <2>1 DEF LoadBegins, Abstract!Begins
  <2> QED BY <2>2 DEF Abstract!ANext
<1>4. ASSUME NEW p \in Procs, Exists(p) PROVE Abstract!ANext \/ UNCHANGED Abstract!avars
  <2>1. pc[p] \in Loading /\ Current \in window[p]
    BY <1>4 DEF Exists, Witnessed, Loading
  <2>2. CASE path = 0
    BY <1>4, <2>1, <2>2, <1>2 DEF Exists, Current
  <2>3. CASE path # 0
    BY <1>4, <2>3, <1>1 DEF Exists
  <2> QED BY <2>2, <2>3
<1>5. ASSUME NEW p \in Procs, Read(p) PROVE Abstract!ANext
  <2>1. pc[p] \in Loading /\ disk[handle[p]] \in window[p] /\ disk[handle[p]] # Half
    BY <1>5, ReplaceableSteps DEF Read, Witnessed, Loading
  <2> QED BY <1>5, <2>1, <1>2 DEF Read
<1>6. ASSUME NEW p \in Procs, AttemptFails(p) PROVE Abstract!ANext \/ UNCHANGED Abstract!avars
  <2>1. pc[p] = "open" /\ pc[p] \in Loading /\ 0 \in window[p]
    BY <1>6, ReplaceableSteps DEF Witnessed, Loading, Current
  <2>2. CASE Tried(p) < Attempts
    BY <1>6, <2>2, <1>1 DEF AttemptFails
  <2>3. CASE ~(Tried(p) < Attempts)
    BY <1>6, <2>1, <2>3, <1>2 DEF AttemptFails
  <2> QED BY <2>2, <2>3
<1>7. ASSUME NEW p \in Procs, WriteTemp(p) PROVE UNCHANGED Abstract!avars
  BY <1>7 DEF WriteTemp, Current, Inv, TypeOK
<1>8. ASSUME NEW p \in Procs, Rename(p) \/ Delete(p) PROVE Abstract!ANext
  <2>1. Current' \in Nat
    BY FileStoreAssumption DEF Inv, TypeOK, OnlyWhole, Contents, Current, Files
  <2>2. found' = found /\ window' = [q \in Procs |-> IF window[q] = {} THEN {} ELSE window[q] \cup {Current'}]
    BY <1>8 DEF Rename, Delete, Witness, Current, Inv, Owned
  <2>3. Abstract!Change
    BY <2>1, <2>2 DEF Abstract!Change
  <2> QED BY <2>3 DEF Abstract!ANext
<1>9. ASSUME NEW p \in Procs, Crash(p) PROVE Abstract!ANext
  <2>1. Abstract!Dies(p)
    BY <1>9 DEF Crash, Abstract!Dies, Current
  <2> QED BY <2>1 DEF Abstract!ANext
<1>10. ASSUME NEW p \in Procs, TakeLock(p) \/ Release(p) \/ Open(p) \/ StoreBegins(p)
       PROVE  UNCHANGED Abstract!avars
  BY <1>10, <1>1 DEF TakeLock, Release, Open, StoreBegins
<1> QED
  BY <1>3, <1>4, <1>5, <1>6, <1>7, <1>8, <1>9, <1>10, ReplaceableSteps DEF Next, Step

\* Loads without the lock are atomic reads of the file, where the license can
\* always be replaced by a rename.
THEOREM AtomicTheorem ==
    ASSUME Replaceable
    PROVE  Spec => ImplementsAtomicFile
<1>1. Init => Abstract!AInit
  BY AbstractInit
<1>2. WholeInv /\ WholeInv' /\ [Next]_vars => [Abstract!ANext]_(Abstract!avars)
  <2> SUFFICES ASSUME WholeInv, WholeInv', [Next]_vars PROVE [Abstract!ANext]_(Abstract!avars)
    OBVIOUS
  <2>1. CASE Next
    BY <2>1, AbstractStep
  <2>2. CASE UNCHANGED vars
    BY <2>2 DEF vars, Abstract!avars, Current
  <2> QED BY <2>1, <2>2
<1> QED BY <1>1, <1>2, WholeInvariance, PTL DEF Spec, ImplementsAtomicFile, Abstract!ASpec

-----------------------------------------------------------------------------
(* A license that others keep open: what a load under the lock finds.       *)

\* Files may be in use, as on Windows, and the folder may take no new one; no
\* process dies, no disk is full, and the store starts whole.
InUseOnly == Faults \subseteq {"scanner", "temp"}

\* Half a license is one somebody is writing, and what lies beside the license is
\* somebody's who is about to rename it.
HalvesAreFilled ==
    \A n \in Files : disk[n] = Half => \E p \in Procs : pc[p] = "fill" /\ handle[p] = n
TempsAreRenamed ==
    \A n \in temps : \E p \in Procs : pc[p] = "rename" /\ handle[p] = n

\* A step that touches neither a file nor anyone who is filling or renaming one.
LEMMA OthersWrite ==
    ASSUME HalvesAreFilled, TempsAreRenamed, UNCHANGED <<disk, temps>>,
           \A q \in Procs : pc[q] \in {"fill", "rename"} => pc'[q] = pc[q] /\ handle'[q] = handle[q]
    PROVE  HalvesAreFilled' /\ TempsAreRenamed'
BY DEF HalvesAreFilled, TempsAreRenamed, Files

LEMMA WritersStep ==
    ASSUME InUseOnly, Inv, HalvesAreFilled, TempsAreRenamed, Next
    PROVE  HalvesAreFilled' /\ TempsAreRenamed'
<1>T. TypeOK /\ Owned /\ made \in Nat /\ Half \notin Nat
  BY DEF Inv, TypeOK, Half
<1>A. \A p \in Procs : \A place : Go(p, place) => \A q \in Procs : q # p => pc'[q] = pc[q]
  BY <1>T DEF Go, TypeOK
<1>P. ASSUME NEW p \in Procs, Go(p, pc'[p]), pc[p] \notin {"fill", "rename"},
             handle' = handle \/ \E h : handle' = [handle EXCEPT ![p] = h]
      PROVE  \A q \in Procs : pc[q] \in {"fill", "rename"} => pc'[q] = pc[q] /\ handle'[q] = handle[q]
  BY <1>P, <1>A, <1>T DEF TypeOK
<1>1. ASSUME NEW p \in Procs, TakeLock(p) \/ Release(p) \/ LoadBegins(p) \/ StoreBegins(p) \/ TempFails(p)
                              \/ TruncateFails(p)
      PROVE  HalvesAreFilled' /\ TempsAreRenamed'
  <2>1. /\ UNCHANGED <<disk, temps, handle>> /\ pc[p] \notin {"fill", "rename"}
        /\ \E place : Go(p, place)
    BY <1>1 DEF TakeLock, Release, LoadBegins, StoreBegins, TempFails, TruncateFails
  <2>2. \A q \in Procs : pc[q] \in {"fill", "rename"} => pc'[q] = pc[q] /\ handle'[q] = handle[q]
    BY <1>A, <2>1
  <2> QED
    BY <2>1, <2>2, OthersWrite
<1>2. ASSUME NEW p \in Procs, Exists(p) \/ Open(p) \/ Read(p) \/ RemoveCorrupt(p)
      PROVE  HalvesAreFilled' /\ TempsAreRenamed'
  <2>1. /\ UNCHANGED <<disk, temps>> /\ pc[p] \notin {"fill", "rename"}
        /\ \E place : Go(p, place)
        /\ handle' = handle \/ \E h : handle' = [handle EXCEPT ![p] = h]
    BY <1>2 DEF Exists, Open, Read, RemoveCorrupt, LoadEnds
  <2>2. \A q \in Procs : pc[q] \in {"fill", "rename"} => pc'[q] = pc[q] /\ handle'[q] = handle[q]
    BY <1>A, <1>T, <2>1 DEF TypeOK
  <2> QED
    BY <2>1, <2>2, OthersWrite
<1>3. ASSUME NEW p \in Procs, Delete(p)
      PROVE  HalvesAreFilled' /\ TempsAreRenamed'
  BY <1>3, OthersWrite DEF Delete
<1>4. ASSUME NEW p \in Procs, WriteTemp(p)
      PROVE  HalvesAreFilled' /\ TempsAreRenamed'
  <2> DEFINE new == Len(disk) + 1
  <2>1. /\ pc[p] = "temp" /\ disk' = Append(disk, made) /\ temps' = temps \cup {new}
        /\ handle' = [handle EXCEPT ![p] = new] /\ Go(p, "rename")
    BY <1>4 DEF WriteTemp
  <2>2. pc'[p] = "rename" /\ handle'[p] = new
    BY <2>1, <1>T DEF Go, TypeOK
  <2>3. \A q \in Procs : pc[q] \in {"fill", "rename"} => pc'[q] = pc[q] /\ handle'[q] = handle[q]
    BY <2>1, <1>A, <1>T DEF TypeOK
  <2>4. /\ Len(disk) \in Nat /\ Len(disk') = new
        /\ \A n \in 1 .. Len(disk) : disk'[n] = disk[n]
        /\ disk'[new] = made
    BY <2>1, <1>T, AppendProperties DEF TypeOK
  <2>5. \A n \in Files' : n \in Files \/ n = new
    BY <2>4 DEF Files
  <2>6. HalvesAreFilled'
    BY <2>3, <2>4, <2>5, <1>T DEF HalvesAreFilled, Files
  <2>7. TempsAreRenamed'
    BY <2>1, <2>2, <2>3 DEF TempsAreRenamed
  <2> QED
    BY <2>6, <2>7
<1>5. ASSUME NEW p \in Procs, pc[p] = "rename", temps' = temps \ {handle[p]}, disk' = disk,
             handle' = [handle EXCEPT ![p] = 0], NEW place, Go(p, place)
      PROVE  HalvesAreFilled' /\ TempsAreRenamed'
  <2>1. \A q \in Procs : q # p => pc'[q] = pc[q] /\ handle'[q] = handle[q]
    BY <1>5, <1>A, <1>T DEF TypeOK
  <2>2. HalvesAreFilled'
    BY <1>5, <2>1 DEF HalvesAreFilled, Files
  <2>3. TempsAreRenamed'
    BY <1>5, <2>1 DEF TempsAreRenamed
  <2> QED
    BY <2>2, <2>3
<1>6. ASSUME NEW p \in Procs, Rename(p)
      PROVE  HalvesAreFilled' /\ TempsAreRenamed'
  BY <1>5, <1>6 DEF Rename
<1>7. ASSUME NEW p \in Procs, AttemptFails(p)
      PROVE  HalvesAreFilled' /\ TempsAreRenamed'
  <2>1. CASE Tried(p) < Attempts
    BY <1>7, <2>1, OthersWrite DEF AttemptFails
  <2>2. CASE ~(Tried(p) < Attempts) /\ pc[p] = "open"
    <3>1. /\ UNCHANGED <<disk, temps>> /\ \E place : Go(p, place)
          /\ handle' = [handle EXCEPT ![p] = 0]
      BY <1>7, <2>2 DEF AttemptFails, LoadEnds
    <3>2. \A q \in Procs : pc[q] \in {"fill", "rename"} => pc'[q] = pc[q] /\ handle'[q] = handle[q]
      BY <2>2, <3>1, <1>A, <1>T DEF TypeOK
    <3> QED
      BY <3>1, <3>2, OthersWrite
  <2>3. CASE ~(Tried(p) < Attempts) /\ pc[p] # "open"
    BY <1>5, <1>7, <2>3 DEF AttemptFails, DropTemp
  <2> QED
    BY <2>1, <2>2, <2>3
<1>8. ASSUME NEW p \in Procs, Truncate(p)
      PROVE  HalvesAreFilled' /\ TempsAreRenamed'
  <2>1. /\ pc[p] = "inplace" /\ temps' = temps /\ handle' = [handle EXCEPT ![p] = path'] /\ Go(p, "fill")
        /\ \/ path = 0 /\ disk' = Append(disk, Half) /\ path' = Len(disk) + 1
           \/ path # 0 /\ disk' = [disk EXCEPT ![path] = Half] /\ path' = path
    BY <1>8 DEF Truncate
  <2>2. pc'[p] = "fill" /\ handle'[p] = path'
    BY <2>1, <1>T DEF Go, TypeOK
  <2>3. \A q \in Procs : pc[q] \in {"fill", "rename"} => pc'[q] = pc[q] /\ handle'[q] = handle[q]
    BY <2>1, <1>A, <1>T DEF TypeOK
  <2>4. \A n \in Files' : n = path' \/ (n \in Files /\ disk'[n] = disk[n])
    <3>1. CASE path = 0
      BY <2>1, <3>1, <1>T, AppendProperties DEF TypeOK, Files
    <3>2. CASE path # 0
      <4>1. path \in Files /\ path \in 1 .. Len(disk)
        BY <3>2, <1>T DEF TypeOK, Files
      <4>2. Len(disk') = Len(disk) /\ \A n \in 1 .. Len(disk) : n # path => disk'[n] = disk[n]
        BY <2>1, <3>2, <4>1, <1>T, ExceptSeq DEF TypeOK
      <4> QED
        BY <2>1, <3>2, <4>2 DEF Files
    <3> QED
      BY <3>1, <3>2
  <2>5. HalvesAreFilled'
    BY <2>2, <2>3, <2>4 DEF HalvesAreFilled
  <2>6. TempsAreRenamed'
    BY <2>1, <2>3 DEF TempsAreRenamed
  <2> QED
    BY <2>5, <2>6
<1>9. ASSUME NEW p \in Procs, Fill(p)
      PROVE  HalvesAreFilled' /\ TempsAreRenamed'
  <2>1. /\ pc[p] = "fill" /\ temps' = temps /\ handle' = [handle EXCEPT ![p] = 0] /\ Go(p, "held")
        /\ disk' = [disk EXCEPT ![handle[p]] = made]
    BY <1>9 DEF Fill
  <2>2. \A q \in Procs : q # p => pc'[q] = pc[q] /\ handle'[q] = handle[q]
    BY <2>1, <1>A, <1>T DEF TypeOK
  <2>3. \A n \in Files' : n \in Files /\ (n # handle[p] => disk'[n] = disk[n]) /\ (n = handle[p] => disk'[n] = made)
    <3>1. handle[p] \in 1 .. Len(disk)
      BY <2>1, <1>A, <1>T DEF Owned, TypeOK, Files
    <3>2. /\ Len(disk') = Len(disk) /\ disk'[handle[p]] = made
          /\ \A n \in 1 .. Len(disk) : n # handle[p] => disk'[n] = disk[n]
      BY <2>1, <3>1, <1>T, ExceptSeq DEF TypeOK
    <3> QED
      BY <3>2 DEF Files
  <2>4. HalvesAreFilled'
    BY <2>2, <2>3, <1>T DEF HalvesAreFilled
  <2>5. TempsAreRenamed'
    BY <2>1, <2>2 DEF TempsAreRenamed
  <2> QED
    BY <2>4, <2>5
<1> QED
  BY <1>1, <1>2, <1>3, <1>4, <1>6, <1>7, <1>8, <1>9 DEF Next, Step, Fault, InUseOnly

InUseInv == Inv /\ HalvesAreFilled /\ TempsAreRenamed

\* Nobody is writing when the store is opened.
LEMMA InUseInitially ==
    ASSUME InUseOnly, Init
    PROVE  InUseInv
<1>1. temps = {} /\ (disk = << >> \/ disk = <<1>>)
  BY DEF Init, InUseOnly
<1>2. \A n \in Files : disk[n] = 1
  BY <1>1 DEF Files
<1> QED
  BY <1>1, <1>2, InitInv DEF InUseInv, HalvesAreFilled, TempsAreRenamed, Half

LEMMA InUseStep ==
    ASSUME InUseOnly, InUseInv, [Next]_vars
    PROVE  InUseInv'
<1>1. Inv'
  BY InvStep DEF InUseInv
<1>2. CASE Next
  BY <1>1, <1>2, WritersStep DEF InUseInv
<1>3. CASE UNCHANGED vars
  BY <1>1, <1>3, OthersWrite DEF vars, InUseInv
<1> QED
  BY <1>2, <1>3

\* Who has the lock to load has it alone, and who gives it back has no file left to
\* rename.
LEMMA InUseGives ==
    ASSUME InUseInv
    PROVE  LockedReadsWhole /\ TempsCleaned
<1>1. \A p \in Procs : pc[p] \in {"fill", "rename"} => lock = p /\ p # NoProc
  BY FileStoreAssumption DEF InUseInv, Inv, Owned, Updating
<1>2. ASSUME NEW p \in Procs, pc[p] = "read", lock = p PROVE disk[handle[p]] # Half
  <2>1. handle[p] \in Files
    BY <1>2 DEF InUseInv, Inv, TypeOK, Owned, Files
  <2>2. \A q \in Procs : pc[q] = "fill" => q = p
    BY <1>1, <1>2
  <2> QED
    BY <1>2, <2>1, <2>2 DEF InUseInv, HalvesAreFilled
<1>3. TempsCleaned
  BY <1>1 DEF InUseInv, TempsCleaned, TempsAreRenamed
<1> QED
  BY <1>2, <1>3 DEF LockedReadsWhole

\* Where a license can't be replaced while somebody has it open, it is written in
\* place, but a load under the lock still finds a whole one: the writer has the lock.
\* And a store leaves nothing beside the license, however often the replacement failed.
THEOREM InUseTheorem ==
    ASSUME InUseOnly
    PROVE  Spec => [](LockedReadsWhole /\ TempsCleaned)
<1>1. Init => InUseInv
  BY InUseInitially
<1>2. InUseInv /\ [Next]_vars => InUseInv'
  BY InUseStep
<1>3. InUseInv => LockedReadsWhole /\ TempsCleaned
  BY InUseGives
<1> QED
  BY <1>1, <1>2, <1>3, PTL DEF Spec
=============================================================================

----------------------- MODULE LicenseUpdates_proofs -----------------------
(***************************************************************************)
(* Proofs about LicenseUpdates, for any number of instances, threads,      *)
(* activations and calls.                                                  *)
(***************************************************************************)
EXTENDS LicenseUpdates, TLAPS

-----------------------------------------------------------------------------
\* What the parts the actions share do to the variables they change.

\* Ending a call frees its locks and gives it one of the outcomes.
LEMMA ConcludeType ==
    ASSUME LocksOK, CallsOK, NEW t \in Threads, NEW o \in Outcomes, Conclude(t, o)
    PROVE  /\ lockHolder' \in Threads \cup {NoThread}
           /\ mutex' \in [Instances -> Threads \cup {NoThread}]
           /\ pc' \in [Threads -> Places]
           /\ outcome' \in [Threads -> Outcomes]
BY DEF LocksOK, CallsOK, Conclude, Unlock, Places

\* A request without a verdict ends the call (NoVerdict), whatever was kept.
LEMMA NoVerdictType ==
    ASSUME LocksOK, CallsOK, NEW t \in Threads, NoVerdict(t)
    PROVE  /\ lockHolder' \in Threads \cup {NoThread}
           /\ mutex' \in [Instances -> Threads \cup {NoThread}]
           /\ pc' \in [Threads -> Places]
           /\ outcome' \in [Threads -> Outcomes]
<1>1. PICK o \in Outcomes : Conclude(t, o)
  BY DEF NoVerdict, Outcomes
<1> QED BY <1>1, ConcludeType

\* A token the server issued is for an activation and has a time.
LEMMA IssuedToken ==
    ASSUME ServerOK, NEW n \in Tokens
    PROVE  Act(n) \in Activations /\ At(n) \in Nat
<1>1. log[n] \in Copies
  BY DEF ServerOK, Tokens
<1> QED BY <1>1 DEF Copies, Act, At

\* Issuing appends one token and leaves the others as they were.
LEMMA IssueAppends ==
    ASSUME ServerOK, NEW a \in Activations, NEW at \in Nat, NEW seat \in BOOLEAN,
           Issue(a, at, seat)
    PROVE  /\ log' \in Seq(Copies)
           /\ lastAt' \in [Activations -> Nat]
           /\ Len(log') = Len(log) + 1
           /\ \A n \in Tokens : log'[n] = log[n]
           /\ log'[Len(log) + 1] = [act |-> a, at |-> at, seat |-> seat]
<1>1. [act |-> a, at |-> at, seat |-> seat] \in Copies
  BY DEF Copies
<1> QED BY <1>1 DEF ServerOK, Issue, Tokens

\* A thread at rest, after its call or after a crash, keeps the types.
LEMMA RestType ==
    ASSUME TypeOK, NEW T \in SUBSET Threads, Rest(T)
    PROVE  /\ pc' \in [Threads -> Places]
           /\ call' \in [Threads -> AllKinds \cup FollowUps]
           /\ token' \in [Threads -> 0 .. Len(log)]
           /\ answer' \in [Threads -> 0 .. Len(log)]
           /\ inGrace' \in [Threads -> BOOLEAN]
           /\ outcome' \in [Threads -> Outcomes]
           /\ superseded' \in [Threads -> BOOLEAN]
           /\ forgotten' \in [Threads -> BOOLEAN]
<1> USE DEF TypeOK, TokensOK, CallsOK, ServerOK
<1>1. 0 \in 0 .. Len(log)
  OBVIOUS
<1> QED BY <1>1 DEF Rest, Places, AllKinds, Outcomes

-----------------------------------------------------------------------------
\* Type correctness.

\* A device without a license, or with one of an earlier session, is well typed.
LEMMA InitTypeOK == Init => TypeOK
<1> SUFFICES ASSUME Init PROVE TypeOK
  OBVIOUS
<1>1. log \in Seq(Copies) /\ stored \in 0 .. Len(log) /\ Len(log) \in Nat
  <2>1. CASE log = << >> /\ stored = 0
    BY <2>1
  <2>2. CASE \E a \in Activations : log = << [act |-> a, at |-> 0, seat |-> TRUE] >> /\ stored = 1
    <3>1. PICK a \in Activations : log = << [act |-> a, at |-> 0, seat |-> TRUE] >> /\ stored = 1
      BY <2>2
    <3>2. [act |-> a, at |-> 0, seat |-> TRUE] \in Copies
      BY DEF Copies
    <3> QED BY <3>1, <3>2
  <2> QED BY <2>1, <2>2 DEF Init
<1>2. active \in [Activations -> BOOLEAN]
  BY DEF Init
<1>3. ServerOK
  BY <1>1, <1>2 DEF Init, ServerOK
<1>4. LocksOK
  BY DEF Init, LocksOK
<1>5. CallsOK
  BY LicenseUpdatesAssumption DEF Init, CallsOK, Places, AllKinds, Outcomes
<1>6. TokensOK
  BY <1>1 DEF Init, TokensOK
<1> QED BY <1>3, <1>4, <1>5, <1>6 DEF TypeOK

\* A step of a thread that issues nothing keeps every token within the log.
LEMMA BeginType ==
    ASSUME TypeOK, NEW t \in Threads, NEW k \in Kinds, Begin(t, k)
    PROVE  TypeOK'
<1> USE DEF TypeOK
<1>1. k \in AllKinds
  BY LicenseUpdatesAssumption
<1>2. Entry(k) \in Places
  BY DEF Entry, Places
<1>3. token' \in [Threads -> 0 .. Len(log)]
  <2>1. CallersTokens(k) \subseteq 0 .. Len(log)
    BY DEF CallersTokens, Tokens, TokensOK, ServerOK
  <2> QED BY <2>1 DEF Begin, TokensOK
<1>4. superseded' \in [Threads -> BOOLEAN] /\ forgotten' \in [Threads -> BOOLEAN]
  BY DEF Begin, Supersedes, CallsOK
<1>5. begun' \in 0 .. MaxCalls
  BY LicenseUpdatesAssumption DEF Begin, CallsOK
<1>6. ServerOK' /\ LocksOK'
  BY DEF Begin, ServerOK, LocksOK, server, locks
<1>7. CallsOK'
  BY <1>1, <1>2, <1>4, <1>5 DEF Begin, CallsOK
<1>8. TokensOK'
  BY <1>3 DEF Begin, TokensOK, server
<1> QED BY <1>6, <1>7, <1>8

\* What validate_token_online is granted is one new token, which is no seat.
LEMMA GrantsIssue ==
    ASSUME TypeOK, TokensExist, NEW t \in Threads, Grant(t)
    PROVE  \E a \in Activations, at \in Nat : Issue(a, at, FALSE)
<1>1. token[t] \in Tokens
  BY DEF Grant, TypeOK, TokensExist, NeedsToken, Answering, Checks, Tokens, TokensOK,
     ServerOK
<1>2. Act(token[t]) \in Activations
  BY <1>1, IssuedToken DEF TypeOK
<1>3. lastAt[Act(token[t])] \in Nat /\ now \in Nat
  BY <1>2 DEF TypeOK, ServerOK
<1> QED BY <1>2, <1>3 DEF Grant

\* No call, fault or event breaks the types: what is written to the file, or
\* taken in hand, was issued.
LEMMA TypeStep ==
    ASSUME TypeOK, TokensExist, Next
    PROVE  TypeOK'
<1> USE DEF TypeOK
<1>0. /\ {"none", "granted", "kept", "revoked", "refused", "failed"} = Outcomes
      /\ {"idle", "mutex", "lock", "online", "return", "load", "ask", "check", "write", "delete"} = Places
  BY DEF Outcomes, Places, Holding
<1>1. ASSUME NEW t \in Threads, NEW k \in Kinds, Begin(t, k)
      PROVE  TypeOK'
  BY <1>1, BeginType
<1>2. ASSUME NEW t \in Threads, TakeMutex(t) PROVE TypeOK'
  BY <1>2, <1>0 DEF TakeMutex, ServerOK, LocksOK, CallsOK, TokensOK, server, history
<1>3. ASSUME NEW t \in Threads, TakeLock(t) PROVE TypeOK'
  BY <1>3, <1>0 DEF TakeLock, LockFree, UnderLock, ServerOK, LocksOK, CallsOK, TokensOK,
     server, history
<1>4. ASSUME NEW t \in Threads, NEW o \in Outcomes, Conclude(t, o),
             UNCHANGED <<server, now, closing, call, token, answer, inGrace, superseded, begun,
                         forgotten>>,
             stored' \in 0 .. Len(log), floor' \in 0 .. Len(log)
      PROVE  TypeOK'
  BY <1>4, ConcludeType DEF ServerOK, LocksOK, CallsOK, TokensOK, server
<1>5. ASSUME NEW t \in Threads, GiveUpWaiting(t) \/ LockError(t) PROVE TypeOK'
  BY <1>5, <1>4, <1>0 DEF GiveUpWaiting, LockError, LockFailed, history, TokensOK
<1>6. ASSUME NEW t \in Threads, NEW d \in {stored, 0}, LoadWith(t, d) PROVE TypeOK'
  <2>1. Freshest(token[t], d) \in 0 .. Len(log)
    BY DEF Freshest, TokensOK, ServerOK
  <2>2. /\ lockHolder' \in Threads \cup {NoThread}
        /\ mutex' \in [Instances -> Threads \cup {NoThread}]
        /\ pc' \in [Threads -> Places]
        /\ outcome' \in [Threads -> Outcomes]
    BY <1>6, <1>0, ConcludeType DEF LoadWith, LocksOK, CallsOK, locks
  <2>3. answer' \in [Threads -> 0 .. Len(log)] /\ inGrace' \in [Threads -> BOOLEAN]
    BY <1>6, <2>1 DEF LoadWith, CallsOK, TokensOK
  <2> QED
    BY <1>6, <2>2, <2>3 DEF LoadWith, ServerOK, LocksOK, CallsOK, TokensOK, server, history
<1>7. ASSUME NEW t \in Threads, Unreachable(t) PROVE TypeOK'
  BY <1>7, <1>4, <1>0 DEF Unreachable, NoVerdict, history, TokensOK
<1>8. ASSUME NEW t \in Threads, Grant(t) PROVE TypeOK'
  <2>1. PICK a \in Activations, at \in Nat : Issue(a, at, FALSE)
    BY <1>8, GrantsIssue
  <2>2. log' \in Seq(Copies) /\ lastAt' \in [Activations -> Nat] /\ Len(log') = Len(log) + 1
    BY <2>1, IssueAppends
  <2>3. /\ lockHolder' \in Threads \cup {NoThread}
        /\ mutex' \in [Instances -> Threads \cup {NoThread}]
        /\ pc' \in [Threads -> Places]
        /\ outcome' \in [Threads -> Outcomes]
    BY <1>8, <1>0, NoVerdictType DEF Grant, LocksOK, CallsOK, locks
  <2>4. 0 .. Len(log) \subseteq 0 .. Len(log') /\ Len(log) + 1 \in 0 .. Len(log')
    BY <2>2 DEF ServerOK
  <2>5. answer' \in [Threads -> 0 .. Len(log')]
    BY <1>8, <2>4 DEF Grant, TokensOK
  <2>6. ServerOK' /\ LocksOK' /\ CallsOK'
    BY <1>8, <2>2, <2>3 DEF Grant, ServerOK, LocksOK, CallsOK, history
  <2>7. TokensOK'
    BY <1>8, <2>4, <2>5 DEF Grant, TokensOK, history
  <2> QED BY <2>6, <2>7
<1>9. ASSUME NEW t \in Threads, GrantActivation(t) PROVE TypeOK'
  <2>1. PICK a \in Activations : Issue(a, now, TRUE) /\ active' = [active EXCEPT ![a] = TRUE]
    BY <1>9 DEF GrantActivation
  <2>2. log' \in Seq(Copies) /\ lastAt' \in [Activations -> Nat] /\ Len(log') = Len(log) + 1
    BY <2>1, IssueAppends DEF ServerOK
  <2>3. /\ lockHolder' \in Threads \cup {NoThread}
        /\ mutex' \in [Instances -> Threads \cup {NoThread}]
        /\ pc' \in [Threads -> Places]
        /\ outcome' \in [Threads -> Outcomes]
    BY <1>9, <1>0, ConcludeType DEF GrantActivation
  <2>4. 0 .. Len(log) \subseteq 0 .. Len(log') /\ Len(log) + 1 \in 0 .. Len(log')
    BY <2>2 DEF ServerOK
  <2>5. answer' \in [Threads -> 0 .. Len(log')]
    BY <1>9, <2>4 DEF GrantActivation, TokensOK
  <2>6. ServerOK' /\ LocksOK' /\ CallsOK'
    BY <1>9, <2>1, <2>2, <2>3 DEF GrantActivation, ServerOK, LocksOK, CallsOK, history
  <2>7. TokensOK'
    BY <1>9, <2>4, <2>5 DEF GrantActivation, TokensOK, history
  <2> QED BY <2>6, <2>7
<1>10. ASSUME NEW t \in Threads, GrantRevocation(t) PROVE TypeOK'
  <2>1. /\ lockHolder' \in Threads \cup {NoThread}
        /\ mutex' \in [Instances -> Threads \cup {NoThread}]
        /\ pc' \in [Threads -> Places]
        /\ outcome' \in [Threads -> Outcomes]
    BY <1>10, <1>0, NoVerdictType DEF GrantRevocation, LocksOK, CallsOK, locks
  <2> QED
    BY <1>10, <2>1 DEF GrantRevocation, ServerOK, LocksOK, CallsOK, TokensOK, history
<1>11. ASSUME NEW t \in Threads, Refuse(t) PROVE TypeOK'
  <2>1. CASE Revoked(t) /\ call[t] = "start"
    <3>1. LocksOK'
      BY <1>11, <2>1 DEF Refuse, Unlock, LocksOK
    <3>2. CallsOK'
      BY <1>11, <1>0, <2>1 DEF Refuse, CallsOK, FollowUps, history
    <3> QED
      BY <1>11, <2>1, <3>1, <3>2 DEF Refuse, ServerOK, TokensOK, server, history
  <2>2. CASE ~(Revoked(t) /\ call[t] = "start")
    BY <1>11, <1>4, <1>0, <2>2 DEF Refuse, TokensOK, history
  <2> QED BY <2>1, <2>2
<1>12. ASSUME NEW t \in Threads, Check(t) PROVE TypeOK'
  <2>1. CASE MayStore(t)
    BY <1>12, <1>0, <2>1 DEF Check, ServerOK, LocksOK, CallsOK, TokensOK, server, locks,
       history
  <2>2. CASE ~MayStore(t)
    BY <1>12, <1>4, <1>0, <2>2 DEF Check, TokensOK, history
  <2> QED BY <2>1, <2>2
<1>13. ASSUME NEW t \in Threads, CheckFails(t) PROVE TypeOK'
  BY <1>13, <1>4, <1>0 DEF CheckFails, NoVerdict, history, TokensOK
<1>14. ASSUME NEW t \in Threads, Write(t) PROVE TypeOK'
  BY <1>14, <1>4, <1>0 DEF Write, Ended, TokensOK, ServerOK
<1>15. ASSUME NEW t \in Threads, Delete(t) PROVE TypeOK'
  <2>1. Ended(t) \in Outcomes
    BY <1>0 DEF Ended
  <2>2. stored' \in 0 .. Len(log) /\ floor' \in 0 .. Len(log)
    BY <1>15 DEF Delete, TokensOK, ServerOK
  <2>3. forgotten' \in [Threads -> BOOLEAN]
    BY <1>15 DEF Delete, CallsOK
  <2> QED
    BY <1>15, <2>1, <2>2, <2>3, ConcludeType DEF Delete, ServerOK, LocksOK, CallsOK,
       TokensOK, server
<1>16. ASSUME NEW t \in Threads, StorageError(t) PROVE TypeOK'
  BY <1>16, <1>4, <1>0 DEF StorageError, Ended, history, TokensOK
<1>17. ASSUME NEW t \in Threads, Continue(t) PROVE TypeOK'
  <2>1. superseded' \in [Threads -> BOOLEAN]
    BY <1>17 DEF Continue, Supersedes, CallsOK
  <2> QED
    BY <1>17, <1>0, <2>1 DEF Continue, ServerOK, LocksOK, CallsOK, TokensOK, server, locks,
       history, AllKinds, FollowUps
<1>18. ASSUME NEW t \in Threads, Return(t) PROVE TypeOK'
  BY <1>18, RestType DEF Return, ServerOK, LocksOK, CallsOK, TokensOK, server, locks
<1>19. ASSUME NEW i \in Instances, Supersede(i) PROVE TypeOK'
  BY <1>19 DEF Supersede, ServerOK, LocksOK, CallsOK, TokensOK, server, locks, history
<1>20. ASSUME NEW i \in Instances, Close(i) \/ Reopen(i) PROVE TypeOK'
  BY <1>20 DEF Close, Reopen, ServerOK, LocksOK, CallsOK, TokensOK, server, locks, history
<1>21. ASSUME NEW i \in Instances, Crash(i) PROVE TypeOK'
  <2>1. PICK T \in SUBSET Threads : Rest(T)
    BY <1>21 DEF Crash
  <2> QED BY <1>21, <2>1, RestType DEF Crash, ServerOK, LocksOK, CallsOK, TokensOK, server
<1>22. ASSUME NEW a \in Activations, ServerRevoke(a) PROVE TypeOK'
  BY <1>22 DEF ServerRevoke, ServerOK, LocksOK, CallsOK, TokensOK, locks, history
<1>23. ASSUME Tick PROVE TypeOK'
  BY <1>23 DEF Tick, ServerOK, LocksOK, CallsOK, TokensOK, server, locks, history
<1> QED
  BY <1>1, <1>2, <1>3, <1>5, <1>6, <1>7, <1>8, <1>9, <1>10, <1>11, <1>12, <1>13, <1>14,
     <1>15, <1>16, <1>17, <1>18, <1>19, <1>20, <1>21, <1>22, <1>23 DEF Next, Step, Fault,
     Load, LoadFails

-----------------------------------------------------------------------------

\* The update lock changes hands only by TakeLock, and every way out of a call,
\* a crash too, gives it back.
LEMMA LockStep ==
    ASSUME TypeOK, LockOwned, Next
    PROVE  LockOwned'
<1>1. ASSUME NEW t \in Threads, NEW k \in Kinds, Begin(t, k) PROVE LockOwned'
  BY <1>1, LicenseUpdatesAssumption DEF Begin, Entry, locks, LockOwned, Holding, TypeOK,
     CallsOK, LocksOK
<1>2. ASSUME NEW t \in Threads, TakeMutex(t) PROVE LockOwned'
  BY <1>2, LicenseUpdatesAssumption DEF TakeMutex, LockOwned, Holding, TypeOK, CallsOK,
     LocksOK
<1>3. ASSUME NEW t \in Threads, TakeLock(t) PROVE LockOwned'
  BY <1>3, LicenseUpdatesAssumption DEF TakeLock, LockFree, UnderLock, LockOwned, Holding,
     TypeOK, CallsOK, LocksOK
<1>4. ASSUME NEW t \in Threads, GiveUpWaiting(t) \/ LockError(t) PROVE LockOwned'
  BY <1>4, LicenseUpdatesAssumption DEF GiveUpWaiting, LockError, LockFailed, Conclude,
     Unlock, LockOwned, Holding, TypeOK, CallsOK, LocksOK
<1>5. ASSUME NEW t \in Threads, NEW d \in {stored, 0}, LoadWith(t, d) PROVE LockOwned'
  BY <1>5, LicenseUpdatesAssumption DEF LoadWith, Conclude, Unlock, locks, LockOwned,
     Holding, TypeOK, CallsOK, LocksOK
<1>6. ASSUME NEW t \in Threads, Unreachable(t) PROVE LockOwned'
  BY <1>6, LicenseUpdatesAssumption DEF Unreachable, NoVerdict, Conclude, Unlock, LockOwned,
     Holding, TypeOK, CallsOK, LocksOK
<1>7. ASSUME NEW t \in Threads, Grant(t) PROVE LockOwned'
  BY <1>7, LicenseUpdatesAssumption DEF Grant, NoVerdict, Conclude, Unlock, locks,
     LockOwned, Holding, TypeOK, CallsOK, LocksOK
<1>8. ASSUME NEW t \in Threads, GrantActivation(t) PROVE LockOwned'
  BY <1>8, LicenseUpdatesAssumption DEF GrantActivation, Conclude, Unlock, LockOwned,
     Holding, TypeOK, CallsOK, LocksOK
<1>9. ASSUME NEW t \in Threads, GrantRevocation(t) PROVE LockOwned'
  BY <1>9, LicenseUpdatesAssumption DEF GrantRevocation, NoVerdict, Conclude, Unlock, locks,
     LockOwned, Holding, TypeOK, CallsOK, LocksOK
<1>10. ASSUME NEW t \in Threads, Refuse(t) PROVE LockOwned'
  BY <1>10, LicenseUpdatesAssumption DEF Refuse, Conclude, Unlock, LockOwned, Holding,
     TypeOK, CallsOK, LocksOK
<1>11. ASSUME NEW t \in Threads, Check(t) PROVE LockOwned'
  BY <1>11, LicenseUpdatesAssumption DEF Check, Conclude, Unlock, locks, LockOwned, Holding,
     TypeOK, CallsOK, LocksOK
<1>12. ASSUME NEW t \in Threads, CheckFails(t) PROVE LockOwned'
  BY <1>12, LicenseUpdatesAssumption DEF CheckFails, NoVerdict, Conclude, Unlock, LockOwned,
     Holding, TypeOK, CallsOK, LocksOK
<1>13. ASSUME NEW t \in Threads, Write(t) PROVE LockOwned'
  BY <1>13, LicenseUpdatesAssumption DEF Write, Conclude, Unlock, LockOwned, Holding,
     TypeOK, CallsOK, LocksOK
<1>14. ASSUME NEW t \in Threads, Delete(t) PROVE LockOwned'
  BY <1>14, LicenseUpdatesAssumption DEF Delete, Conclude, Unlock, LockOwned, Holding,
     TypeOK, CallsOK, LocksOK
<1>15. ASSUME NEW t \in Threads, StorageError(t) PROVE LockOwned'
  BY <1>15, LicenseUpdatesAssumption DEF StorageError, Conclude, Unlock, LockOwned, Holding,
     TypeOK, CallsOK, LocksOK
<1>16. ASSUME NEW t \in Threads, Continue(t) PROVE LockOwned'
  BY <1>16, LicenseUpdatesAssumption DEF Continue, locks, LockOwned, Holding, TypeOK,
     CallsOK, LocksOK
<1>17. ASSUME NEW t \in Threads, Return(t) PROVE LockOwned'
  BY <1>17, LicenseUpdatesAssumption DEF Return, Rest, locks, LockOwned, Holding, TypeOK,
     CallsOK, LocksOK
<1>18. ASSUME NEW i \in Instances, Supersede(i) \/ Close(i) \/ Reopen(i) PROVE LockOwned'
  BY <1>18, LicenseUpdatesAssumption DEF Supersede, Close, Reopen, locks, LockOwned,
     Holding, TypeOK, CallsOK, LocksOK
<1>19. ASSUME NEW i \in Instances, Crash(i) PROVE LockOwned'
  BY <1>19, LicenseUpdatesAssumption DEF Crash, Rest, LockOwned, Holding, TypeOK, CallsOK,
     LocksOK
<1>20. ASSUME (\E a \in Activations : ServerRevoke(a)) \/ Tick PROVE LockOwned'
  BY <1>20, LicenseUpdatesAssumption DEF ServerRevoke, Tick, locks, LockOwned, Holding,
     TypeOK, CallsOK, LocksOK
<1> QED
  BY <1>1, <1>2, <1>3, <1>4, <1>5, <1>6, <1>7, <1>8, <1>9, <1>10, <1>11, <1>12, <1>13,
     <1>14, <1>15, <1>16, <1>17, <1>18, <1>19, <1>20 DEF Next, Step, Fault, Load, LoadFails

\* A call is made for a token and writes one: nothing stores "no license".
LEMMA TokensExistStep ==
    ASSUME TypeOK, TokensExist, LockOwned, SeatInHand, Next
    PROVE  TokensExist'
<1>1. ASSUME NEW t \in Threads, NEW k \in Kinds, Begin(t, k) PROVE TokensExist'
  BY <1>1, LicenseUpdatesAssumption DEF Begin, CallersTokens, Tokens, Entry, TokensExist,
     NeedsToken, Answering, Checks, FollowUps, AllKinds, TypeOK, CallsOK, TokensOK, ServerOK
<1>2. ASSUME NEW t \in Threads, TakeMutex(t) PROVE TokensExist'
  BY <1>2, LicenseUpdatesAssumption DEF TakeMutex, TokensExist, NeedsToken, Answering,
     Checks, FollowUps, AllKinds, TypeOK, CallsOK, TokensOK, ServerOK
<1>3. ASSUME NEW t \in Threads, TakeLock(t) PROVE TokensExist'
  BY <1>3, LicenseUpdatesAssumption DEF TakeLock, LockFree, UnderLock, SeatInHand,
     SeatTokens, Tokens, TokensExist, NeedsToken, Answering, Checks, FollowUps, AllKinds,
     TypeOK, CallsOK, TokensOK, ServerOK
<1>4. ASSUME NEW t \in Threads, GiveUpWaiting(t) \/ LockError(t) PROVE TokensExist'
  BY <1>4, LicenseUpdatesAssumption DEF GiveUpWaiting, LockError, LockFailed, Conclude,
     TokensExist, NeedsToken, Answering, Checks, FollowUps, AllKinds, TypeOK, CallsOK,
     TokensOK, ServerOK
<1>5. ASSUME NEW t \in Threads, NEW d \in {stored, 0}, LoadWith(t, d) PROVE TokensExist'
  BY <1>5, LicenseUpdatesAssumption DEF LoadWith, Conclude, TokensExist, NeedsToken,
     Answering, Checks, FollowUps, AllKinds, TypeOK, CallsOK, TokensOK, ServerOK
<1>6. ASSUME NEW t \in Threads, Unreachable(t) PROVE TokensExist'
  BY <1>6, LicenseUpdatesAssumption DEF Unreachable, NoVerdict, Conclude, TokensExist,
     NeedsToken, Answering, Checks, FollowUps, AllKinds, TypeOK, CallsOK, TokensOK, ServerOK
<1>7. ASSUME NEW t \in Threads, Grant(t) PROVE TokensExist'
  BY <1>7, LicenseUpdatesAssumption DEF Grant, NoVerdict, Conclude, TokensExist, NeedsToken,
     Answering, Checks, FollowUps, AllKinds, TypeOK, CallsOK, TokensOK, ServerOK
<1>8. ASSUME NEW t \in Threads, GrantActivation(t) PROVE TokensExist'
  BY <1>8, LicenseUpdatesAssumption DEF GrantActivation, Conclude, TokensExist, NeedsToken,
     Answering, Checks, FollowUps, AllKinds, TypeOK, CallsOK, TokensOK, ServerOK
<1>9. ASSUME NEW t \in Threads, GrantRevocation(t) PROVE TokensExist'
  BY <1>9, LicenseUpdatesAssumption DEF GrantRevocation, NoVerdict, Conclude, TokensExist,
     NeedsToken, Answering, Checks, FollowUps, AllKinds, TypeOK, CallsOK, TokensOK, ServerOK
<1>10. ASSUME NEW t \in Threads, Refuse(t) PROVE TokensExist'
  <2>1. CASE Revoked(t) /\ call[t] = "start"
    BY <1>10, <2>1 DEF Refuse, TokensExist, NeedsToken, Answering, Checks, FollowUps,
       TypeOK, CallsOK, TokensOK
  <2>2. CASE ~(Revoked(t) /\ call[t] = "start")
    BY <1>10, <2>2 DEF Refuse, Conclude, TokensExist, NeedsToken, Answering, Checks,
       FollowUps, TypeOK, CallsOK, TokensOK
  <2> QED BY <2>1, <2>2
<1>11. ASSUME NEW t \in Threads, Check(t) PROVE TokensExist'
  BY <1>11, LicenseUpdatesAssumption DEF Check, Conclude, TokensExist, NeedsToken,
     Answering, Checks, FollowUps, AllKinds, TypeOK, CallsOK, TokensOK, ServerOK
<1>12. ASSUME NEW t \in Threads, CheckFails(t) PROVE TokensExist'
  BY <1>12, LicenseUpdatesAssumption DEF CheckFails, NoVerdict, Conclude, TokensExist,
     NeedsToken, Answering, Checks, FollowUps, AllKinds, TypeOK, CallsOK, TokensOK, ServerOK
<1>13. ASSUME NEW t \in Threads, Write(t) PROVE TokensExist'
  BY <1>13, LicenseUpdatesAssumption DEF Write, Conclude, TokensExist, NeedsToken,
     Answering, Checks, FollowUps, AllKinds, TypeOK, CallsOK, TokensOK, ServerOK
<1>14. ASSUME NEW t \in Threads, Delete(t) PROVE TokensExist'
  BY <1>14, LicenseUpdatesAssumption DEF Delete, Conclude, TokensExist, NeedsToken,
     Answering, Checks, FollowUps, AllKinds, TypeOK, CallsOK, TokensOK, ServerOK
<1>15. ASSUME NEW t \in Threads, StorageError(t) PROVE TokensExist'
  BY <1>15, LicenseUpdatesAssumption DEF StorageError, Conclude, TokensExist, NeedsToken,
     Answering, Checks, FollowUps, AllKinds, TypeOK, CallsOK, TokensOK, ServerOK
<1>16. ASSUME NEW t \in Threads, Continue(t) PROVE TokensExist'
  BY <1>16, LicenseUpdatesAssumption DEF Continue, Continues, TokensExist, NeedsToken,
     Answering, Checks, FollowUps, AllKinds, TypeOK, CallsOK, TokensOK, ServerOK
<1>17. ASSUME NEW t \in Threads, Return(t) PROVE TokensExist'
  BY <1>17, LicenseUpdatesAssumption DEF Return, Rest, TokensExist, NeedsToken, Answering,
     Checks, FollowUps, AllKinds, TypeOK, CallsOK, TokensOK, ServerOK
<1>18. ASSUME NEW i \in Instances, Supersede(i) \/ Close(i) \/ Reopen(i) PROVE TokensExist'
  BY <1>18, LicenseUpdatesAssumption DEF Supersede, Close, Reopen, TokensExist, NeedsToken,
     Answering, Checks, FollowUps, AllKinds, TypeOK, CallsOK, TokensOK, ServerOK
<1>19. ASSUME NEW i \in Instances, Crash(i) PROVE TokensExist'
  BY <1>19, LicenseUpdatesAssumption DEF Crash, Rest, TokensExist, NeedsToken, Answering,
     Checks, FollowUps, AllKinds, TypeOK, CallsOK, TokensOK, ServerOK
<1>20. ASSUME (\E a \in Activations : ServerRevoke(a)) \/ Tick PROVE TokensExist'
  BY <1>20, LicenseUpdatesAssumption DEF ServerRevoke, Tick, TokensExist, NeedsToken,
     Answering, Checks, FollowUps, AllKinds, TypeOK, CallsOK, TokensOK, ServerOK
<1> QED
  BY <1>1, <1>2, <1>3, <1>4, <1>5, <1>6, <1>7, <1>8, <1>9, <1>10, <1>11, <1>12, <1>13,
     <1>14, <1>15, <1>16, <1>17, <1>18, <1>19, <1>20 DEF Next, Step, Fault, Load, LoadFails

\* A new token leaves the seats and, when it is validated no earlier than the
\* activation was, the order of the times as they were.
LEMMA IssueKeepsSeats ==
    ASSUME ServerOK, NEW a \in Activations, NEW at \in Nat, NEW seat \in BOOLEAN,
           Issue(a, at, seat)
    PROVE  /\ SeatTokens \subseteq SeatTokens'
           /\ seat => Len(log) + 1 \in SeatTokens'
<1>1. /\ Len(log') = Len(log) + 1 /\ Len(log) \in Nat
      /\ \A n \in Tokens : log'[n] = log[n]
      /\ log'[Len(log) + 1] = [act |-> a, at |-> at, seat |-> seat]
  BY IssueAppends DEF ServerOK
<1> QED BY <1>1 DEF SeatTokens, Tokens

\* A token validated no earlier than its activation's last one keeps the order.
LEMMA IssueKeepsTimes ==
    ASSUME ServerOK, TimesFollowOrder, NEW a \in Activations, NEW at \in Nat, NEW seat \in BOOLEAN,
           Issue(a, at, seat), lastAt[a] <= at, at <= now, now' = now
    PROVE  TimesFollowOrder'
<1>0. PICK new \in Nat : new = Len(log) + 1
  BY DEF ServerOK
<1>1. /\ Len(log') = new /\ Len(log) \in Nat
      /\ \A n \in Tokens : log'[n] = log[n]
      /\ log'[new] = [act |-> a, at |-> at, seat |-> seat]
  BY <1>0, IssueAppends DEF ServerOK
<1>2. Tokens' = Tokens \cup {new} /\ \A n \in Tokens : n \in Nat /\ n < new
  BY <1>0, <1>1 DEF Tokens
<1>3. /\ \A n \in Tokens : log'[n].act = Act(n) /\ log'[n].at = At(n)
      /\ log'[new].act = a /\ log'[new].at = at
  BY <1>1 DEF Act, At
<1>4. \A n \in Tokens : Act(n) \in Activations /\ At(n) \in Nat
  BY IssuedToken
<1>5. lastAt' = [lastAt EXCEPT ![a] = at] /\ lastAt \in [Activations -> Nat] /\ now \in Nat
  BY DEF Issue, ServerOK
<1>6. \A b \in Activations : lastAt'[b] <= now' /\ lastAt[b] <= lastAt'[b]
  BY <1>5 DEF TimesFollowOrder
<1>7. \A n \in Tokens \cup {new} : log'[n].at <= lastAt'[log'[n].act]
  <2>1. log'[new].at <= lastAt'[log'[new].act]
    BY <1>3, <1>5
  <2>2. ASSUME NEW n \in Tokens PROVE log'[n].at <= lastAt'[log'[n].act]
    <3>1. At(n) <= lastAt[Act(n)] /\ lastAt[Act(n)] <= lastAt'[Act(n)]
      BY <1>4, <1>6 DEF TimesFollowOrder
    <3>2. lastAt[Act(n)] \in Nat /\ lastAt'[Act(n)] \in Nat /\ At(n) \in Nat
      BY <1>4, <1>5
    <3> QED BY <1>3, <3>1, <3>2
  <2> QED BY <2>1, <2>2
<1>8. \A m, n \in Tokens \cup {new} : m <= n /\ log'[m].act = log'[n].act => log'[m].at <= log'[n].at
  <2>1. ASSUME NEW m \in Tokens, Act(m) = a PROVE At(m) <= at
    <3>1. At(m) <= lastAt[a] /\ lastAt[a] \in Nat
      BY <2>1, <1>5 DEF TimesFollowOrder
    <3> QED BY <3>1, <1>4
  <2>2. \A m, n \in Tokens : m <= n /\ Act(m) = Act(n) => At(m) <= At(n)
    BY DEF TimesFollowOrder
  <2> QED BY <1>2, <1>3, <2>1, <2>2
<1> QED BY <1>2, <1>6, <1>7, <1>8 DEF TimesFollowOrder, Act, At

\* The request that is granted was made for an issued token.
LEMMA GrantsOnToken ==
    ASSUME TypeOK, TokensExist, NEW t \in Threads, Grant(t)
    PROVE  token[t] \in Tokens
BY DEF Grant, TypeOK, TokensExist, NeedsToken, Answering, Checks, Tokens, TokensOK, ServerOK

\* The license of an activation is still in hand when its continuation stores it.
LEMMA SeatStep ==
    ASSUME TypeOK, TokensExist, LockOwned, SeatInHand, TypeOK', Next
    PROVE  SeatInHand'
<1>1. ASSUME NEW t \in Threads, NEW k \in Kinds, Begin(t, k) PROVE SeatInHand'
  BY <1>1 DEF Begin, Entry, server, SeatInHand, SeatTokens, Tokens, TypeOK, CallsOK,
     TokensOK, ServerOK
<1>2. ASSUME NEW t \in Threads, TakeMutex(t) PROVE SeatInHand'
  BY <1>2 DEF TakeMutex, server, TokensExist, SeatInHand, SeatTokens, Tokens, TypeOK,
     CallsOK, TokensOK, ServerOK
<1>3. ASSUME NEW t \in Threads, TakeLock(t) PROVE SeatInHand'
  BY <1>3 DEF TakeLock, LockFree, UnderLock, server, TokensExist, SeatInHand, SeatTokens,
     Tokens, TypeOK, CallsOK, TokensOK, ServerOK
<1>4. ASSUME NEW t \in Threads, GiveUpWaiting(t) \/ LockError(t) PROVE SeatInHand'
  BY <1>4 DEF GiveUpWaiting, LockError, LockFailed, server, SeatInHand, SeatTokens, Tokens,
     Conclude, TypeOK, CallsOK, TokensOK, ServerOK
<1>5. ASSUME NEW t \in Threads, NEW d \in {stored, 0}, LoadWith(t, d) PROVE SeatInHand'
  BY <1>5 DEF LoadWith, server, TokensExist, SeatInHand, SeatTokens, Tokens, Conclude,
     TypeOK, CallsOK, TokensOK, ServerOK
<1>6. ASSUME NEW t \in Threads, Unreachable(t) PROVE SeatInHand'
  BY <1>6 DEF Unreachable, NoVerdict, server, TokensExist, SeatInHand, SeatTokens, Tokens,
     Conclude, TypeOK, CallsOK, TokensOK, ServerOK
<1>7. ASSUME NEW t \in Threads, Grant(t) PROVE SeatInHand'
  <2>1. PICK a \in Activations, at \in Nat : Issue(a, at, FALSE)
    BY <1>7, GrantsIssue
  <2>2. SeatTokens \subseteq SeatTokens'
    BY <2>1, IssueKeepsSeats DEF TypeOK
  <2>3. call[t] # "activate" /\ call' = call
    BY <1>7 DEF Grant, TokensExist, Answering, Checks
  <2> QED
    BY <1>7, <2>2, <2>3 DEF Grant, NoVerdict, Conclude, SeatInHand, TypeOK, CallsOK,
       TokensOK
<1>8. ASSUME NEW t \in Threads, GrantActivation(t) PROVE SeatInHand'
  <2>1. PICK a \in Activations : Issue(a, now, TRUE)
    BY <1>8 DEF GrantActivation
  <2>2. now \in Nat
    BY DEF TypeOK, ServerOK
  <2>3. SeatTokens \subseteq SeatTokens' /\ Len(log) + 1 \in SeatTokens'
    BY <2>1, <2>2, IssueKeepsSeats DEF TypeOK
  <2> QED
    BY <1>8, <2>3 DEF GrantActivation, Conclude, SeatInHand, TypeOK, CallsOK, TokensOK
<1>9. ASSUME NEW t \in Threads, GrantRevocation(t) PROVE SeatInHand'
  BY <1>9 DEF GrantRevocation, NoVerdict, TokensExist, SeatInHand, SeatTokens, Tokens,
     Conclude, TypeOK, CallsOK, TokensOK, ServerOK
<1>10. ASSUME NEW t \in Threads, Refuse(t) PROVE SeatInHand'
  <2>1. SeatTokens' = SeatTokens
    BY <1>10 DEF Refuse, SeatTokens, Tokens, server
  <2>2. CASE Revoked(t) /\ call[t] = "start"
    BY <1>10, <2>1, <2>2 DEF Refuse, SeatInHand, TypeOK, CallsOK
  <2>3. CASE ~(Revoked(t) /\ call[t] = "start")
    BY <1>10, <2>1, <2>3 DEF Refuse, Conclude, SeatInHand, TypeOK, CallsOK
  <2> QED BY <2>2, <2>3
<1>11. ASSUME NEW t \in Threads, Check(t) PROVE SeatInHand'
  <2>1. SeatTokens' = SeatTokens
    BY <1>11 DEF Check, SeatTokens, Tokens, server
  <2>2. call[t] # "activate" /\ call' = call
    BY <1>11 DEF Check, TokensExist, Answering, Checks
  <2>3. \A u \in Threads : u # t => pc'[u] = pc[u] /\ outcome'[u] = outcome[u]
    BY <1>11 DEF Check, Conclude, TypeOK, CallsOK
  <2> QED
    BY <1>11, <2>1, <2>2, <2>3 DEF Check, SeatInHand
<1>12. ASSUME NEW t \in Threads, CheckFails(t) PROVE SeatInHand'
  BY <1>12 DEF CheckFails, NoVerdict, server, TokensExist, SeatInHand, SeatTokens, Tokens,
     Conclude, TypeOK, CallsOK, TokensOK, ServerOK
<1>13. ASSUME NEW t \in Threads, Write(t) PROVE SeatInHand'
  BY <1>13 DEF Write, server, Ended, TokensExist, SeatInHand, SeatTokens, Tokens, Conclude,
     TypeOK, CallsOK, TokensOK, ServerOK
<1>14. ASSUME NEW t \in Threads, Delete(t) PROVE SeatInHand'
  BY <1>14 DEF Delete, server, Ended, TokensExist, SeatInHand, SeatTokens, Tokens, Conclude,
     TypeOK, CallsOK, TokensOK, ServerOK
<1>15. ASSUME NEW t \in Threads, StorageError(t) PROVE SeatInHand'
  BY <1>15 DEF StorageError, server, Ended, TokensExist, SeatInHand, SeatTokens, Tokens,
     Conclude, TypeOK, CallsOK, TokensOK, ServerOK
<1>16. ASSUME NEW t \in Threads, Continue(t) PROVE SeatInHand'
  BY <1>16 DEF Continue, server, Continues, SeatInHand, SeatTokens, Tokens, TypeOK, CallsOK,
     TokensOK, ServerOK
<1>17. ASSUME NEW t \in Threads, Return(t) PROVE SeatInHand'
  BY <1>17 DEF Return, Rest, server, SeatInHand, SeatTokens, Tokens, TypeOK, CallsOK,
     TokensOK, ServerOK
<1>18. ASSUME NEW i \in Instances, Supersede(i) \/ Close(i) \/ Reopen(i) PROVE SeatInHand'
  BY <1>18 DEF Supersede, Close, Reopen, server, SeatInHand, SeatTokens, Tokens, TypeOK,
     CallsOK, TokensOK, ServerOK
<1>19. ASSUME NEW i \in Instances, Crash(i) PROVE SeatInHand'
  BY <1>19 DEF Crash, Rest, server, SeatInHand, SeatTokens, Tokens, TypeOK, CallsOK,
     TokensOK, ServerOK
<1>20. ASSUME (\E a \in Activations : ServerRevoke(a)) \/ Tick PROVE SeatInHand'
  BY <1>20 DEF ServerRevoke, Tick, server, SeatInHand, SeatTokens, Tokens, TypeOK, CallsOK,
     TokensOK, ServerOK
<1> QED
  BY <1>1, <1>2, <1>3, <1>4, <1>5, <1>6, <1>7, <1>8, <1>9, <1>10, <1>11, <1>12, <1>13,
     <1>14, <1>15, <1>16, <1>17, <1>18, <1>19, <1>20 DEF Next, Step, Fault, Load, LoadFails

\* The server's clock does not run backwards, and an add-on call repeats the
\* last time: a later token never has an earlier time.
LEMMA TimesStep ==
    ASSUME TypeOK, TokensExist, TimesFollowOrder, Next
    PROVE  TimesFollowOrder'
<1>1. ASSUME NEW t \in Threads, NEW k \in Kinds, Begin(t, k) PROVE TimesFollowOrder'
  BY <1>1 DEF Begin, TimesFollowOrder, Tokens, Act, At, server, TypeOK, ServerOK
<1>2. ASSUME NEW t \in Threads, TakeMutex(t) PROVE TimesFollowOrder'
  BY <1>2 DEF TakeMutex, TimesFollowOrder, Tokens, Act, At, server, TypeOK, ServerOK
<1>3. ASSUME NEW t \in Threads, TakeLock(t) PROVE TimesFollowOrder'
  BY <1>3 DEF TakeLock, LockFree, UnderLock, TimesFollowOrder, Tokens, Act, At, server,
     TypeOK, ServerOK
<1>4. ASSUME NEW t \in Threads, GiveUpWaiting(t) \/ LockError(t) PROVE TimesFollowOrder'
  BY <1>4 DEF GiveUpWaiting, LockError, LockFailed, TimesFollowOrder, Tokens, Act, At,
     server, TypeOK, ServerOK
<1>5. ASSUME NEW t \in Threads, NEW d \in {stored, 0}, LoadWith(t, d) PROVE TimesFollowOrder'
  BY <1>5 DEF LoadWith, TimesFollowOrder, Tokens, Act, At, server, TypeOK, ServerOK
<1>6. ASSUME NEW t \in Threads, Unreachable(t) PROVE TimesFollowOrder'
  BY <1>6 DEF Unreachable, NoVerdict, TimesFollowOrder, Tokens, Act, At, server, TypeOK,
     ServerOK
<1>7. ASSUME NEW t \in Threads, Grant(t) PROVE TimesFollowOrder'
  <2>1. token[t] \in Tokens
    BY <1>7, GrantsOnToken
  <2>2. Act(token[t]) \in Activations
    BY <2>1, IssuedToken DEF TypeOK
  <2>3. PICK at \in {now, lastAt[Act(token[t])]} : Issue(Act(token[t]), at, FALSE)
    BY <1>7 DEF Grant
  <2>4. at \in Nat /\ lastAt[Act(token[t])] <= at /\ at <= now /\ now' = now
    BY <1>7, <2>2 DEF Grant, TimesFollowOrder, TypeOK, ServerOK
  <2> QED BY <2>2, <2>3, <2>4, IssueKeepsTimes DEF TypeOK
<1>8. ASSUME NEW t \in Threads, GrantActivation(t) PROVE TimesFollowOrder'
  <2>1. PICK a \in Activations, at \in {now} : Issue(a, at, TRUE)
    BY <1>8 DEF GrantActivation
  <2>2. at \in Nat /\ lastAt[a] <= at /\ at <= now /\ now' = now
    BY <1>8 DEF GrantActivation, TimesFollowOrder, TypeOK, ServerOK
  <2> QED BY <2>1, <2>2, IssueKeepsTimes DEF TypeOK
<1>9. ASSUME NEW t \in Threads, GrantRevocation(t) PROVE TimesFollowOrder'
  BY <1>9 DEF GrantRevocation, NoVerdict, TimesFollowOrder, Tokens, Act, At, TypeOK,
     ServerOK
<1>10. ASSUME NEW t \in Threads, Refuse(t) PROVE TimesFollowOrder'
  BY <1>10 DEF Refuse, TimesFollowOrder, Tokens, Act, At, server, TypeOK, ServerOK
<1>11. ASSUME NEW t \in Threads, Check(t) PROVE TimesFollowOrder'
  BY <1>11 DEF Check, TimesFollowOrder, Tokens, Act, At, server, TypeOK, ServerOK
<1>12. ASSUME NEW t \in Threads, CheckFails(t) PROVE TimesFollowOrder'
  BY <1>12 DEF CheckFails, NoVerdict, TimesFollowOrder, Tokens, Act, At, server, TypeOK,
     ServerOK
<1>13. ASSUME NEW t \in Threads, Write(t) PROVE TimesFollowOrder'
  BY <1>13 DEF Write, TimesFollowOrder, Tokens, Act, At, server, TypeOK, ServerOK
<1>14. ASSUME NEW t \in Threads, Delete(t) PROVE TimesFollowOrder'
  BY <1>14 DEF Delete, TimesFollowOrder, Tokens, Act, At, server, TypeOK, ServerOK
<1>15. ASSUME NEW t \in Threads, StorageError(t) PROVE TimesFollowOrder'
  BY <1>15 DEF StorageError, TimesFollowOrder, Tokens, Act, At, server, TypeOK, ServerOK
<1>16. ASSUME NEW t \in Threads, Continue(t) PROVE TimesFollowOrder'
  BY <1>16 DEF Continue, TimesFollowOrder, Tokens, Act, At, server, TypeOK, ServerOK
<1>17. ASSUME NEW t \in Threads, Return(t) PROVE TimesFollowOrder'
  BY <1>17 DEF Return, Rest, TimesFollowOrder, Tokens, Act, At, server, TypeOK, ServerOK
<1>18. ASSUME NEW i \in Instances, Supersede(i) \/ Close(i) \/ Reopen(i) PROVE TimesFollowOrder'
  BY <1>18 DEF Supersede, Close, Reopen, TimesFollowOrder, Tokens, Act, At, server, TypeOK,
     ServerOK
<1>19. ASSUME NEW i \in Instances, Crash(i) PROVE TimesFollowOrder'
  BY <1>19 DEF Crash, Rest, TimesFollowOrder, Tokens, Act, At, server, TypeOK, ServerOK
<1>20. ASSUME (\E a \in Activations : ServerRevoke(a)) \/ Tick PROVE TimesFollowOrder'
  BY <1>20 DEF ServerRevoke, Tick, TimesFollowOrder, Tokens, Act, At, server, TypeOK,
     ServerOK
<1> QED
  BY <1>1, <1>2, <1>3, <1>4, <1>5, <1>6, <1>7, <1>8, <1>9, <1>10, <1>11, <1>12, <1>13,
     <1>14, <1>15, <1>16, <1>17, <1>18, <1>19, <1>20 DEF Next, Step, Fault, Load, LoadFails

\* While an answer is in hand the lock is held, so nobody else moves the file.
LEMMA AnswersStep ==
    ASSUME TypeOK, LockOwned, TokensExist, AnswersAreNew, Next
    PROVE  AnswersAreNew'
<1>1. ASSUME NEW t \in Threads, NEW k \in Kinds, Begin(t, k) PROVE AnswersAreNew'
  BY <1>1 DEF Begin, Entry, AnswersAreNew, LockOwned, Answering, Checks, Holding, server,
     TypeOK, CallsOK, TokensOK, ServerOK
<1>2. ASSUME NEW t \in Threads, TakeMutex(t) PROVE AnswersAreNew'
  BY <1>2 DEF TakeMutex, AnswersAreNew, LockOwned, Answering, Checks, Holding, server,
     history, TypeOK, CallsOK, TokensOK, ServerOK
<1>3. ASSUME NEW t \in Threads, TakeLock(t) PROVE AnswersAreNew'
  BY <1>3 DEF TakeLock, LockFree, UnderLock, TokensExist, AnswersAreNew, LockOwned,
     Answering, Checks, Holding, server, history, TypeOK, CallsOK, TokensOK, ServerOK
<1>4. ASSUME NEW t \in Threads, GiveUpWaiting(t) \/ LockError(t) PROVE AnswersAreNew'
  BY <1>4 DEF GiveUpWaiting, LockError, LockFailed, AnswersAreNew, Conclude, LockOwned,
     Answering, Checks, Holding, server, history, TypeOK, CallsOK, TokensOK, ServerOK
<1>5. ASSUME NEW t \in Threads, NEW d \in {stored, 0}, LoadWith(t, d) PROVE AnswersAreNew'
  BY <1>5 DEF LoadWith, AnswersAreNew, Conclude, LockOwned, Answering, Checks, Holding,
     server, history, TypeOK, CallsOK, TokensOK, ServerOK
<1>6. ASSUME NEW t \in Threads, Unreachable(t) PROVE AnswersAreNew'
  BY <1>6 DEF Unreachable, NoVerdict, AnswersAreNew, Conclude, LockOwned, Answering, Checks,
     Holding, server, history, TypeOK, CallsOK, TokensOK, ServerOK
<1>7. ASSUME NEW t \in Threads, Grant(t) PROVE AnswersAreNew'
  <2>1. PICK a \in Activations, at \in Nat : Issue(a, at, FALSE)
    BY <1>7, GrantsIssue
  <2>2. floor' = floor /\ floor < Len(log) + 1
    BY <1>7 DEF Grant, history, TypeOK, TokensOK, ServerOK
  <2>3. \/ answer' = answer /\ pc' = [pc EXCEPT ![t] = "return"]
        \/ answer' = [answer EXCEPT ![t] = Len(log) + 1] /\ pc' = [pc EXCEPT ![t] = "check"]
    BY <1>7 DEF Grant, NoVerdict, Conclude
  <2> QED
    BY <1>7, <2>2, <2>3 DEF Grant, AnswersAreNew, TypeOK, CallsOK, TokensOK
<1>8. ASSUME NEW t \in Threads, GrantActivation(t) PROVE AnswersAreNew'
  BY <1>8 DEF GrantActivation, Issue, TokensExist, AnswersAreNew, Conclude, LockOwned,
     Answering, Checks, Holding, history, TypeOK, CallsOK, TokensOK, ServerOK
<1>9. ASSUME NEW t \in Threads, GrantRevocation(t) PROVE AnswersAreNew'
  BY <1>9 DEF GrantRevocation, NoVerdict, AnswersAreNew, Conclude, LockOwned, Answering,
     Checks, Holding, history, TypeOK, CallsOK, TokensOK, ServerOK
<1>10. ASSUME NEW t \in Threads, Refuse(t) PROVE AnswersAreNew'
  BY <1>10 DEF Refuse, AnswersAreNew, Conclude, LockOwned, Answering, Checks, Holding,
     server, history, TypeOK, CallsOK, TokensOK, ServerOK
<1>11. ASSUME NEW t \in Threads, Check(t) PROVE AnswersAreNew'
  BY <1>11 DEF Check, AnswersAreNew, Conclude, LockOwned, Answering, Checks, Holding,
     server, history, TypeOK, CallsOK, TokensOK, ServerOK
<1>12. ASSUME NEW t \in Threads, CheckFails(t) PROVE AnswersAreNew'
  BY <1>12 DEF CheckFails, NoVerdict, AnswersAreNew, Conclude, LockOwned, Answering, Checks,
     Holding, server, history, TypeOK, CallsOK, TokensOK, ServerOK
<1>13. ASSUME NEW t \in Threads, Write(t) PROVE AnswersAreNew'
  BY <1>13 DEF Write, AnswersAreNew, Conclude, LockOwned, Answering, Checks, Holding,
     server, TypeOK, CallsOK, TokensOK, ServerOK
<1>14. ASSUME NEW t \in Threads, Delete(t) PROVE AnswersAreNew'
  BY <1>14 DEF Delete, AnswersAreNew, Conclude, LockOwned, Answering, Checks, Holding,
     server, TypeOK, CallsOK, TokensOK, ServerOK
<1>15. ASSUME NEW t \in Threads, StorageError(t) PROVE AnswersAreNew'
  BY <1>15 DEF StorageError, AnswersAreNew, Conclude, LockOwned, Answering, Checks, Holding,
     server, history, TypeOK, CallsOK, TokensOK, ServerOK
<1>16. ASSUME NEW t \in Threads, Continue(t) PROVE AnswersAreNew'
  BY <1>16 DEF Continue, AnswersAreNew, LockOwned, Answering, Checks, Holding, server,
     history, TypeOK, CallsOK, TokensOK, ServerOK
<1>17. ASSUME NEW t \in Threads, Return(t) PROVE AnswersAreNew'
  BY <1>17 DEF Return, Rest, AnswersAreNew, LockOwned, Answering, Checks, Holding, server,
     TypeOK, CallsOK, TokensOK, ServerOK
<1>18. ASSUME NEW i \in Instances, Supersede(i) \/ Close(i) \/ Reopen(i) PROVE AnswersAreNew'
  BY <1>18 DEF Supersede, Close, Reopen, AnswersAreNew, LockOwned, Answering, Checks,
     Holding, server, history, TypeOK, CallsOK, TokensOK, ServerOK
<1>19. ASSUME NEW i \in Instances, Crash(i) PROVE AnswersAreNew'
  BY <1>19 DEF Crash, Rest, AnswersAreNew, LockOwned, Answering, Checks, Holding, server,
     TypeOK, CallsOK, TokensOK, ServerOK
<1>20. ASSUME (\E a \in Activations : ServerRevoke(a)) \/ Tick PROVE AnswersAreNew'
  BY <1>20 DEF ServerRevoke, Tick, AnswersAreNew, LockOwned, Answering, Checks, Holding,
     server, history, TypeOK, CallsOK, TokensOK, ServerOK
<1> QED
  BY <1>1, <1>2, <1>3, <1>4, <1>5, <1>6, <1>7, <1>8, <1>9, <1>10, <1>11, <1>12, <1>13,
     <1>14, <1>15, <1>16, <1>17, <1>18, <1>19, <1>20 DEF Next, Step, Fault, Load, LoadFails

\* What should_persist saw stays true until the write: the lock is held.
LEMMA CheckStep ==
    ASSUME TypeOK, LockOwned, TokensExist, CheckStillHolds, Next
    PROVE  CheckStillHolds'
<1>1. ASSUME NEW t \in Threads, NEW k \in Kinds, Begin(t, k) PROVE CheckStillHolds'
  BY <1>1 DEF Begin, Entry, CheckStillHolds, Same, SameActivation, Act, LockOwned, Holding,
     server, TypeOK, CallsOK, TokensOK, ServerOK
<1>2. ASSUME NEW t \in Threads, TakeMutex(t) PROVE CheckStillHolds'
  BY <1>2 DEF TakeMutex, CheckStillHolds, Same, SameActivation, Act, LockOwned, Holding,
     server, TypeOK, CallsOK, TokensOK, ServerOK
<1>3. ASSUME NEW t \in Threads, TakeLock(t) PROVE CheckStillHolds'
  BY <1>3 DEF TakeLock, LockFree, UnderLock, CheckStillHolds, Same, SameActivation, Act,
     LockOwned, Holding, server, TypeOK, CallsOK, TokensOK, ServerOK
<1>4. ASSUME NEW t \in Threads, GiveUpWaiting(t) \/ LockError(t) PROVE CheckStillHolds'
  BY <1>4 DEF GiveUpWaiting, LockError, LockFailed, CheckStillHolds, Same, SameActivation,
     Act, Conclude, LockOwned, Holding, server, TypeOK, CallsOK, TokensOK, ServerOK
<1>5. ASSUME NEW t \in Threads, NEW d \in {stored, 0}, LoadWith(t, d) PROVE CheckStillHolds'
  BY <1>5 DEF LoadWith, CheckStillHolds, Same, SameActivation, Act, Conclude, LockOwned,
     Holding, server, TypeOK, CallsOK, TokensOK, ServerOK
<1>6. ASSUME NEW t \in Threads, Unreachable(t) PROVE CheckStillHolds'
  BY <1>6 DEF Unreachable, NoVerdict, CheckStillHolds, Same, SameActivation, Act, Conclude,
     LockOwned, Holding, server, TypeOK, CallsOK, TokensOK, ServerOK
<1>7. ASSUME NEW t \in Threads, Grant(t) PROVE CheckStillHolds'
  BY <1>7 DEF Grant, NoVerdict, Issue, CheckStillHolds, Same, SameActivation, Act, Conclude,
     LockOwned, Holding, TypeOK, CallsOK, TokensOK, ServerOK
<1>8. ASSUME NEW t \in Threads, GrantActivation(t) PROVE CheckStillHolds'
  BY <1>8 DEF GrantActivation, Issue, CheckStillHolds, Same, SameActivation, Act, Conclude,
     LockOwned, Holding, TypeOK, CallsOK, TokensOK, ServerOK
<1>9. ASSUME NEW t \in Threads, GrantRevocation(t) PROVE CheckStillHolds'
  BY <1>9 DEF GrantRevocation, NoVerdict, CheckStillHolds, Same, SameActivation, Act,
     Conclude, LockOwned, Holding, TypeOK, CallsOK, TokensOK, ServerOK
<1>10. ASSUME NEW t \in Threads, Refuse(t) PROVE CheckStillHolds'
  BY <1>10 DEF Refuse, CheckStillHolds, Same, SameActivation, Act, Conclude, LockOwned,
     Holding, server, TypeOK, CallsOK, TokensOK, ServerOK
<1>11. ASSUME NEW t \in Threads, Check(t) PROVE CheckStillHolds'
  BY <1>11 DEF Check, MayStore, CheckStillHolds, Same, SameActivation, Act, Conclude,
     LockOwned, Holding, server, TypeOK, CallsOK, TokensOK, ServerOK
<1>12. ASSUME NEW t \in Threads, CheckFails(t) PROVE CheckStillHolds'
  BY <1>12 DEF CheckFails, NoVerdict, CheckStillHolds, Same, SameActivation, Act, Conclude,
     LockOwned, Holding, server, TypeOK, CallsOK, TokensOK, ServerOK
<1>13. ASSUME NEW t \in Threads, Write(t) PROVE CheckStillHolds'
  BY <1>13 DEF Write, CheckStillHolds, Same, SameActivation, Act, Conclude, LockOwned,
     Holding, server, TypeOK, CallsOK, TokensOK, ServerOK
<1>14. ASSUME NEW t \in Threads, Delete(t) PROVE CheckStillHolds'
  BY <1>14 DEF Delete, CheckStillHolds, Same, SameActivation, Act, Conclude, LockOwned,
     Holding, server, TypeOK, CallsOK, TokensOK, ServerOK
<1>15. ASSUME NEW t \in Threads, StorageError(t) PROVE CheckStillHolds'
  BY <1>15 DEF StorageError, CheckStillHolds, Same, SameActivation, Act, Conclude,
     LockOwned, Holding, server, TypeOK, CallsOK, TokensOK, ServerOK
<1>16. ASSUME NEW t \in Threads, Continue(t) PROVE CheckStillHolds'
  BY <1>16 DEF Continue, CheckStillHolds, Same, SameActivation, Act, LockOwned, Holding,
     server, TypeOK, CallsOK, TokensOK, ServerOK
<1>17. ASSUME NEW t \in Threads, Return(t) PROVE CheckStillHolds'
  BY <1>17 DEF Return, Rest, CheckStillHolds, Same, SameActivation, Act, LockOwned, Holding,
     server, TypeOK, CallsOK, TokensOK, ServerOK
<1>18. ASSUME NEW i \in Instances, Supersede(i) \/ Close(i) \/ Reopen(i) PROVE CheckStillHolds'
  BY <1>18 DEF Supersede, Close, Reopen, CheckStillHolds, Same, SameActivation, Act,
     LockOwned, Holding, server, TypeOK, CallsOK, TokensOK, ServerOK
<1>19. ASSUME NEW i \in Instances, Crash(i) PROVE CheckStillHolds'
  BY <1>19 DEF Crash, Rest, CheckStillHolds, Same, SameActivation, Act, LockOwned, Holding,
     server, TypeOK, CallsOK, TokensOK, ServerOK
<1>20. ASSUME (\E a \in Activations : ServerRevoke(a)) \/ Tick PROVE CheckStillHolds'
  BY <1>20 DEF ServerRevoke, Tick, CheckStillHolds, Same, SameActivation, Act, LockOwned,
     Holding, server, TypeOK, CallsOK, TokensOK, ServerOK
<1> QED
  BY <1>1, <1>2, <1>3, <1>4, <1>5, <1>6, <1>7, <1>8, <1>9, <1>10, <1>11, <1>12, <1>13,
     <1>14, <1>15, <1>16, <1>17, <1>18, <1>19, <1>20 DEF Next, Step, Fault, Load, LoadFails

\* clearLicense moves the generation before it deletes, and no refresh of its
\* instance that has asked should_persist is left by then.
LEMMA ClearingStep ==
    ASSUME TypeOK, LockOwned, TokensExist, ClearingSupersedes, Next
    PROVE  ClearingSupersedes'
<1>1. ASSUME NEW t \in Threads, NEW k \in Kinds, Begin(t, k) PROVE ClearingSupersedes'
  <2>1. \A u \in Threads : call[u] = "forget" /\ pc[u] # "idle" => InstanceOf[u] # InstanceOf[t]
    BY <1>1 DEF Begin, MessageThreadFree, OnMessageThread
  <2>2. /\ \A u \in Threads : u # t => pc'[u] = pc[u] /\ call'[u] = call[u] /\ forgotten'[u] = forgotten[u]
        /\ pc'[t] # "idle" /\ pc'[t] # "write" /\ call'[t] = k /\ forgotten'[t] = FALSE
    BY <1>1 DEF Begin, Entry, TypeOK, CallsOK
  <2>3. \A u \in Threads : u # t => (superseded[u] => superseded'[u])
    BY <1>1 DEF Begin, Supersedes, TypeOK, CallsOK
  <2>4. ASSUME k = "forget", NEW u \in Threads, u # t, InstanceOf[u] = InstanceOf[t], pc[u] # "idle",
               call[u] \in {"refresh", "force"}
        PROVE  superseded'[u]
    BY <1>1, <2>4 DEF Begin, Supersedes, Outdated, AsksGeneration
  <2> QED
    BY <2>1, <2>2, <2>3, <2>4 DEF ClearingSupersedes
<1>2. ASSUME NEW t \in Threads, TakeMutex(t) PROVE ClearingSupersedes'
  BY <1>2 DEF TakeMutex, TokensExist, ClearingSupersedes, LockOwned, Holding, history,
     TypeOK, CallsOK
<1>3. ASSUME NEW t \in Threads, TakeLock(t) PROVE ClearingSupersedes'
  BY <1>3 DEF TakeLock, LockFree, UnderLock, ClearingSupersedes, LockOwned, Holding,
     history, TypeOK, CallsOK
<1>4. ASSUME NEW t \in Threads, GiveUpWaiting(t) \/ LockError(t) PROVE ClearingSupersedes'
  BY <1>4 DEF GiveUpWaiting, LockError, LockFailed, ClearingSupersedes, Conclude, LockOwned,
     Holding, history, TypeOK, CallsOK
<1>5. ASSUME NEW t \in Threads, NEW d \in {stored, 0}, LoadWith(t, d) PROVE ClearingSupersedes'
  BY <1>5 DEF LoadWith, ClearingSupersedes, Conclude, LockOwned, Holding, history, TypeOK,
     CallsOK
<1>6. ASSUME NEW t \in Threads, Unreachable(t) PROVE ClearingSupersedes'
  BY <1>6 DEF Unreachable, NoVerdict, ClearingSupersedes, Conclude, LockOwned, Holding,
     history, TypeOK, CallsOK
<1>7. ASSUME NEW t \in Threads, Grant(t) PROVE ClearingSupersedes'
  BY <1>7 DEF Grant, NoVerdict, ClearingSupersedes, Conclude, LockOwned, Holding, history,
     TypeOK, CallsOK
<1>8. ASSUME NEW t \in Threads, GrantActivation(t) PROVE ClearingSupersedes'
  BY <1>8 DEF GrantActivation, ClearingSupersedes, Conclude, LockOwned, Holding, history,
     TypeOK, CallsOK
<1>9. ASSUME NEW t \in Threads, GrantRevocation(t) PROVE ClearingSupersedes'
  BY <1>9 DEF GrantRevocation, NoVerdict, ClearingSupersedes, Conclude, LockOwned, Holding,
     history, TypeOK, CallsOK
<1>10. ASSUME NEW t \in Threads, Refuse(t) PROVE ClearingSupersedes'
  BY <1>10 DEF Refuse, ClearingSupersedes, Conclude, LockOwned, Holding, history, TypeOK,
     CallsOK
<1>11. ASSUME NEW t \in Threads, Check(t) PROVE ClearingSupersedes'
  BY <1>11 DEF Check, MayStore, ClearingSupersedes, Conclude, LockOwned, Holding, history,
     TypeOK, CallsOK
<1>12. ASSUME NEW t \in Threads, CheckFails(t) PROVE ClearingSupersedes'
  BY <1>12 DEF CheckFails, NoVerdict, ClearingSupersedes, Conclude, LockOwned, Holding,
     history, TypeOK, CallsOK
<1>13. ASSUME NEW t \in Threads, Write(t) PROVE ClearingSupersedes'
  BY <1>13 DEF Write, ClearingSupersedes, Conclude, LockOwned, Holding, TypeOK, CallsOK
<1>14. ASSUME NEW t \in Threads, Delete(t) PROVE ClearingSupersedes'
  BY <1>14 DEF Delete, Peers, ClearingSupersedes, Conclude, LockOwned, Holding, TypeOK,
     CallsOK
<1>15. ASSUME NEW t \in Threads, StorageError(t) PROVE ClearingSupersedes'
  BY <1>15 DEF StorageError, ClearingSupersedes, Conclude, LockOwned, Holding, history,
     TypeOK, CallsOK
<1>16. ASSUME NEW t \in Threads, Continue(t) PROVE ClearingSupersedes'
  BY <1>16 DEF Continue, Supersedes, Outdated, AsksGeneration, ClearingSupersedes,
     LockOwned, Holding, history, TypeOK, CallsOK
<1>17. ASSUME NEW t \in Threads, Return(t) PROVE ClearingSupersedes'
  BY <1>17 DEF Return, Rest, ClearingSupersedes, LockOwned, Holding, TypeOK, CallsOK
<1>18. ASSUME NEW i \in Instances, Supersede(i) \/ Close(i) \/ Reopen(i) PROVE ClearingSupersedes'
  BY <1>18 DEF Supersede, Close, Reopen, Outdated, ClearingSupersedes, LockOwned, Holding,
     history, TypeOK, CallsOK
<1>19. ASSUME NEW i \in Instances, Crash(i) PROVE ClearingSupersedes'
  BY <1>19 DEF Crash, Rest, ClearingSupersedes, LockOwned, Holding, TypeOK, CallsOK
<1>20. ASSUME (\E a \in Activations : ServerRevoke(a)) \/ Tick PROVE ClearingSupersedes'
  BY <1>20 DEF ServerRevoke, Tick, ClearingSupersedes, LockOwned, Holding, history, TypeOK,
     CallsOK
<1> QED
  BY <1>1, <1>2, <1>3, <1>4, <1>5, <1>6, <1>7, <1>8, <1>9, <1>10, <1>11, <1>12, <1>13,
     <1>14, <1>15, <1>16, <1>17, <1>18, <1>19, <1>20 DEF Next, Step, Fault, Load, LoadFails

-----------------------------------------------------------------------------
\* The invariant.

\* A device's first state satisfies the invariant.
LEMMA InitInv == Init => Inv
<1> SUFFICES ASSUME Init PROVE Inv
  OBVIOUS
<1>1. TypeOK
  BY InitTypeOK
<1>2. LockOwned
  BY LicenseUpdatesAssumption DEF Init, LockOwned, Holding
<1>3. TokensExist /\ SeatInHand /\ AnswersAreNew /\ CheckStillHolds /\ ClearingSupersedes
  BY DEF Init, TokensExist, NeedsToken, SeatInHand, AnswersAreNew, CheckStillHolds,
     ClearingSupersedes
<1>4. TimesFollowOrder
  <2>1. CASE log = << >>
    BY <2>1 DEF Init, TimesFollowOrder, Tokens
  <2>2. CASE \E a \in Activations : log = << [act |-> a, at |-> 0, seat |-> TRUE] >>
    <3>1. PICK a \in Activations : log = << [act |-> a, at |-> 0, seat |-> TRUE] >>
      BY <2>2
    <3>2. Tokens = {1} /\ log[1].act = a /\ log[1].at = 0
      BY <3>1 DEF Tokens
    <3> QED BY <3>2 DEF Init, TimesFollowOrder, Act, At
  <2> QED BY <2>1, <2>2 DEF Init
<1> QED BY <1>1, <1>2, <1>3, <1>4 DEF Inv

\* The parts of the invariant are preserved together.
LEMMA InvStep == Inv /\ [Next]_vars => Inv'
<1> SUFFICES ASSUME Inv, [Next]_vars PROVE Inv'
  OBVIOUS
<1>1. CASE Next
  <2>1. TypeOK'
    BY <1>1, TypeStep DEF Inv
  <2>2. LockOwned' /\ TokensExist' /\ SeatInHand' /\ TimesFollowOrder'
    BY <1>1, <2>1, LockStep, TokensExistStep, SeatStep, TimesStep DEF Inv
  <2>3. AnswersAreNew' /\ CheckStillHolds' /\ ClearingSupersedes'
    BY <1>1, AnswersStep, CheckStep, ClearingStep DEF Inv
  <2> QED BY <2>1, <2>2, <2>3 DEF Inv
<1>2. CASE UNCHANGED vars
  BY <1>2 DEF vars, server, locks, history, Inv, TypeOK, ServerOK, LocksOK, CallsOK,
     TokensOK, LockOwned, TokensExist, NeedsToken, SeatInHand, SeatTokens, TimesFollowOrder,
     Tokens, Act, At, AnswersAreNew, CheckStillHolds, Same, SameActivation,
     ClearingSupersedes
<1> QED BY <1>1, <1>2

\* Every state of every behaviour satisfies the invariant: nothing but issued
\* tokens is stored, the lock has one owner, the times follow the order the
\* tokens were issued in, and what a check has in hand is newer than the file.
THEOREM Invariance == Spec => []Inv
<1>1. Init => Inv
  BY InitInv
<1>2. Inv /\ [Next]_vars => Inv'
  BY InvStep
<1> QED BY <1>1, <1>2, PTL DEF Spec

\* Type correctness: every token in the file or in a thread's hands is one the
\* server issued.
THEOREM TypeCorrectness == Spec => []TypeOK
<1>1. Inv => TypeOK
  BY DEF Inv
<1> QED BY <1>1, Invariance, PTL

-----------------------------------------------------------------------------
\* What no step does.

\* The file changes only in a write or a deletion.
LEMMA FileChanges ==
    ASSUME Next, stored' # stored
    PROVE  \E t \in Threads : Write(t) \/ Delete(t)
BY DEF Next, Step, Fault, Begin, TakeMutex, TakeLock, GiveUpWaiting, LockError, Load,
   LoadFails, LoadWith, Unreachable, Grant, GrantActivation, GrantRevocation, Refuse, Check,
   CheckFails, StorageError, Continue, Return, Supersede, Close, Reopen, Crash,
   ServerRevoke, Tick

\* The locks of validate_token_online, call_and_store and the forced refresh
\* make the order the answers are stored in the order they were issued in.
THEOREM OrderTheorem == Spec => AnswersLandInOrder
<1>1. Inv /\ [Next]_vars =>
        [\A t \in Threads : Stores(t) /\ call[t] \in Answering => answer[t] > floor]_vars
  BY DEF Inv, AnswersAreNew, Stores
<1> QED BY <1>1, Invariance, PTL DEF Spec, AnswersLandInOrder

\* clearLicense: the refresh it overtook does not write the license back.
THEOREM ClearedTheorem == Spec => ClearedStaysCleared
<1>1. Inv /\ [Next]_vars =>
        [\A t \in Threads : Stores(t) /\ call[t] \in {"refresh", "force"} => ~forgotten[t]]_vars
  BY DEF Inv, ClearingSupersedes, Stores
<1> QED BY <1>1, Invariance, PTL DEF Spec, ClearedStaysCleared

\* should_persist, asked under the lock, still holds when the file is written.
THEOREM OtherLicenseTheorem == Spec => OtherLicenseStays
<1>1. Inv /\ [Next]_vars =>
        [\A t \in Threads : Stores(t) =>
           /\ call[t] \in {"refresh", "force"} /\ stored # 0 => Act(stored) = Act(token[t])
           /\ call[t] = "addon" => stored # 0 /\ Act(stored) = Act(token[t])]_vars
  BY DEF Inv, CheckStillHolds, Same, SameActivation, Stores
<1> QED BY <1>1, Invariance, PTL DEF Spec, OtherLicenseStays

\* The throttle of validate_token_online compares times, yet returns the newest.
THEOREM ThrottleTheorem == Spec => ThrottleReturnsNewest
<1>1. Inv /\ [Next]_vars =>
        [\A t \in Threads : Load(t) /\ pc'[t] = "return" /\ SameActivation(stored, token[t])
           => answer'[t] >= stored]_vars
  <2> SUFFICES ASSUME Inv, NEW t \in Threads, Load(t), pc'[t] = "return",
                      SameActivation(stored, token[t])
               PROVE  answer'[t] >= stored
    OBVIOUS
  <2>1. stored \in Tokens /\ token[t] \in Tokens /\ Act(stored) = Act(token[t])
    BY DEF SameActivation, Inv, TypeOK, TokensOK, ServerOK, Tokens
  <2>2. At(stored) \in Nat /\ At(token[t]) \in Nat
    BY <2>1, IssuedToken DEF Inv, TypeOK
  <2>3. answer'[t] = Freshest(token[t], stored)
    BY DEF Load, LoadWith, Inv, TypeOK, TokensOK
  <2>4. ~Undecided(token[t], stored)
    BY DEF Load, LoadWith, Inv, TypeOK, CallsOK
  <2>5. CASE At(stored) > At(token[t])
    BY <2>1, <2>3, <2>5 DEF Freshest, SameActivation, Tokens
  <2>6. CASE At(stored) = At(token[t])
    BY <2>1, <2>2, <2>3, <2>4, <2>6 DEF Freshest, Undecided, SameActivation, Tokens
  <2>7. CASE At(stored) < At(token[t])
    <3>1. ~(token[t] <= stored)
      BY <2>1, <2>2, <2>7 DEF Inv, TimesFollowOrder
    <3> QED BY <2>1, <2>2, <2>3, <2>7, <3>1 DEF Freshest, Tokens
  <2> QED BY <2>2, <2>5, <2>6, <2>7
<1> QED BY <1>1, Invariance, PTL DEF Spec, ThrottleReturnsNewest

\* deleteRevoked tells a newer activation of this device by its time alone.
THEOREM DiscardTheorem == Spec => DiscardSparesNewer
<1>1. Inv /\ [Next]_vars =>
        [\A t \in Threads : Deletes(t) /\ call[t] = "discard" => stored <= token[t]]_vars
  <2> SUFFICES ASSUME Inv, Next, NEW t \in Threads, Deletes(t), call[t] = "discard"
               PROVE  stored <= token[t]
    BY DEF Deletes
  <2>1. Removes(t)
    <3>1. PICK u \in Threads : Write(u) \/ Delete(u)
      BY FileChanges DEF Deletes
    <3>2. u = t /\ ~Write(t)
      BY <3>1 DEF Deletes, Write, Delete, Holding, Inv, LockOwned
    <3> QED BY <3>1, <3>2 DEF Delete, Deletes
  <2>2. stored \in Tokens /\ token[t] \in Tokens /\ Act(stored) = Act(token[t])
    BY <2>1 DEF Removes, Same, SameActivation, Inv, TypeOK, TokensOK, ServerOK, Tokens
  <2>3. CASE stored = token[t]
    BY <2>2, <2>3 DEF Tokens
  <2>4. CASE At(stored) < At(token[t])
    <3>1. At(stored) \in Nat /\ At(token[t]) \in Nat
      BY <2>2, IssuedToken DEF Inv, TypeOK
    <3> QED BY <2>2, <2>4, <3>1 DEF Inv, TimesFollowOrder, Tokens
  <2> QED BY <2>1, <2>3, <2>4 DEF Removes
<1> QED BY <1>1, Invariance, PTL DEF Spec, DiscardSparesNewer

-----------------------------------------------------------------------------
\* The license file implements the register.

\* No license, or the one stored, is a register's first state.
LEMMA RegisterInit == Init => Register!RInit
<1> SUFFICES ASSUME Init PROVE Register!RInit
  OBVIOUS
<1>1. CASE log = << >> /\ stored = 0
  BY <1>1 DEF Init, Register!RInit, SeatTokens, Tokens
<1>2. CASE \E a \in Activations : log = << [act |-> a, at |-> 0, seat |-> TRUE] >> /\ stored = 1
  <2>1. PICK a \in Activations : log = << [act |-> a, at |-> 0, seat |-> TRUE] >> /\ stored = 1
    BY <1>2
  <2>2. Len(log) = 1 /\ log[1].seat = TRUE
    BY <2>1
  <2> QED BY <2>1, <2>2 DEF Init, Register!RInit, SeatTokens, Tokens
<1> QED BY <1>1, <1>2 DEF Init

\* Issuing a token is the register's Issue.
LEMMA RegisterIssue ==
    ASSUME ServerOK, NEW a \in Activations, NEW at \in Nat, NEW seat \in BOOLEAN,
           Issue(a, at, seat), stored' = stored, floor' = floor
    PROVE  Register!Issue
<1>1. /\ Len(log') = Len(log) + 1 /\ Len(log) \in Nat
      /\ \A n \in Tokens : log'[n] = log[n]
      /\ log'[Len(log) + 1] = [act |-> a, at |-> at, seat |-> seat]
  BY IssueAppends DEF ServerOK
<1>2. Tokens' = Tokens \cup {Len(log) + 1} /\ log'[Len(log) + 1].seat = seat
  BY <1>1 DEF Tokens
<1>3. SeatTokens' = IF seat THEN SeatTokens \cup {Len(log) + 1} ELSE SeatTokens
  BY <1>1, <1>2 DEF SeatTokens
<1> QED BY <1>1, <1>3 DEF Register!Issue

\* Issuing, storing an answer, storing an activation and deleting are the
\* register's steps; nothing else moves it.
LEMMA RegisterStep ==
    ASSUME Inv, Next
    PROVE  [Register!RNext]_(Register!rvars)
<1>1. ASSUME NEW t \in Threads, Grant(t) PROVE Register!RNext
  <2>1. PICK a \in Activations, at \in Nat : Issue(a, at, FALSE)
    BY <1>1, GrantsIssue DEF Inv
  <2> QED BY <1>1, <2>1, RegisterIssue DEF Grant, history, Inv, TypeOK, Register!RNext
<1>2. ASSUME NEW t \in Threads, GrantActivation(t) PROVE Register!RNext
  <2>1. PICK a \in Activations, at \in Nat : Issue(a, at, TRUE)
    BY <1>2 DEF GrantActivation, Inv, TypeOK, ServerOK
  <2> QED BY <1>2, <2>1, RegisterIssue DEF GrantActivation, history, Inv, TypeOK, Register!RNext
<1>3. ASSUME NEW t \in Threads, Write(t) PROVE Register!RNext
  <2>1. stored' = answer[t] /\ floor' = Len(log) /\ log' = log /\ SeatTokens' = SeatTokens
    BY <1>3 DEF Write, server, SeatTokens, Tokens
  <2>2. CASE call[t] \in Answering
    <3>1. answer[t] \in (floor + 1) .. Len(log)
      BY <1>3, <2>2 DEF Write, Inv, AnswersAreNew, TypeOK, TokensOK, ServerOK
    <3> QED BY <2>1, <3>1 DEF Register!RNext, Register!Answer
  <2>3. CASE call[t] = "activate"
    <3>1. answer[t] \in SeatTokens
      BY <1>3, <2>3 DEF Write, Inv, SeatInHand
    <3> QED BY <2>1, <3>1 DEF Register!RNext, Register!Activated
  <2> QED BY <1>3, <2>2, <2>3 DEF Write, Inv, TokensExist
<1>4. ASSUME NEW t \in Threads, Delete(t) PROVE [Register!RNext]_(Register!rvars)
  BY <1>4 DEF Delete, server, SeatTokens, Tokens, Register!RNext, Register!Remove, Register!rvars
<1>5. ASSUME UNCHANGED <<log, stored, floor>> PROVE UNCHANGED Register!rvars
  BY <1>5 DEF SeatTokens, Tokens, Register!rvars
<1>6. ASSUME NEW t \in Threads, Step(t) \/ Fault(t) \/ \E k \in Kinds : Begin(t, k)
      PROVE  \/ Grant(t) \/ GrantActivation(t) \/ Write(t) \/ Delete(t)
             \/ UNCHANGED <<log, stored, floor>>
  BY <1>6 DEF Step, Fault, Begin, TakeMutex, TakeLock, GiveUpWaiting, LockError, Load, LoadFails,
     LoadWith, Unreachable, GrantRevocation, Refuse, Check, CheckFails, StorageError, Continue,
     Return, server, history
<1>7. ASSUME ~ \E t \in Threads : Step(t) \/ Fault(t) \/ \E k \in Kinds : Begin(t, k)
      PROVE  UNCHANGED <<log, stored, floor>>
  BY <1>7 DEF Next, Supersede, Close, Reopen, Crash, ServerRevoke, Tick, server, history
<1> QED BY <1>1, <1>2, <1>3, <1>4, <1>5, <1>6, <1>7

\* The calls on the shared file implement the abstract register: nothing but
\* issued licenses, in the order issued, save for what the customer activates.
THEOREM RegisterTheorem == Spec => ImplementsRegister
<1>1. Inv /\ [Next]_vars => [Register!RNext]_(Register!rvars)
  <2> SUFFICES ASSUME Inv, [Next]_vars PROVE [Register!RNext]_(Register!rvars)
    OBVIOUS
  <2>1. CASE Next
    BY <2>1, RegisterStep
  <2>2. CASE UNCHANGED vars
    BY <2>2 DEF vars, server, history, SeatTokens, Tokens, Register!rvars
  <2> QED BY <2>1, <2>2
<1> QED BY <1>1, RegisterInit, Invariance, PTL DEF Spec, ImplementsRegister, Register!RSpec
=============================================================================

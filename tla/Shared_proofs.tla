------------------------------ MODULE Shared_proofs ------------------------------
(***************************************************************************)
(* Proofs about what processes and threads share besides the update lock:  *)
(* the gate they poll through (PollGate), for any threads, requests,       *)
(* intervals and waits; the JUCE bridge (UnlockBridge), for any number of  *)
(* activations, checks, revocations and continuations; and the store whose *)
(* license others keep open, among MCShared's stores.                      *)
(***************************************************************************)
EXTENDS MCShared, SequenceTheorems, TLAPS

\* A new client has polled nothing and was told nothing.
LEMMA InitInv == GateInit => GateInv
BY DEF GateInit, GateInv, GateTypeOK, Slots, Clocks, ClockTimes, GatePlaces

\* Sweeping with a time that may be old empties only slots whose poll is an
\* interval ago by now, and changes no other.
LEMMA SweepIsDue ==
    ASSUME GateInv, NEW t \in Threads, NEW u \in Requests
    PROVE  /\ Swept(at[t]) \in [Requests -> ClockTimes]
           /\ Swept(at[t])[u] # Never => claimed[u] # Never /\ Swept(at[t])[u] = Brought(u)
           /\ Swept(at[t])[u] = Never /\ claimed[u] # Never => Brought(u) + Interval <= now
           /\ Swept(at[t])[u] # Never => at[t] < Brought(u) + Interval
<1>1. /\ slots \in [Requests -> ClockTimes]
      /\ at[t] \in Nat /\ now \in Nat /\ at[t] <= now /\ Interval \in Nat
  BY PollGateAssumption DEF GateInv, GateTypeOK, Clocks
<1>2. Swept(at[t]) \in [Requests -> ClockTimes]
  BY <1>1 DEF Swept, ClockTimes
<1>3. CASE slots[u] = Never
  BY <1>1, <1>2, <1>3 DEF Swept, GateInv, Slots
<1>4. CASE slots[u] # Never
  <2>1. slots[u] \in Nat /\ slots[u] = Brought(u) /\ claimed[u] # Never
    BY <1>1, <1>4 DEF ClockTimes, GateInv, Slots
  <2>2. CASE at[t] - slots[u] >= Interval
    <3>1. Swept(at[t])[u] = Never /\ Brought(u) + Interval <= now
      BY <1>1, <1>4, <2>1, <2>2 DEF Swept
    <3> QED BY <1>2, <3>1
  <2>3. CASE ~(at[t] - slots[u] >= Interval)
    <3>1. Swept(at[t])[u] = slots[u] /\ at[t] < Brought(u) + Interval
      BY <1>1, <1>4, <2>1, <2>3 DEF Swept
    <3> QED BY <1>2, <1>4, <2>1, <3>1
  <2> QED BY <2>2, <2>3
<1> QED BY <1>3, <1>4

\* No step of a thread or of the clock breaks the invariant.
LEMMA InvStep == GateInv /\ [GateNext]_gateVars => GateInv'
<1> SUFFICES ASSUME GateInv, [GateNext]_gateVars PROVE GateInv'
  OBVIOUS
<1> USE PollGateAssumption DEF GateInv, GateTypeOK, Slots, Clocks, ClockTimes, GatePlaces
<1>1. ASSUME NEW t \in Threads, NEW u \in Requests, Poll(t, u) PROVE GateInv'
  BY <1>1 DEF Poll, Brought
<1>2. ASSUME NEW t \in Threads, Claim(t) PROVE GateInv'
  <2>1. /\ slots' = [Swept(at[t]) EXCEPT ![url[t]] = at[t]]
        /\ claimed' = [claimed EXCEPT ![url[t]] = now]
        /\ waited' = [waited EXCEPT ![url[t]] = now - at[t]]
        /\ at[t] \in Nat /\ at[t] <= now /\ url[t] \in Requests
        /\ UNCHANGED <<now, holdUntil, url, at, wait, told>>
    BY <1>2 DEF Claim
  <2>2. Swept(at[t]) \in [Requests -> ClockTimes]
    BY SweepIsDue
  <2>3. GateTypeOK'
    BY <1>2, <2>1, <2>2 DEF Claim
  <2>4. Slots'
    <3> SUFFICES ASSUME NEW u \in Requests
                 PROVE  /\ slots'[u] # Never => claimed'[u] # Never /\ slots'[u] = Brought(u)'
                        /\ slots'[u] = Never /\ claimed'[u] # Never => Brought(u)' + Interval <= now'
                        /\ claimed'[u] # Never => waited'[u] <= claimed'[u] /\ claimed'[u] <= now'
      OBVIOUS
    <3>1. CASE u = url[t]
      BY <2>1, <2>2, <3>1 DEF Brought
    <3>2. CASE u # url[t]
      <4>1. slots'[u] = Swept(at[t])[u] /\ claimed'[u] = claimed[u] /\ waited'[u] = waited[u]
        BY <2>1, <2>2, <3>2
      <4>2. Brought(u)' = Brought(u) /\ now' = now
        BY <2>1, <4>1 DEF Brought
      <4>3. /\ Swept(at[t])[u] # Never => claimed[u] # Never /\ Swept(at[t])[u] = Brought(u)
            /\ Swept(at[t])[u] = Never /\ claimed[u] # Never => Brought(u) + Interval <= now
        BY SweepIsDue
      <4> QED BY <4>1, <4>2, <4>3
    <3> QED BY <3>1, <3>2
  <2>5. Clocks'
    BY <2>1
  <2> QED BY <2>3, <2>4, <2>5
<1>3. ASSUME NEW t \in Threads, Refuse(t) PROVE GateInv'
  <2>1. /\ slots' = slots \/ slots' = Swept(at[t])
        /\ UNCHANGED <<now, holdUntil, url, claimed, waited, told>>
        /\ at' = [at EXCEPT ![t] = 0] /\ wait' = [wait EXCEPT ![t] = 0]
    BY <1>3 DEF Refuse, PollEnds
  <2>2. \A u \in Requests :
          /\ Swept(at[t])[u] # Never => claimed[u] # Never /\ Swept(at[t])[u] = Brought(u)
          /\ Swept(at[t])[u] = Never /\ claimed[u] # Never => Brought(u) + Interval <= now
    BY SweepIsDue
  <2>3. GateTypeOK'
    BY <1>3, <2>1, SweepIsDue DEF Refuse, PollEnds
  <2>4. Slots' /\ Clocks'
    BY <2>1, <2>2 DEF Brought
  <2> QED BY <2>3, <2>4
<1>4. ASSUME NEW t \in Threads, Answered(t) PROVE GateInv'
  BY <1>4 DEF Answered, PollEnds, Brought
<1>5. ASSUME NEW t \in Threads, RateLimited(t) PROVE GateInv'
  BY <1>5 DEF RateLimited, Brought
<1>6. ASSUME NEW t \in Threads, BackOff(t) PROVE GateInv'
  <2>1. Capped(wait[t]) \in Nat
    BY DEF Capped
  <2>2. holdUntil' = told' /\ told' \in Nat
    BY <1>6, <2>1 DEF BackOff, Lengthened, Later, Capped
  <2> QED BY <1>6, <2>2 DEF BackOff, PollEnds, Brought
<1>7. CASE Tick
  BY <1>7 DEF Tick, Brought
<1>8. CASE UNCHANGED gateVars
  BY <1>8 DEF gateVars, Brought
<1> QED BY <1>1, <1>2, <1>3, <1>4, <1>5, <1>6, <1>7, <1>8 DEF GateNext

\* The gate's slots are what the last polls brought, or empty when that is an interval
\* ago, and
\* its hold is the longest the server asked for.
THEOREM Invariance == GateSpec => []GateInv
<1>1. GateInit => GateInv
  BY InitInv
<1>2. GateInv /\ [GateNext]_gateVars => GateInv'
  BY InvStep
<1> QED BY <1>1, <1>2, PTL DEF GateSpec

\* A thread that goes from the gate to its request has claimed it, and one that
\* turns back was refused.
LEMMA OnlyClaims ==
    ASSUME GateInv, GateNext, NEW t \in Threads
    PROVE  /\ Claims(t) => Claim(t)
           /\ Refuses(t) => Refuse(t)
<1> USE DEF GateInv, GateTypeOK, Claims, Refuses
<1>1. ASSUME NEW s \in Threads, s # t, NEW u \in Requests,
             Poll(s, u) \/ Claim(s) \/ Refuse(s) \/ Answered(s) \/ RateLimited(s) \/ BackOff(s)
      PROVE  stage'[t] = stage[t]
  BY <1>1 DEF Poll, Claim, Refuse, Answered, RateLimited, BackOff, PollEnds
<1>2. ASSUME NEW u \in Requests, Poll(t, u) \/ Answered(t) \/ RateLimited(t) \/ BackOff(t)
      PROVE  stage[t] # "claim"
  BY <1>2 DEF Poll, Answered, RateLimited, BackOff
<1>3. Claim(t) => stage'[t] = "asking"
  BY DEF Claim
<1>4. Refuse(t) => stage'[t] = "idle"
  BY DEF Refuse, PollEnds
<1>5. Tick => stage' = stage
  BY DEF Tick
<1>6. url[t] \in Requests
  OBVIOUS
<1> QED BY <1>1, <1>2, <1>3, <1>4, <1>5, <1>6 DEF GateNext

\* Whichever threads poll a request, its polls are claimed an interval apart, less the
\* time the earlier one stood between its clock and the mutex.
THEOREM SpacingTheorem == GateSpec => PollsSpaced
<1>1. GateInv /\ [GateNext]_gateVars =>
        [\A t \in Threads : Claims(t) /\ claimed[url[t]] # Never =>
           now >= claimed[url[t]] + Interval - waited[url[t]]]_gateVars
  <2> SUFFICES ASSUME GateInv, GateNext, NEW t \in Threads, Claims(t), claimed[url[t]] # Never
               PROVE  now >= claimed[url[t]] + Interval - waited[url[t]]
    BY DEF gateVars, Claims
  <2>1. Swept(at[t])[url[t]] = Never
    BY OnlyClaims DEF Claim, OwnSlot
  <2>2. /\ url[t] \in Requests /\ now \in Nat
        /\ claimed[url[t]] \in Nat /\ waited[url[t]] \in Nat
    BY DEF GateInv, GateTypeOK, ClockTimes
  <2>3. Brought(url[t]) + Interval <= now
    BY <2>1, <2>2, SweepIsDue
  <2> QED BY <2>2, <2>3, PollGateAssumption DEF Brought
<1>2. GateSpec => [][GateNext]_gateVars
  BY PTL DEF GateSpec
<1> QED BY <1>1, <1>2, Invariance, PTL DEF PollsSpaced

\* Where no poll stands at the mutex until its clock is old, polls of one request are
\* claimed an interval apart: nothing but the wait takes time off the interval.
THEOREM PromptTheorem ==
    GateSpec /\ [][\A t \in Threads : Claims(t) => at[t] = now]_gateVars => PollsApart
<1> DEFINE Prompt == [\A t \in Threads : Claims(t) => at[t] = now]_gateVars
           NoneWaited == \A u \in Requests : waited[u] = 0
           Apart == [\A t \in Threads : Claims(t) /\ claimed[url[t]] # Never =>
                        now >= claimed[url[t]] + Interval]_gateVars
<1>1. GateInit => NoneWaited
  BY DEF GateInit
<1>2. GateInv /\ NoneWaited /\ [GateNext]_gateVars /\ Prompt => NoneWaited'
  <2> SUFFICES ASSUME GateInv, NoneWaited, [GateNext]_gateVars, Prompt PROVE NoneWaited'
    OBVIOUS
  <2>1. ASSUME NEW t \in Threads, Claim(t) PROVE NoneWaited'
    <3>1. /\ Claims(t) /\ gateVars' # gateVars
          /\ waited' = [waited EXCEPT ![url[t]] = now - at[t]]
      BY <2>1 DEF Claim, Claims, gateVars, GateInv, GateTypeOK
    <3>2. now - at[t] = 0
      BY <3>1 DEF GateInv, GateTypeOK
    <3> QED BY <3>1, <3>2 DEF GateInv, GateTypeOK
  <2>2. CASE waited' = waited
    BY <2>2
  <2>3. waited' = waited \/ \E t \in Threads : Claim(t)
    BY DEF GateNext, Poll, Refuse, Answered, RateLimited, BackOff, Tick, gateVars
  <2> QED BY <2>1, <2>2, <2>3
<1>3. GateInv /\ NoneWaited /\ [\A t \in Threads : Claims(t) /\ claimed[url[t]] # Never =>
           now >= claimed[url[t]] + Interval - waited[url[t]]]_gateVars => Apart
  <2> SUFFICES ASSUME GateInv, NoneWaited, NEW t \in Threads, claimed[url[t]] # Never,
                      now >= claimed[url[t]] + Interval - waited[url[t]]
               PROVE  now >= claimed[url[t]] + Interval
    BY DEF gateVars, Claims
  <2> QED BY PollGateAssumption DEF GateInv, GateTypeOK, ClockTimes
<1>4. GateSpec => []GateInv /\ GateInit /\ [][GateNext]_gateVars
  BY Invariance, PTL DEF GateSpec
<1> QED BY <1>1, <1>2, <1>3, <1>4, SpacingTheorem, PTL DEF PollsSpaced, PollsApart

\* back_off holds back every request until the longest wait has passed.
THEOREM HoldTheorem == GateSpec => HoldKept
<1>1. GateInv /\ [GateNext]_gateVars => [\A t \in Threads : Claims(t) => now >= told]_gateVars
  <2> SUFFICES ASSUME GateInv, GateNext, NEW t \in Threads, Claims(t)
               PROVE  now >= told
    BY DEF gateVars, Claims
  <2>1. ~(at[t] < holdUntil)
    BY OnlyClaims DEF Claim, HeldBack
  <2> QED BY <2>1 DEF GateInv, GateTypeOK, Clocks
<1> QED BY <1>1, Invariance, PTL DEF GateSpec, HoldKept

\* No poll is refused but for the hold or an earlier poll of the same request.
THEOREM CauseTheorem == GateSpec => HeldBackForCause
<1>1. GateInv /\ [GateNext]_gateVars =>
        [\A t \in Threads : Refuses(t) =>
           \/ at[t] < told
           \/ claimed[url[t]] # Never /\ at[t] < Brought(url[t]) + Interval]_gateVars
  <2> SUFFICES ASSUME GateInv, GateNext, NEW t \in Threads, Refuses(t), ~(at[t] < told)
               PROVE  claimed[url[t]] # Never /\ at[t] < Brought(url[t]) + Interval
    BY DEF gateVars, Refuses
  <2>1. Swept(at[t])[url[t]] # Never
    BY OnlyClaims DEF Refuse, HeldBack, OwnSlot, GateInv, Clocks
  <2> QED BY <2>1, SweepIsDue DEF GateInv, GateTypeOK
<1> QED BY <1>1, Invariance, PTL DEF GateSpec, HeldBackForCause

\* Both together: polls are held back as long as the server asked for, and no other is.
THEOREM HeldBackTheorem == GateSpec => PollsHeldBackRightly
BY HoldTheorem, CauseTheorem, PTL DEF PollsHeldBackRightly

\* However long a Retry-After, the hold ends: it never reaches further than
\* MaxBackoff from now.
THEOREM BoundTheorem == GateSpec => []HoldBounded
<1> USE PollGateAssumption DEF GateInv, GateTypeOK, Clocks, HoldBounded
<1>1. GateInit => HoldBounded
  BY DEF GateInit
<1>2. GateInv /\ HoldBounded /\ [GateNext]_gateVars => HoldBounded'
  <2> SUFFICES ASSUME GateInv, HoldBounded, [GateNext]_gateVars PROVE HoldBounded'
    OBVIOUS
  <2>1. ASSUME NEW t \in Threads, BackOff(t) PROVE HoldBounded'
    <3>1. Capped(wait[t]) \in Nat /\ Capped(wait[t]) <= MaxBackoff
      BY DEF Capped
    <3>2. at[t] \in Nat /\ at[t] <= now
      OBVIOUS
    <3> QED BY <2>1, <3>1, <3>2 DEF BackOff, Lengthened, Later
  <2>2. CASE UNCHANGED <<now, holdUntil>>
    BY <2>2
  <2>3. CASE Tick
    BY <2>3 DEF Tick
  <2> QED BY <2>1, <2>2, <2>3
          DEF GateNext, Poll, Claim, Refuse, Answered, RateLimited, gateVars
<1> QED BY <1>1, <1>2, Invariance, PTL DEF GateSpec

-----------------------------------------------------------------------------
(* The bridge: what a call left is not changed by what it superseded, and  *)
(* only a revocation takes an activated license out of the file again.     *)

Calls == Range(underWay)
Said  == Range(posts)

\* Nothing is listened to any longer.
AllOutdated == (\A c \in Calls : ~c.fresh) /\ (\A m \in Said : ~m.fresh)

\* What is under way is about copies older than x.
OlderUnderWay(x) == \A c \in Calls : c.copy.nth < x.nth

WasIssued(x) == x = NoCopy \/ x.nth <= copies

\* A revocation that succeeded says of which license.
SaysOf(m) == m.kind = "revoke" /\ m.outcome = "revoked" => m.copy \in LicenseCopies

\* Whatever copy there is, the server issued; a call is about one.
CopiesOK ==
    /\ WasIssued(unlocked) /\ WasIssued(stored) /\ WasIssued(doing.copy)
    /\ \A c \in Calls : c.copy.nth <= copies
    /\ \A m \in Said : WasIssued(m.copy) /\ SaysOf(m)
    /\ doing.what \notin {"idle", "clear"} => doing.copy \in LicenseCopies

\* A call that clears or stores has superseded everything.
CallsSupersede == doing.what \in {"clear", "store"} => AllOutdated

\* A license about to be stored is newer than what is under way and than what stands.
NewestIsStored ==
    doing.what \in {"fulfilled", "store"} =>
        /\ OlderUnderWay(doing.copy)
        /\ \A x \in standing : x # NoCopy => x.nth < doing.copy.nth

\* While something stands nothing is listened to, and no call is in the way.
NothingInterferes ==
    standing # {} =>
        /\ AllOutdated
        /\ doing.what \in {"idle", "clear", "fulfilled", "store"}
        /\ \A x \in standing : x # NoCopy => OlderUnderWay(x)

IInv ==
    /\ BridgeTypeOK /\ CopiesOK /\ CallsSupersede
    /\ NewestIsStored /\ NothingInterferes /\ LastCallStands

-----------------------------------------------------------------------------
(* Sequences and what is in them.                                          *)

LEMMA InRange ==
    ASSUME NEW T, NEW seq \in Seq(T)
    PROVE  /\ DOMAIN seq = 1 .. Len(seq) /\ Len(seq) \in Nat
           /\ \A i \in 1 .. Len(seq) : seq[i] \in T /\ seq[i] \in Range(seq)
           /\ \A x \in Range(seq) : x \in T /\ \E i \in 1 .. Len(seq) : x = seq[i]
<1>1. DOMAIN seq = 1 .. Len(seq) /\ Len(seq) \in Nat /\ \A i \in 1 .. Len(seq) : seq[i] \in T
  BY LenProperties, ElementOfSeq
<1> QED
  BY <1>1 DEF Range

LEMMA OutdateGives ==
    ASSUME NEW T, T = BackgroundCalls \/ T = Continuations, NEW seq \in Seq(T)
    PROVE  /\ Outdate(seq) \in Seq(T)
           /\ \A x \in Range(Outdate(seq)) :
                x.fresh = FALSE /\ \E m \in Range(seq) : x = [m EXCEPT !.fresh = FALSE]
<1> DEFINE n == Len(seq)
<1>1. DOMAIN seq = 1 .. n /\ n \in Nat /\ \A i \in 1 .. n : seq[i] \in T /\ seq[i] \in Range(seq)
  BY InRange
<1>2. \A m \in T : [m EXCEPT !.fresh = FALSE] \in T /\ [m EXCEPT !.fresh = FALSE].fresh = FALSE
  <2>1. CASE T = BackgroundCalls
    BY <2>1 DEF BackgroundCalls
  <2>2. CASE T = Continuations
    BY <2>2 DEF Continuations
  <2> QED
    BY <2>1, <2>2
<1>3. Outdate(seq) = [i \in 1 .. n |-> [seq[i] EXCEPT !.fresh = FALSE]]
  BY <1>1 DEF Outdate
<1>4. Outdate(seq) \in [1 .. n -> T]
  BY <1>1, <1>2, <1>3
<1>5. Outdate(seq) \in Seq(T)
  BY <1>1, <1>4, SeqDef
<1>6. ASSUME NEW x \in Range(Outdate(seq))
      PROVE  x.fresh = FALSE /\ \E m \in Range(seq) : x = [m EXCEPT !.fresh = FALSE]
  <2>1. PICK i \in 1 .. n : x = [seq[i] EXCEPT !.fresh = FALSE]
    BY <1>3, <1>6 DEF Range
  <2> QED
    BY <1>1, <1>2, <2>1
<1> QED
  BY <1>5, <1>6

LEMMA ConcatGives ==
    ASSUME NEW T, NEW seq \in Seq(T), NEW new, new = << >> \/ \E n \in T : new = <<n>>
    PROVE  /\ seq \o new \in Seq(T)
           /\ \A x \in Range(seq \o new) : x \in Range(seq) \/ new = <<x>>
<1>1. new \in Seq(T) /\ \A i \in 1 .. Len(new) : new = <<new[i]>>
  <2>1. CASE new = << >>
    BY <2>1
  <2>2. CASE \E n \in T : new = <<n>>
    BY <2>2
  <2> QED
    BY <2>1, <2>2
<1>2. /\ seq \o new \in Seq(T) /\ Len(seq \o new) = Len(seq) + Len(new)
      /\ \A j \in 1 .. Len(seq) + Len(new) :
           (seq \o new)[j] = IF j <= Len(seq) THEN seq[j] ELSE new[j - Len(seq)]
  BY <1>1, ConcatProperties
<1> DEFINE both == seq \o new
<1> HIDE DEF both
<1>3. /\ Len(seq) \in Nat /\ Len(new) \in Nat /\ \A i \in 1 .. Len(seq) : seq[i] \in Range(seq)
      /\ \A x \in Range(both) : \E i \in 1 .. Len(both) : x = both[i]
  <2>1. both \in Seq(T)
    BY <1>2 DEF both
  <2> QED
    BY <1>1, <2>1, InRange
<1>4. ASSUME NEW x \in Range(both) PROVE x \in Range(seq) \/ new = <<x>>
  <2>1. PICK i \in 1 .. Len(both) : x = both[i]
    BY <1>3
  <2>2. CASE i <= Len(seq)
    BY <1>2, <1>3, <2>1, <2>2 DEF both
  <2>3. CASE ~(i <= Len(seq))
    <3>1. i - Len(seq) \in 1 .. Len(new) /\ x = new[i - Len(seq)]
      BY <1>2, <1>3, <2>1, <2>3 DEF both
    <3> QED
      BY <1>1, <3>1
  <2> QED
    BY <2>2, <2>3
<1> QED
  BY <1>2, <1>4 DEF both

LEMMA AppendGives ==
    ASSUME NEW T, NEW seq \in Seq(T), NEW m \in T
    PROVE  Append(seq, m) \in Seq(T) /\ \A x \in Range(Append(seq, m)) : x \in Range(seq) \/ x = m
<1>1. /\ Append(seq, m) \in Seq(T) /\ Len(Append(seq, m)) = Len(seq) + 1
      /\ \A i \in 1 .. Len(seq) : Append(seq, m)[i] = seq[i]
      /\ Append(seq, m)[Len(seq) + 1] = m
  BY AppendProperties
<1> DEFINE both == Append(seq, m)
<1> HIDE DEF both
<1>2. /\ Len(seq) \in Nat /\ \A i \in 1 .. Len(seq) : seq[i] \in Range(seq)
      /\ \A x \in Range(both) : \E i \in 1 .. Len(both) : x = both[i]
  <2>1. both \in Seq(T)
    BY <1>1 DEF both
  <2> QED
    BY <2>1, InRange
<1>3. ASSUME NEW x \in Range(both) PROVE x \in Range(seq) \/ x = m
  <2>1. PICK i \in 1 .. Len(both) : x = both[i]
    BY <1>2
  <2>2. i \in 1 .. Len(seq) \/ i = Len(seq) + 1
    BY <1>1, <1>2, <2>1 DEF both
  <2> QED
    BY <1>1, <1>2, <2>1, <2>2 DEF both
<1> QED
  BY <1>1, <1>3 DEF both

LEMMA TailGives ==
    ASSUME NEW T, NEW seq \in Seq(T), seq # << >>
    PROVE  /\ Tail(seq) \in Seq(T) /\ Range(Tail(seq)) \subseteq Range(seq)
           /\ seq[1] \in Range(seq) /\ seq[1] \in T
<1>1. /\ Tail(seq) \in Seq(T) /\ Len(Tail(seq)) = Len(seq) - 1
      /\ \A i \in 1 .. Len(Tail(seq)) : Tail(seq)[i] = seq[i + 1]
  BY HeadTailProperties
<1>2. Len(seq) \in Nat /\ Len(seq) >= 1 /\ \A i \in 1 .. Len(seq) : seq[i] \in T /\ seq[i] \in Range(seq)
  BY InRange, EmptySeq
<1> DEFINE rest == Tail(seq)
<1> HIDE DEF rest
<1>3. ASSUME NEW x \in Range(rest) PROVE x \in Range(seq)
  <2>0. rest \in Seq(T)
    BY <1>1 DEF rest
  <2>1. PICK i \in 1 .. Len(rest) : x = rest[i]
    BY <2>0, InRange
  <2>2. i + 1 \in 1 .. Len(seq) /\ x = seq[i + 1]
    BY <1>1, <1>2, <2>1 DEF rest
  <2> QED
    BY <1>2, <2>2
<1> QED
  BY <1>1, <1>2, <1>3 DEF rest

LEMMA RemoveAtShape ==
    ASSUME NEW S, NEW s \in Seq(S), NEW i \in 1 .. Len(s)
    PROVE  /\ RemoveAt(s, i) \in Seq(S) /\ Len(RemoveAt(s, i)) = Len(s) - 1
           /\ \A j \in 1 .. Len(s) - 1 :
                RemoveAt(s, i)[j] = s[IF j < i THEN j ELSE j + 1]
<1> DEFINE n == Len(s)
           front == SubSeq(s, 1, i - 1)
           back == SubSeq(s, i + 1, n)
<1>1. n \in Nat /\ i \in 1 .. n /\ \A j \in 1 .. n : s[j] \in S
  BY LenProperties, ElementOfSeq
<1>2. /\ front \in Seq(S) /\ Len(front) = i - 1
      /\ \A j \in 1 .. i - 1 : front[j] = s[j]
  <2>1. \A j \in 1 .. i - 1 : s[j] \in S
    BY <1>1
  <2>2. 1 \in Int /\ i - 1 \in Int
    BY <1>1
  <2>3. /\ front \in Seq(S) /\ Len(front) = IF 1 <= i - 1 THEN i - 1 - 1 + 1 ELSE 0
        /\ \A j \in 1 .. i - 1 - 1 + 1 : front[j] = s[1 + j - 1]
    BY <2>1, <2>2, SubSeqProperties
  <2> QED
    BY <1>1, <2>3
<1>3. /\ back \in Seq(S) /\ Len(back) = n - i
      /\ \A j \in 1 .. n - i : back[j] = s[i + j]
  <2>1. \A j \in i + 1 .. n : s[j] \in S
    BY <1>1
  <2>2. i + 1 \in Int /\ n \in Int
    BY <1>1
  <2>3. /\ back \in Seq(S) /\ Len(back) = IF i + 1 <= n THEN n - (i + 1) + 1 ELSE 0
        /\ \A j \in 1 .. n - (i + 1) + 1 : back[j] = s[(i + 1) + j - 1]
    BY <2>1, <2>2, SubSeqProperties
  <2> QED
    BY <1>1, <2>3
<1>4. RemoveAt(s, i) = front \o back
  BY DEF RemoveAt
<1> DEFINE t == RemoveAt(s, i)
<1>5. /\ t \in Seq(S) /\ Len(t) = n - 1
      /\ \A j \in 1 .. n - 1 : t[j] = IF j <= i - 1 THEN front[j] ELSE back[j - (i - 1)]
  <2>1. /\ front \o back \in Seq(S) /\ Len(front \o back) = Len(front) + Len(back)
        /\ \A j \in 1 .. Len(front) + Len(back) : (front \o back)[j] =
              IF j <= Len(front) THEN front[j] ELSE back[j - Len(front)]
    BY <1>2, <1>3, ConcatProperties
  <2>2. Len(front) + Len(back) = n - 1
    <3> HIDE DEF front, back
    <3> QED
      BY <1>1, <1>2, <1>3
  <2> QED
    BY <1>2, <1>4, <2>1, <2>2
<1> HIDE DEF front, back, t
<1>6. ASSUME NEW j \in 1 .. n - 1 PROVE t[j] = s[IF j < i THEN j ELSE j + 1]
  <2>1. CASE j < i
    BY <1>1, <1>2, <1>5, <2>1
  <2>2. CASE ~(j < i)
    <3>1. j - (i - 1) \in 1 .. n - i /\ i + (j - (i - 1)) = j + 1 /\ ~(j <= i - 1)
      BY <1>1, <2>2
    <3> QED
      BY <1>3, <1>5, <2>2, <3>1
  <2> QED
    BY <2>1, <2>2
<1> QED
  BY <1>5, <1>6 DEF t, n

LEMMA RemoveAtGives ==
    ASSUME NEW T, NEW seq \in Seq(T), NEW i \in 1 .. Len(seq)
    PROVE  RemoveAt(seq, i) \in Seq(T) /\ Range(RemoveAt(seq, i)) \subseteq Range(seq)
<1>1. /\ RemoveAt(seq, i) \in Seq(T) /\ Len(RemoveAt(seq, i)) = Len(seq) - 1
      /\ \A j \in 1 .. Len(seq) - 1 : RemoveAt(seq, i)[j] = seq[IF j < i THEN j ELSE j + 1]
  BY RemoveAtShape
<1>2. Len(seq) \in Nat /\ \A j \in 1 .. Len(seq) : seq[j] \in Range(seq)
  BY InRange
<1> DEFINE rest == RemoveAt(seq, i)
<1> HIDE DEF rest
<1>3. ASSUME NEW x \in Range(rest) PROVE x \in Range(seq)
  <2>0. rest \in Seq(T)
    BY <1>1 DEF rest
  <2>1. PICK j \in 1 .. Len(rest) : x = rest[j]
    BY <2>0, InRange
  <2> DEFINE k == IF j < i THEN j ELSE j + 1
  <2>2. k \in 1 .. Len(seq) /\ x = seq[k]
    BY <1>1, <1>2, <2>1 DEF rest
  <2> QED
    BY <1>2, <2>2
<1> QED
  BY <1>1, <1>3 DEF rest

-----------------------------------------------------------------------------
(* What a step does to what is under way.                                  *)

\* Nothing is new, and nothing superseded is listened to again.
NothingNew ==
    /\ underWay' \in Seq(BackgroundCalls)
    /\ \A c \in Calls' : \E b \in Calls : c.copy = b.copy /\ (c.fresh => b.fresh)

\* What is said now was said before.
NothingSaid ==
    /\ posts' \in Seq(Continuations)
    /\ \A m \in Said' : \E b \in Said : /\ m.copy = b.copy /\ m.kind = b.kind /\ m.outcome = b.outcome
                                       /\ (m.fresh => b.fresh)

LEMMA TypesOfBoth ==
    ASSUME BridgeTypeOK
    PROVE  /\ \A b \in Calls : /\ b.copy \in LicenseCopies /\ b.copy.nth \in Nat
                              /\ b.kind \in {"check", "revoke"} /\ b.stage \in {"ask", "delete"}
           /\ \A m \in Said : m.copy \in MaybeCopy /\ m.fresh \in BOOLEAN
           /\ Calls \subseteq BackgroundCalls /\ Said \subseteq Continuations
<1>1. underWay \in Seq(BackgroundCalls) /\ posts \in Seq(Continuations)
  BY DEF BridgeTypeOK
<1>2. \A b \in Calls : b \in BackgroundCalls
  BY <1>1, InRange DEF Calls
<1>3. \A m \in Said : m \in Continuations
  BY <1>1, InRange DEF Said
<1>4. \A b \in BackgroundCalls : /\ b.copy \in LicenseCopies /\ b.copy.nth \in Nat
                                /\ b.kind \in {"check", "revoke"} /\ b.stage \in {"ask", "delete"}
  BY DEF BackgroundCalls, LicenseCopies
<1>5. \A m \in Continuations : m.copy \in MaybeCopy /\ m.fresh \in BOOLEAN
  BY DEF Continuations
<1> QED
  BY <1>2, <1>3, <1>4, <1>5

LEMMA LaunchGives ==
    ASSUME underWay \in Seq(BackgroundCalls), NEW new,
           new = << >> \/ \E n \in BackgroundCalls : new = <<n>>, Launch(new)
    PROVE  /\ underWay' \in Seq(BackgroundCalls)
           /\ \A c \in Calls' : (~c.fresh /\ \E b \in Calls : c.copy = b.copy) \/ new = <<c>>
<1>1. /\ Outdate(underWay) \in Seq(BackgroundCalls)
      /\ \A x \in Range(Outdate(underWay)) :
           x.fresh = FALSE /\ \E m \in Range(underWay) : x = [m EXCEPT !.fresh = FALSE]
  BY OutdateGives
<1>2. \A m \in Range(underWay) : [m EXCEPT !.fresh = FALSE].copy = m.copy
  BY InRange DEF BackgroundCalls
<1>3. /\ underWay' \in Seq(BackgroundCalls)
      /\ \A x \in Range(underWay') : x \in Range(Outdate(underWay)) \/ new = <<x>>
  BY <1>1, ConcatGives DEF Launch
<1>4. ASSUME NEW c \in Calls'
      PROVE  (~c.fresh /\ \E b \in Calls : c.copy = b.copy) \/ new = <<c>>
  <2>1. c \in Range(underWay')
    BY <1>4 DEF Calls
  <2>2. CASE new = <<c>>
    BY <2>2
  <2>3. CASE c \in Range(Outdate(underWay))
    <3>1. c.fresh = FALSE /\ \E m \in Range(underWay) : c = [m EXCEPT !.fresh = FALSE]
      BY <1>1, <2>3
    <3>2. PICK m \in Range(underWay) : c = [m EXCEPT !.fresh = FALSE]
      BY <3>1
    <3>3. c.copy = m.copy /\ m \in Calls
      BY <1>2, <3>2 DEF Calls
    <3> QED
      BY <3>1, <3>3
  <2> QED
    BY <1>3, <2>1, <2>2, <2>3
<1> QED
  BY <1>3, <1>4

LEMMA OutdatedPosts ==
    ASSUME NEW q \in Seq(Continuations), posts' = Outdate(q), Range(q) \subseteq Said
    PROVE  NothingSaid /\ \A m \in Said' : ~m.fresh
<1>1. /\ Outdate(q) \in Seq(Continuations)
      /\ \A x \in Range(Outdate(q)) :
           x.fresh = FALSE /\ \E m \in Range(q) : x = [m EXCEPT !.fresh = FALSE]
  BY OutdateGives
<1>2. \A m \in Range(q) : LET x == [m EXCEPT !.fresh = FALSE]
                         IN  x.copy = m.copy /\ x.kind = m.kind /\ x.outcome = m.outcome
  BY InRange DEF Continuations
<1>3. ASSUME NEW x \in Said'
      PROVE  /\ x.fresh = FALSE
             /\ \E m \in Said : x.copy = m.copy /\ x.kind = m.kind /\ x.outcome = m.outcome
  <2>1. x \in Range(Outdate(q))
    BY <1>3 DEF Said
  <2>2. x.fresh = FALSE /\ \E m \in Range(q) : x = [m EXCEPT !.fresh = FALSE]
    BY <1>1, <2>1
  <2>3. PICK m \in Range(q) : x = [m EXCEPT !.fresh = FALSE]
    BY <2>2
  <2>4. x.copy = m.copy /\ x.kind = m.kind /\ x.outcome = m.outcome
    BY <1>2, <2>3
  <2> QED
    BY <2>2, <2>4
<1>4. posts' \in Seq(Continuations)
  BY <1>1
<1>5. \A m \in Said' : ~m.fresh
  BY <1>3
<1>6. \A x \in Said' : \E b \in Said : /\ x.copy = b.copy /\ x.kind = b.kind /\ x.outcome = b.outcome
                                      /\ (x.fresh => b.fresh)
  BY <1>3
<1> QED
  BY <1>4, <1>5, <1>6 DEF NothingSaid

\* Nothing is listened to after a handler that moves the generation.
LEMMA SupersedeGives ==
    ASSUME BridgeTypeOK, NEW q \in Seq(Continuations), Range(q) \subseteq Said, Supersede(q)
    PROVE  NothingNew /\ NothingSaid /\ AllOutdated'
<1> DEFINE new == << >>
<1>1. Launch(new) /\ posts' = Outdate(q) /\ new = << >> /\ (\A x : new # <<x>>)
  BY DEF Supersede
<1> HIDE DEF new
<1>2. /\ underWay' \in Seq(BackgroundCalls)
      /\ \A c \in Calls' : ~c.fresh /\ \E b \in Calls : c.copy = b.copy
  BY <1>1, LaunchGives DEF BridgeTypeOK
<1>3. NothingSaid /\ \A m \in Said' : ~m.fresh
  BY <1>1, OutdatedPosts
<1> QED
  BY <1>2, <1>3 DEF NothingNew, AllOutdated

\* The bounds on the copies, when nothing is new or said.
LEMMA StillIssued ==
    ASSUME BridgeTypeOK, CopiesOK, NothingNew, NothingSaid, copies' \in Nat, copies <= copies'
    PROVE  /\ \A c \in Calls' : c.copy.nth <= copies'
           /\ \A m \in Said' : (m.copy = NoCopy \/ m.copy.nth <= copies') /\ SaysOf(m)
           /\ \A x \in MaybeCopy : WasIssued(x) => WasIssued(x)'
<1>0. \A x \in LicenseCopies : x.nth \in Nat
  BY DEF LicenseCopies
<1>1. ASSUME NEW x \in MaybeCopy, WasIssued(x) PROVE x = NoCopy \/ x.nth <= copies'
  BY <1>0, <1>1 DEF MaybeCopy, WasIssued, BridgeTypeOK
<1>2. ASSUME NEW c \in Calls' PROVE c.copy.nth <= copies'
  <2>1. PICK b \in Calls : c.copy = b.copy
    BY <1>2 DEF NothingNew
  <2>2. b.copy \in LicenseCopies
    BY TypesOfBoth
  <2>3. b.copy.nth <= copies /\ copies \in Nat
    BY DEF CopiesOK, BridgeTypeOK
  <2> QED
    BY <1>0, <2>1, <2>2, <2>3
<1>3. ASSUME NEW m \in Said' PROVE (m.copy = NoCopy \/ m.copy.nth <= copies') /\ SaysOf(m)
  <2>1. PICK b \in Said : m.copy = b.copy /\ m.kind = b.kind /\ m.outcome = b.outcome
    BY <1>3 DEF NothingSaid
  <2>2. b.copy \in MaybeCopy
    BY TypesOfBoth
  <2>3. WasIssued(b.copy) /\ SaysOf(b)
    BY DEF CopiesOK
  <2> QED
    BY <1>1, <2>1, <2>2, <2>3 DEF SaysOf
<1> QED
  BY <1>1, <1>2, <1>3 DEF WasIssued

\* What is under way grows no newer by itself.
LEMMA StillOlder ==
    ASSUME NothingNew, NEW x, OlderUnderWay(x)
    PROVE  \A c \in Calls' : c.copy.nth < x.nth
  BY DEF NothingNew, OlderUnderWay

LEMMA StillOutdated ==
    ASSUME NothingNew, NothingSaid, AllOutdated
    PROVE  AllOutdated'
  BY DEF NothingNew, NothingSaid, AllOutdated

LEMMA Unmoved ==
    /\ BridgeTypeOK /\ underWay' = underWay => NothingNew
    /\ BridgeTypeOK /\ posts' = posts => NothingSaid
  BY DEF BridgeTypeOK, NothingNew, NothingSaid, Calls, Said

-----------------------------------------------------------------------------
(* What the steps have in common.                                          *)

CanBeHad(x, issued) == x \in MaybeCopy /\ (x = NoCopy \/ x.nth <= issued)

\* Types and bounds, after a step that starts nothing and posts nothing.
LEMMA Quietly ==
    ASSUME BridgeTypeOK, CopiesOK, NothingNew, NothingSaid, copies' \in Nat, copies <= copies',
           CanBeHad(unlocked', copies'), CanBeHad(stored', copies'), CanBeHad(doing'.copy, copies'),
           doing' \in InCall,
           doing'.what \notin {"idle", "clear"} => doing'.copy \in LicenseCopies,
           request' \in BOOLEAN, alive' \in BOOLEAN, label' \in {"revoking", "other"},
           standing' \in SUBSET MaybeCopy
    PROVE  BridgeTypeOK' /\ CopiesOK'
<1>1. BridgeTypeOK'
  BY DEF BridgeTypeOK, NothingNew, NothingSaid, CanBeHad
<1>2. /\ \A c \in Calls' : c.copy.nth <= copies'
      /\ \A m \in Said' : (m.copy = NoCopy \/ m.copy.nth <= copies') /\ SaysOf(m)
  BY StillIssued
<1> QED
  BY <1>1, <1>2 DEF CopiesOK, WasIssued, CanBeHad

LEMMA HadStill ==
    ASSUME BridgeTypeOK, CopiesOK, copies' \in Nat, copies <= copies'
    PROVE  /\ CanBeHad(NoCopy, copies') /\ CanBeHad(unlocked, copies')
           /\ CanBeHad(stored, copies') /\ CanBeHad(doing.copy, copies')
           /\ \A b \in Calls : CanBeHad(b.copy, copies')
           /\ \A m \in Said : CanBeHad(m.copy, copies')
<1>1. \A x \in MaybeCopy : x = NoCopy \/ x.nth \in Nat
  BY DEF MaybeCopy, LicenseCopies
<1>2. copies \in Nat /\ unlocked \in MaybeCopy /\ stored \in MaybeCopy /\ doing.copy \in MaybeCopy
  BY DEF BridgeTypeOK, InCall
<1>3. \A x \in MaybeCopy : WasIssued(x) => CanBeHad(x, copies')
  BY <1>1, <1>2 DEF WasIssued, CanBeHad
<1>4. \A b \in Calls : b.copy \in MaybeCopy /\ WasIssued(b.copy)
  BY TypesOfBoth DEF CopiesOK, WasIssued, MaybeCopy
<1>5. \A m \in Said : m.copy \in MaybeCopy /\ WasIssued(m.copy)
  BY TypesOfBoth DEF CopiesOK
<1> QED
  BY <1>2, <1>3, <1>4, <1>5 DEF CopiesOK, CanBeHad, MaybeCopy

\* A call or a continuation that nobody waits for any more leaves nothing to promise.
LEMMA NothingStands ==
    ASSUME BridgeTypeOK', CopiesOK', standing' = {},
           doing'.what \notin {"clear", "store", "fulfilled"}
    PROVE  IInv'
  BY DEF IInv, CallsSupersede, NewestIsStored, NothingInterferes, LastCallStands

LEMMA CallStays ==
    ASSUME CallsSupersede, NewestIsStored, doing' = doing, standing' = standing, NothingNew,
           AllOutdated => AllOutdated'
    PROVE  CallsSupersede' /\ NewestIsStored'
<1>1. CallsSupersede'
  BY DEF CallsSupersede
<1>2. OlderUnderWay(doing.copy) => OlderUnderWay(doing.copy)'
  BY DEF OlderUnderWay, NothingNew
<1> QED
  BY <1>1, <1>2 DEF NewestIsStored, OlderUnderWay

LEMMA StandingStays ==
    ASSUME IInv, BridgeTypeOK', CopiesOK', CallsSupersede', NewestIsStored', NothingNew,
           standing' = standing,
           standing # {} => /\ unlocked' = unlocked /\ (stored' = stored \/ stored' = NoCopy)
                            /\ AllOutdated'
                            /\ doing'.what \in {"idle", "clear", "fulfilled", "store"}
    PROVE  IInv'
<1>1. \A x : OlderUnderWay(x) => \A c \in Calls' : c.copy.nth < x.nth
  BY StillOlder
<1>2. NothingInterferes'
  BY <1>1 DEF IInv, NothingInterferes, OlderUnderWay
<1>3. LastCallStands'
  BY DEF IInv, LastCallStands
<1> QED
  BY <1>2, <1>3 DEF IInv

\* Most steps leave the store, what is unlocked and the call alone.
LEMMA AllStays ==
    ASSUME IInv, NothingNew, NothingSaid, UNCHANGED <<unlocked, stored, doing, copies, standing>>,
           request' \in BOOLEAN, alive' \in BOOLEAN, label' \in {"revoking", "other"}
    PROVE  IInv'
<1>1. /\ BridgeTypeOK /\ CopiesOK /\ CallsSupersede /\ NewestIsStored
      /\ copies' \in Nat /\ copies <= copies'
  BY DEF IInv, BridgeTypeOK
<1>2. CanBeHad(unlocked', copies') /\ CanBeHad(stored', copies') /\ CanBeHad(doing'.copy, copies')
  BY <1>1, HadStill
<1>3. BridgeTypeOK' /\ CopiesOK'
  <2>1. /\ doing' \in InCall /\ standing' \in SUBSET MaybeCopy
        /\ doing'.what \notin {"idle", "clear"} => doing'.copy \in LicenseCopies
    BY <1>1 DEF BridgeTypeOK, CopiesOK
  <2> QED
    BY <1>1, <1>2, <2>1, Quietly
<1>4. AllOutdated => AllOutdated'
  BY StillOutdated
<1>5. CallsSupersede' /\ NewestIsStored'
  BY <1>1, <1>4, CallStays
<1>6. standing # {} => AllOutdated' /\ doing'.what \in {"idle", "clear", "fulfilled", "store"}
  BY <1>4 DEF IInv, NothingInterferes
<1> QED
  BY <1>3, <1>5, <1>6, StandingStays

\* What the message thread brings from the server is newer than anything else.
LEMMA NewIsNewest ==
    ASSUME BridgeTypeOK, CopiesOK, LastCallStands, NEW a \in Seats
    PROVE  /\ NewCopy(a) \in LicenseCopies /\ NewCopy(a).nth = copies + 1
           /\ OlderUnderWay(NewCopy(a))
           /\ \A x \in standing : x # NoCopy => x.nth < NewCopy(a).nth
<1>1. copies \in Nat
  BY DEF BridgeTypeOK
<1>2. NewCopy(a) \in LicenseCopies /\ NewCopy(a).nth = copies + 1
  BY <1>1 DEF NewCopy, LicenseCopies
<1>3. \A c \in Calls : c.copy.nth \in Nat /\ c.copy.nth <= copies
  BY TypesOfBoth DEF CopiesOK
<1>4. \A x \in standing : x # NoCopy => x.nth \in Nat /\ x.nth <= copies
  <2>1. \A x \in MaybeCopy : x = NoCopy \/ x.nth \in Nat
    BY DEF MaybeCopy, LicenseCopies
  <2>2. \A x \in standing : x = unlocked /\ x \in MaybeCopy
    BY DEF LastCallStands, BridgeTypeOK
  <2>3. unlocked = NoCopy \/ unlocked.nth <= copies
    BY DEF CopiesOK, WasIssued
  <2> QED
    BY <2>1, <2>2, <2>3
<1>5. OlderUnderWay(NewCopy(a))
  BY <1>1, <1>2, <1>3 DEF OlderUnderWay
<1> QED
  BY <1>1, <1>2, <1>4, <1>5

-----------------------------------------------------------------------------
(* The invariant, step by step.                                            *)

LEMMA BridgeBegins == BridgeInit => IInv
<1> SUFFICES ASSUME BridgeInit PROVE IInv
  OBVIOUS
<1>1. /\ underWay = << >> /\ posts = << >> /\ doing = Idle /\ standing = {} /\ copies = 1
      /\ unlocked = NoCopy /\ request = FALSE /\ alive = TRUE /\ label = "other"
  BY DEF BridgeInit
<1>2. stored \in MaybeCopy /\ WasIssued(stored)
  BY <1>1 DEF BridgeInit, MaybeCopy, LicenseCopies, WasIssued
<1>3. Calls = {} /\ Said = {}
  BY <1>1 DEF Calls, Said, Range
<1>4. Idle \in InCall /\ Idle.what = "idle" /\ Idle.copy = NoCopy
  BY DEF Idle, InCall, MaybeCopy
<1>5. BridgeTypeOK
  <2>1. << >> \in Seq(BackgroundCalls) /\ << >> \in Seq(Continuations)
    OBVIOUS
  <2> QED
    BY <1>1, <1>2, <1>4, <2>1 DEF BridgeTypeOK, MaybeCopy
<1>6. CopiesOK
  BY <1>1, <1>2, <1>3, <1>4 DEF CopiesOK, WasIssued
<1> QED
  BY <1>1, <1>4, <1>5, <1>6 DEF IInv, CallsSupersede, NewestIsStored, NothingInterferes, LastCallStands

\* What handlers that only move the generation, or only the label, have in common.
LEMMA ReadyFacts ==
    ASSUME IInv, Ready
    PROVE  /\ doing = Idle /\ doing.what = "idle" /\ doing.copy = NoCopy /\ doing \in InCall
           /\ posts \in Seq(Continuations) /\ Range(posts) \subseteq Said
           /\ BridgeTypeOK /\ CopiesOK /\ copies \in Nat
           /\ standing # {} => AllOutdated
  BY DEF IInv, Ready, Idle, BridgeTypeOK, Said, NothingInterferes

LEMMA StartActivationKeeps == IInv /\ StartActivation => IInv'
<1> SUFFICES ASSUME IInv, StartActivation PROVE IInv'
  OBVIOUS
<1>1. /\ UNCHANGED <<unlocked, stored, underWay, posts, doing, copies, standing>>
      /\ request' \in BOOLEAN /\ alive' \in BOOLEAN /\ label' \in {"revoking", "other"}
  BY DEF StartActivation, async, IInv, BridgeTypeOK
<1>2. NothingNew /\ NothingSaid
  BY <1>1, Unmoved DEF IInv
<1> QED
  BY <1>1, <1>2, AllStays

LEMMA DestroyKeeps == IInv /\ Destroy => IInv'
<1> SUFFICES ASSUME IInv, Destroy PROVE IInv'
  OBVIOUS
<1>1. /\ Ready /\ Supersede(posts) /\ UNCHANGED <<unlocked, stored, doing, copies, standing>>
      /\ request' \in BOOLEAN /\ alive' \in BOOLEAN /\ label' \in {"revoking", "other"}
  BY DEF Destroy, IInv, BridgeTypeOK
<1>2. NothingNew /\ NothingSaid
  BY <1>1, ReadyFacts, SupersedeGives
<1> QED
  BY <1>1, <1>2, AllStays

LEMMA OutOfDateKeeps == IInv /\ OutOfDate => IInv'
<1> SUFFICES ASSUME IInv, OutOfDate PROVE IInv'
  OBVIOUS
<1>1. /\ posts # << >> /\ posts' = Tail(posts) /\ underWay' = underWay
      /\ UNCHANGED <<unlocked, stored, doing, copies, standing>>
      /\ request' \in BOOLEAN /\ alive' \in BOOLEAN /\ label' \in {"revoking", "other"}
  BY DEF OutOfDate, IInv, BridgeTypeOK
<1>2. BridgeTypeOK /\ posts \in Seq(Continuations)
  BY DEF IInv, BridgeTypeOK
<1>3. NothingNew
  BY <1>1, <1>2, Unmoved
<1>4. posts' \in Seq(Continuations) /\ Said' \subseteq Said
  BY <1>1, <1>2, TailGives DEF Said
<1>5. NothingSaid
  BY <1>4 DEF NothingSaid
<1> QED
  BY <1>1, <1>3, <1>5, AllStays

LEMMA LoadNowKeeps == IInv /\ LoadNow => IInv'
<1> SUFFICES ASSUME IInv, LoadNow PROVE IInv'
  OBVIOUS
<1>1. /\ Ready /\ Supersede(posts) /\ standing' = {} /\ UNCHANGED <<stored, request, alive, copies>>
      /\ \/ unlocked' = NoCopy /\ label' = "other" /\ doing' = doing
         \/ /\ stored # NoCopy /\ doing' = [what |-> "load", copy |-> stored]
            /\ UNCHANGED <<unlocked, label>>
  BY DEF LoadNow, Doing
<1>2. /\ BridgeTypeOK /\ CopiesOK /\ copies' \in Nat /\ copies <= copies' /\ doing.what = "idle"
      /\ NothingNew /\ NothingSaid
  BY <1>1, ReadyFacts, SupersedeGives
<1>3. /\ CanBeHad(NoCopy, copies') /\ CanBeHad(unlocked, copies') /\ CanBeHad(stored, copies')
      /\ CanBeHad(doing.copy, copies')
  BY <1>2, HadStill
<1>4. /\ doing' \in InCall /\ doing'.what \in {"idle", "load"}
      /\ doing'.what # "idle" => doing'.copy \in LicenseCopies
      /\ CanBeHad(doing'.copy, copies')
  BY <1>1, <1>2, <1>3 DEF BridgeTypeOK, InCall, MaybeCopy
<1>5. /\ request' \in BOOLEAN /\ alive' \in BOOLEAN /\ label' \in {"revoking", "other"}
      /\ CanBeHad(unlocked', copies') /\ CanBeHad(stored', copies') /\ standing' \in SUBSET MaybeCopy
  BY <1>1, <1>2, <1>3 DEF BridgeTypeOK
<1>6. BridgeTypeOK' /\ CopiesOK'
  BY <1>2, <1>4, <1>5, Quietly
<1> QED
  BY <1>1, <1>4, <1>6, NothingStands

LEMMA RevokeNowKeeps == IInv /\ RevokeNow => IInv'
<1> SUFFICES ASSUME IInv, RevokeNow PROVE IInv'
  OBVIOUS
<1>1. /\ Ready /\ Supersede(posts) /\ standing' = {} /\ unlocked # NoCopy
      /\ doing' = [what |-> "revoke", copy |-> unlocked]
      /\ UNCHANGED <<unlocked, stored, request, alive, copies, label>>
  BY DEF RevokeNow, Doing
<1>2. /\ BridgeTypeOK /\ CopiesOK /\ copies' \in Nat /\ copies <= copies'
      /\ NothingNew /\ NothingSaid
  BY <1>1, ReadyFacts, SupersedeGives
<1>3. CanBeHad(unlocked, copies') /\ CanBeHad(stored, copies')
  BY <1>2, HadStill
<1>4. /\ doing' \in InCall /\ doing'.what = "revoke" /\ doing'.copy \in LicenseCopies
      /\ CanBeHad(doing'.copy, copies')
  BY <1>1, <1>2, <1>3 DEF BridgeTypeOK, InCall, MaybeCopy
<1>5. /\ request' \in BOOLEAN /\ alive' \in BOOLEAN /\ label' \in {"revoking", "other"}
      /\ CanBeHad(unlocked', copies') /\ CanBeHad(stored', copies') /\ standing' \in SUBSET MaybeCopy
  BY <1>1, <1>2, <1>3 DEF BridgeTypeOK
<1>6. BridgeTypeOK' /\ CopiesOK'
  BY <1>2, <1>4, <1>5, Quietly
<1> QED
  BY <1>1, <1>4, <1>6, NothingStands

LEMMA ReloadKeeps == IInv /\ Reload => IInv'
<1> SUFFICES ASSUME IInv, Reload PROVE IInv'
  OBVIOUS
<1>1. /\ alive' = TRUE /\ unlocked' = NoCopy /\ request' = FALSE /\ label' = "other" /\ standing' = {}
      /\ UNCHANGED <<stored, underWay, posts, doing, copies>>
  BY DEF Reload, async
<1>2. /\ BridgeTypeOK /\ CopiesOK /\ copies' \in Nat /\ copies <= copies' /\ NothingNew /\ NothingSaid
  BY <1>1, Unmoved DEF IInv, BridgeTypeOK
<1>3. CanBeHad(NoCopy, copies') /\ CanBeHad(stored, copies') /\ CanBeHad(doing.copy, copies')
  BY <1>2, HadStill
<1>4. doing' \in InCall /\ (doing'.what \notin {"idle", "clear"} => doing'.copy \in LicenseCopies)
  BY <1>1, <1>2 DEF BridgeTypeOK, CopiesOK
<1>5. BridgeTypeOK' /\ CopiesOK'
  BY <1>1, <1>2, <1>3, <1>4, Quietly
<1>6. CallsSupersede'
  BY <1>1, <1>2, StillOutdated DEF IInv, CallsSupersede
<1>7. NewestIsStored'
  BY <1>1, <1>2, StillOlder DEF IInv, NewestIsStored, OlderUnderWay
<1> QED
  BY <1>1, <1>5, <1>6, <1>7 DEF IInv, NothingInterferes, LastCallStands

LEMMA ClearKeeps == IInv /\ Clear => IInv'
<1> SUFFICES ASSUME IInv, Clear PROVE IInv'
  OBVIOUS
<1>1. /\ Ready /\ Supersede(posts) /\ doing' = [what |-> "clear", copy |-> NoCopy]
      /\ UNCHANGED <<unlocked, stored, request, alive, copies, label, standing>>
  BY DEF Clear, Doing
<1>2. /\ BridgeTypeOK /\ CopiesOK /\ copies' \in Nat /\ copies <= copies'
      /\ NothingNew /\ NothingSaid /\ AllOutdated'
  BY <1>1, ReadyFacts, SupersedeGives
<1>3. CanBeHad(NoCopy, copies') /\ CanBeHad(unlocked, copies') /\ CanBeHad(stored, copies')
  BY <1>2, HadStill
<1>4. doing' \in InCall /\ doing'.what = "clear" /\ CanBeHad(doing'.copy, copies')
  BY <1>1, <1>3 DEF InCall, MaybeCopy
<1>5. /\ request' \in BOOLEAN /\ alive' \in BOOLEAN /\ label' \in {"revoking", "other"}
      /\ CanBeHad(unlocked', copies') /\ CanBeHad(stored', copies') /\ standing' \in SUBSET MaybeCopy
  BY <1>1, <1>2, <1>3 DEF BridgeTypeOK
<1>6. BridgeTypeOK' /\ CopiesOK'
  BY <1>2, <1>4, <1>5, Quietly
<1>7. CallsSupersede' /\ NewestIsStored'
  BY <1>2, <1>4 DEF CallsSupersede, NewestIsStored
<1> QED
  BY <1>1, <1>2, <1>4, <1>6, <1>7, StandingStays

LEMMA PollRequestKeeps == IInv /\ PollRequest => IInv'
<1> SUFFICES ASSUME IInv, PollRequest PROVE IInv'
  OBVIOUS
<1>1. /\ Ready /\ UNCHANGED <<unlocked, stored, underWay, posts, alive, standing>>
      /\ \/ \E a \in Seats : /\ doing' = [what |-> "fulfilled", copy |-> NewCopy(a)]
                             /\ copies' = copies + 1 /\ UNCHANGED <<request, label>>
         \/ request' = FALSE /\ label' = "other" /\ UNCHANGED <<copies, doing>>
  BY DEF PollRequest, Doing, async, Issues
<1>2. /\ BridgeTypeOK /\ CopiesOK /\ copies \in Nat /\ NothingNew /\ NothingSaid
      /\ standing # {} => AllOutdated
  BY <1>1, ReadyFacts, Unmoved
<1>3. CASE UNCHANGED <<copies, doing>>
  <2>1. /\ request' \in BOOLEAN /\ alive' \in BOOLEAN /\ label' \in {"revoking", "other"}
    BY <1>1, <1>2 DEF BridgeTypeOK
  <2> QED
    BY <1>1, <1>2, <1>3, <2>1, AllStays
<1>4. ASSUME NEW a \in Seats, doing' = [what |-> "fulfilled", copy |-> NewCopy(a)],
             copies' = copies + 1, UNCHANGED <<request, label>>
      PROVE  IInv'
  <2>1. /\ NewCopy(a) \in LicenseCopies /\ NewCopy(a).nth = copies + 1
        /\ OlderUnderWay(NewCopy(a))
        /\ \A x \in standing : x # NoCopy => x.nth < NewCopy(a).nth
    BY <1>2, NewIsNewest DEF IInv
  <2> DEFINE new == NewCopy(a)
  <2> HIDE DEF new
  <2>2. copies' \in Nat /\ copies <= copies'
    BY <1>2, <1>4
  <2>3. CanBeHad(unlocked, copies') /\ CanBeHad(stored, copies')
    BY <1>2, <2>2, HadStill
  <2>4. /\ doing'.what = "fulfilled" /\ doing'.copy = new /\ doing' \in InCall
        /\ new \in LicenseCopies /\ CanBeHad(new, copies')
    BY <1>2, <1>4, <2>1 DEF InCall, MaybeCopy, CanBeHad, new
  <2>5. /\ request' \in BOOLEAN /\ alive' \in BOOLEAN /\ label' \in {"revoking", "other"}
        /\ CanBeHad(unlocked', copies') /\ CanBeHad(stored', copies') /\ standing' \in SUBSET MaybeCopy
    BY <1>1, <1>2, <1>4, <2>3 DEF BridgeTypeOK
  <2>6. BridgeTypeOK' /\ CopiesOK'
    BY <1>2, <2>2, <2>4, <2>5, Quietly
  <2>7. CallsSupersede'
    BY <2>4 DEF CallsSupersede
  <2>8. NewestIsStored'
    <3>1. \A c \in Calls' : c.copy.nth < new.nth
      BY <1>2, <2>1, StillOlder DEF new
    <3>2. \A x \in standing : x # NoCopy => x.nth < new.nth
      BY <2>1 DEF new
    <3> QED
      BY <1>1, <2>4, <3>1, <3>2 DEF NewestIsStored, OlderUnderWay
  <2>9. standing # {} => AllOutdated'
    BY <1>2, StillOutdated
  <2> QED
    BY <1>1, <1>2, <2>4, <2>6, <2>7, <2>8, <2>9, StandingStays
<1> QED
  BY <1>1, <1>3, <1>4

LEMMA LoadTokenKeeps == IInv /\ LoadToken => IInv'
<1> SUFFICES ASSUME IInv, LoadToken PROVE IInv'
  OBVIOUS
<1>1. /\ Ready /\ UNCHANGED <<unlocked, stored, request, alive, standing>>
      /\ \/ \E a \in OfflineSeats : /\ doing' = [what |-> "store", copy |-> NewCopy(a)]
                                    /\ copies' = copies + 1 /\ Supersede(posts) /\ UNCHANGED label
         \/ label' = "other" /\ UNCHANGED <<copies, doing, underWay, posts>>
  BY DEF LoadToken, Doing, async, Issues
<1>2. /\ BridgeTypeOK /\ CopiesOK /\ copies \in Nat
      /\ standing # {} => AllOutdated
  BY <1>1, ReadyFacts
<1>3. CASE label' = "other" /\ UNCHANGED <<copies, doing, underWay, posts>>
  <2>1. /\ request' \in BOOLEAN /\ alive' \in BOOLEAN /\ label' \in {"revoking", "other"}
        /\ NothingNew /\ NothingSaid
    BY <1>1, <1>2, <1>3, Unmoved DEF BridgeTypeOK
  <2> QED
    BY <1>1, <1>2, <1>3, <2>1, AllStays
<1>4. ASSUME NEW a \in OfflineSeats, doing' = [what |-> "store", copy |-> NewCopy(a)],
             copies' = copies + 1, Supersede(posts), UNCHANGED label
      PROVE  IInv'
  <2>0. NothingNew /\ NothingSaid /\ AllOutdated'
    BY <1>1, <1>4, ReadyFacts, SupersedeGives
  <2>1. /\ NewCopy(a) \in LicenseCopies /\ NewCopy(a).nth = copies + 1
        /\ OlderUnderWay(NewCopy(a))
        /\ \A x \in standing : x # NoCopy => x.nth < NewCopy(a).nth
    BY <1>2, NewIsNewest, UnlockBridgeAssumption DEF IInv
  <2> DEFINE new == NewCopy(a)
  <2> HIDE DEF new
  <2>2. copies' \in Nat /\ copies <= copies'
    BY <1>2, <1>4
  <2>3. CanBeHad(unlocked, copies') /\ CanBeHad(stored, copies')
    BY <1>2, <2>2, HadStill
  <2>4. /\ doing'.what = "store" /\ doing'.copy = new /\ doing' \in InCall
        /\ new \in LicenseCopies /\ CanBeHad(new, copies')
    BY <1>2, <1>4, <2>1 DEF InCall, MaybeCopy, CanBeHad, new
  <2>5. /\ request' \in BOOLEAN /\ alive' \in BOOLEAN /\ label' \in {"revoking", "other"}
        /\ CanBeHad(unlocked', copies') /\ CanBeHad(stored', copies') /\ standing' \in SUBSET MaybeCopy
    BY <1>1, <1>2, <1>4, <2>3 DEF BridgeTypeOK
  <2>6. BridgeTypeOK' /\ CopiesOK'
    BY <1>2, <2>0, <2>2, <2>4, <2>5, Quietly
  <2>7. CallsSupersede'
    BY <2>0 DEF CallsSupersede
  <2>8. NewestIsStored'
    <3>1. \A c \in Calls' : c.copy.nth < new.nth
      BY <2>0, <2>1, StillOlder DEF new
    <3>2. \A x \in standing : x # NoCopy => x.nth < new.nth
      BY <2>1 DEF new
    <3> QED
      BY <1>1, <2>4, <3>1, <3>2 DEF NewestIsStored, OlderUnderWay
  <2> QED
    BY <1>1, <2>0, <2>4, <2>6, <2>7, <2>8, StandingStays
<1> QED
  BY <1>1, <1>3, <1>4

LEMMA ClearingKeeps == IInv /\ Clearing => IInv'
<1> SUFFICES ASSUME IInv, Clearing PROVE IInv'
  OBVIOUS
<1>1. /\ doing.what = "clear" /\ unlocked' = NoCopy /\ doing' = Idle /\ label' = "other"
      /\ request' = FALSE /\ (stored' = NoCopy \/ UNCHANGED stored) /\ Stands
      /\ UNCHANGED <<underWay, posts, copies, alive>>
  BY DEF Clearing, Returns, async
<1>2. /\ BridgeTypeOK /\ CopiesOK /\ copies' \in Nat /\ copies <= copies'
      /\ NothingNew /\ NothingSaid /\ AllOutdated'
  BY <1>1, Unmoved, StillOutdated DEF IInv, BridgeTypeOK, CallsSupersede
<1>3. CanBeHad(NoCopy, copies') /\ CanBeHad(unlocked', copies') /\ CanBeHad(stored', copies')
  BY <1>1, <1>2, HadStill
<1>4. Idle \in InCall /\ Idle.what = "idle" /\ Idle.copy = NoCopy
  BY DEF Idle, InCall, MaybeCopy
<1>5. standing' \subseteq {NoCopy} /\ (standing' # {} => stored' = NoCopy)
  BY <1>1 DEF Stands
<1>6. BridgeTypeOK' /\ CopiesOK'
  <2>1. /\ request' \in BOOLEAN /\ alive' \in BOOLEAN /\ label' \in {"revoking", "other"}
        /\ standing' \in SUBSET MaybeCopy
    BY <1>1, <1>2, <1>5 DEF BridgeTypeOK, MaybeCopy
  <2> QED
    BY <1>1, <1>2, <1>3, <1>4, <2>1, Quietly
<1>7. CallsSupersede' /\ NewestIsStored'
  BY <1>1, <1>4 DEF CallsSupersede, NewestIsStored
<1>8. NothingInterferes'
  BY <1>1, <1>2, <1>4, <1>5 DEF NothingInterferes
<1>9. LastCallStands'
  BY <1>1, <1>5 DEF LastCallStands
<1> QED
  BY <1>6, <1>7, <1>8, <1>9 DEF IInv

LEMMA StoringKeeps == IInv /\ Storing => IInv'
<1> SUFFICES ASSUME IInv, Storing PROVE IInv'
  OBVIOUS
<1> DEFINE new == doing.copy
<1>1. /\ doing.what = "store" /\ unlocked' = new /\ doing' = Idle /\ label' = "other"
      /\ request' = FALSE /\ (stored' = new \/ UNCHANGED stored) /\ Stands
      /\ UNCHANGED <<underWay, posts, copies, alive>>
  BY DEF Storing, Returns, Writes, async
<1>2. /\ BridgeTypeOK /\ CopiesOK /\ copies' \in Nat /\ copies <= copies'
      /\ NothingNew /\ NothingSaid /\ AllOutdated'
  BY <1>1, Unmoved, StillOutdated DEF IInv, BridgeTypeOK, CallsSupersede
<1>3. /\ CanBeHad(NoCopy, copies') /\ CanBeHad(new, copies') /\ CanBeHad(unlocked', copies')
      /\ CanBeHad(stored', copies') /\ OlderUnderWay(new)
  BY <1>1, <1>2, HadStill DEF IInv, NewestIsStored
<1> HIDE DEF new
<1>4. Idle \in InCall /\ Idle.what = "idle" /\ Idle.copy = NoCopy
  BY DEF Idle, InCall, MaybeCopy
<1>5. standing' \subseteq {unlocked'} /\ (standing' # {} => stored' = unlocked')
  BY <1>1 DEF Stands
<1>6. BridgeTypeOK' /\ CopiesOK'
  <2>1. /\ request' \in BOOLEAN /\ alive' \in BOOLEAN /\ label' \in {"revoking", "other"}
        /\ standing' \in SUBSET MaybeCopy
    BY <1>1, <1>2, <1>3, <1>5 DEF BridgeTypeOK, CanBeHad
  <2> QED
    BY <1>1, <1>2, <1>3, <1>4, <2>1, Quietly
<1>7. CallsSupersede' /\ NewestIsStored'
  BY <1>1, <1>4 DEF CallsSupersede, NewestIsStored
<1>8. NothingInterferes'
  <2>1. \A c \in Calls' : c.copy.nth < new.nth
    BY <1>2, <1>3, StillOlder
  <2> QED
    BY <1>1, <1>2, <1>4, <1>5, <2>1 DEF NothingInterferes, OlderUnderWay
<1>9. LastCallStands'
  BY <1>1, <1>5 DEF LastCallStands
<1> QED
  BY <1>6, <1>7, <1>8, <1>9 DEF IInv

LEMMA FulfilledKeeps == IInv /\ Fulfilled => IInv'
<1> SUFFICES ASSUME IInv, Fulfilled PROVE IInv'
  OBVIOUS
<1> DEFINE new == doing.copy
<1>1. /\ doing.what = "fulfilled" /\ Supersede(posts) /\ doing' = [what |-> "store", copy |-> new]
      /\ UNCHANGED <<unlocked, stored, request, copies, alive, label, standing>>
  BY DEF Fulfilled, Doing
<1>2. /\ BridgeTypeOK /\ CopiesOK /\ copies' \in Nat /\ copies <= copies'
      /\ NothingNew /\ NothingSaid /\ AllOutdated'
  <2>1. BridgeTypeOK /\ posts \in Seq(Continuations) /\ Range(posts) \subseteq Said
    BY DEF IInv, BridgeTypeOK, Said
  <2> QED
    BY <1>1, <2>1, SupersedeGives DEF IInv, BridgeTypeOK
<1>3. /\ CanBeHad(new, copies') /\ CanBeHad(unlocked, copies')
      /\ CanBeHad(stored, copies') /\ new \in LicenseCopies
      /\ OlderUnderWay(new) /\ \A x \in standing : x # NoCopy => x.nth < new.nth
  BY <1>1, <1>2, HadStill DEF IInv, NewestIsStored, CopiesOK
<1> HIDE DEF new
<1>4. doing' \in InCall /\ doing'.what = "store" /\ doing'.copy = new
  BY <1>1, <1>3 DEF InCall, CanBeHad
<1>5. /\ request' \in BOOLEAN /\ alive' \in BOOLEAN /\ label' \in {"revoking", "other"}
      /\ CanBeHad(unlocked', copies') /\ CanBeHad(stored', copies') /\ standing' \in SUBSET MaybeCopy
  BY <1>1, <1>2, <1>3 DEF BridgeTypeOK
<1>6. BridgeTypeOK' /\ CopiesOK'
  BY <1>2, <1>3, <1>4, <1>5, Quietly
<1>7. CallsSupersede'
  BY <1>2 DEF CallsSupersede
<1>8. NewestIsStored'
  <2>1. \A c \in Calls' : c.copy.nth < new.nth
    BY <1>2, <1>3, StillOlder
  <2> QED
    BY <1>1, <1>3, <1>4, <2>1 DEF NewestIsStored, OlderUnderWay
<1> QED
  BY <1>1, <1>2, <1>4, <1>6, <1>7, <1>8, StandingStays

\* What a call ends with that has nothing to promise.
LEMMA CallEnds ==
    ASSUME IInv, doing.what \in {"load", "discard", "revoke", "delete"},
           UNCHANGED <<underWay, posts, request, alive, standing>>,
           copies' \in Nat, copies <= copies', label' \in {"revoking", "other"},
           CanBeHad(unlocked', copies'), CanBeHad(stored', copies'),
           doing' = Idle \/ \E w \in {"discard", "delete"} : doing' = [what |-> w, copy |-> doing.copy]
    PROVE  IInv'
<1>1. BridgeTypeOK /\ CopiesOK /\ NothingNew /\ NothingSaid /\ standing' = {}
  BY Unmoved DEF IInv, NothingInterferes
<1>2. CanBeHad(NoCopy, copies') /\ CanBeHad(doing.copy, copies') /\ doing.copy \in LicenseCopies
  BY <1>1, HadStill DEF CopiesOK
<1>3. Idle \in InCall /\ Idle.what = "idle" /\ Idle.copy = NoCopy
  BY DEF Idle, InCall, MaybeCopy
<1>4. /\ doing' \in InCall /\ doing'.what \in {"idle", "discard", "delete"}
      /\ CanBeHad(doing'.copy, copies')
      /\ doing'.what # "idle" => doing'.copy \in LicenseCopies
  <2>1. CASE doing' = Idle
    BY <1>2, <1>3, <2>1
  <2>2. ASSUME NEW w \in {"discard", "delete"}, doing' = [what |-> w, copy |-> doing.copy]
        PROVE  /\ doing' \in InCall /\ doing'.what = w /\ CanBeHad(doing'.copy, copies')
               /\ doing'.copy \in LicenseCopies
    BY <1>2, <2>2 DEF InCall, MaybeCopy
  <2> QED
    BY <2>1, <2>2
<1>5. request' \in BOOLEAN /\ alive' \in BOOLEAN /\ standing' \in SUBSET MaybeCopy
  BY <1>1 DEF BridgeTypeOK
<1>6. BridgeTypeOK' /\ CopiesOK'
  BY <1>1, <1>4, <1>5, Quietly
<1> QED
  BY <1>1, <1>4, <1>6, NothingStands

\* What a validation ends with the server issued, and an unwanted one leaves the file.
LEMMA ValidatesGives ==
    ASSUME BridgeTypeOK, CopiesOK, NEW x \in LicenseCopies, WasIssued(x), NEW persists \in BOOLEAN,
           NEW answer \in Validates(x, persists), Leaves(answer)
    PROVE  /\ copies' \in Nat /\ copies <= copies'
           /\ CanBeHad(answer.license, copies') /\ CanBeHad(stored', copies')
           /\ ~persists => stored' = stored
<1> DEFINE local == IF IsOffline(x) THEN x ELSE FreshestCopy(x)
           new == NewCopy(x.act)
<1>1. copies \in Nat /\ stored \in MaybeCopy /\ WasIssued(stored)
  BY DEF BridgeTypeOK, CopiesOK
<1>2. local \in {x, stored}
  BY DEF FreshestCopy
<1>3. new \in LicenseCopies /\ new.nth = copies + 1
  BY <1>1 DEF NewCopy, LicenseCopies
<1>4. \/ answer \in [license : {local, NoCopy}, file : {stored}, issued : {copies}]
      \/ answer \in [license : {new, NoCopy}, issued : {copies + 1},
                     file : IF persists THEN {new, stored} ELSE {stored}]
  BY DEF Validates
<1>5. NoCopy \in MaybeCopy /\ LicenseCopies \subseteq MaybeCopy
      /\ \A y \in MaybeCopy : y = NoCopy \/ y.nth \in Nat
  BY DEF MaybeCopy, LicenseCopies
<1> HIDE DEF local, new
<1>6. \/ answer.license \in {local, NoCopy} /\ answer.file = stored /\ answer.issued = copies
      \/ /\ answer.license \in {new, NoCopy} /\ answer.issued = copies + 1
         /\ answer.file \in IF persists THEN {new, stored} ELSE {stored}
  BY <1>4
<1>7. stored' = answer.file /\ copies' = answer.issued
  BY DEF Leaves
<1>8. CASE answer.license \in {local, NoCopy} /\ answer.file = stored /\ answer.issued = copies
  BY <1>1, <1>2, <1>5, <1>7, <1>8 DEF CanBeHad, WasIssued
<1>9. CASE /\ answer.license \in {new, NoCopy} /\ answer.issued = copies + 1
           /\ answer.file \in IF persists THEN {new, stored} ELSE {stored}
  <2>1. copies' = copies + 1 /\ stored' \in {new, stored} /\ (~persists => stored' = stored)
    BY <1>7, <1>9
  <2>2. CanBeHad(new, copies') /\ CanBeHad(NoCopy, copies') /\ CanBeHad(stored, copies')
    BY <1>1, <1>3, <1>5, <2>1 DEF CanBeHad, WasIssued
  <2> QED
    BY <1>1, <1>9, <2>1, <2>2
<1> QED
  BY <1>6, <1>8, <1>9

LEMMA RestOfCallKeeps == IInv /\ (Judging \/ Discarding \/ Revoking \/ Forgetting) => IInv'
<1> SUFFICES ASSUME IInv PROVE Judging \/ Discarding \/ Revoking \/ Forgetting => IInv'
  OBVIOUS
<1>1. /\ BridgeTypeOK /\ CopiesOK /\ copies \in Nat /\ copies <= copies
      /\ label \in {"revoking", "other"}
  BY DEF IInv, BridgeTypeOK
<1>2. copies' = copies => /\ CanBeHad(NoCopy, copies') /\ CanBeHad(unlocked, copies')
                          /\ CanBeHad(stored, copies')
  BY <1>1, HadStill
<1>3. ASSUME Judging PROVE IInv'
  <2>1. doing.what = "load" /\ UNCHANGED <<underWay, posts, request, alive, standing>>
    BY <1>3 DEF Judging, async
  <2>2. CASE \E answer \in Validates(doing.copy, TRUE) : Leaves(answer) /\ Returns(answer.license)
    <3>1. PICK answer \in Validates(doing.copy, TRUE) : Leaves(answer) /\ Returns(answer.license)
      BY <2>2
    <3>2. doing.copy \in LicenseCopies /\ WasIssued(doing.copy)
      BY <1>1, <2>1 DEF CopiesOK
    <3>3. /\ copies' \in Nat /\ copies <= copies'
          /\ CanBeHad(answer.license, copies') /\ CanBeHad(stored', copies')
      BY <1>1, <3>1, <3>2, ValidatesGives
    <3>4. unlocked' = answer.license /\ doing' = Idle /\ label' = "other"
      BY <3>1 DEF Returns
    <3> QED
      BY <2>1, <3>3, <3>4, CallEnds
  <2>3. CASE /\ SaysRevoked(doing.copy)
             /\ Doing("discard", doing.copy) /\ UNCHANGED <<unlocked, label>>
    <3>1. UNCHANGED <<stored, copies, unlocked, label>> /\ doing' = [what |-> "discard", copy |-> doing.copy]
      BY <2>3 DEF SaysRevoked, Doing
    <3> QED
      BY <1>1, <1>2, <2>1, <3>1, CallEnds
  <2> QED
    BY <1>3, <2>2, <2>3 DEF Judging
<1>4. ASSUME Discarding PROVE IInv'
  <2>1. /\ doing.what = "discard" /\ UNCHANGED <<underWay, posts, request, alive, standing, copies>>
        /\ unlocked' = NoCopy /\ doing' = Idle /\ label' = "other"
        /\ stored' = NoCopy \/ stored' = stored
    BY <1>4 DEF Discarding, async, Returns, Discards
  <2> QED
    BY <1>1, <1>2, <2>1, CallEnds
<1>5. ASSUME Revoking PROVE IInv'
  <2>1. /\ doing.what = "revoke" /\ UNCHANGED <<underWay, posts, request, alive, standing, copies, stored>>
        /\ unlocked' = unlocked
        /\ \/ doing' = [what |-> "delete", copy |-> doing.copy] /\ label' = label
           \/ doing' = Idle /\ label' = "other"
    BY <1>5 DEF Revoking, async, Returns, Doing
  <2> QED
    BY <1>1, <1>2, <2>1, CallEnds
<1>6. ASSUME Forgetting PROVE IInv'
  <2>1. /\ doing.what = "delete" /\ UNCHANGED <<underWay, posts, request, alive, standing, copies>>
        /\ unlocked' = NoCopy /\ doing' = Idle /\ label' = "other"
        /\ stored' = NoCopy \/ stored' = stored
    BY <1>6 DEF Forgetting, async, Returns, Deletes
  <2> QED
    BY <1>1, <1>2, <2>1, CallEnds
<1> QED
  BY <1>3, <1>4, <1>5, <1>6

\* Types and bounds, after a step that posts something or starts something.
LEMMA WithMessage ==
    ASSUME BridgeTypeOK, CopiesOK, copies' \in Nat, copies <= copies',
           underWay' \in Seq(BackgroundCalls), \A c \in Calls' : c.copy.nth <= copies',
           posts' \in Seq(Continuations),
           \A x \in Said' : \/ \E b \in Said : x.copy = b.copy /\ x.kind = b.kind /\ x.outcome = b.outcome
                            \/ CanBeHad(x.copy, copies') /\ SaysOf(x),
           CanBeHad(unlocked', copies'), CanBeHad(stored', copies'), CanBeHad(doing'.copy, copies'),
           doing' \in InCall,
           doing'.what \notin {"idle", "clear"} => doing'.copy \in LicenseCopies,
           request' \in BOOLEAN, alive' \in BOOLEAN, label' \in {"revoking", "other"},
           standing' \in SUBSET MaybeCopy
    PROVE  BridgeTypeOK' /\ CopiesOK'
<1>1. BridgeTypeOK'
  BY DEF BridgeTypeOK, CanBeHad
<1>2. \A b \in Said : CanBeHad(b.copy, copies') /\ SaysOf(b)
  BY HadStill DEF CopiesOK
<1>3. \A x \in Said' : (x.copy = NoCopy \/ x.copy.nth <= copies') /\ SaysOf(x)
  BY <1>2 DEF CanBeHad, SaysOf
<1> QED
  BY <1>1, <1>3 DEF CopiesOK, WasIssued, CanBeHad

\* A call that starts a thread, or whose answer is posted at once.
LEMMA Starts ==
    ASSUME IInv, Ready, UNCHANGED <<unlocked, stored, request, doing, alive, copies>>,
           standing' = {}, label' \in {"revoking", "other"},
           NEW new, Launch(new),
           new = << >> \/ \E n \in BackgroundCalls : new = <<n>> /\ n.copy.nth <= copies,
           \/ posts' = Outdate(posts)
           \/ \E m \in Continuations : /\ posts' = Append(Outdate(posts), m)
                                       /\ CanBeHad(m.copy, copies) /\ SaysOf(m)
    PROVE  IInv'
<1>1. /\ BridgeTypeOK /\ CopiesOK /\ copies' = copies /\ copies \in Nat /\ copies <= copies
      /\ doing \in InCall /\ doing.what = "idle"
      /\ underWay \in Seq(BackgroundCalls) /\ posts \in Seq(Continuations)
  BY ReadyFacts DEF BridgeTypeOK
<1>2. /\ underWay' \in Seq(BackgroundCalls)
      /\ \A c \in Calls' : (~c.fresh /\ \E b \in Calls : c.copy = b.copy) \/ new = <<c>>
  BY <1>1, LaunchGives
<1>3. \A c \in Calls' : c.copy.nth <= copies
  <2>1. ASSUME NEW c \in Calls', new = <<c>> PROVE c.copy.nth <= copies
    <3>1. PICK n \in BackgroundCalls : new = <<n>> /\ n.copy.nth <= copies
      BY <2>1
    <3>2. c = n
      BY <2>1, <3>1
    <3> QED
      BY <3>1, <3>2
  <2>2. \A b \in Calls : b.copy.nth <= copies
    BY <1>1 DEF CopiesOK
  <2> QED
    BY <1>2, <2>1, <2>2
<1> DEFINE old == Outdate(posts)
<1>4. /\ old \in Seq(Continuations)
      /\ \A x \in Range(old) :
           \E b \in Said : x.copy = b.copy /\ x.kind = b.kind /\ x.outcome = b.outcome
  <2>1. /\ old \in Seq(Continuations)
        /\ \A x \in Range(old) :
             x.fresh = FALSE /\ \E m \in Range(posts) : x = [m EXCEPT !.fresh = FALSE]
    BY <1>1, OutdateGives
  <2>2. \A m \in Said : LET x == [m EXCEPT !.fresh = FALSE]
                        IN  x.copy = m.copy /\ x.kind = m.kind /\ x.outcome = m.outcome
    BY <1>1, TypesOfBoth DEF Continuations
  <2>3. Said = Range(posts)
    BY DEF Said
  <2> HIDE DEF old
  <2>4. ASSUME NEW x \in Range(old)
        PROVE  \E b \in Said : x.copy = b.copy /\ x.kind = b.kind /\ x.outcome = b.outcome
    <3>1. PICK m \in Said : x = [m EXCEPT !.fresh = FALSE]
      BY <2>1, <2>3
    <3> QED
      BY <2>2, <3>1
  <2> QED
    BY <2>1, <2>4
<1>5. posts' = old \/ \E m \in Continuations : /\ posts' = Append(old, m)
                                               /\ CanBeHad(m.copy, copies) /\ SaysOf(m)
  OBVIOUS
<1> HIDE DEF old
<1>6. /\ posts' \in Seq(Continuations)
      /\ \A x \in Said' : \/ \E b \in Said : x.copy = b.copy /\ x.kind = b.kind /\ x.outcome = b.outcome
                          \/ CanBeHad(x.copy, copies) /\ SaysOf(x)
  <2>1. CASE posts' = old
    <3>1. Said' = Range(old)
      BY <2>1 DEF Said
    <3> QED
      BY <1>4, <2>1, <3>1
  <2>2. ASSUME NEW m \in Continuations, posts' = Append(old, m), CanBeHad(m.copy, copies), SaysOf(m)
        PROVE  /\ posts' \in Seq(Continuations)
               /\ \A x \in Said' : x \in Range(old) \/ x = m
    <3>1. /\ Append(old, m) \in Seq(Continuations)
          /\ \A x \in Range(Append(old, m)) : x \in Range(old) \/ x = m
      BY <1>4, AppendGives
    <3>2. Said' = Range(posts')
      BY DEF Said
    <3> QED
      BY <2>2, <3>1, <3>2
  <2> QED
    BY <1>4, <1>5, <2>1, <2>2
<1>7. CanBeHad(unlocked, copies) /\ CanBeHad(stored, copies) /\ CanBeHad(doing.copy, copies)
  BY <1>1, HadStill
<1>8. request' \in BOOLEAN /\ alive' \in BOOLEAN /\ standing' \in SUBSET MaybeCopy
  BY <1>1 DEF BridgeTypeOK
<1>9. BridgeTypeOK' /\ CopiesOK'
  BY <1>1, <1>2, <1>3, <1>6, <1>7, <1>8, WithMessage
<1> QED
  BY <1>1, <1>9, NothingStands

LEMMA HostLoadsKeeps == IInv /\ HostLoads => IInv'
<1> SUFFICES ASSUME IInv, HostLoads PROVE IInv'
  OBVIOUS
<1> DEFINE tells(outcome, copy, calls) ==
             posts' = Append(Outdate(posts), Message("check", outcome, copy, calls))
<1>1. /\ Ready /\ UNCHANGED <<unlocked, stored, request, doing, alive, copies>> /\ standing' = {}
      /\ label' \in {"revoking", "other"} /\ stored \in MaybeCopy /\ WasIssued(stored)
      /\ stored # NoCopy => stored \in LicenseCopies
  BY DEF HostLoads, IInv, BridgeTypeOK, CopiesOK, MaybeCopy
<1>2. \/ Launch(<< >>) /\ tells("locked", NoCopy, TRUE)
      \/ stored # NoCopy /\ Launch(<< >>) /\ tells("granted", stored, TRUE)
      \/ /\ stored # NoCopy /\ Launch(<<Background("check", stored)>>)
         /\ tells("granted", stored, FALSE) \/ posts' = Outdate(posts)
  BY DEF HostLoads
<1>3. ASSUME NEW outcome \in Outcomes, NEW x \in MaybeCopy, WasIssued(x), NEW calls \in BOOLEAN
      PROVE  LET m == Message("check", outcome, x, calls)
             IN  m \in Continuations /\ CanBeHad(m.copy, copies) /\ SaysOf(m)
  BY <1>3 DEF Message, Continuations, CanBeHad, WasIssued, SaysOf
<1>4. /\ "locked" \in Outcomes /\ "granted" \in Outcomes
      /\ NoCopy \in MaybeCopy /\ WasIssued(NoCopy)
  BY DEF Outcomes, MaybeCopy, WasIssued
<1>5. posts' = Outdate(posts) \/ \E m \in Continuations : /\ posts' = Append(Outdate(posts), m)
                                                         /\ CanBeHad(m.copy, copies) /\ SaysOf(m)
  BY <1>1, <1>2, <1>3, <1>4
<1>6. stored # NoCopy => LET n == Background("check", stored)
                         IN  n \in BackgroundCalls /\ n.copy.nth <= copies
  BY <1>1 DEF Background, BackgroundCalls, WasIssued
<1> HIDE DEF tells
<1>7. \E new : Launch(new) /\ (new = << >> \/ \E n \in BackgroundCalls : new = <<n>> /\ n.copy.nth <= copies)
  BY <1>2, <1>6
<1> QED
  BY <1>1, <1>5, <1>7, Starts

LEMMA StartRevokeKeeps == IInv /\ StartRevoke => IInv'
<1> SUFFICES ASSUME IInv, StartRevoke PROVE IInv'
  OBVIOUS
<1>1. /\ Ready /\ UNCHANGED <<unlocked, stored, request, doing, alive, copies>> /\ standing' = {}
      /\ label' \in {"revoking", "other"} /\ WasIssued(unlocked)
      /\ unlocked # NoCopy => unlocked \in LicenseCopies
  BY DEF StartRevoke, IInv, BridgeTypeOK, CopiesOK, MaybeCopy
<1>2. CASE unlocked = NoCopy
  <2>1. Launch(<< >>) /\ posts' = Append(Outdate(posts), Message("revoke", "noLicense", NoCopy, TRUE))
    BY <1>2 DEF StartRevoke, SaysNoLicense
  <2>2. LET m == Message("revoke", "noLicense", NoCopy, TRUE)
        IN  m \in Continuations /\ CanBeHad(m.copy, copies) /\ SaysOf(m)
    BY DEF Message, Continuations, CanBeHad, SaysOf, MaybeCopy, Outcomes
  <2>3. \E m \in Continuations : /\ posts' = Append(Outdate(posts), m)
                                 /\ CanBeHad(m.copy, copies) /\ SaysOf(m)
    BY <2>1, <2>2
  <2> QED
    BY <1>1, <2>1, <2>3, Starts
<1>3. CASE unlocked # NoCopy
  <2> DEFINE n == Background("revoke", unlocked)
  <2>1. Launch(<<n>>) /\ posts' = Outdate(posts)
    BY <1>3 DEF StartRevoke
  <2>2. n \in BackgroundCalls /\ n.copy.nth <= copies
    BY <1>1, <1>3 DEF Background, BackgroundCalls, WasIssued
  <2> HIDE DEF n
  <2> QED
    BY <1>1, <2>1, <2>2, Starts
<1> QED
  BY <1>2, <1>3

\* A thread that ends posts what it found, as listened to as the thread was.
LEMMA EndsKeeps ==
    ASSUME IInv, NEW i \in DOMAIN underWay, NEW m \in Continuations, Ends(i, m),
           copies' \in Nat, copies <= copies', CanBeHad(m.copy, copies'), SaysOf(m),
           CanBeHad(stored', copies'), standing # {} => stored' = stored \/ stored' = NoCopy,
           UNCHANGED <<unlocked, request, doing, alive, label, standing>>
    PROVE  IInv'
<1>1. /\ BridgeTypeOK /\ CopiesOK /\ CallsSupersede /\ NewestIsStored
      /\ underWay \in Seq(BackgroundCalls) /\ posts \in Seq(Continuations)
  BY DEF IInv, BridgeTypeOK
<1>2. i \in 1 .. Len(underWay) /\ underWay[i] \in BackgroundCalls /\ underWay[i] \in Calls
  BY <1>1, InRange DEF Calls
<1> DEFINE said == [m EXCEPT !.fresh = underWay[i].fresh]
<1>3. /\ said \in Continuations /\ said.fresh = underWay[i].fresh
      /\ said.copy = m.copy /\ said.kind = m.kind /\ said.outcome = m.outcome
  <2>1. underWay[i].fresh \in BOOLEAN
    BY <1>2 DEF BackgroundCalls
  <2> QED
    BY <2>1 DEF Continuations
<1>4. underWay' = RemoveAt(underWay, i) /\ posts' = Append(posts, said)
  BY DEF Ends
<1> HIDE DEF said
<1>5. underWay' \in Seq(BackgroundCalls) /\ Calls' \subseteq Calls
  <2>1. Calls' = Range(underWay') /\ Calls = Range(underWay)
    BY DEF Calls
  <2> QED
    BY <1>1, <1>2, <1>4, <2>1, RemoveAtGives
<1>6. NothingNew
  BY <1>5 DEF NothingNew
<1>7. posts' \in Seq(Continuations) /\ \A x \in Said' : x \in Said \/ x = said
  <2>1. Said' = Range(posts') /\ Said = Range(posts)
    BY DEF Said
  <2> QED
    BY <1>1, <1>3, <1>4, <2>1, AppendGives
<1>8. AllOutdated => AllOutdated'
  BY <1>2, <1>3, <1>5, <1>7 DEF AllOutdated
<1>9. BridgeTypeOK' /\ CopiesOK'
  <2>1. \A c \in Calls' : c.copy.nth <= copies'
    <3>1. \A c \in Calls : c.copy.nth \in Nat /\ c.copy.nth <= copies
      BY <1>1, TypesOfBoth DEF CopiesOK
    <3>2. copies \in Nat
      BY <1>1 DEF BridgeTypeOK
    <3> QED
      BY <1>5, <3>1, <3>2
  <2>2. \A x \in Said' : \/ \E b \in Said : x.copy = b.copy /\ x.kind = b.kind /\ x.outcome = b.outcome
                         \/ CanBeHad(x.copy, copies') /\ SaysOf(x)
    BY <1>3, <1>7 DEF SaysOf
  <2>3. CanBeHad(unlocked', copies') /\ CanBeHad(doing'.copy, copies')
    BY <1>1, HadStill
  <2>4. /\ doing' \in InCall /\ (doing'.what \notin {"idle", "clear"} => doing'.copy \in LicenseCopies)
        /\ request' \in BOOLEAN /\ alive' \in BOOLEAN /\ label' \in {"revoking", "other"}
        /\ standing' \in SUBSET MaybeCopy
    BY <1>1 DEF BridgeTypeOK, CopiesOK
  <2> QED
    BY <1>1, <1>5, <1>7, <2>1, <2>2, <2>3, <2>4, WithMessage
<1>10. CallsSupersede' /\ NewestIsStored'
  BY <1>1, <1>6, <1>8, CallStays
<1>11. standing # {} => AllOutdated' /\ doing'.what \in {"idle", "clear", "fulfilled", "store"}
  BY <1>8 DEF IInv, NothingInterferes
<1> QED
  BY <1>6, <1>9, <1>10, <1>11, StandingStays

\* A thread that has its answer and goes on to delete is the thread it was.
LEMMA DeletingKeeps ==
    ASSUME IInv, NEW i \in DOMAIN underWay, Deleting(i),
           UNCHANGED <<unlocked, stored, request, doing, alive, copies, label, standing>>
    PROVE  IInv'
<1>1. /\ BridgeTypeOK /\ underWay \in Seq(BackgroundCalls)
      /\ request' \in BOOLEAN /\ alive' \in BOOLEAN /\ label' \in {"revoking", "other"}
  BY DEF IInv, BridgeTypeOK
<1>2. /\ DOMAIN underWay = 1 .. Len(underWay) /\ Len(underWay) \in Nat
      /\ \A j \in 1 .. Len(underWay) : underWay[j] \in BackgroundCalls /\ underWay[j] \in Calls
  BY <1>1, InRange DEF Calls
<1> DEFINE call == [underWay[i] EXCEPT !.stage = "delete"]
<1>3. /\ call \in BackgroundCalls
      /\ call.copy = underWay[i].copy /\ call.fresh = underWay[i].fresh
  BY <1>2 DEF BackgroundCalls
<1>4. underWay' = [underWay EXCEPT ![i] = call] /\ posts' = posts
  BY DEF Deleting
<1> HIDE DEF call
<1>5. /\ underWay' \in [1 .. Len(underWay) -> BackgroundCalls]
      /\ \A j \in 1 .. Len(underWay) : underWay'[j] = IF j = i THEN call ELSE underWay[j]
  <2>1. underWay \in [1 .. Len(underWay) -> BackgroundCalls]
    BY <1>1, LenProperties
  <2> QED
    BY <1>2, <1>3, <1>4, <2>1
<1>6. underWay' \in Seq(BackgroundCalls)
  BY <1>2, <1>5, SeqDef
<1>7. ASSUME NEW c \in Calls' PROVE \E b \in Calls : c.copy = b.copy /\ (c.fresh => b.fresh)
  <2>1. PICK j \in 1 .. Len(underWay) : c = underWay'[j]
    BY <1>5, <1>7 DEF Calls, Range
  <2>2. c.copy = underWay[j].copy /\ c.fresh = underWay[j].fresh
    BY <1>3, <1>5, <2>1
  <2> QED
    BY <1>2, <2>2
<1>8. NothingNew
  BY <1>6, <1>7 DEF NothingNew
<1>9. NothingSaid
  BY <1>1, <1>4, Unmoved
<1> QED
  BY <1>1, <1>8, <1>9, AllStays

\* What the threads know of the call they are in.
LEMMA ThreadFacts ==
    ASSUME IInv, NEW i \in DOMAIN underWay
    PROVE  /\ underWay[i] \in Calls /\ underWay[i].copy \in LicenseCopies /\ WasIssued(underWay[i].copy)
           /\ underWay[i].fresh \in BOOLEAN
           /\ standing # {} => ~underWay[i].fresh
           /\ \A x \in standing : x # NoCopy => underWay[i].copy.nth < x.nth
<1>1. BridgeTypeOK /\ underWay \in Seq(BackgroundCalls)
  BY DEF IInv, BridgeTypeOK
<1>2. underWay[i] \in Calls /\ underWay[i] \in BackgroundCalls
  BY <1>1, InRange DEF Calls
<1> QED
  BY <1>2 DEF IInv, CopiesOK, WasIssued, BackgroundCalls, NothingInterferes, AllOutdated, OlderUnderWay

LEMMA CheckThreadKeeps == \A i \in DOMAIN underWay : IInv /\ CheckThread(i) => IInv'
<1> SUFFICES ASSUME NEW i \in DOMAIN underWay, IInv, CheckThread(i) PROVE IInv'
  OBVIOUS
<1> DEFINE call == underWay[i]
           answers(x) == Ends(i, Message("check", IF x = NoCopy THEN "locked" ELSE "granted", x, TRUE))
<1>1. /\ UNCHANGED <<unlocked, request, doing, alive, label, standing>>
      /\ \/ \E answer \in Validates(call.copy, Persists(call)) :
              Leaves(answer) /\ answers(answer.license)
         \/ SaysRevoked(call.copy) /\ Deleting(i)
         \/ Discards(call.copy) /\ answers(NoCopy) /\ UNCHANGED copies
  BY DEF CheckThread
<1>2. /\ call.copy \in LicenseCopies /\ WasIssued(call.copy) /\ call.fresh \in BOOLEAN
      /\ standing # {} => ~call.fresh
  BY ThreadFacts
<1>3. BridgeTypeOK /\ CopiesOK /\ copies \in Nat /\ copies <= copies
  BY DEF IInv, BridgeTypeOK
<1>4. ASSUME NEW x \in MaybeCopy
      PROVE  LET m == Message("check", IF x = NoCopy THEN "locked" ELSE "granted", x, TRUE)
             IN  m \in Continuations /\ m.copy = x /\ SaysOf(m)
  BY DEF Message, Continuations, Outcomes, SaysOf
<1>5. CASE \E answer \in Validates(call.copy, Persists(call)) : Leaves(answer) /\ answers(answer.license)
  <2>1. PICK answer \in Validates(call.copy, Persists(call)) : Leaves(answer) /\ answers(answer.license)
    BY <1>5
  <2>2. Persists(call) = call.fresh
    BY DEF Persists
  <2>3. /\ copies' \in Nat /\ copies <= copies'
        /\ CanBeHad(answer.license, copies') /\ CanBeHad(stored', copies')
        /\ ~call.fresh => stored' = stored
    BY <1>2, <1>3, <2>1, <2>2, ValidatesGives
  <2> DEFINE m == Message("check", IF answer.license = NoCopy THEN "locked" ELSE "granted",
                          answer.license, TRUE)
  <2>4. m \in Continuations /\ m.copy = answer.license /\ SaysOf(m)
    BY <1>4, <2>3 DEF CanBeHad
  <2>5. Ends(i, m)
    BY <2>1
  <2> HIDE DEF m
  <2> QED
    BY <1>1, <1>2, <2>3, <2>4, <2>5, EndsKeeps
<1>6. CASE SaysRevoked(call.copy) /\ Deleting(i)
  BY <1>1, <1>6, DeletingKeeps DEF SaysRevoked
<1>7. CASE Discards(call.copy) /\ answers(NoCopy) /\ UNCHANGED copies
  <2> DEFINE m == Message("check", "locked", NoCopy, TRUE)
  <2>1. m \in Continuations /\ m.copy = NoCopy /\ SaysOf(m)
    BY <1>4 DEF MaybeCopy
  <2>2. Ends(i, m)
    BY <1>7
  <2> HIDE DEF m
  <2>3. copies' = copies /\ stored' \in {stored, NoCopy}
    BY <1>7 DEF Discards
  <2>4. CanBeHad(NoCopy, copies') /\ CanBeHad(stored, copies')
    BY <1>3, <2>3, HadStill
  <2> QED
    BY <1>1, <1>3, <2>1, <2>2, <2>3, <2>4, EndsKeeps
<1> QED
  BY <1>1, <1>5, <1>6, <1>7

LEMMA RevokeThreadKeeps == \A i \in DOMAIN underWay : IInv /\ RevokeThread(i) => IInv'
<1> SUFFICES ASSUME NEW i \in DOMAIN underWay, IInv, RevokeThread(i) PROVE IInv'
  OBVIOUS
<1> DEFINE call == underWay[i]
           says(outcome) == Message("revoke", outcome, call.copy, TRUE)
<1>1. /\ UNCHANGED <<unlocked, request, doing, alive, copies, label, standing>>
      /\ \/ stored' = stored /\ Deleting(i)
         \/ /\ stored' = stored \/ Deletes(call.copy)
            /\ \E outcome \in {"revoked", "notRevokable", "unreachable"} : Ends(i, says(outcome))
  BY DEF RevokeThread
<1>2. call.copy \in LicenseCopies /\ WasIssued(call.copy)
  BY ThreadFacts
<1>3. BridgeTypeOK /\ CopiesOK /\ copies \in Nat /\ copies' = copies
  BY <1>1 DEF IInv, BridgeTypeOK
<1>4. /\ CanBeHad(call.copy, copies') /\ CanBeHad(NoCopy, copies') /\ CanBeHad(stored, copies')
  BY <1>2, <1>3, HadStill DEF CanBeHad, WasIssued, MaybeCopy
<1>5. CASE stored' = stored /\ Deleting(i)
  BY <1>1, <1>5, DeletingKeeps
<1>6. ASSUME NEW outcome \in {"revoked", "notRevokable", "unreachable"}, Ends(i, says(outcome)),
             stored' = stored \/ Deletes(call.copy)
      PROVE  IInv'
  <2> DEFINE m == says(outcome)
  <2>1. m \in Continuations /\ m.copy = call.copy /\ SaysOf(m)
    BY <1>2 DEF Message, Continuations, Outcomes, SaysOf, MaybeCopy
  <2>2. Ends(i, m)
    BY <1>6
  <2> HIDE DEF m
  <2>3. stored' \in {stored, NoCopy}
    BY <1>6 DEF Deletes
  <2> QED
    BY <1>1, <1>3, <1>4, <2>1, <2>2, <2>3, EndsKeeps
<1> QED
  BY <1>1, <1>5, <1>6

\* An answer that is listened to: nothing that stands is at stake.
LEMMA AnswerFacts ==
    ASSUME IInv, doing = Idle, posts # << >>, posts[1].fresh
    PROVE  /\ standing = {} /\ BridgeTypeOK /\ CopiesOK /\ copies \in Nat /\ copies <= copies
           /\ posts[1] \in Said /\ posts[1].copy \in MaybeCopy /\ SaysOf(posts[1])
           /\ Tail(posts) \in Seq(Continuations) /\ Range(Tail(posts)) \subseteq Said
           /\ \A x \in {NoCopy, unlocked, stored, posts[1].copy} : CanBeHad(x, copies)
           /\ Idle \in InCall /\ Idle.what = "idle" /\ Idle.copy = NoCopy
<1>1. BridgeTypeOK /\ CopiesOK /\ copies \in Nat /\ copies <= copies /\ posts \in Seq(Continuations)
  BY DEF IInv, BridgeTypeOK
<1>2. /\ Tail(posts) \in Seq(Continuations) /\ Range(Tail(posts)) \subseteq Said
      /\ posts[1] \in Said /\ posts[1] \in Continuations
  BY <1>1, TailGives DEF Said
<1>3. standing = {}
  BY <1>2 DEF IInv, NothingInterferes, AllOutdated
<1>4. posts[1].copy \in MaybeCopy /\ WasIssued(posts[1].copy) /\ SaysOf(posts[1])
  BY <1>1, <1>2, TypesOfBoth DEF CopiesOK
<1>5. \A x \in MaybeCopy : WasIssued(x) => CanBeHad(x, copies)
  BY DEF CanBeHad, WasIssued
<1>6. /\ unlocked \in MaybeCopy /\ stored \in MaybeCopy /\ NoCopy \in MaybeCopy
      /\ WasIssued(unlocked) /\ WasIssued(stored) /\ WasIssued(NoCopy)
  BY <1>1 DEF BridgeTypeOK, CopiesOK, MaybeCopy, WasIssued
<1>7. Idle \in InCall /\ Idle.what = "idle" /\ Idle.copy = NoCopy
  BY DEF Idle, InCall, MaybeCopy
<1> QED
  BY <1>1, <1>2, <1>3, <1>4, <1>5, <1>6, <1>7

LEMMA CheckAnsweredKeeps == IInv /\ CheckAnswered => IInv'
<1> SUFFICES ASSUME IInv, CheckAnswered PROVE IInv'
  OBVIOUS
<1>1. /\ doing = Idle /\ posts # << >> /\ posts[1].fresh /\ posts' = Tail(posts)
      /\ unlocked' \in {posts[1].copy, NoCopy} /\ label' \in {"other", label}
      /\ UNCHANGED <<stored, request, underWay, doing, alive, copies, standing>>
  BY DEF CheckAnswered, MessageRuns, StillWanted
<1>2. /\ standing' = {} /\ BridgeTypeOK /\ CopiesOK /\ copies' = copies /\ copies \in Nat
      /\ Tail(posts) \in Seq(Continuations) /\ Range(Tail(posts)) \subseteq Said
      /\ CanBeHad(unlocked', copies) /\ CanBeHad(stored, copies) /\ CanBeHad(NoCopy, copies)
      /\ Idle \in InCall /\ Idle.what = "idle" /\ Idle.copy = NoCopy
  BY <1>1, AnswerFacts
<1>3. NothingNew /\ NothingSaid
  <2>1. Said' = Range(posts')
    BY DEF Said
  <2> QED
    BY <1>1, <1>2, <2>1, Unmoved DEF NothingSaid
<1>4. /\ request' \in BOOLEAN /\ alive' \in BOOLEAN /\ label' \in {"revoking", "other"}
      /\ standing' \in SUBSET MaybeCopy
  BY <1>1, <1>2 DEF BridgeTypeOK
<1>5. BridgeTypeOK' /\ CopiesOK'
  BY <1>1, <1>2, <1>3, <1>4, Quietly
<1> QED
  BY <1>1, <1>2, <1>5, NothingStands

LEMMA RevokeAnsweredKeeps == IInv /\ RevokeAnswered => IInv'
<1> SUFFICES ASSUME IInv, RevokeAnswered PROVE IInv'
  OBVIOUS
<1> DEFINE it == posts[1].copy
<1>1. /\ doing = Idle /\ posts # << >> /\ posts[1].fresh /\ posts[1].kind = "revoke"
      /\ UNCHANGED <<unlocked, stored, request, alive, copies, standing>>
      /\ \/ /\ posts[1].outcome = "revoked" /\ doing' = [what |-> "delete", copy |-> it]
            /\ posts' = Tail(posts) /\ underWay' = underWay /\ label' = label
         \/ /\ doing' = [what |-> "clear", copy |-> NoCopy]
            /\ Supersede(Tail(posts)) /\ label' = label
         \/ /\ posts' = Tail(posts) /\ underWay' = underWay /\ doing' = doing /\ label' = "other"
  BY DEF RevokeAnswered, MessageRuns, StillWanted, Doing
<1>2. /\ standing' = {} /\ BridgeTypeOK /\ CopiesOK /\ copies' = copies /\ copies \in Nat
      /\ Tail(posts) \in Seq(Continuations) /\ Range(Tail(posts)) \subseteq Said
      /\ CanBeHad(unlocked, copies) /\ CanBeHad(stored, copies) /\ CanBeHad(NoCopy, copies)
      /\ CanBeHad(it, copies) /\ SaysOf(posts[1])
      /\ Idle \in InCall /\ Idle.what = "idle" /\ Idle.copy = NoCopy
  BY <1>1, AnswerFacts
<1> HIDE DEF it
<1>3. /\ request' \in BOOLEAN /\ alive' \in BOOLEAN /\ label' \in {"revoking", "other"}
      /\ standing' \in SUBSET MaybeCopy
  BY <1>1, <1>2 DEF BridgeTypeOK
<1>4. posts' = Tail(posts) /\ underWay' = underWay => NothingNew /\ NothingSaid
  <2>1. Said' = Range(posts')
    BY DEF Said
  <2> QED
    BY <1>2, <2>1, Unmoved DEF NothingSaid
<1>5. CASE posts[1].outcome = "revoked" /\ doing' = [what |-> "delete", copy |-> it]
           /\ posts' = Tail(posts) /\ underWay' = underWay
  <2>1. it \in LicenseCopies
    BY <1>1, <1>2, <1>5 DEF SaysOf, it
  <2>2. /\ doing' \in InCall /\ doing'.what = "delete" /\ doing'.copy = it
    BY <1>5, <2>1 DEF InCall, MaybeCopy
  <2>3. BridgeTypeOK' /\ CopiesOK'
    BY <1>1, <1>2, <1>3, <1>4, <1>5, <2>1, <2>2, Quietly
  <2> QED
    BY <1>2, <2>2, <2>3, NothingStands
<1>6. CASE doing' = [what |-> "clear", copy |-> NoCopy] /\ Supersede(Tail(posts))
  <2>1. NothingNew /\ NothingSaid /\ AllOutdated'
    BY <1>2, <1>6, SupersedeGives
  <2>2. /\ doing' \in InCall /\ doing'.what = "clear" /\ doing'.copy = NoCopy
    BY <1>6 DEF InCall, MaybeCopy
  <2>3. BridgeTypeOK' /\ CopiesOK'
    BY <1>1, <1>2, <1>3, <2>1, <2>2, Quietly
  <2> QED
    BY <1>2, <2>1, <2>2, <2>3
       DEF IInv, CallsSupersede, NewestIsStored, NothingInterferes, LastCallStands
<1>7. CASE posts' = Tail(posts) /\ underWay' = underWay /\ doing' = doing
  <2>1. BridgeTypeOK' /\ CopiesOK'
    BY <1>1, <1>2, <1>3, <1>4, <1>7, Quietly
  <2> QED
    BY <1>1, <1>2, <1>7, <2>1, NothingStands
<1> QED
  BY <1>1, <1>5, <1>6, <1>7

LEMMA BridgeKeeps == IInv /\ [BridgeNext]_bridgeVars => IInv'
<1> SUFFICES ASSUME IInv, [BridgeNext]_bridgeVars PROVE IInv'
  OBVIOUS
<1>1. CASE UNCHANGED bridgeVars
  <2>1. /\ UNCHANGED <<unlocked, stored, request, underWay, posts, doing, alive, copies, label, standing>>
    BY <1>1 DEF bridgeVars, async
  <2> QED
    BY <2>1 DEF IInv, BridgeTypeOK, CopiesOK, CallsSupersede, NewestIsStored, NothingInterferes,
                LastCallStands, Calls, Said, AllOutdated, OlderUnderWay, WasIssued
<1>2. CASE HostLoads
  BY <1>2, HostLoadsKeeps
<1>3. CASE LoadNow
  BY <1>3, LoadNowKeeps
<1>4. CASE RevokeNow
  BY <1>4, RevokeNowKeeps
<1>5. CASE Clear
  BY <1>5, ClearKeeps
<1>6. CASE Destroy
  BY <1>6, DestroyKeeps
<1>7. CASE Reload
  BY <1>7, ReloadKeeps
<1>8. CASE StartActivation
  BY <1>8, StartActivationKeeps
<1>9. CASE PollRequest
  BY <1>9, PollRequestKeeps
<1>10. CASE StartRevoke
  BY <1>10, StartRevokeKeeps
<1>11. CASE LoadToken
  BY <1>11, LoadTokenKeeps
<1>12. CASE CallProceeds
  BY <1>12, ClearingKeeps, FulfilledKeeps, StoringKeeps, RestOfCallKeeps DEF CallProceeds
<1>13. CASE ContinuationRuns
  BY <1>13, OutOfDateKeeps, CheckAnsweredKeeps, RevokeAnsweredKeeps DEF ContinuationRuns
<1>14. CASE \E i \in DOMAIN underWay : ThreadProceeds(i)
  BY <1>14, CheckThreadKeeps, RevokeThreadKeeps DEF ThreadProceeds
<1> QED
  BY <1>1, <1>2, <1>3, <1>4, <1>5, <1>6, <1>7, <1>8, <1>9, <1>10, <1>11, <1>12, <1>13, <1>14
     DEF BridgeNext, BridgeWorks

\* The inductive invariant of the bridge.
THEOREM BridgeInvariant == BridgeSpec => []IInv
<1>1. BridgeInit => IInv
  BY BridgeBegins
<1>2. IInv /\ [BridgeNext]_bridgeVars => IInv'
  BY BridgeKeeps
<1> QED
  BY <1>1, <1>2, PTL DEF BridgeSpec

-----------------------------------------------------------------------------
\* What was cleared or activated last stays unlocked, and no other license comes into
\* the file: what was superseded is not listened to (validationGeneration_).
THEOREM LastCallIsKept == BridgeSpec => []LastCallStands
<1>1. IInv => LastCallStands
  BY DEF IInv
<1> QED
  BY <1>1, BridgeInvariant, PTL

\* While something stands, a thread in a deletion that is not a revocation's
\* leaves the file alone, and so does a validation.
LEMMA ChecksSpare ==
    ASSUME IInv, NEW i \in DOMAIN underWay, CheckThread(i), standing # {}
    PROVE  stored' = stored
<1> DEFINE call == underWay[i]
<1>1. \/ \E answer \in Validates(call.copy, Persists(call)) : Leaves(answer)
      \/ UNCHANGED stored
      \/ Discards(call.copy)
  BY DEF CheckThread, SaysRevoked
<1>2. /\ call.copy \in LicenseCopies /\ WasIssued(call.copy) /\ call.fresh \in BOOLEAN
      /\ ~call.fresh /\ \A x \in standing : x # NoCopy => call.copy.nth < x.nth
  BY ThreadFacts
<1>3. BridgeTypeOK /\ CopiesOK /\ LastCallStands
  BY DEF IInv
<1>4. ASSUME NEW answer \in Validates(call.copy, Persists(call)), Leaves(answer)
      PROVE  stored' = stored
  BY <1>2, <1>3, <1>4, ValidatesGives DEF Persists
<1>5. ASSUME Discards(call.copy) PROVE stored' = stored
  <2>1. PICK x \in standing : x \in MaybeCopy
    BY <1>3 DEF BridgeTypeOK
  <2>2. stored \in {x, NoCopy}
    BY <1>3 DEF LastCallStands
  <2>3. call.copy.nth \in Nat /\ (x # NoCopy => x.nth \in Nat /\ call.copy.nth < x.nth)
    BY <1>2, <2>1 DEF LicenseCopies, MaybeCopy
  <2> QED
    BY <1>5, <2>2, <2>3 DEF Discards
<1> QED
  BY <1>1, <1>4, <1>5

LEMMA OnlyRevocationsStep ==
    ASSUME IInv, [BridgeNext]_bridgeVars, standing = standing', standing # {}, stored # stored'
    PROVE  \E i \in DOMAIN underWay :
             underWay[i].kind = "revoke" /\ underWay[i].stage = "delete"
<1>1. \/ HostLoads \/ LoadNow \/ RevokeNow \/ Clear \/ Destroy \/ Reload
      \/ StartActivation \/ PollRequest \/ StartRevoke \/ LoadToken
      \/ CallProceeds \/ ContinuationRuns \/ \E i \in DOMAIN underWay : ThreadProceeds(i)
  BY DEF BridgeNext, BridgeWorks, bridgeVars
<1>2. ~(HostLoads \/ LoadNow \/ RevokeNow \/ Clear \/ Destroy \/ Reload)
  BY DEF HostLoads, LoadNow, RevokeNow, Clear, Destroy, Reload
<1>3. ~(StartActivation \/ PollRequest \/ StartRevoke \/ LoadToken \/ ContinuationRuns)
  BY DEF StartActivation, PollRequest, StartRevoke, LoadToken, ContinuationRuns, OutOfDate,
         CheckAnswered, RevokeAnswered
<1>4. PICK x \in standing : x \in MaybeCopy /\ unlocked = x /\ stored \in {x, NoCopy}
  BY DEF IInv, BridgeTypeOK, LastCallStands
<1>5. ~Clearing
  <2>1. Clearing => stored' = NoCopy /\ standing' = {NoCopy}
    BY DEF Clearing, Returns, Stands
  <2>2. standing' = {NoCopy} => stored = NoCopy
    BY DEF IInv, LastCallStands
  <2> QED
    BY <2>1, <2>2
<1>6. ~Storing
  <2>1. ASSUME Storing PROVE FALSE
    <3>1. doing.what = "store" /\ unlocked' = doing.copy /\ standing' \subseteq {doing.copy}
      BY <2>1 DEF Storing, Returns, Stands
    <3>2. doing.copy \in LicenseCopies /\ \A y \in standing : y # NoCopy => y.nth < doing.copy.nth
      BY <3>1 DEF IInv, CopiesOK, NewestIsStored
    <3>3. doing.copy # NoCopy /\ doing.copy.nth \in Nat
      BY <3>2, NoCopyAssumption DEF LicenseCopies
    <3>4. x = doing.copy
      BY <1>4, <3>1
    <3> QED
      BY <1>4, <3>2, <3>3, <3>4
  <2> QED
    BY <2>1
<1>7. ~(Fulfilled \/ Judging \/ Discarding \/ Revoking \/ Forgetting)
  BY DEF IInv, NothingInterferes, Fulfilled, Judging, Discarding, Revoking, Forgetting
<1>8. PICK i \in DOMAIN underWay : ThreadProceeds(i)
  BY <1>1, <1>2, <1>3, <1>5, <1>6, <1>7 DEF CallProceeds
<1>9. ~CheckThread(i)
  BY ChecksSpare
<1>10. RevokeThread(i)
  BY <1>8, <1>9 DEF ThreadProceeds
<1>11. underWay[i].kind = "revoke" /\ underWay[i].stage = "delete"
  BY <1>10 DEF RevokeThread
<1> QED
  BY <1>11

\* Nothing but a revocation that the server agreed to takes the license that was
\* activated last out of the file again: a check that was refused spares it, as it
\* is newer than whatever is under way (deleteRevoked).
THEOREM RevocationsAlone == BridgeSpec => OnlyRevocationsForget
<1> DEFINE StaysIfItStands == standing = standing' /\ standing # {} /\ stored # stored'
                   => \E i \in DOMAIN underWay :
                        underWay[i].kind = "revoke" /\ underWay[i].stage = "delete"
<1>1. IInv /\ [BridgeNext]_bridgeVars => [StaysIfItStands]_bridgeVars
  BY OnlyRevocationsStep
<1>2. BridgeSpec => [][StaysIfItStands]_bridgeVars
  <2> HIDE DEF StaysIfItStands
  <2> QED
    BY <1>1, BridgeInvariant, PTL DEF BridgeSpec
<1> QED
  BY <1>2 DEF OnlyRevocationsForget

-----------------------------------------------------------------------------
(* The store on a system where others have the license open.  It is the    *)
(* FileStore of FileStore_proofs under the names of MCShared, so what is   *)
(* proved there holds here.                                                *)

Occupied == INSTANCE FileStore_proofs WITH
    OpenBlocks <- TRUE, Attempts <- 2, Faults <- {"scanner"}, MaxStores <- 2,
    disk <- disk2, path <- path2, temps <- temps2, lock <- lock2, pc <- pc2,
    tries <- tries2, handle <- handle2, made <- made2, found <- found2, window <- window2

LEMMA SamePromise ==
    /\ Occupied!LockedReadsWhole <=> Windows!LockedReadsWhole
    /\ Occupied!TempsCleaned <=> Windows!TempsCleaned
BY DEF Occupied!LockedReadsWhole, Windows!LockedReadsWhole, Occupied!TempsCleaned,
       Windows!TempsCleaned, Occupied!Half, Windows!Half

LEMMA SameBeginning == Occupied!Init <=> Windows!Init
BY DEF Occupied!Init, Windows!Init, Occupied!Half, Windows!Half

LEMMA SameSteps == Occupied!Next <=> Windows!Next
BY DEF Occupied!Next, Occupied!Step, Occupied!Fault, Occupied!TakeLock,
       Occupied!LockIgnored, Occupied!LockFree, Occupied!Release, Occupied!LoadBegins,
       Occupied!Exists, Occupied!Open, Occupied!Read, Occupied!Blocked,
       Occupied!RemoveCorrupt, Occupied!StoreBegins, Occupied!WrittenInPlace,
       Occupied!WriteTemp, Occupied!Rename, Occupied!TempFails, Occupied!Tried,
       Occupied!InUse, Occupied!DropTemp, Occupied!AttemptFails, Occupied!Truncate,
       Occupied!TruncateFails, Occupied!Fill, Occupied!FillFails, Occupied!Delete,
       Occupied!Crash, Occupied!Go, Occupied!Witness, Occupied!Home, Occupied!LoadEnds,
       Occupied!Half, Occupied!Failed, Occupied!Loading, Occupied!Updating,
       Occupied!Files, Occupied!Current, Occupied!Contents,
       Windows!Next, Windows!Step, Windows!Fault, Windows!TakeLock, Windows!LockIgnored,
       Windows!LockFree, Windows!Release, Windows!LoadBegins, Windows!Exists,
       Windows!Open, Windows!Read, Windows!Blocked, Windows!RemoveCorrupt,
       Windows!StoreBegins, Windows!WrittenInPlace, Windows!WriteTemp, Windows!Rename,
       Windows!TempFails, Windows!Tried, Windows!InUse, Windows!DropTemp,
       Windows!AttemptFails, Windows!Truncate, Windows!TruncateFails, Windows!Fill,
       Windows!FillFails, Windows!Delete, Windows!Crash, Windows!Go, Windows!Witness,
       Windows!Home, Windows!LoadEnds, Windows!Half, Windows!Failed, Windows!Loading,
       Windows!Updating, Windows!Files, Windows!Current, Windows!Contents

WindowsInv == setting = "windows" => Occupied!InUseInv

\* On Windows a load under the lock finds a whole license and a store leaves nothing
\* beside it, for any processes, by the theorem about a store whose file is in use
\* (FileStore_proofs, InUseTheorem).
THEOREM WindowsAlwaysWhole == MCSpec => []WindowsReadsWhole
<1> DEFINE all == <<setting, stores, gateVars, bridgeVars>>
<1>1. Occupied!InUseOnly /\ Occupied!FileStoreAssumption
  BY FileStoreAssumption DEF Occupied!InUseOnly, Occupied!FileStoreAssumption
<1>2. MCInit => WindowsInv
  BY <1>1, SameBeginning, Occupied!InUseInitially DEF MCInit, StoresRest, WindowsInv
<1>3. WindowsInv /\ [MCNext]_all => WindowsInv'
  <2> SUFFICES ASSUME WindowsInv, [MCNext]_all, setting' = "windows" PROVE Occupied!InUseInv'
    BY DEF WindowsInv
  <2>1. setting = "windows" /\ (Windows!Next \/ UNCHANGED others)
    BY DEF MCNext, stores
  <2>2. [Occupied!Next]_(Occupied!vars)
    BY <2>1, SameSteps DEF others, Occupied!vars
  <2> QED
    BY <1>1, <2>1, <2>2, Occupied!InUseStep DEF WindowsInv
<1>4. WindowsInv => WindowsReadsWhole
  BY <1>1, SamePromise, Occupied!InUseGives DEF WindowsInv, WindowsReadsWhole
<1> QED
  BY <1>2, <1>3, <1>4, PTL DEF MCSpec
=============================================================================
